------------------------- MODULE NvramToolsProofs -------------------------
(***************************************************************************)
(* Proofs about NvramTools, for all command lines, names, values, numbers  *)
(* of processes, errors and kills: what a command makes of the variables,  *)
(* what is stored of a command that fails, and, as long as one tool runs   *)
(* at a time, that product information and sections stay.                  *)
(***************************************************************************)
EXTENDS NvramTools, FiniteSetTheorems, WellFoundedInduction, SequenceTheorems, TLAPS

-----------------------------------------------------------------------------
(* A set of natural numbers that is not empty has a least element.         *)
LEMMA NatMin ==
  ASSUME NEW T \in SUBSET Nat, T # {}
  PROVE  \E x \in T : \A y \in T : x <= y
<1> DEFINE R == OpToRel(<, Nat)
<1>1. IsWellFoundedOn(R, Nat)
  BY NatLessThanWellFounded
<1>2. \A x, y \in Nat : <<y, x>> \in R <=> y < x
  BY DEF OpToRel
<1> HIDE DEF R
<1>3. PICK x \in T : \A y \in T : ~(<<y, x>> \in R)
  BY <1>1, WFMin
<1>4. ASSUME NEW y \in T PROVE x <= y
  <2>1. x \in Nat /\ y \in Nat /\ ~(<<y, x>> \in R)
    BY <1>3
  <2>2. ~(y < x)
    BY <1>2, <2>1
  <2> QED
    BY <2>1, <2>2
<1> QED
  BY <1>4

(* The numbers of a set that is closed under adding one are all numbers.   *)
LEMMA NatAll ==
  ASSUME NEW P \in SUBSET Nat, 0 \in P, \A n \in P : n + 1 \in P
  PROVE  P = Nat
<1> DEFINE T == Nat \ P
<1>1. CASE T # {}
  <2>1. PICK x \in T : \A y \in T : x <= y
    BY <1>1, NatMin
  <2>2. x # 0 /\ x - 1 \in Nat /\ ~(x <= x - 1)
    BY <2>1
  <2>3. x - 1 \in P
    BY <2>1, <2>2
  <2>4. (x - 1) + 1 = x
    BY <2>1
  <2> QED
    BY <2>1, <2>3, <2>4
<1>2. CASE T = {}
  BY <1>2
<1> QED
  BY <1>1, <1>2

-----------------------------------------------------------------------------
(* Lemmas about what a command makes of the variables.                     *)

EnvState == [crit : [Special -> Values], vars : PartialFunctions(Names, Stored), ok : BOOLEAN]

LEMMA PartialFunction ==
  ASSUME NEW S, NEW T, NEW f
  PROVE  f \in PartialFunctions(S, T) <=> \E D \in SUBSET S : f \in [D -> T]
  BY DEF PartialFunctions

LEMMA NoVarsType == NoVars \in PartialFunctions(Names, Stored) /\ DOMAIN NoVars = {}
<1>1. NoVars \in [{} -> Stored] /\ DOMAIN NoVars = {}
  BY DEF NoVars
<1> QED
  BY <1>1, PartialFunction

LEMMA AssignedType ==
  ASSUME NEW f \in PartialFunctions(Names, Stored), NEW n \in Names, NEW v \in Stored
  PROVE  /\ Assigned(f, n, v) \in PartialFunctions(Names, Stored)
         /\ DOMAIN Assigned(f, n, v) = DOMAIN f \cup {n}
         /\ \A x \in DOMAIN f \cup {n} : Assigned(f, n, v)[x] = IF x = n THEN v ELSE f[x]
<1>1. PICK D \in SUBSET Names : f \in [D -> Stored]
  BY PartialFunction
<1>2. Assigned(f, n, v) \in [D \cup {n} -> Stored] /\ D \cup {n} \in SUBSET Names
  BY <1>1 DEF Assigned
<1>3. Assigned(f, n, v) \in PartialFunctions(Names, Stored)
  BY <1>2, PartialFunction
<1> QED
  BY <1>3 DEF Assigned

(* A variable is added or cut off, and cut off only in a full section.     *)
LEMMA AddedType ==
  ASSUME NEW v \in PartialFunctions(Names, Stored), NEW a \in Assignment, a.value # NoValue
  PROVE  /\ Added(v, a) \in PartialFunctions(Names, Stored)
         /\ DOMAIN Added(v, a) = DOMAIN v \cup {a.name}
         /\ \A x \in DOMAIN v : x # a.name => Added(v, a)[x] = v[x]
         /\ \/ Added(v, a)[a.name] = a.value
            \/ Added(v, a)[a.name] = Cut /\ Cardinality(DOMAIN v \cup {a.name}) > Capacity
         /\ Cardinality(DOMAIN v) \in Nat /\ Cardinality(DOMAIN v \cup {a.name}) \in Nat
         /\ Cardinality(DOMAIN v) <= Cardinality(DOMAIN v \cup {a.name})
<1> DEFINE S == DOMAIN v
           n == a.name
           u == IF HasRoom(v, n) THEN a.value ELSE Cut
<1>1. n \in Names /\ a.value \in Values /\ u \in Stored
  BY DEF Assignment, Stored
<1>2. Added(v, a) = Assigned(v, n, u)
  BY DEF Added
<1>3. S \in SUBSET Names
  BY PartialFunction
<1>4. IsFiniteSet(Names) /\ Capacity \in Nat
  BY ConstantsAssumption
<1>5. IsFiniteSet(S) /\ S \cup {n} \in SUBSET Names /\ S \ {n} \in SUBSET Names /\ S \in SUBSET (S \cup {n})
  BY <1>1, <1>3, <1>4, FS_Subset
<1>6. IsFiniteSet(S \ {n}) /\ IsFiniteSet(S \cup {n})
  BY <1>4, <1>5, FS_Subset
<1>7. /\ Cardinality(S) \in Nat /\ Cardinality(S \cup {n}) \in Nat /\ Cardinality(S \ {n}) \in Nat
      /\ Cardinality(S) <= Cardinality(S \cup {n})
  BY <1>5, <1>6, FS_CardinalityType, FS_Subset
<1>8. ~HasRoom(v, n) => Cardinality(S \cup {n}) > Capacity
  <2>1. Cardinality((S \ {n}) \cup {n}) = Cardinality(S \ {n}) + 1
    BY <1>6, FS_AddElement
  <2>2. (S \ {n}) \cup {n} = S \cup {n}
    OBVIOUS
  <2> QED
    BY <1>4, <1>7, <2>1, <2>2 DEF HasRoom
<1>9. /\ Assigned(v, n, u) \in PartialFunctions(Names, Stored)
      /\ DOMAIN Assigned(v, n, u) = S \cup {n}
      /\ \A x \in S \cup {n} : Assigned(v, n, u)[x] = IF x = n THEN u ELSE v[x]
  BY <1>1, AssignedType
<1>10. (Assigned(v, n, u)[n] = a.value) \/ (Assigned(v, n, u)[n] = Cut /\ ~HasRoom(v, n))
  <2>1. Assigned(v, n, u)[n] = u
    <3> HIDE DEF u
    <3> QED
      BY <1>9
  <2> QED
    BY <2>1
<1> HIDE DEF u
<1> QED
  BY <1>2, <1>7, <1>8, <1>9, <1>10

(* One assignment: it is taken, or the command has failed.                 *)
LEMMA AddVar ==
  ASSUME NEW tool, NEW s \in EnvState, NEW a \in Assignment
  PROVE  /\ env_add_var(tool, s, a) \in EnvState
         /\ env_add_var(tool, s, a).ok =>
              /\ s.ok /\ a.value # NoValue
              /\ env_add_var(tool, s, a).vars =
                    IF env_have_to_use_nvram(tool, a.name) THEN s.vars ELSE Added(s.vars, a)
<1>1. /\ s.crit \in [Special -> Values] /\ s.vars \in PartialFunctions(Names, Stored)
      /\ s.ok \in BOOLEAN /\ a.name \in Names
      /\ s = [crit |-> s.crit, vars |-> s.vars, ok |-> s.ok]
  BY DEF EnvState, Assignment
<1> DEFINE good == s.ok /\ a.value # NoValue
           special == env_have_to_use_nvram(tool, a.name)
<1>2. CASE ~good \/ (~special /\ Overrun(s.vars))
  <2>1. env_add_var(tool, s, a) = [crit |-> s.crit, vars |-> s.vars, ok |-> FALSE]
    BY <1>1, <1>2 DEF env_add_var
  <2> QED
    BY <1>1, <2>1 DEF EnvState
<1>3. CASE good /\ special
  <2>1. a.name \in Special /\ a.value \in Values
    BY <1>3 DEF env_have_to_use_nvram, Assignment
  <2>2. env_add_var(tool, s, a) = [crit |-> [s.crit EXCEPT ![a.name] = a.value], vars |-> s.vars, ok |-> s.ok]
    BY <1>1, <1>3 DEF env_add_var
  <2>3. [s.crit EXCEPT ![a.name] = a.value] \in [Special -> Values]
    BY <1>1, <2>1
  <2> QED
    BY <1>1, <1>3, <2>2, <2>3 DEF EnvState
<1>4. CASE good /\ ~special /\ ~Overrun(s.vars)
  <2>1. env_add_var(tool, s, a) = [crit |-> s.crit, vars |-> Added(s.vars, a), ok |-> s.ok]
    BY <1>1, <1>4 DEF env_add_var
  <2>2. Added(s.vars, a) \in PartialFunctions(Names, Stored)
    BY <1>1, <1>4, AddedType
  <2> QED
    BY <1>1, <1>4, <2>1, <2>2 DEF EnvState
<1> QED
  BY <1>2, <1>3, <1>4

(* A list of assignments: the state after each of them.                    *)
AfterEach(f, tool, s, as) ==
    /\ f \in [0..Len(as) -> EnvState]
    /\ f[0] = s
    /\ \A k \in 1..Len(as) : f[k] = env_add_var(tool, f[k - 1], as[k])

LEMMA AddVars ==
  ASSUME NEW tool, NEW s \in EnvState, NEW as \in Seq(Assignment)
  PROVE  \E f : AfterEach(f, tool, s, as) /\ env_add_vars(tool, s, as) = f[Len(as)]
<1>0. PICK N \in Nat : N = Len(as)
  BY LenProperties
<1> DEFINE step(f, k) == IF k = 0 THEN s ELSE env_add_var(tool, f[k - 1], as[k])
           eq(f) == f = [k \in 0..N |-> step(f, k)]
           g == CHOOSE f : eq(f)
<1>1. \A k \in 1..N : as[k] \in Assignment
  BY <1>0, ElementOfSeq
<1>2. \E f : eq(f)
  <2> DEFINE upTo(n, f) == f = [k \in 0..n |-> step(f, k)]
             P == {n \in Nat : \E f : upTo(n, f)}
  <2>1. 0 \in P
    <3>1. upTo(0, [k \in 0..0 |-> s])
      OBVIOUS
    <3> QED
      BY <3>1
  <2>2. ASSUME NEW n \in P PROVE n + 1 \in P
    <3>1. PICK f : upTo(n, f)
      OBVIOUS
    <3> DEFINE h == [k \in 0..(n + 1) |-> IF k = n + 1 THEN env_add_var(tool, f[n], as[n + 1]) ELSE f[k]]
    <3>2. n \in Nat /\ n + 1 \in Nat
      OBVIOUS
    <3>3. ASSUME NEW k \in 0..(n + 1) PROVE h[k] = step(h, k)
      <4>1. CASE k = n + 1
        <5>1. n + 1 # 0 /\ (n + 1) - 1 = n /\ n \in 0..(n + 1) /\ n # n + 1
          BY <3>2
        <5>2. h[n] = f[n] /\ h[n + 1] = env_add_var(tool, f[n], as[n + 1])
          BY <3>2, <5>1
        <5> HIDE DEF h
        <5> QED
          BY <4>1, <5>1, <5>2
      <4>2. CASE k # n + 1
        <5>1. k \in 0..n /\ h[k] = f[k] /\ (k # 0 => k - 1 \in 0..(n + 1) /\ h[k - 1] = f[k - 1])
          <6>1. k \in 0..n /\ (k # 0 => k - 1 \in 0..(n + 1) /\ k - 1 # n + 1)
            BY <3>2, <3>3, <4>2
          <6> QED
            BY <3>3, <4>2, <6>1
        <5>2. f[k] = step(f, k)
          BY <3>1, <5>1
        <5> HIDE DEF h
        <5> QED
          BY <5>1, <5>2
      <4> QED
        BY <4>1, <4>2
    <3>4. upTo(n + 1, h)
      BY <3>3
    <3> HIDE DEF h
    <3> QED
      BY <3>2, <3>4
  <2>3. P = Nat
    <3> HIDE DEF P
    <3>1. P \in SUBSET Nat
      BY DEF P
    <3> QED
      BY <2>1, <2>2, <3>1, NatAll
  <2>4. N \in P
    BY <2>3
  <2> QED
    BY <2>4
<1>3. eq(g)
  BY <1>2
<1>4. env_add_vars(tool, s, as) = g[N]
  BY <1>0 DEF env_add_vars
<1> HIDE DEF g
<1>5. g[0] = s /\ \A k \in 1..N : g[k] = env_add_var(tool, g[k - 1], as[k])
  <2>1. \A k \in 0..N : g[k] = step(g, k)
    BY <1>3
  <2>2. 0 \in 0..N /\ \A k \in 1..N : k \in 0..N /\ k # 0
    BY <1>1
  <2> QED
    BY <2>1, <2>2
<1>6. g \in [0..N -> EnvState]
  <2> DEFINE P == {n \in Nat : n <= N => g[n] \in EnvState}
  <2>1. 0 \in P
    BY <1>5
  <2>2. ASSUME NEW n \in P PROVE n + 1 \in P
    <3>1. CASE n + 1 <= N
      <4>1. n + 1 \in 1..N /\ (n + 1) - 1 = n /\ g[n] \in EnvState
        <5>1. n \in Nat /\ n <= N /\ n + 1 \in 1..N /\ (n + 1) - 1 = n
          BY <1>1, <3>1
        <5> QED
          BY <5>1
      <4>2. g[n + 1] = env_add_var(tool, g[n], as[n + 1])
        BY <1>5, <4>1
      <4> QED
        <5>1. as[n + 1] \in Assignment
          BY <1>1, <4>1
        <5>2. env_add_var(tool, g[n], as[n + 1]) \in EnvState
          BY <4>1, <5>1, AddVar
        <5>3. n + 1 \in Nat
          OBVIOUS
        <5>4. g[n + 1] \in EnvState
          BY <4>2, <5>2
        <5> QED
          BY <5>3, <5>4
    <3>2. n + 1 \in Nat
      OBVIOUS
    <3> QED
      BY <3>1, <3>2
  <2>3. P = Nat
    <3> HIDE DEF P
    <3>1. P \in SUBSET Nat
      BY DEF P
    <3> QED
      BY <2>1, <2>2, <3>1, NatAll
  <2>4. \A n \in 0..N : g[n] \in EnvState
    BY <1>1, <2>3
  <2> QED
    BY <1>3, <2>4
<1> QED
  BY <1>0, <1>4, <1>5, <1>6 DEF AfterEach

(* A list is taken completely or the command has failed.                   *)
LEMMA AddVarsOk ==
  ASSUME NEW tool, NEW s \in EnvState, NEW as \in Seq(Assignment),
         env_add_vars(tool, s, as).ok
  PROVE  s.ok /\ \A k \in 1..Len(as) : as[k].value # NoValue
<1>0. PICK N \in Nat : N = Len(as)
  BY LenProperties
<1>1. PICK f : AfterEach(f, tool, s, as) /\ env_add_vars(tool, s, as) = f[N]
  BY <1>0, AddVars
<1>2. /\ f[0] = s /\ \A k \in 0..N : f[k] \in EnvState
      /\ \A k \in 1..N : as[k] \in Assignment /\ f[k] = env_add_var(tool, f[k - 1], as[k])
  BY <1>0, <1>1, ElementOfSeq DEF AfterEach
<1> DEFINE Q(n) == n <= N => (f[n].ok => s.ok /\ \A k \in 1..n : as[k].value # NoValue)
           P == {n \in Nat : Q(n)}
<1>3. 0 \in P
  <2>1. \A k \in 1..0 : as[k].value # NoValue
    OBVIOUS
  <2>2. Q(0)
    BY <1>2, <2>1, Zenon
  <2>3. 0 \in Nat
    OBVIOUS
  <2> QED
    BY <2>2, <2>3, Zenon
<1>4. ASSUME NEW n \in P PROVE n + 1 \in P
  <2>0. n \in Nat /\ Q(n)
    BY Zenon
  <2>1. n \in Nat /\ n + 1 \in Nat
    BY <2>0
  <2>2. ASSUME n + 1 <= N, f[n + 1].ok
        PROVE  s.ok /\ \A k \in 1..(n + 1) : as[k].value # NoValue
    <3>1. n + 1 \in 1..N /\ (n + 1) - 1 = n /\ n \in 0..N /\ n <= N
      BY <2>1, <2>2
    <3>2. f[n] \in EnvState /\ as[n + 1] \in Assignment /\ f[n + 1] = env_add_var(tool, f[n], as[n + 1])
      BY <1>2, <3>1
    <3>3. f[n].ok /\ as[n + 1].value # NoValue
      <4>1. env_add_var(tool, f[n], as[n + 1]).ok => f[n].ok /\ as[n + 1].value # NoValue
        BY <3>2, AddVar
      <4> QED
        BY <2>2, <3>2, <4>1, Zenon
    <3>4. s.ok /\ \A k \in 1..n : as[k].value # NoValue
      BY <2>0, <3>1, <3>3, Zenon
    <3>5. \A k \in 1..(n + 1) : k \in 1..n \/ k = n + 1
      BY <2>1
    <3> QED
      BY <3>3, <3>4, <3>5
  <2> QED
    BY <2>1, <2>2
<1>5. N \in P
  <2> HIDE DEF P
  <2>1. P \in SUBSET Nat
    BY DEF P
  <2> QED
    BY <1>3, <1>4, <2>1, NatAll
<1>6. Q(N) /\ N <= N
  <2>1. N <= N
    OBVIOUS
  <2>2. Q(N)
    BY <1>5, Zenon
  <2> QED
    BY <2>1, <2>2, Zenon
<1> QED
  BY <1>0, <1>1, <1>6, Zenon

(* Starting without variables, the section gets the ones assigned, and the *)
(* last value of each.                                                     *)
Own(tool, as, n) == {k \in 1..n : ~env_have_to_use_nvram(tool, as[k].name)}
Collected(tool, as, n, v) ==
    /\ DOMAIN v = {as[k].name : k \in Own(tool, as, n)}
    /\ \A k \in Own(tool, as, n) :
         (\A j \in Own(tool, as, n) : as[j].name = as[k].name => j <= k) =>
            \/ v[as[k].name] = as[k].value
            \/ v[as[k].name] = Cut /\ Cardinality({as[j].name : j \in Own(tool, as, n)}) > Capacity

LEMMA AddVarsVars ==
  ASSUME NEW tool, NEW s \in EnvState, NEW as \in Seq(Assignment), s.vars = NoVars,
         env_add_vars(tool, s, as).ok
  PROVE  Collected(tool, as, Len(as), env_add_vars(tool, s, as).vars)
<1>0. PICK N \in Nat : N = Len(as)
  BY LenProperties
<1>1. PICK f : AfterEach(f, tool, s, as) /\ env_add_vars(tool, s, as) = f[N]
  BY <1>0, AddVars
<1>2. /\ f[0] = s /\ \A k \in 0..N : f[k] \in EnvState
      /\ \A k \in 1..N : as[k] \in Assignment /\ f[k] = env_add_var(tool, f[k - 1], as[k])
  BY <1>0, <1>1, ElementOfSeq DEF AfterEach
<1> DEFINE Q(n) == n <= N => (f[n].ok => Collected(tool, as, n, f[n].vars))
           P == {n \in Nat : Q(n)}
<1>3. 0 \in P
  <2>1. Own(tool, as, 0) = {}
    BY DEF Own
  <2>2. Collected(tool, as, 0, NoVars)
    BY <2>1, NoVarsType DEF Collected
  <2> QED
    BY <1>2, <2>2
<1>4. ASSUME NEW n \in P PROVE n + 1 \in P
  <2>0. n \in Nat /\ Q(n)
    BY Zenon
  <2>1. n \in Nat /\ n + 1 \in Nat
    BY <2>0
  <2>2. ASSUME n + 1 <= N, f[n + 1].ok
        PROVE  Collected(tool, as, n + 1, f[n + 1].vars)
    <3> DEFINE a == as[n + 1]
               v == f[n].vars
    <3>1. n + 1 \in 1..N /\ (n + 1) - 1 = n /\ n \in 0..N /\ n <= N
      BY <2>1, <2>2
    <3>2. f[n] \in EnvState /\ a \in Assignment /\ f[n + 1] = env_add_var(tool, f[n], a)
      BY <1>2, <3>1
    <3>3. /\ f[n].ok /\ a.value # NoValue
          /\ f[n + 1].vars = IF env_have_to_use_nvram(tool, a.name) THEN v
                             ELSE Added(v, a)
      <4>1. env_add_var(tool, f[n], a).ok =>
              /\ f[n].ok /\ a.value # NoValue
              /\ env_add_var(tool, f[n], a).vars =
                   IF env_have_to_use_nvram(tool, a.name) THEN v ELSE Added(v, a)
        BY <3>2, AddVar, ZenonT(90)
      <4> QED
        BY <2>2, <3>2, <4>1, Zenon
    <3>4. Collected(tool, as, n, v)
      BY <2>0, <3>1, <3>3, Zenon
    <3>5. \A k \in 1..(n + 1) : k \in 1..n \/ k = n + 1
      BY <2>1
    <3>6. \A k \in 1..n : k \in 1..(n + 1) /\ k # n + 1 /\ k \in Int /\ ~(n + 1 <= k)
      BY <2>1
    <3>7. n + 1 \in 1..(n + 1) /\ n + 1 \in Int
      BY <2>1
    <3>8. CASE env_have_to_use_nvram(tool, a.name)
      <4>1. Own(tool, as, n + 1) = Own(tool, as, n)
        BY <3>5, <3>6, <3>8 DEF Own
      <4>2. f[n + 1].vars = v
        BY <3>3, <3>8
      <4> HIDE DEF v
      <4> QED
        BY <3>4, <4>1, <4>2 DEF Collected
    <3>9. CASE ~env_have_to_use_nvram(tool, a.name)
      <4> DEFINE w == Added(v, a)
      <4>1. Own(tool, as, n + 1) = Own(tool, as, n) \cup {n + 1}
        BY <3>5, <3>6, <3>7, <3>9 DEF Own
      <4>2. \A k \in Own(tool, as, n) : k \in 1..n
        BY DEF Own
      <4>3. f[n + 1].vars = w
        BY <3>3, <3>9
      <4>4. /\ DOMAIN w = DOMAIN v \cup {a.name}
            /\ \A x \in DOMAIN v : x # a.name => w[x] = v[x]
            /\ \/ w[a.name] = a.value
               \/ w[a.name] = Cut /\ Cardinality(DOMAIN w) > Capacity
            /\ Cardinality(DOMAIN v) \in Nat /\ Cardinality(DOMAIN w) \in Nat
            /\ Cardinality(DOMAIN v) <= Cardinality(DOMAIN w)
        <5>1. v \in PartialFunctions(Names, Stored)
          BY <3>2 DEF EnvState
        <5> HIDE DEF v, a
        <5> QED
          BY <3>2, <3>3, <5>1, AddedType
      <4>5. DOMAIN w = {as[k].name : k \in Own(tool, as, n + 1)}
        <5> HIDE DEF w, v
        <5>1. DOMAIN v = {as[k].name : k \in Own(tool, as, n)}
          BY <3>4 DEF Collected
        <5> QED
          BY ZenonT(40), <4>1, <4>4, <5>1
      <4> HIDE DEF w, v
      <4>6. ASSUME NEW k \in Own(tool, as, n + 1),
                   \A j \in Own(tool, as, n + 1) : as[j].name = as[k].name => j <= k
            PROVE  \/ w[as[k].name] = as[k].value
                   \/ w[as[k].name] = Cut /\ Cardinality(DOMAIN w) > Capacity
        <5>1. CASE k = n + 1
          BY <4>4, <5>1
        <5>2. CASE k # n + 1
          <6>1. k \in Own(tool, as, n) /\ k \in 1..n
            BY <4>1, <4>2, <4>6, <5>2
          <6>2. a.name # as[k].name
            <7>1. n + 1 \in Own(tool, as, n + 1)
              BY <4>1
            <7>2. ~(n + 1 <= k)
              BY <3>6, <6>1
            <7> QED
              BY <4>6, <7>1, <7>2
          <6>3. \A j \in Own(tool, as, n) : as[j].name = as[k].name => j <= k
            BY <4>1, <4>6
          <6>4. /\ as[k].name \in DOMAIN v
                /\ \/ v[as[k].name] = as[k].value
                   \/ v[as[k].name] = Cut /\ Cardinality(DOMAIN v) > Capacity
            BY <3>4, <6>1, <6>3 DEF Collected
          <6>5. Cardinality(DOMAIN v) > Capacity => Cardinality(DOMAIN w) > Capacity
            BY <4>4, ConstantsAssumption
          <6> QED
            BY <4>4, <6>2, <6>4, <6>5
        <5> QED
          BY <5>1, <5>2
      <4> QED
        BY <4>3, <4>5, <4>6 DEF Collected
    <3> QED
      BY <3>8, <3>9
  <2> QED
    BY <2>1, <2>2
<1>5. N \in P
  <2> HIDE DEF P
  <2>1. P \in SUBSET Nat
    BY DEF P
  <2> QED
    BY <1>3, <1>4, <2>1, NatAll
<1>6. Q(N) /\ N <= N
  <2>1. N <= N
    OBVIOUS
  <2>2. Q(N)
    BY <1>5, Zenon
  <2> QED
    BY <2>1, <2>2, Zenon
<1> QED
  BY <1>0, <1>1, <1>6, Zenon

(* Removing variables: some of those there are left.                       *)
LEMMA RemoveVarlist ==
  ASSUME NEW s \in EnvState, NEW names \in Seq(Names)
  PROVE  /\ env_remove_varlist(s, names) \in EnvState
         /\ names = <<>> => env_remove_varlist(s, names) = s
<1> DEFINE left == {n \in DOMAIN s.vars : Overrun(s.vars) \/ \A k \in 1..Len(names) : names[k] # n}
           v == [n \in left |-> s.vars[n]]
<1>1. /\ s.crit \in [Special -> Values] /\ s.vars \in PartialFunctions(Names, Stored)
      /\ s.ok \in BOOLEAN /\ s = [crit |-> s.crit, vars |-> s.vars, ok |-> s.ok]
  BY DEF EnvState
<1>2. PICK D \in SUBSET Names : s.vars \in [D -> Stored]
  BY <1>1, PartialFunction
<1>3. v \in [left -> Stored] /\ left \in SUBSET Names
  BY <1>2
<1>4. v \in PartialFunctions(Names, Stored)
  BY <1>3, PartialFunction
<1>5. env_remove_varlist(s, names) = [crit |-> s.crit, vars |-> v, ok |-> s.ok]
  BY <1>1 DEF env_remove_varlist
<1>6. ASSUME names = <<>> PROVE v = s.vars
  <2>1. left = DOMAIN s.vars
    BY <1>6
  <2> QED
    BY <1>2, <2>1
<1> HIDE DEF v
<1>7. env_remove_varlist(s, names) \in EnvState
  BY <1>1, <1>4, <1>5 DEF EnvState
<1> QED
  BY <1>1, <1>5, <1>6, <1>7

LEMMA NoAssignments ==
  ASSUME NEW tool, NEW s \in EnvState
  PROVE  env_add_vars(tool, s, <<>>) = s
<1>1. <<>> \in Seq(Assignment) /\ Len(<<>>) = 0
  BY EmptySeq
<1>2. PICK f : AfterEach(f, tool, s, <<>>) /\ env_add_vars(tool, s, <<>>) = f[Len(<<>>)]
  BY <1>1, AddVars
<1> QED
  BY <1>1, <1>2 DEF AfterEach

LEMMA AddVarsType ==
  ASSUME NEW tool, NEW s \in EnvState, NEW as \in Seq(Assignment)
  PROVE  env_add_vars(tool, s, as) \in EnvState
<1>1. PICK n \in Nat : n = Len(as)
  BY LenProperties
<1>2. PICK f : AfterEach(f, tool, s, as) /\ env_add_vars(tool, s, as) = f[n]
  BY <1>1, AddVars
<1>3. f \in [0..n -> EnvState]
  BY <1>1, <1>2, Zenon DEF AfterEach
<1>4. n \in 0..n
  OBVIOUS
<1> QED
  BY <1>2, <1>3, <1>4

(* What a whole command makes of a copy of the NVRAM.                      *)
LEMMA EditedFacts ==
  ASSUME NEW c \in EnvLine, c.clean => c.erase = <<>>, NEW nv \in Nvram
  PROVE  /\ Edited(c, nv) \in EnvState
         /\ Edited(c, nv).ok => ~Refused(c)
         /\ Edited(c, nv).ok /\ c.clean /\ c.set = <<>>
              => Collected(c.tool, c.file, Len(c.file), Edited(c, nv).vars)
<1> DEFINE start == [crit |-> nv.crit, vars |-> Cleaned(c, nv[c.tool].vars), ok |-> TRUE]
           filled == env_add_vars(c.tool, start, c.file)
           erased == env_remove_varlist(filled, c.erase)
           done == env_add_vars(c.tool, erased, c.set)
<1>1. /\ c.tool \in {"ubootenv", "prodinfoenv"} /\ c.file \in Seq(Assignment)
      /\ c.set \in Seq(Assignment) /\ c.erase \in Seq(Names)
  BY DEF EnvLine
<1>2. start \in EnvState
  <2>1. nv.crit \in [Special -> Values] /\ nv[c.tool].vars \in PartialFunctions(Names, Stored)
    BY <1>1 DEF Nvram, Section
  <2> QED
    BY <2>1, NoVarsType DEF EnvState, Cleaned
<1>3. filled \in EnvState
  BY <1>1, <1>2, AddVarsType
<1>4. erased \in EnvState /\ (c.erase = <<>> => erased = filled)
  BY <1>1, <1>3, RemoveVarlist
<1>5. done \in EnvState
  BY <1>1, <1>4, AddVarsType
<1>6. Edited(c, nv) = IF filled.ok THEN done ELSE filled
  BY DEF Edited
<1>7. start.vars = Cleaned(c, nv[c.tool].vars)
  OBVIOUS
<1> HIDE DEF start
<1>8. filled.ok => \A k \in 1..Len(c.file) : c.file[k].value # NoValue
  BY <1>1, <1>2, AddVarsOk
<1>9. c.clean /\ filled.ok => Collected(c.tool, c.file, Len(c.file), filled.vars)
  BY <1>1, <1>2, <1>7, AddVarsVars DEF Cleaned
<1> HIDE DEF filled
<1>10. done.ok => \A k \in 1..Len(c.set) : c.set[k].value # NoValue
  BY <1>1, <1>4, AddVarsOk
<1>11. c.set = <<>> => done = erased
  BY <1>4, NoAssignments
<1> HIDE DEF erased
<1>12. Refused(c) => \/ \E k \in 1..Len(c.file) : c.file[k].value = NoValue
                     \/ \E k \in 1..Len(c.set) : c.set[k].value = NoValue
  <2> SUFFICES ASSUME NEW k \in 1..Len(c.file \o c.set), (c.file \o c.set)[k].value = NoValue
               PROVE  \/ \E j \in 1..Len(c.file) : c.file[j].value = NoValue
                      \/ \E j \in 1..Len(c.set) : c.set[j].value = NoValue
    BY DEF Refused
  <2>1. PICK m \in Nat, n \in Nat : m = Len(c.file) /\ n = Len(c.set)
    BY <1>1, LenProperties
  <2>2. /\ k \in 1..(m + n)
        /\ (c.file \o c.set)[k] = IF k <= m THEN c.file[k] ELSE c.set[k - m]
    <3>1. /\ Len(c.file \o c.set) = m + n
          /\ \A j \in 1..(m + n) : (c.file \o c.set)[j] = IF j <= m THEN c.file[j] ELSE c.set[j - m]
      BY ZenonT(40), <1>1, <2>1, ConcatProperties
    <3>2. k \in 1..(m + n)
      BY <3>1
    <3> QED
      BY <3>1, <3>2
  <2>3. CASE k <= m
    BY <2>1, <2>2, <2>3
  <2>4. CASE ~(k <= m)
    <3>1. k - m \in 1..n
      BY <2>2, <2>4
    <3> QED
      BY <2>1, <2>2, <2>4, <3>1
  <2> QED
    BY <2>3, <2>4
<1> HIDE DEF done
<1>13. Edited(c, nv).ok => filled.ok /\ done.ok /\ Edited(c, nv) = done
  BY <1>6, Zenon
<1>14. Edited(c, nv).ok => ~Refused(c)
  BY <1>8, <1>10, <1>12, <1>13, Zenon
<1>15. Edited(c, nv).ok /\ c.clean /\ c.set = <<>>
         => Collected(c.tool, c.file, Len(c.file), Edited(c, nv).vars)
  BY <1>4, <1>9, <1>11, <1>13, Zenon
<1> QED
  BY <1>3, <1>5, <1>6, <1>14, <1>15, Zenon

-----------------------------------------------------------------------------
(* The steps of the tools.                                                 *)

EnvTools == {"ubootenv", "prodinfoenv"}
PcSet == {"idle", "work", "save", "saveRest", "ok", "failed"}

(* New network parameters x, and a new section y for the tool.             *)
Replaces(p, x, y) == ram' = [ram EXCEPT ![p].crit = x, ![p][cmd[p].tool] = y]

LEMMA CommandType ==
  ASSUME TypeOK, NEW p \in Procs
  PROVE  /\ cmd[p].tool = "nvram" => cmd[p] \in NvramLine
         /\ cmd[p].tool # "nvram" => cmd[p] \in EnvLine /\ cmd[p].tool \in EnvTools
         /\ cmd[p].tool # "nvram" => (cmd[p].clean => cmd[p].erase = <<>>)
<1>1. cmd[p] \in Commands
  BY DEF TypeOK
<1>2. cmd[p].tool # "nvram" => cmd[p] \in EnvLine
  BY <1>1, ConstantsAssumption
<1>3. cmd[p].tool # "nvram" => cmd[p].tool \in EnvTools
  BY <1>2 DEF EnvLine, EnvTools
<1> QED
  BY <1>1, <1>2, <1>3, ConstantsAssumption, Zenon

(* A section is replaced, and everything else is as it was.                *)
LEMMA ReplacedType ==
  ASSUME TypeOK, NEW p \in Procs, cmd[p].tool \in EnvTools,
         NEW x \in [Special -> Values], NEW y \in Section, Replaces(p, x, y)
  PROVE  /\ ram' \in [Procs -> Nvram]
         /\ ram'[p][cmd[p].tool] = y
         /\ \A t \in EnvTools : t # cmd[p].tool => ram'[p][t] = ram[p][t]
         /\ \A q \in Procs : q # p => ram'[q] = ram[q]
<1> DEFINE nv == [ram[p] EXCEPT !.crit = x, ![cmd[p].tool] = y]
<1>1. ram \in [Procs -> Nvram] /\ ram[p] \in Nvram
  BY DEF TypeOK
<1>2. nv \in Nvram
  BY <1>1 DEF Nvram, EnvTools
<1>3. /\ nv[cmd[p].tool] = y
      /\ \A t \in EnvTools : t # cmd[p].tool => nv[t] = ram[p][t]
  BY <1>1 DEF Nvram, EnvTools
<1>4. ram' = [ram EXCEPT ![p] = nv]
  BY DEF Replaces
<1> HIDE DEF nv
<1> QED
  BY <1>1, <1>2, <1>3, <1>4

(* What EnvWork does: it may replace the tool's section by what the        *)
(* command makes of it, and it saves only what has succeeded.              *)
EnvStep(p) ==
    /\ ram' \in [Procs -> Nvram]
    /\ \A q \in Procs : q # p => ram'[q] = ram[q]
    /\ \E l \in {"ok", "save", "saveRest", "failed"} : Goto(p, l)
    /\ \A t \in EnvTools :
         /\ t # cmd[p].tool => ram'[p][t] = ram[p][t]
         /\ ram[p][t].state # "absent" => ram'[p][t].state # "absent"
    /\ pc'[p] \in {"save", "saveRest"} =>
         /\ ~Refuses(cmd[p], ram[p][cmd[p].tool]) /\ Changes(cmd[p])
         /\ Edited(cmd[p], ram[p]).ok
    /\ pc'[p] = "save" => ram'[p][cmd[p].tool].vars = Edited(cmd[p], ram[p]).vars

LEMMA EnvWorkStart ==
  ASSUME NEW p \in Procs, EnvWork(p)
  PROVE  pc[p] = "work" /\ cmd[p].tool # "nvram" /\ UNCHANGED <<flash, cmd>>
  BY Zenon DEF EnvWork

LEMMA EnvWorkStep ==
  ASSUME TypeOK, NEW p \in Procs, EnvWork(p)
  PROVE  EnvStep(p)
<1> DEFINE c == cmd[p]
           e == Edited(c, ram[p])
<1>1. /\ pc[p] = "work" /\ c.tool # "nvram"
      /\ c.tool \in EnvTools /\ ram[p] \in Nvram /\ ram \in [Procs -> Nvram]
      /\ pc \in [Procs -> PcSet]
  BY EnvWorkStart, CommandType DEF TypeOK, PcSet
<1>2. \A l : Goto(p, l) => pc'[p] = l
  BY <1>1 DEF Goto
<1>3. e.crit \in [Special -> Values] /\ e.vars \in PartialFunctions(Names, Stored)
  <2>1. c \in EnvLine /\ (c.clean => c.erase = <<>>)
    BY <1>1, CommandType, Zenon
  <2>2. e \in EnvState
    BY <1>1, <2>1, EditedFacts
  <2> QED
    BY <2>2 DEF EnvState
<1>4. ram[p][c.tool] \in Section
  BY <1>1 DEF Nvram, EnvTools
<1>5. ASSUME UNCHANGED ram, Goto(p, "failed") \/ Goto(p, "ok")
      PROVE  EnvStep(p)
  BY <1>1, <1>2, <1>5 DEF EnvStep
<1>6. ASSUME ~Refuses(c, ram[p][c.tool]), Changes(c),
             Replaces(p, e.crit, [state |-> "valid", vars |-> e.vars]),
             Goto(p, IF e.ok THEN "save" ELSE "failed")
      PROVE  EnvStep(p)
  <2> DEFINE y == [state |-> "valid", vars |-> e.vars]
  <2>1. y \in Section /\ y.state # "absent" /\ y.vars = e.vars
    BY <1>3 DEF Section
  <2>2. (Goto(p, "save") /\ e.ok) \/ Goto(p, "failed")
    BY <1>6, Zenon
  <2> HIDE DEF y, e
  <2>3. Replaces(p, e.crit, y)
    BY <1>6 DEF y
  <2>4. /\ ram' \in [Procs -> Nvram]
        /\ ram'[p][c.tool] = y
        /\ \A t \in EnvTools : t # c.tool => ram'[p][t] = ram[p][t]
        /\ \A q \in Procs : q # p => ram'[q] = ram[q]
    BY <1>1, <1>3, <2>1, <2>3, ReplacedType
  <2>5. pc'[p] \in {"save", "saveRest"} => e.ok
    BY <1>2, <2>2, Zenon
  <2>6. \E l \in {"ok", "save", "saveRest", "failed"} : Goto(p, l)
    BY <2>2, Zenon
  <2> QED
    BY <1>6, <2>1, <2>4, <2>5, <2>6 DEF EnvStep, e
<1>7. ASSUME ~Refuses(c, ram[p][c.tool]), Changes(c), e.ok,
             Replaces(p, e.crit, NotSet(ram[p][c.tool])),
             Goto(p, "saveRest")
      PROVE  EnvStep(p)
  <2> DEFINE y == NotSet(ram[p][c.tool])
  <2>1. y \in Section /\ y.state # "absent"
    BY <1>4, NoVarsType DEF NotSet, Absent, Section
  <2> HIDE DEF y, e
  <2>2. Replaces(p, e.crit, y)
    BY <1>7 DEF y
  <2>3. /\ ram' \in [Procs -> Nvram]
        /\ ram'[p][c.tool] = y
        /\ \A t \in EnvTools : t # c.tool => ram'[p][t] = ram[p][t]
        /\ \A q \in Procs : q # p => ram'[q] = ram[q]
    BY <1>1, <1>3, <2>1, <2>2, ReplacedType
  <2>4. pc'[p] = "saveRest" /\ \E l \in {"ok", "save", "saveRest", "failed"} : Goto(p, l)
    BY <1>2, <1>7
  <2> QED
    BY <1>7, <2>1, <2>3, <2>4 DEF EnvStep, e
<1> QED
  BY <1>5, <1>6, <1>7, Zenon DEF EnvWork, Replaces

(* What NvramWork does: without manufacturing mode no section disappears.  *)
NvramStep(p) ==
    /\ ram' \in [Procs -> Nvram]
    /\ \A q \in Procs : q # p => ram'[q] = ram[q]
    /\ \E l \in {"ok", "save", "failed"} : Goto(p, l)
    /\ \A t \in EnvTools :
         ram[p][t].state # "absent" /\ ram'[p][t].state = "absent" => cmd[p].manuf

LEMMA NvramWorkStep ==
  ASSUME TypeOK, NEW p \in Procs, NvramWork(p)
  PROVE  NvramStep(p)
<1> DEFINE c == cmd[p]
<1>1. /\ c.tool = "nvram" /\ c \in NvramLine /\ ram[p] \in Nvram /\ ram \in [Procs -> Nvram]
  BY CommandType DEF TypeOK, NvramWork
<1>2. ASSUME NEW nv \in Nvram, ram' = [ram EXCEPT ![p] = nv], Goto(p, "save"),
             \A t \in EnvTools :
               ram[p][t].state # "absent" /\ nv[t].state = "absent" => c.manuf
      PROVE  NvramStep(p)
  BY <1>1, <1>2 DEF NvramStep
<1>3. CASE c.do = "set" /\ ram' = [ram EXCEPT ![p].crit[c.name] = c.value] /\ Goto(p, "save")
  <2>1. c.name \in Special /\ c.value \in Values
    BY <1>1, <1>3 DEF NvramLine
  <2> DEFINE nv == [ram[p] EXCEPT !.crit = [ram[p].crit EXCEPT ![c.name] = c.value]]
  <2>2. nv \in Nvram /\ \A t \in EnvTools : nv[t] = ram[p][t]
    BY <1>1, <2>1 DEF Nvram, EnvTools
  <2>3. ram' = [ram EXCEPT ![p] = nv]
    BY <1>3
  <2> HIDE DEF nv
  <2> QED
    BY <1>2, <1>3, <2>2, <2>3
<1>4. CASE /\ c.do = "load"
           /\ ram' = [ram EXCEPT ![p][c.os] = c.content] /\ Goto(p, "save")
  <2>1. c.os \in EnvTools /\ c.content \in Section /\ c.content.state # "absent"
    BY <1>1, <1>4 DEF NvramLine, EnvTools
  <2> DEFINE nv == [ram[p] EXCEPT ![c.os] = c.content]
  <2>2. nv \in Nvram /\ \A t \in EnvTools : nv[t] = IF t = c.os THEN c.content ELSE ram[p][t]
    BY <1>1, <2>1 DEF Nvram, EnvTools
  <2>3. ram' = [ram EXCEPT ![p] = nv]
    BY <1>4
  <2> HIDE DEF nv
  <2> QED
    BY <1>2, <1>4, <2>1, <2>2, <2>3, ZenonT(30)
<1>5. CASE /\ c.do = "reset" /\ NvPrivOSCriticalPartReset(c)
           /\ ram' = [ram EXCEPT ![p] = [crit |-> [n \in Special |-> Default],
                                         ubootenv |-> Absent, prodinfoenv |-> Absent]]
           /\ Goto(p, "save")
  <2> DEFINE nv == [crit |-> [n \in Special |-> Default], ubootenv |-> Absent, prodinfoenv |-> Absent]
  <2>1. nv \in Nvram
    <3>1. Default \in Values
      BY ConstantsAssumption DEF Default
    <3> QED
      BY <3>1, NoVarsType DEF Nvram, Section, Absent
  <2>2. c.manuf
    BY <1>5 DEF NvPrivOSCriticalPartReset
  <2> HIDE DEF nv
  <2> QED
    BY <1>2, <1>5, <2>1, <2>2 DEF nv
<1>6. CASE UNCHANGED ram /\ \E l \in {"ok", "failed"} : Goto(p, l)
  BY <1>1, <1>6 DEF NvramStep
<1> QED
  BY <1>3, <1>4, <1>5, <1>6, Zenon DEF NvramWork

-----------------------------------------------------------------------------
(***************************************************************************)
(* The types: in particular every variable keeps a name and a value, and a *)
(* command without one never gets its value stored.                        *)
(***************************************************************************)
LEMMA InitType == Init => TypeOK
<1> SUFFICES ASSUME Init PROVE TypeOK
  OBVIOUS
<1>1. flash \in Nvram
  BY ConstantsAssumption DEF Init
<1>2. cmd \in [Procs -> Commands]
  BY ConstantsAssumption DEF Init
<1> QED
  BY <1>1, <1>2 DEF Init, TypeOK

LEMMA GotoType ==
  ASSUME TypeOK, NEW p \in Procs, NEW l \in PcSet, Goto(p, l)
  PROVE  /\ pc' \in [Procs -> PcSet] /\ pc'[p] = l
         /\ \A q \in Procs : q # p => pc'[q] = pc[q]
  BY DEF TypeOK, Goto, PcSet

LEMMA TypeStep == TypeOK /\ [Next]_vars => TypeOK'
<1> SUFFICES ASSUME TypeOK, [Next]_vars PROVE TypeOK'
  OBVIOUS
<1>1. CASE UNCHANGED vars
  BY <1>1 DEF vars, TypeOK
<1>2. ASSUME NEW p \in Procs, Start(p) PROVE TypeOK'
  <2>1. /\ UNCHANGED flash /\ ram' = [ram EXCEPT ![p] = flash]
        /\ cmd' \in [Procs -> Commands] /\ \E l \in {"work", "failed"} : Goto(p, l)
    BY <1>2 DEF Start, TypeOK
  <2>2. pc' \in [Procs -> PcSet]
    BY <2>1, GotoType DEF PcSet
  <2> QED
    BY <2>1, <2>2 DEF TypeOK, PcSet
<1>3. ASSUME NEW p \in Procs, EnvWork(p) PROVE TypeOK'
  <2>1. EnvStep(p) /\ UNCHANGED <<flash, cmd>>
    BY <1>3, EnvWorkStep, EnvWorkStart
  <2>2. pc' \in [Procs -> PcSet]
    BY <2>1, GotoType DEF EnvStep, PcSet
  <2> QED
    BY <2>1, <2>2 DEF EnvStep, TypeOK, PcSet
<1>4. ASSUME NEW p \in Procs, NvramWork(p) PROVE TypeOK'
  <2>1. NvramStep(p) /\ UNCHANGED <<flash, cmd>>
    BY <1>4, NvramWorkStep DEF NvramWork
  <2>2. pc' \in [Procs -> PcSet]
    BY <2>1, GotoType DEF NvramStep, PcSet
  <2> QED
    BY <2>1, <2>2 DEF NvramStep, TypeOK, PcSet
<1>5. ASSUME NEW p \in Procs, NvSave(p) \/ Crash(p) PROVE TypeOK'
  <2>1. /\ UNCHANGED <<ram, cmd>> /\ flash' \in {flash, ram[p]}
        /\ \E l \in {"ok", "failed"} : Goto(p, l)
    BY <1>5 DEF NvSave, Crash
  <2>2. pc' \in [Procs -> PcSet]
    BY <2>1, GotoType DEF PcSet
  <2> QED
    BY <2>1, <2>2 DEF TypeOK, PcSet
<1> QED
  BY <1>1, <1>2, <1>3, <1>4, <1>5 DEF Next, Terminated

THEOREM TypeCorrect == Spec => []TypeOK
<1> QED
  BY InitType, TypeStep, PTL DEF Spec

-----------------------------------------------------------------------------
(***************************************************************************)
(* What is stored of a command, however many tools run at a time.          *)
(***************************************************************************)
Steps(p) == Start(p) \/ EnvWork(p) \/ NvramWork(p) \/ NvSave(p) \/ Crash(p)

(* A process changes no other one's copy, command line or place.           *)
LEMMA OthersStay ==
  ASSUME TypeOK, NEW p \in Procs, Steps(p)
  PROVE  \A q \in Procs : q # p => ram'[q] = ram[q] /\ cmd'[q] = cmd[q] /\ pc'[q] = pc[q]
<1>1. CASE Start(p)
  <2>1. \E l \in {"work", "failed"} : Goto(p, l)
    BY <1>1 DEF Start
  <2> QED
    BY <1>1, <2>1 DEF Start, TypeOK, Goto
<1>2. CASE EnvWork(p)
  BY <1>2, EnvWorkStart, EnvWorkStep DEF EnvStep, TypeOK, Goto
<1>3. CASE NvramWork(p)
  <2>1. UNCHANGED cmd /\ NvramStep(p)
    BY <1>3, NvramWorkStep DEF NvramWork
  <2> QED
    BY <2>1 DEF NvramStep, TypeOK, Goto
<1>4. CASE NvSave(p) \/ Crash(p)
  <2>1. UNCHANGED <<ram, cmd>> /\ \E l \in {"ok", "failed"} : Goto(p, l)
    BY <1>4 DEF NvSave, Crash
  <2> QED
    BY <2>1 DEF TypeOK, Goto
<1> QED
  BY <1>1, <1>2, <1>3, <1>4 DEF Steps

(* When a process comes to save, it is from its work.                      *)
LEMMA ToSave ==
  ASSUME TypeOK, NEW p \in Procs, Steps(p), pc'[p] \in {"save", "saveRest"}
  PROVE  EnvWork(p) \/ NvramWork(p)
<1>1. CASE Start(p)
  <2>1. \E l \in {"work", "failed"} : Goto(p, l)
    BY <1>1 DEF Start
  <2> QED
    BY <2>1 DEF TypeOK, Goto
<1>2. CASE NvSave(p) \/ Crash(p)
  <2>1. \E l \in {"ok", "failed"} : Goto(p, l)
    BY <1>2 DEF NvSave, Crash
  <2> QED
    BY <2>1 DEF TypeOK, Goto
<1> QED
  BY <1>1, <1>2 DEF Steps

TakenInv == \A p \in Procs :
    pc[p] \in {"save", "saveRest"} /\ cmd[p].tool # "nvram" => ~Refused(cmd[p])
CollectedInv == \A p \in Procs :
    pc[p] = "save" /\ FullInit(cmd[p]) =>
      Collected(cmd[p].tool, cmd[p].file, Len(cmd[p].file), ram[p][cmd[p].tool].vars)
StoredInv == TypeOK /\ TakenInv /\ CollectedInv

LEMMA StoredStep == StoredInv /\ [Next]_vars => StoredInv'
<1> SUFFICES ASSUME StoredInv, [Next]_vars PROVE StoredInv'
  OBVIOUS
<1>1. TypeOK /\ TypeOK'
  BY TypeStep DEF StoredInv
<1>2. CASE UNCHANGED vars
  BY <1>1, <1>2 DEF vars, StoredInv, TakenInv, CollectedInv
<1>3. ASSUME NEW p \in Procs, Steps(p) PROVE StoredInv'
  <2>1. \A q \in Procs : q # p => ram'[q] = ram[q] /\ cmd'[q] = cmd[q] /\ pc'[q] = pc[q]
    BY <1>1, <1>3, OthersStay
  <2>2. ASSUME pc'[p] \in {"save", "saveRest"}, cmd'[p].tool # "nvram"
        PROVE  /\ EnvStep(p) /\ cmd' = cmd /\ Edited(cmd[p], ram[p]).ok
               /\ pc'[p] = "save" => ram'[p][cmd[p].tool].vars = Edited(cmd[p], ram[p]).vars
               /\ cmd[p] \in EnvLine /\ (cmd[p].clean => cmd[p].erase = <<>>) /\ ram[p] \in Nvram
    <3>1. EnvWork(p)
      <4>1. NvramWork(p) => cmd' = cmd /\ cmd[p].tool = "nvram"
        BY DEF NvramWork
      <4> QED
        BY <1>1, <1>3, <2>2, <4>1, ToSave
    <3>2. cmd' = cmd /\ EnvStep(p)
      BY <1>1, <3>1, EnvWorkStart, EnvWorkStep
    <3>3. ram[p] \in Nvram
      BY <1>1 DEF TypeOK
    <3>4. cmd[p] \in EnvLine /\ (cmd[p].clean => cmd[p].erase = <<>>)
      BY <1>1, <2>2, <3>2, CommandType, Zenon
    <3>5. /\ Edited(cmd[p], ram[p]).ok
          /\ pc'[p] = "save" => ram'[p][cmd[p].tool].vars = Edited(cmd[p], ram[p]).vars
      BY <2>2, <3>2, Zenon DEF EnvStep
    <3> QED
      BY <3>2, <3>3, <3>4, <3>5, Zenon
  <2>3. ASSUME pc'[p] \in {"save", "saveRest"}, cmd'[p].tool # "nvram"
        PROVE  /\ ~Refused(cmd'[p])
               /\ pc'[p] = "save" /\ FullInit(cmd'[p]) =>
                    Collected(cmd'[p].tool, cmd'[p].file, Len(cmd'[p].file), ram'[p][cmd'[p].tool].vars)
    <3>1. /\ ~Refused(cmd[p])
          /\ cmd[p].clean /\ cmd[p].set = <<>>
               => Collected(cmd[p].tool, cmd[p].file, Len(cmd[p].file), Edited(cmd[p], ram[p]).vars)
      BY <2>2, <2>3, EditedFacts, Zenon
    <3> QED
      BY <2>2, <2>3, <3>1, Zenon DEF FullInit
  <2>4. \A q \in Procs : pc'[q] = "save" => pc'[q] \in {"save", "saveRest"}
    OBVIOUS
  <2>5. TakenInv'
    <3> SUFFICES ASSUME NEW q \in Procs, pc'[q] \in {"save", "saveRest"}, cmd'[q].tool # "nvram"
                 PROVE  ~Refused(cmd'[q])
      BY Zenon DEF TakenInv, Refused
    <3> QED
      BY <2>1, <2>3, Zenon DEF StoredInv, TakenInv
  <2>6. CollectedInv'
    <3> SUFFICES ASSUME NEW q \in Procs, pc'[q] = "save", FullInit(cmd'[q])
                 PROVE  Collected(cmd'[q].tool, cmd'[q].file, Len(cmd'[q].file), ram'[q][cmd'[q].tool].vars)
      BY Zenon DEF CollectedInv, FullInit, Collected, Own, env_have_to_use_nvram
    <3>1. CASE q = p
      BY <2>3, <2>4, <3>1, Zenon DEF FullInit
    <3>2. CASE q # p
      BY <2>1, <3>2, Zenon DEF StoredInv, CollectedInv
    <3> QED
      BY <3>1, <3>2
  <2> QED
    BY <1>1, <2>5, <2>6 DEF StoredInv
<1> QED
  BY <1>2, <1>3 DEF Next, Terminated, Steps

LEMMA StoredInit == Init => StoredInv
<1>1. Init => TakenInv /\ CollectedInv
  BY DEF Init, TakenInv, CollectedInv
<1> QED
  BY <1>1, InitType DEF StoredInv

(***************************************************************************)
(* A command of which an assignment is refused stores nothing at all       *)
(* (main_env.c, main: every failed call leaves before NvSave).             *)
(***************************************************************************)
THEOREM AllOrNothing == Spec => RefusedStoresNothing
<1>1. StoredInv /\ [Next]_vars =>
        [\A p \in Procs :
           flash' # flash /\ NvSave(p) /\ cmd[p].tool # "nvram" => ~Refused(cmd[p])]_vars
  <2>1. ASSUME TakenInv, NEW p \in Procs, NvSave(p), cmd[p].tool # "nvram"
        PROVE  ~Refused(cmd[p])
    BY <2>1, Zenon DEF TakenInv, NvSave
  <2> QED
    BY <2>1, Zenon DEF StoredInv
<1> QED
  BY <1>1, StoredInit, StoredStep, PTL DEF Spec, RefusedStoresNothing

(***************************************************************************)
(* --clean with --file makes the section exactly what the file says, when  *)
(* nothing is set besides (main_env.c, main and add_vars_from_file), and   *)
(* when the file has more names than the section has room for, no more     *)
(* than that: what does not fit is cut off without an error.               *)
(***************************************************************************)
THEOREM FileIsTheSection == Spec => []InitFromFile
<1>1. StoredInv => InitFromFile
  <2> SUFFICES ASSUME CollectedInv PROVE InitFromFile
    BY DEF StoredInv
  <2> QED
    BY Zenon DEF CollectedInv, InitFromFile, Collected, Own
<1> QED
  BY <1>1, StoredInit, StoredStep, PTL DEF Spec

-----------------------------------------------------------------------------
(***************************************************************************)
(* One tool at a time: what is decided about the copy is true of the flash *)
(* it is written to.                                                       *)
(***************************************************************************)
Saving(p) == pc[p] \in {"save", "saveRest"}
HasContent(nv) == nv.prodinfoenv.state = "valid" /\ nv.prodinfoenv.vars # NoVars

AloneInv == \A p, q \in Procs : Busy(p) /\ Busy(q) => p = q

(* Before its work a process's copy is up to date; after it the product    *)
(* information still is, unless it was empty, and no section of the flash  *)
(* is missing from it, but for nvram in manufacturing mode.                *)
FreshInv == \A p \in Procs : pc[p] = "work" => ram[p] = flash
KeepInv == \A p \in Procs :
    Saving(p) /\ cmd[p].tool # "nvram" /\ HasContent(flash)
    => ram[p].prodinfoenv = flash.prodinfoenv
StayInv == \A p \in Procs : \A t \in EnvTools :
    Saving(p) /\ flash[t].state # "absent" /\ ram[p][t].state = "absent"
    => cmd[p].tool = "nvram" /\ cmd[p].manuf

Inv == TypeOK /\ AloneInv /\ FreshInv /\ KeepInv /\ StayInv

LEMMA InitInv == Init => Inv
<1>1. Init => AloneInv /\ FreshInv /\ KeepInv /\ StayInv
  BY DEF Init, AloneInv, FreshInv, KeepInv, StayInv, Saving, Busy
<1> QED
  BY <1>1, InitType DEF Inv

(* After a step of p nobody else is busy.                                  *)
LEMMA OnlyOneBusy ==
  ASSUME Exclusive, Inv, NEW p \in Procs, Steps(p)
  PROVE  AloneInv' /\ \A q \in Procs : q # p => ~Busy(q)'
<1>1. \A q \in Procs : q # p => ~Busy(q)
  <2>1. CASE Start(p)
    BY <2>1 DEF Start
  <2>2. CASE ~Start(p)
    <3>1. Busy(p)
      BY <2>2, EnvWorkStart DEF Steps, Busy, NvramWork, NvSave, Crash
    <3> QED
      BY <3>1 DEF Inv, AloneInv
  <2> QED
    BY <2>1, <2>2
<1>2. \A q \in Procs : q # p => pc'[q] = pc[q]
  BY OthersStay DEF Inv
<1> QED
  BY <1>1, <1>2 DEF AloneInv, Busy

(* With nobody else busy the invariant is about p alone.                   *)
LEMMA AboutOne ==
  ASSUME Exclusive, Inv, NEW p \in Procs, Steps(p), TypeOK',
         pc'[p] = "work" => ram'[p] = flash',
         Saving(p)' /\ cmd'[p].tool # "nvram" /\ HasContent(flash')
           => ram'[p].prodinfoenv = flash'.prodinfoenv,
         \A t \in EnvTools :
           Saving(p)' /\ flash'[t].state # "absent" /\ ram'[p][t].state = "absent"
           => cmd'[p].tool = "nvram" /\ cmd'[p].manuf
  PROVE  Inv'
<1>1. AloneInv' /\ \A q \in Procs : q # p => pc'[q] \notin {"work", "save", "saveRest"}
  BY OnlyOneBusy DEF Busy
<1>2. FreshInv'
  BY <1>1 DEF FreshInv
<1>3. KeepInv'
  BY <1>1 DEF KeepInv, Saving, HasContent
<1>4. StayInv'
  BY <1>1 DEF StayInv, Saving
<1> QED
  BY <1>1, <1>2, <1>3, <1>4 DEF Inv

LEMMA NextInv == Exclusive /\ Inv /\ [Next]_vars => Inv'
<1> SUFFICES ASSUME Exclusive, Inv, [Next]_vars PROVE Inv'
  OBVIOUS
<1>1. TypeOK /\ TypeOK'
  BY TypeStep DEF Inv
<1>2. CASE UNCHANGED vars
  BY <1>1, <1>2 DEF vars, Inv, AloneInv, FreshInv, KeepInv, StayInv, Saving, Busy, HasContent
<1>3. ASSUME NEW p \in Procs, Start(p) PROVE Inv'
  <2>1. ram'[p] = flash' /\ \E l \in {"work", "failed"} : Goto(p, l)
    BY <1>1, <1>3 DEF Start, TypeOK
  <2>2. ~Saving(p)'
    BY <1>1, <2>1 DEF Saving, TypeOK, Goto
  <2> QED
    BY <1>1, <1>3, <2>1, <2>2, AboutOne DEF Steps
<1>4. ASSUME NEW p \in Procs, EnvWork(p) PROVE Inv'
  <2> DEFINE c == cmd[p]
  <2>1. /\ EnvStep(p) /\ flash' = flash /\ cmd' = cmd
        /\ c.tool \in EnvTools /\ c.tool # "nvram"
    BY <1>1, <1>4, EnvWorkStart, EnvWorkStep, CommandType
  <2>2. ram[p] = flash
    BY <1>4, EnvWorkStart DEF Inv, FreshInv
  <2>3. pc'[p] # "work"
    BY <1>1, <2>1 DEF EnvStep, TypeOK, Goto
  <2>4. ASSUME Saving(p)', HasContent(flash)
        PROVE  ram'[p].prodinfoenv = flash.prodinfoenv
    <3>1. ~Refuses(c, flash[c.tool]) /\ Changes(c)
      BY <2>1, <2>2, <2>4, Zenon DEF EnvStep, Saving
    <3>2. c.tool # "prodinfoenv"
      BY <2>4, <3>1 DEF Refuses, env_onetime_writable, HasContent
    <3>3. "prodinfoenv" \in EnvTools
      BY DEF EnvTools
    <3> QED
      BY <2>1, <2>2, <3>2, <3>3 DEF EnvStep
  <2>5. \A t \in EnvTools : flash[t].state # "absent" => ram'[p][t].state # "absent"
    BY <2>1, <2>2 DEF EnvStep
  <2> QED
    BY <1>1, <1>4, <2>1, <2>3, <2>4, <2>5, AboutOne DEF Steps
<1>5. ASSUME NEW p \in Procs, NvramWork(p) PROVE Inv'
  <2>1. NvramStep(p) /\ flash' = flash /\ cmd' = cmd /\ cmd[p].tool = "nvram"
    BY <1>1, <1>5, NvramWorkStep DEF NvramWork
  <2>2. ram[p] = flash
    BY <1>5 DEF NvramWork, Inv, FreshInv
  <2>3. pc'[p] # "work"
    BY <1>1, <2>1 DEF NvramStep, TypeOK, Goto
  <2>4. \A t \in EnvTools :
          flash[t].state # "absent" /\ ram'[p][t].state = "absent" => cmd[p].manuf
    BY <2>1, <2>2, Zenon DEF NvramStep
  <2> QED
    BY <1>1, <1>5, <2>1, <2>3, <2>4, AboutOne DEF Steps
<1>6. ASSUME NEW p \in Procs, NvSave(p) \/ Crash(p) PROVE Inv'
  <2>1. \E l \in {"ok", "failed"} : Goto(p, l)
    BY <1>6 DEF NvSave, Crash
  <2>2. pc'[p] # "work" /\ ~Saving(p)'
    BY <1>1, <2>1 DEF Saving, TypeOK, Goto
  <2> QED
    BY <1>1, <1>6, <2>2, AboutOne DEF Steps
<1> QED
  BY <1>2, <1>3, <1>4, <1>5, <1>6 DEF Next, Terminated

(***************************************************************************)
(* The product information is one-time writable (main_env.c,               *)
(* env_onetime_writable and the check in main).                            *)
(***************************************************************************)
THEOREM OneTimeWritableAlone ==
  ASSUME Exclusive
  PROVE  Spec => OneTimeWritable
<1>1. Init => Inv
  BY InitInv
<1>2. Inv /\ [Next]_vars => Inv'
  BY NextInv
<1>3. Inv /\ [Next]_vars =>
        [\A p \in Procs :
           /\ NvSave(p) /\ cmd[p].tool # "nvram"
           /\ flash.prodinfoenv.state = "valid" /\ flash.prodinfoenv.vars # NoVars
           => flash'.prodinfoenv = flash.prodinfoenv]_vars
  BY DEF Inv, KeepInv, Saving, HasContent, NvSave
<1> QED
  BY <1>1, <1>2, <1>3, PTL DEF Spec, OneTimeWritable

(***************************************************************************)
(* A section disappears in manufacturing mode only (nvram, main.c: -p and  *)
(* NvPrivOSCriticalPartReset); the other tools add sections and never      *)
(* remove one.                                                             *)
(***************************************************************************)
THEOREM SectionsStayAlone ==
  ASSUME Exclusive
  PROVE  Spec => SectionsStay
<1>1. Init => Inv
  BY InitInv
<1>2. Inv /\ [Next]_vars => Inv'
  BY NextInv
<1>3. Inv /\ [Next]_vars =>
        [\A t \in {"ubootenv", "prodinfoenv"} :
           flash[t].state # "absent" /\ flash'[t].state = "absent"
           => \E p \in Procs : cmd[p].tool = "nvram" /\ cmd[p].manuf]_vars
  <2> SUFFICES ASSUME Inv, Next, NEW t \in EnvTools,
                      flash[t].state # "absent", flash'[t].state = "absent"
               PROVE  \E p \in Procs : cmd[p].tool = "nvram" /\ cmd[p].manuf
    BY Zenon DEF EnvTools
  <2>1. flash' # flash
    OBVIOUS
  <2>2. PICK p \in Procs : NvSave(p)
    BY <2>1, EnvWorkStart DEF Next, Start, NvramWork, Crash, Terminated, vars
  <2>3. Saving(p) /\ flash' = ram[p]
    BY <2>1, <2>2, Zenon DEF NvSave, Saving
  <2> QED
    BY <2>3, Zenon DEF Inv, StayInv
<1> QED
  BY <1>1, <1>2, <1>3, PTL DEF Spec, SectionsStay
=============================================================================
