--------------------------- MODULE EnvFuncsProofs ---------------------------
(***************************************************************************)
(* Proofs about EnvFuncs, for every size of the buffer and all strings:    *)
(* nothing but the addition of a string that does not fit changes the      *)
(* bytes behind the buffer, and until one is added the bytes implement a   *)
(* set of variables, one for each name.                                    *)
(***************************************************************************)
EXTENDS EnvFuncs, WellFoundedInduction, SequenceTheorems, TLAPS

-----------------------------------------------------------------------------
(* A set of natural numbers that is not empty has a least element.         *)
LEMMA NatMin ==
  ASSUME NEW T \in SUBSET Nat, T # {}
  PROVE  \E x \in T : \A y \in T : x <= y
<1> DEFINE R == OpToRel(<, Nat)
<1>1. IsWellFoundedOn(R, Nat)
  BY NatLessThanWellFounded
<1>2. \A x, y \in Nat : <<y, x>> \in R <=> y < x
  BY DEF OpToRel
<1> HIDE DEF R
<1>3. PICK x \in T : \A y \in T : ~(<<y, x>> \in R)
  BY <1>1, WFMin
<1>4. ASSUME NEW y \in T PROVE x <= y
  <2>1. x \in Nat /\ y \in Nat /\ ~(<<y, x>> \in R)
    BY <1>3
  <2>2. ~(y < x)
    BY <1>2, <2>1
  <2> QED
    BY <2>1, <2>2
<1> QED
  BY <1>4

(* The numbers of a set that is closed under adding one are all numbers.   *)
LEMMA NatAll ==
  ASSUME NEW P \in SUBSET Nat, 0 \in P, \A n \in P : n + 1 \in P
  PROVE  P = Nat
<1> DEFINE T == Nat \ P
<1>1. CASE T # {}
  <2>1. PICK x \in T : \A y \in T : x <= y
    BY <1>1, NatMin
  <2>2. x # 0 /\ x - 1 \in Nat /\ ~(x <= x - 1)
    BY <2>1
  <2>3. x - 1 \in P
    BY <2>1, <2>2
  <2>4. (x - 1) + 1 = x
    BY <2>1
  <2> QED
    BY <2>1, <2>3, <2>4
<1>2. CASE T = {}
  BY <1>2
<1> QED
  BY <1>1, <1>2

(* Downwards from N: what holds at i as soon as it holds at all numbers    *)
(* above i holds everywhere.                                               *)
LEMMA Downwards ==
  ASSUME NEW N \in Nat, NEW P,
         \A i \in 0..N : (\A j \in 0..N : j > i => j \in P) => i \in P
  PROVE  \A i \in 0..N : i \in P
<1> DEFINE T == {k \in Nat : k <= N /\ N - k \notin P}
<1>1. CASE T = {}
  <2> SUFFICES ASSUME NEW i \in 0..N PROVE i \in P
    OBVIOUS
  <2>1. N - i \in Nat /\ N - i <= N /\ N - (N - i) = i
    OBVIOUS
  <2>2. N - i \notin T
    BY <1>1
  <2> QED
    BY <2>1, <2>2
<1>2. CASE T # {}
  <2>1. PICK x \in T : \A y \in T : x <= y
    BY <1>2, NatMin
  <2>2. x \in Nat /\ x <= N /\ N - x \notin P /\ N - x \in 0..N
    BY <2>1
  <2>3. ASSUME NEW j \in 0..N, j > N - x PROVE j \in P
    <3>1. N - j \in Nat /\ N - j <= N /\ N - (N - j) = j /\ ~(x <= N - j)
      BY <2>2, <2>3
    <3> QED
      BY <2>1, <3>1
  <2> QED
    BY <2>2, <2>3
<1> QED
  BY <1>1, <1>2
-----------------------------------------------------------------------------
LEMMA MinOf ==
  ASSUME NEW T \in SUBSET Nat, T # {}
  PROVE  Min(T) \in T /\ \A y \in T : Min(T) <= y
<1>1. PICK x \in T : \A y \in T : x <= y
  BY NatMin
<1> QED
  BY <1>1 DEF Min

-----------------------------------------------------------------------------
(***************************************************************************)
(* The strings: a name, without "=", then "=".                             *)
(***************************************************************************)
EqualsAt(s) == Min({k \in 1..Len(s) : s[k] = "="})

LEMMA VarString ==
  ASSUME NEW s \in VarStrings
  PROVE  /\ s \in Seq(Chars) /\ Len(s) \in Nat
         /\ EqualsAt(s) \in 2..Len(s) /\ s[EqualsAt(s)] = "="
         /\ \A k \in 1..(EqualsAt(s) - 1) : s[k] # "="
         /\ \A k \in 1..Len(s) : s[k] \in Chars /\ s[k] # NUL
<1>1. s \in Seq(Chars) /\ Len(s) \in Nat /\ \A k \in 1..Len(s) : s[k] \in Chars
  BY ConstantsAssumption, LenProperties, ElementOfSeq
<1>2. \A k \in 1..Len(s) : s[k] # NUL
  BY <1>1, ConstantsAssumption
<1> DEFINE T == {k \in 1..Len(s) : s[k] = "="}
<1>3. T \in SUBSET Nat /\ T # {} /\ s[1] # "="
  BY <1>1, ConstantsAssumption
<1>4. Min(T) \in T /\ \A y \in T : Min(T) <= y
  BY <1>3, MinOf
<1>5. Min(T) \in 1..Len(s) /\ s[Min(T)] = "=" /\ Min(T) # 1
  BY <1>3, <1>4
<1>6. ASSUME NEW k \in 1..(Min(T) - 1) PROVE s[k] # "="
  <2>1. k \in 1..Len(s) /\ ~(Min(T) <= k)
    BY <1>1, <1>5
  <2> QED
    BY <1>4, <2>1
<1>7. EqualsAt(s) = Min(T)
  BY DEF EqualsAt
<1> HIDE DEF T
<1> QED
  BY <1>1, <1>2, <1>5, <1>6, <1>7

LEMMA NameOf ==
  ASSUME NEW s \in VarStrings
  PROVE  /\ get_var_name(s) \in Seq(Chars)
         /\ Len(get_var_name(s)) = EqualsAt(s) - 1
         /\ \A k \in 1..(EqualsAt(s) - 1) : get_var_name(s)[k] = s[k]
<1>1. PICK q \in Nat : q = EqualsAt(s) - 1 /\ q \in 1..Len(s) /\ Len(s) \in Nat
  BY VarString
<1>2. \A k \in 1..q : s[k] \in Chars
  BY <1>1, VarString
<1>3. /\ SubSeq(s, 1, q) \in Seq(Chars)
      /\ Len(SubSeq(s, 1, q)) = IF 1 <= q THEN q - 1 + 1 ELSE 0
      /\ \A k \in 1..(q - 1 + 1) : SubSeq(s, 1, q)[k] = s[1 + k - 1]
  BY <1>2, SubSeqProperties
<1>4. \A k \in 1..q : 1 + k - 1 = k /\ k \in 1..(q - 1 + 1)
  OBVIOUS
<1>5. get_var_name(s) = SubSeq(s, 1, q)
  BY <1>1 DEF get_var_name, EqualsAt
<1> QED
  BY <1>1, <1>3, <1>4, <1>5

(* strstr(data, "name=") == data says that the string has this name.       *)
LEMMA StartsWithName ==
  ASSUME NEW s \in VarStrings, NEW t \in VarStrings
  PROVE  StartsWith(t, get_var_name(s)) <=> get_var_name(t) = get_var_name(s)
<1> DEFINE n == get_var_name(s)
           q == EqualsAt(s)
           r == EqualsAt(t)
           L == Len(t)
<1>1. /\ L \in Nat /\ q \in Nat /\ q >= 2 /\ r \in 2..L /\ n \in Seq(Chars) /\ Len(n) = q - 1
      /\ t[r] = "=" /\ (\A k \in 1..(r - 1) : t[k] # "=") /\ (\A k \in 1..(q - 1) : s[k] # "=")
      /\ \A k \in 1..L : t[k] \in Chars
  BY VarString, NameOf
<1>2. /\ \A k \in 1..(q - 1) : n[k] = s[k]
      /\ get_var_name(t) \in Seq(Chars) /\ Len(get_var_name(t)) = r - 1
      /\ \A k \in 1..(r - 1) : get_var_name(t)[k] = t[k]
  BY NameOf
<1>3. "=" \in Chars
  BY <1>1
<1>4. /\ n \o <<"=">> \in Seq(Chars) /\ Len(n \o <<"=">>) = q
      /\ \A k \in 1..q : (n \o <<"=">>)[k] = IF k < q THEN s[k] ELSE "="
  <2> DEFINE e == <<"=">>
  <2>1. e \in Seq(Chars) /\ Len(e) = 1 /\ e[1] = "="
    BY <1>3
  <2> HIDE DEF n, q, e
  <2>2. /\ n \o e \in Seq(Chars) /\ Len(n \o e) = (q - 1) + 1
        /\ \A k \in 1..((q - 1) + 1) : (n \o e)[k] =
               IF k <= q - 1 THEN n[k] ELSE e[k - (q - 1)]
    <3>1. n \in Seq(Chars) /\ Len(n) = q - 1
      BY <1>1
    <3>2. /\ n \o e \in Seq(Chars) /\ Len(n \o e) = Len(n) + Len(e)
          /\ \A k \in 1..(Len(n) + Len(e)) : (n \o e)[k] =
                 IF k <= Len(n) THEN n[k] ELSE e[k - Len(n)]
      BY <2>1, <3>1, ConcatProperties
    <3> QED
      BY <2>1, <3>1, <3>2
  <2>3. (q - 1) + 1 = q /\ \A k \in 1..q : IF k < q THEN k <= q - 1 /\ k \in 1..(q - 1) ELSE k - (q - 1) = 1 /\ ~(k <= q - 1)
    BY <1>1
  <2>4. \A k \in 1..q : (n \o e)[k] = IF k < q THEN s[k] ELSE "="
    BY <1>2, <2>1, <2>2, <2>3
  <2> QED
    BY <2>2, <2>3, <2>4 DEF e
<1>5. StartsWith(t, n) <=> L >= q /\ SubSeq(t, 1, q) = n \o <<"=">>
  <2>1. (L > Len(n) <=> L >= q) /\ Len(n) + 1 = q
    BY <1>1
  <2> QED
    BY <2>1 DEF StartsWith
<1>6. ASSUME L >= q
      PROVE  /\ SubSeq(t, 1, q) \in Seq(Chars) /\ Len(SubSeq(t, 1, q)) = q
             /\ \A k \in 1..q : SubSeq(t, 1, q)[k] = t[k]
  <2>1. \A k \in 1..q : t[k] \in Chars
    BY <1>1, <1>6
  <2>2. /\ SubSeq(t, 1, q) \in Seq(Chars)
        /\ Len(SubSeq(t, 1, q)) = IF 1 <= q THEN q - 1 + 1 ELSE 0
        /\ \A k \in 1..(q - 1 + 1) : SubSeq(t, 1, q)[k] = t[1 + k - 1]
    BY <1>1, <2>1, SubSeqProperties
  <2>3. 1 <= q /\ q - 1 + 1 = q /\ \A k \in 1..q : 1 + k - 1 = k
    BY <1>1
  <2> HIDE DEF q
  <2> QED
    BY <2>2, <2>3
<1> HIDE DEF n, q, r, L
<1>7. ASSUME L >= q, SubSeq(t, 1, q) = n \o <<"=">> PROVE get_var_name(t) = n
  <2>1. \A k \in 1..q : t[k] = IF k < q THEN s[k] ELSE "="
    BY <1>4, <1>6, <1>7
  <2>2. r = q
    <3>1. ~(r < q)
      BY <1>1, <2>1
    <3>2. ~(q < r)
      BY <1>1, <2>1
    <3> QED
      BY <1>1, <3>1, <3>2
  <2>3. \A k \in 1..(q - 1) : get_var_name(t)[k] = n[k]
    BY <1>1, <1>2, <2>1, <2>2
  <2> QED
    BY <1>1, <1>2, <2>2, <2>3, SeqEqual
<1>8. ASSUME get_var_name(t) = n PROVE L >= q /\ SubSeq(t, 1, q) = n \o <<"=">>
  <2>1. r = q
    BY <1>1, <1>2, <1>8
  <2>2. L >= q
    BY <1>1, <2>1
  <2>3. \A k \in 1..q : t[k] = IF k < q THEN s[k] ELSE "="
    BY <1>1, <1>2, <1>8, <2>1
  <2> QED
    BY <1>4, <1>6, <2>2, <2>3, SeqEqual
<1> QED
  BY <1>5, <1>7, <1>8 DEF n

-----------------------------------------------------------------------------
(***************************************************************************)
(* The scans.                                                              *)
(***************************************************************************)
Buffers == [Cells -> {NUL} \cup Chars]

LEMMA Sizes ==
  /\ EnvLen \in Nat /\ EnvLen >= 2 /\ NUL \notin Chars
  /\ \A b, i : i \in 0..(EnvLen + 1) => At(b, i) = b[i]
  /\ \A b, i : i \notin 0..(EnvLen + 1) => At(b, i) = NUL
  BY ConstantsAssumption DEF At, Cells

(* A string ends at the first NUL.                                         *)
LEMMA EndOfFacts ==
  ASSUME NEW b, NEW i \in 0..(EnvLen + 2)
  PROVE  /\ EndOf(b, i) \in i..(EnvLen + 2) /\ At(b, EndOf(b, i)) = NUL
         /\ \A j \in i..(EnvLen + 2) : At(b, j) = NUL => EndOf(b, i) <= j
<1> DEFINE T == {j \in i..(EnvLen + 2) : At(b, j) = NUL}
<1>1. EnvLen + 2 \in T /\ T \in SUBSET Nat
  BY Sizes
<1>2. Min(T) \in T /\ \A y \in T : Min(T) <= y
  BY <1>1, MinOf
<1> QED
  BY <1>2 DEF EndOf

LEMMA EndOfIs ==
  ASSUME NEW b, NEW i \in 0..(EnvLen + 2), NEW e \in i..(EnvLen + 2), At(b, e) = NUL,
         \A j \in i..(e - 1) : At(b, j) # NUL
  PROVE  EndOf(b, i) = e
<1>1. /\ EndOf(b, i) \in i..(EnvLen + 2) /\ At(b, EndOf(b, i)) = NUL /\ EndOf(b, i) <= e
  BY EndOfFacts
<1>2. ~(EndOf(b, i) < e)
  BY <1>1, Sizes
<1> QED
  BY <1>1, <1>2, Sizes

LEMMA NextAtNUL ==
  ASSUME NEW b, NEW i, At(b, i) = NUL
  PROVE  get_next_env_string(b, i) = NULL
  BY DEF get_next_env_string

(* The next string is further on.                                          *)
LEMMA NextIsFurther ==
  ASSUME NEW b, NEW i \in 0..(EnvLen + 2), At(b, i) # NUL, i < EnvLen
  PROVE  /\ EndOf(b, i) < EnvLen => get_next_env_string(b, i) = EndOf(b, i) + 1
         /\ \/ get_next_env_string(b, i) = NULL
            \/ get_next_env_string(b, i) \in (i + 1)..(EnvLen + 1)
<1> DEFINE e == EndOf(b, i)
           x == Max({i, till})
           T == {j \in i..x : j >= till \/ At(b, j) = NUL}
<1>1. till = EnvLen /\ till \in {i, till} /\ \A y \in {i, till} : till >= y
  BY Sizes DEF till
<1>2. x = EnvLen
  <2>1. x \in {i, till} /\ \A y \in {i, till} : x >= y
    BY <1>1 DEF Max
  <2> QED
    BY <1>1, <2>1, Sizes
<1> HIDE DEF x
<1>3. EnvLen \in T /\ T \in SUBSET Nat
  BY <1>1, <1>2, Sizes
<1>4. Min(T) \in T /\ \A y \in T : Min(T) <= y
  BY <1>3, MinOf
<1>5. get_next_env_string(b, i) =
        IF Min(T) = till /\ At(b, Min(T)) # NUL THEN NULL ELSE Min(T) + 1
  BY DEF get_next_env_string, x
<1>6. Min(T) \in i..EnvLen /\ (Min(T) = EnvLen \/ At(b, Min(T)) = NUL)
  BY <1>1, <1>2, <1>4, Sizes
<1>7. e \in i..(EnvLen + 2) /\ At(b, e) = NUL /\ \A j \in i..(EnvLen + 2) : At(b, j) = NUL => e <= j
  BY EndOfFacts
<1>8. e <= EnvLen => e \in T
  BY <1>2, <1>7, Sizes
<1> HIDE DEF T, e
<1>9. e < EnvLen => Min(T) = e
  BY <1>4, <1>6, <1>7, <1>8, Sizes
<1>10. e < EnvLen => get_next_env_string(b, i) = e + 1
  BY <1>1, <1>5, <1>7, <1>9, Sizes
<1>11. get_next_env_string(b, i) = NULL \/ get_next_env_string(b, i) \in (i + 1)..(EnvLen + 1)
  BY <1>5, <1>6, Sizes
<1> QED
  BY <1>10, <1>11 DEF e

(* The same for all places: the next string is none or further on.         *)
LEMMA NextGrows ==
  ASSUME NEW b, NEW i \in 0..(EnvLen + 2)
  PROVE  \/ get_next_env_string(b, i) = NULL
         \/ get_next_env_string(b, i) \in Nat /\ get_next_env_string(b, i) > i
<1>1. CASE At(b, i) = NUL
  BY <1>1, NextAtNUL
<1>2. CASE At(b, i) # NUL /\ i < EnvLen
  BY <1>2, NextIsFurther, Sizes
<1>3. CASE At(b, i) # NUL /\ ~(i < EnvLen)
  <2> DEFINE x == Max({i, till})
             T == {j \in i..x : j >= till \/ At(b, j) = NUL}
  <2>1. till = EnvLen /\ i \in {i, till} /\ \A y \in {i, till} : i >= y
    BY <1>3, Sizes DEF till
  <2>2. x = i
    <3>1. x \in {i, till} /\ \A y \in {i, till} : x >= y
      BY <2>1 DEF Max
    <3> QED
      BY <1>3, <2>1, <3>1, Sizes
  <2> HIDE DEF x
  <2>3. i \in T /\ T \in SUBSET Nat
    BY <1>3, <2>1, <2>2, Sizes
  <2>4. Min(T) \in T
    BY <2>3, MinOf
  <2>5. Min(T) = i
    BY <2>2, <2>4
  <2>6. get_next_env_string(b, i) =
          IF Min(T) = till /\ At(b, Min(T)) # NUL THEN NULL ELSE Min(T) + 1
    BY <1>3 DEF get_next_env_string, x
  <2> QED
    BY <2>5, <2>6
<1> QED
  BY <1>1, <1>2, <1>3

-----------------------------------------------------------------------------
(***************************************************************************)
(* The layout: strings one behind the other from the start, the end mark   *)
(* m, and nothing but NULs behind it.                                      *)
(***************************************************************************)
Layout(b, m) ==
    /\ b \in Buffers
    /\ m \in 1..(EnvLen - 1) /\ b[m - 1] = NUL
    /\ \A p \in 1..(m - 1) : b[p - 1] # NUL \/ b[p] # NUL
    /\ \A i \in m..(EnvLen - 1) : b[i] = NUL
    /\ b[0] = NUL => m = 1

(* Where the strings start.                                                *)
Starts(b, m) == {i \in 0..(m - 1) : b[i] # NUL /\ (i = 0 \/ b[i - 1] = NUL)}

LEMMA LayoutSizes ==
  ASSUME NEW b, NEW m, Layout(b, m)
  PROVE  /\ m \in Nat /\ m >= 1 /\ m < EnvLen /\ EnvLen \in Nat /\ b[m] = NUL
         /\ \A i \in 0..(EnvLen + 1) : At(b, i) = b[i]
  BY Sizes DEF Layout

LEMMA EndMark ==
  ASSUME NEW b, NEW m, Layout(b, m), NEW a \in 0..(m - 1)
  PROVE  get_end_mark(b, a) = m
<1> DEFINE T == {p \in (a + 1)..till : At(b, p - 1) = NUL /\ At(b, p) = NUL}
<1>1. m \in T /\ T \in SUBSET Nat
  BY LayoutSizes DEF till, Layout
<1>2. Min(T) \in T /\ \A y \in T : Min(T) <= y
  BY <1>1, MinOf
<1>3. Min(T) \in (a + 1)..m /\ At(b, Min(T) - 1) = NUL /\ At(b, Min(T)) = NUL
  BY <1>1, <1>2, LayoutSizes DEF till
<1>4. ~(Min(T) < m)
  <2> SUFFICES ASSUME Min(T) < m PROVE FALSE
    OBVIOUS
  <2>1. Min(T) \in 1..(m - 1) /\ Min(T) - 1 \in 0..(EnvLen + 1) /\ Min(T) \in 0..(EnvLen + 1)
    BY <1>3, LayoutSizes
  <2>2. b[Min(T) - 1] = NUL /\ b[Min(T)] = NUL
    BY <1>3, <2>1, LayoutSizes
  <2> QED
    BY <2>1, <2>2 DEF Layout
<1>5. Min(T) = m
  BY <1>3, <1>4, LayoutSizes
<1>6. get_end_mark(b, a) = IF T = {} THEN NULL ELSE Min(T)
  BY DEF get_end_mark
<1> HIDE DEF T
<1> QED
  BY <1>1, <1>5, <1>6

(* A string ends before the end mark, and another one or the end follows.  *)
LEMMA StringEnd ==
  ASSUME NEW b, NEW m, Layout(b, m), NEW i \in 0..(m - 1), b[i] # NUL
  PROVE  /\ EndOf(b, i) \in (i + 1)..(m - 1) /\ b[EndOf(b, i)] = NUL
         /\ \A j \in i..(EndOf(b, i) - 1) : b[j] # NUL
         /\ get_next_env_string(b, i) = EndOf(b, i) + 1
         /\ EndOf(b, i) + 1 = m \/ EndOf(b, i) + 1 \in Starts(b, m)
<1> DEFINE e == EndOf(b, i)
<1>1. e \in i..(EnvLen + 2) /\ At(b, e) = NUL /\ \A j \in i..(EnvLen + 2) : At(b, j) = NUL => e <= j
  BY EndOfFacts, LayoutSizes
<1> HIDE DEF e
<1>2. m - 1 \in i..(EnvLen + 2) /\ At(b, m - 1) = NUL
  <2>1. m - 1 \in 0..(EnvLen + 1) /\ m - 1 \in i..(EnvLen + 2)
    BY LayoutSizes
  <2> QED
    BY <2>1, LayoutSizes DEF Layout
<1>3. e \in i..(m - 1)
  BY <1>1, <1>2, LayoutSizes
<1>4. b[e] = NUL /\ e # i
  BY <1>1, <1>3, LayoutSizes
<1>5. ASSUME NEW j \in i..(e - 1) PROVE b[j] # NUL
  <2>1. j \in i..(EnvLen + 2) /\ ~(e <= j) /\ At(b, j) = b[j]
    BY <1>3, LayoutSizes
  <2> QED
    BY <1>1, <2>1
<1>6. get_next_env_string(b, i) = e + 1
  <2>1. i \in 0..(EnvLen + 2) /\ i < EnvLen /\ e < EnvLen /\ At(b, i) # NUL
    BY <1>3, LayoutSizes
  <2> QED
    BY <2>1, NextIsFurther DEF e
<1>7. e + 1 = m \/ e + 1 \in Starts(b, m)
  <2> SUFFICES ASSUME e + 1 # m PROVE e + 1 \in Starts(b, m)
    OBVIOUS
  <2>1. e + 1 \in 1..(m - 1) /\ (e + 1) - 1 = e
    BY <1>3, LayoutSizes
  <2>2. b[e + 1] # NUL
    BY <1>4, <2>1 DEF Layout
  <2> QED
    BY <1>4, <2>1, <2>2, LayoutSizes DEF Starts
<1> QED
  BY <1>3, <1>4, <1>5, <1>6, <1>7, LayoutSizes DEF e

-----------------------------------------------------------------------------
(***************************************************************************)
(* get_var_addr: the walk from string to string.                           *)
(***************************************************************************)
WalkStep(f, b, name, i) ==
    IF i < till /\ StartsWith(StringAt(b, i), name) THEN i
    ELSE LET next == get_next_env_string(b, i)
         IN IF next = NULL \/ next > EnvLen + 2 THEN NULL ELSE f[next]
IsWalk(f, b, start, name) == f = [i \in start..(EnvLen + 2) |-> WalkStep(f, b, name, i)]

(* What the walk does at i depends on what it does further on.             *)
LEMMA WalkStepLocal ==
  ASSUME NEW b, NEW name, NEW i \in 0..(EnvLen + 2), NEW f, NEW g,
         \A j \in (i + 1)..(EnvLen + 2) : f[j] = g[j]
  PROVE  WalkStep(f, b, name, i) = WalkStep(g, b, name, i)
<1> DEFINE next == get_next_env_string(b, i)
<1>1. next = NULL \/ (next \in Nat /\ next > i)
  BY NextGrows, Zenon
<1>2. next = NULL \/ next > EnvLen + 2 \/ next \in (i + 1)..(EnvLen + 2)
  BY <1>1, Sizes
<1> HIDE DEF next
<1> QED
  BY <1>2 DEF WalkStep, next

LEMMA WalkExists ==
  ASSUME NEW b, NEW name, NEW start \in 0..(EnvLen + 2)
  PROVE  \E f : IsWalk(f, b, start, name)
<1> DEFINE N == EnvLen + 2
           P == {k \in Nat : k <= N => \E f : IsWalk(f, b, N - k, name)}
<1>0. N \in Nat
  BY Sizes
<1>1. 0 \in P
  <2> DEFINE f == [i \in N..N |-> WalkStep(<<>>, b, name, i)]
  <2>1. \A i \in N..N : WalkStep(f, b, name, i) = WalkStep(<<>>, b, name, i)
    <3> SUFFICES ASSUME NEW i \in N..N PROVE WalkStep(f, b, name, i) = WalkStep(<<>>, b, name, i)
      OBVIOUS
    <3>1. i \in 0..N /\ \A j \in (i + 1)..N : f[j] = <<>>[j]
      BY <1>0
    <3> HIDE DEF f
    <3> QED
      BY <3>1, WalkStepLocal
  <2>2. IsWalk(f, b, N, name)
    BY <2>1 DEF IsWalk
  <2>3. N - 0 = N
    BY <1>0
  <2> HIDE DEF f, N
  <2> QED
    BY <2>2, <2>3
<1>2. ASSUME NEW k \in P PROVE k + 1 \in P
  <2> SUFFICES ASSUME k + 1 <= N PROVE \E f : IsWalk(f, b, N - (k + 1), name)
    OBVIOUS
  <2>1. k \in Nat /\ k <= N /\ N - (k + 1) \in 0..N /\ N - k = (N - (k + 1)) + 1
    BY <1>0
  <2>2. PICK f : IsWalk(f, b, N - k, name)
    BY <2>1
  <2> DEFINE a == N - (k + 1)
             g == [i \in a..N |-> IF i = a THEN WalkStep(f, b, name, i) ELSE f[i]]
  <2>3. \A i \in (a + 1)..N : g[i] = f[i]
    BY <2>1
  <2>4. ASSUME NEW i \in a..N PROVE g[i] = WalkStep(g, b, name, i)
    <3>1. \A j \in (i + 1)..N : f[j] = g[j]
      BY <1>0, <2>1, <2>3
    <3>2. i \in 0..N
      BY <1>0, <2>1
    <3>3. WalkStep(f, b, name, i) = WalkStep(g, b, name, i)
      <4> HIDE DEF g
      <4> QED
        BY <3>1, <3>2, WalkStepLocal
    <3>4. g[i] = WalkStep(f, b, name, i)
      <4>1. CASE i = a
        BY <4>1
      <4>2. CASE i # a
        <5>1. i \in (N - k)..N
          BY <1>0, <2>1, <4>2
        <5>2. f[i] = WalkStep(f, b, name, i)
          BY <2>2, <5>1 DEF IsWalk
        <5> QED
          BY <4>2, <5>2
      <4> QED
        BY <4>1, <4>2
    <3> QED
      BY <3>3, <3>4
  <2>5. IsWalk(g, b, a, name)
    <3>1. g = [i \in a..N |-> g[i]]
      OBVIOUS
    <3> HIDE DEF g, a
    <3> QED
      BY <2>4, <3>1 DEF IsWalk
  <2> QED
    BY <2>5
<1>3. P = Nat
  <2> HIDE DEF P
  <2>1. P \in SUBSET Nat
    BY DEF P
  <2> QED
    BY <1>1, <1>2, <2>1, NatAll
<1>4. N - start \in P /\ N - start <= N /\ N - (N - start) = start
  BY <1>0, <1>3
<1> QED
  BY <1>4

LEMMA VarAddrIsWalk ==
  ASSUME NEW b, NEW name, NEW start \in 0..(EnvLen + 2)
  PROVE  \E f : /\ \A i \in start..(EnvLen + 2) : f[i] = WalkStep(f, b, name, i)
                /\ get_var_addr(b, start, name) = f[start]
<1> DEFINE f == CHOOSE g : IsWalk(g, b, start, name)
<1>1. IsWalk(f, b, start, name)
  BY WalkExists
<1>2. get_var_addr(b, start, name) = f[start]
  BY DEF get_var_addr, IsWalk, WalkStep
<1> HIDE DEF f
<1>3. \A i \in start..(EnvLen + 2) : f[i] = WalkStep(f, b, name, i)
  BY <1>1 DEF IsWalk
<1> QED
  BY <1>2, <1>3

(* Between the start of a string and its end no string starts.             *)
LEMMA NoneBetween ==
  ASSUME NEW b, NEW m, Layout(b, m), NEW i \in 0..(m - 1), b[i] # NUL,
         NEW j \in Starts(b, m), j > i
  PROVE  j >= EndOf(b, i) + 1
<1>1. /\ EndOf(b, i) \in (i + 1)..(m - 1)
      /\ \A k \in i..(EndOf(b, i) - 1) : b[k] # NUL
  BY StringEnd
<1>2. j \in 0..(m - 1) /\ j # 0 /\ b[j - 1] = NUL /\ i \in Nat /\ m \in Nat
  BY LayoutSizes DEF Starts
<1>3. ~(j <= EndOf(b, i))
  <2> SUFFICES ASSUME j <= EndOf(b, i) PROVE FALSE
    OBVIOUS
  <2>1. j - 1 \in i..(EndOf(b, i) - 1)
    BY <1>1, <1>2
  <2> QED
    BY <1>1, <1>2, <2>1
<1> QED
  BY <1>1, <1>2, <1>3

LEMMA EmptyString ==
  ASSUME NEW b, NEW i \in 0..(EnvLen + 2), At(b, i) = NUL, NEW name \in Seq(Chars)
  PROVE  ~StartsWith(StringAt(b, i), name)
<1>1. EndOf(b, i) = i
  <2>1. i \in i..(EnvLen + 2) /\ \A j \in i..(i - 1) : At(b, j) # NUL
    BY Sizes
  <2> QED
    BY <2>1, EndOfIs
<1>2. StringAt(b, i) = <<>>
  <2>1. 1..(EndOf(b, i) - i) = {}
    BY <1>1
  <2> QED
    BY <2>1 DEF StringAt
<1>3. Len(name) \in Nat /\ Len(<<>>) = 0
  BY LenProperties, EmptySeq
<1> QED
  BY <1>2, <1>3 DEF StartsWith

Found(b, m, name, i, r) ==
    \/ r = NULL /\ \A j \in Starts(b, m) : j >= i => ~StartsWith(StringAt(b, j), name)
    \/ r \in Starts(b, m) /\ r >= i /\ StartsWith(StringAt(b, r), name)

LEMMA VarAddr ==
  ASSUME NEW b, NEW m, Layout(b, m), NEW name \in Seq(Chars),
         NEW start \in Starts(b, m) \cup {0}
  PROVE  /\ Found(b, m, name, start, get_var_addr(b, start, name))
         /\ start \in Starts(b, m) /\ StartsWith(StringAt(b, start), name)
              => get_var_addr(b, start, name) = start
<1>0. /\ m \in Nat /\ m >= 1 /\ m < EnvLen /\ EnvLen \in Nat /\ b[m] = NUL
      /\ (\A i \in 0..(EnvLen + 1) : At(b, i) = b[i]) /\ till = EnvLen /\ NULL = -1
  BY LayoutSizes DEF till, NULL
<1>1. start \in 0..(m - 1) /\ start \in 0..(EnvLen + 2) /\ start < till
  BY <1>0 DEF Starts
<1>2. PICK f : /\ \A i \in start..(EnvLen + 2) : f[i] = WalkStep(f, b, name, i)
               /\ get_var_addr(b, start, name) = f[start]
  BY <1>1, VarAddrIsWalk
<1>3. ASSUME NEW i \in start..m, b[i] = NUL PROVE f[i] = NULL
  <2>1. i \in 0..(EnvLen + 2) /\ i \in start..(EnvLen + 2) /\ At(b, i) = NUL
    BY <1>0, <1>1, <1>3
  <2> QED
    BY <1>2, <2>1, EmptyString, NextAtNUL DEF WalkStep
<1> DEFINE P == {i \in 0..m : i >= start /\ i \in Starts(b, m) \cup {m} => Found(b, m, name, i, f[i])}
<1>4. \A i \in 0..m : i \in P
  <2> SUFFICES ASSUME NEW i \in 0..m, \A j \in 0..m : j > i => j \in P,
                      i >= start, i \in Starts(b, m) \cup {m}
               PROVE  Found(b, m, name, i, f[i])
    <3> HIDE DEF Found
    <3>1. \A i \in 0..m : (\A j \in 0..m : j > i => j \in P) => i \in P
      OBVIOUS
    <3> HIDE DEF P
    <3> QED
      BY <1>0, <3>1, Downwards
  <2>1. CASE i = m
    <3>1. f[i] = NULL
      BY <1>0, <1>1, <1>3, <2>1
    <3>2. \A j \in Starts(b, m) : ~(j >= m)
      BY <1>0 DEF Starts
    <3> QED
      BY <2>1, <3>1, <3>2 DEF Found
  <2>2. CASE i \in Starts(b, m) /\ StartsWith(StringAt(b, i), name)
    <3>1. i \in start..(EnvLen + 2) /\ i < till /\ i >= i
      BY <1>0, <1>1, <2>2 DEF Starts
    <3>2. f[i] = i
      BY <1>2, <2>2, <3>1 DEF WalkStep
    <3> QED
      BY <2>2, <3>1, <3>2 DEF Found
  <2>3. CASE i \in Starts(b, m) /\ ~StartsWith(StringAt(b, i), name)
    <3> DEFINE n == EndOf(b, i) + 1
    <3>1. i \in 0..(m - 1) /\ b[i] # NUL
      BY <2>3 DEF Starts
    <3>2. /\ n \in (i + 2)..m /\ get_next_env_string(b, i) = n /\ (n = m \/ n \in Starts(b, m))
      <4>1. /\ EndOf(b, i) \in (i + 1)..(m - 1) /\ get_next_env_string(b, i) = n
            /\ n = m \/ n \in Starts(b, m)
        BY <3>1, StringEnd
      <4> QED
        BY <1>0, <4>1
    <3>3. \A j \in Starts(b, m) : j > i => j >= n
      BY <3>1, NoneBetween
    <3> HIDE DEF n
    <3>4. n \in 0..m /\ n > i /\ n >= start /\ n <= EnvLen + 2 /\ i \in start..(EnvLen + 2)
      BY <1>0, <1>1, <3>1, <3>2
    <3>5. f[i] = f[n]
      <4>1. ~(n = NULL \/ n > EnvLen + 2)
        BY <1>0, <3>4
      <4>2. f[i] = WalkStep(f, b, name, i)
        BY <1>2, <3>4
      <4> QED
        BY <2>3, <3>2, <4>1, <4>2 DEF WalkStep
    <3>6. Found(b, m, name, n, f[n])
      BY <3>2, <3>4
    <3>7. \A j \in Starts(b, m) : j \in Int /\ (j >= i => j = i \/ j >= n) /\ (j >= n => j >= i)
      <4>1. \A j \in Starts(b, m) : j \in Int
        BY DEF Starts
      <4> QED
        BY <3>1, <3>3, <3>4, <4>1
    <3> QED
      BY <2>3, <3>5, <3>6, <3>7 DEF Found
  <2> QED
    BY <2>1, <2>2, <2>3
<1>5. Found(b, m, name, start, f[start])
  <2>1. CASE start \in Starts(b, m)
    <3>1. start \in P
      BY <1>0, <1>1, <1>4
    <3> QED
      BY <1>1, <2>1, <3>1
  <2>2. CASE start \notin Starts(b, m)
    <3>1. start = 0 /\ b[0] = NUL
      BY <1>1, <2>2 DEF Starts
    <3>2. m = 1 /\ Starts(b, m) = {}
      BY <3>1 DEF Layout, Starts
    <3>3. f[start] = NULL
      BY <1>0, <1>3, <3>1
    <3> QED
      BY <3>2, <3>3 DEF Found
  <2> QED
    BY <2>1, <2>2
<1>6. start \in Starts(b, m) /\ StartsWith(StringAt(b, start), name) => f[start] = start
  BY <1>0, <1>1, <1>2 DEF WalkStep
<1> QED
  BY <1>2, <1>5, <1>6

-----------------------------------------------------------------------------
(***************************************************************************)
(* The strings a reader finds are those that start somewhere.              *)
(***************************************************************************)
ReadStep(f, b, i) ==
    IF At(b, i) = NUL THEN {}
    ELSE LET next == get_next_env_string(b, i)
         IN {i} \cup (IF next = NULL \/ next > EnvLen + 2 THEN {} ELSE f[next])
IsRead(f, b, start) == f = [i \in start..(EnvLen + 2) |-> ReadStep(f, b, i)]

LEMMA ReadStepLocal ==
  ASSUME NEW b, NEW i \in 0..(EnvLen + 2), NEW f, NEW g,
         \A j \in (i + 1)..(EnvLen + 2) : f[j] = g[j]
  PROVE  ReadStep(f, b, i) = ReadStep(g, b, i)
<1> DEFINE next == get_next_env_string(b, i)
<1>1. next = NULL \/ (next \in Nat /\ next > i)
  BY NextGrows, Zenon
<1>2. next = NULL \/ next > EnvLen + 2 \/ next \in (i + 1)..(EnvLen + 2)
  BY <1>1, Sizes
<1> HIDE DEF next
<1> QED
  BY <1>2 DEF ReadStep, next

LEMMA ReadExists ==
  ASSUME NEW b
  PROVE  \E f : IsRead(f, b, 0)
<1> DEFINE N == EnvLen + 2
           P == {k \in Nat : k <= N => \E f : IsRead(f, b, N - k)}
<1>0. N \in Nat
  BY Sizes
<1>1. 0 \in P
  <2> DEFINE f == [i \in N..N |-> ReadStep(<<>>, b, i)]
  <2>1. \A i \in N..N : ReadStep(f, b, i) = ReadStep(<<>>, b, i)
    <3> SUFFICES ASSUME NEW i \in N..N PROVE ReadStep(f, b, i) = ReadStep(<<>>, b, i)
      OBVIOUS
    <3>1. i \in 0..N /\ \A j \in (i + 1)..N : f[j] = <<>>[j]
      BY <1>0
    <3> HIDE DEF f
    <3> QED
      BY <3>1, ReadStepLocal
  <2>2. IsRead(f, b, N)
    BY <2>1 DEF IsRead
  <2>3. N - 0 = N
    BY <1>0
  <2> HIDE DEF f, N
  <2> QED
    BY <2>2, <2>3
<1>2. ASSUME NEW k \in P PROVE k + 1 \in P
  <2> SUFFICES ASSUME k + 1 <= N PROVE \E f : IsRead(f, b, N - (k + 1))
    OBVIOUS
  <2>1. k \in Nat /\ k <= N /\ N - (k + 1) \in 0..N /\ N - k = (N - (k + 1)) + 1
    BY <1>0
  <2>2. PICK f : IsRead(f, b, N - k)
    BY <2>1
  <2> DEFINE a == N - (k + 1)
             g == [i \in a..N |-> IF i = a THEN ReadStep(f, b, i) ELSE f[i]]
  <2>3. \A i \in (a + 1)..N : g[i] = f[i]
    BY <2>1
  <2>4. ASSUME NEW i \in a..N PROVE g[i] = ReadStep(g, b, i)
    <3>1. \A j \in (i + 1)..N : f[j] = g[j]
      BY <1>0, <2>1, <2>3
    <3>2. i \in 0..N
      BY <1>0, <2>1
    <3>3. ReadStep(f, b, i) = ReadStep(g, b, i)
      <4> HIDE DEF g
      <4> QED
        BY <3>1, <3>2, ReadStepLocal
    <3>4. g[i] = ReadStep(f, b, i)
      <4>1. CASE i = a
        BY <4>1
      <4>2. CASE i # a
        <5>1. i \in (N - k)..N
          BY <1>0, <2>1, <4>2
        <5>2. f[i] = ReadStep(f, b, i)
          BY <2>2, <5>1 DEF IsRead
        <5> QED
          BY <4>2, <5>2
      <4> QED
        BY <4>1, <4>2
    <3> QED
      BY <3>3, <3>4
  <2>5. IsRead(g, b, a)
    <3>1. g = [i \in a..N |-> g[i]]
      OBVIOUS
    <3> HIDE DEF g, a
    <3> QED
      BY <2>4, <3>1 DEF IsRead
  <2> QED
    BY <2>5
<1>3. P = Nat
  <2> HIDE DEF P
  <2>1. P \in SUBSET Nat
    BY DEF P
  <2> QED
    BY <1>1, <1>2, <2>1, NatAll
<1>4. N \in P /\ N <= N /\ N - N = 0
  BY <1>0, <1>3
<1> QED
  BY <1>4

Strings(b, m) == {StringAt(b, i) : i \in Starts(b, m)}

LEMMA Read ==
  ASSUME NEW b, NEW m, Layout(b, m)
  PROVE  StringsIn(b) = Strings(b, m)
<1>0. /\ m \in Nat /\ m >= 1 /\ m < EnvLen /\ EnvLen \in Nat /\ b[m] = NUL
      /\ (\A i \in 0..(EnvLen + 1) : At(b, i) = b[i]) /\ NULL = -1
  BY LayoutSizes DEF NULL
<1> DEFINE f == CHOOSE g : IsRead(g, b, 0)
<1>1. IsRead(f, b, 0)
  BY ReadExists
<1>2. StringsIn(b) = {StringAt(b, i) : i \in f[0]}
  BY DEF StringsIn, IsRead, ReadStep
<1> HIDE DEF f
<1>3. \A i \in 0..(EnvLen + 2) : f[i] = ReadStep(f, b, i)
  BY <1>1 DEF IsRead
<1> DEFINE From(i) == {j \in Starts(b, m) : j >= i}
           P == {i \in 0..m : i \in Starts(b, m) \cup {m} => f[i] = From(i)}
<1>4. \A i \in 0..m : b[i] = NUL => f[i] = {}
  <2> SUFFICES ASSUME NEW i \in 0..m, b[i] = NUL PROVE f[i] = {}
    OBVIOUS
  <2>1. i \in 0..(EnvLen + 2) /\ At(b, i) = NUL
    BY <1>0
  <2> QED
    BY <1>3, <2>1 DEF ReadStep
<1>5. \A i \in 0..m : i \in P
  <2> SUFFICES ASSUME NEW i \in 0..m, \A j \in 0..m : j > i => j \in P,
                      i \in Starts(b, m) \cup {m}
               PROVE  f[i] = From(i)
    <3> HIDE DEF From
    <3>1. \A i \in 0..m : (\A j \in 0..m : j > i => j \in P) => i \in P
      OBVIOUS
    <3> HIDE DEF P
    <3> QED
      BY <1>0, <3>1, Downwards
  <2>1. CASE i = m
    <3>1. f[i] = {}
      BY <1>0, <1>4, <2>1
    <3>2. \A j \in Starts(b, m) : ~(j >= m)
      BY <1>0 DEF Starts
    <3> QED
      BY <2>1, <3>1, <3>2
  <2>2. CASE i \in Starts(b, m)
    <3> DEFINE n == EndOf(b, i) + 1
    <3>1. i \in 0..(m - 1) /\ b[i] # NUL
      BY <2>2 DEF Starts
    <3>2. /\ n \in (i + 2)..m /\ get_next_env_string(b, i) = n /\ (n = m \/ n \in Starts(b, m))
      <4>1. /\ EndOf(b, i) \in (i + 1)..(m - 1) /\ get_next_env_string(b, i) = n
            /\ n = m \/ n \in Starts(b, m)
        BY <3>1, StringEnd
      <4> QED
        BY <1>0, <4>1
    <3>3. \A j \in Starts(b, m) : j > i => j >= n
      BY <3>1, NoneBetween
    <3> HIDE DEF n
    <3>4. n \in 0..m /\ n > i /\ n <= EnvLen + 2 /\ i \in 0..(EnvLen + 2) /\ At(b, i) # NUL
      BY <1>0, <3>1, <3>2
    <3>5. f[i] = {i} \cup f[n]
      <4>1. ~(n = NULL \/ n > EnvLen + 2)
        BY <1>0, <3>4
      <4>2. f[i] = ReadStep(f, b, i)
        BY <1>3, <3>4
      <4> QED
        BY <3>2, <3>4, <4>1, <4>2 DEF ReadStep
    <3>6. f[n] = From(n)
      BY <3>2, <3>4
    <3>7. \A j \in Starts(b, m) : j \in Int /\ (j >= i => j = i \/ j >= n) /\ (j >= n => j >= i)
      <4>1. \A j \in Starts(b, m) : j \in Int
        BY DEF Starts
      <4> QED
        BY <3>1, <3>3, <3>4, <4>1
    <3> QED
      BY <2>2, <3>5, <3>6, <3>7
  <2> QED
    BY <2>1, <2>2
<1>6. f[0] = Starts(b, m)
  <2>1. \A j \in Starts(b, m) : j >= 0
    BY DEF Starts
  <2>2. CASE 0 \in Starts(b, m)
    <3>1. 0 \in P
      BY <1>0, <1>5
    <3> QED
      BY <2>1, <2>2, <3>1
  <2>3. CASE 0 \notin Starts(b, m)
    <3>1. b[0] = NUL
      BY <1>0, <2>3 DEF Starts
    <3>2. Starts(b, m) = {}
      BY <3>1 DEF Layout, Starts
    <3> QED
      BY <1>0, <1>4, <3>1, <3>2
  <2> QED
    BY <2>2, <2>3
<1> QED
  BY <1>2, <1>6 DEF Strings

(* The same bytes, d further on: the same string.                          *)
LEMMA SameString ==
  ASSUME NEW b, NEW c, NEW m, Layout(b, m), NEW d \in Nat, NEW i \in Nat,
         i + d \in 0..(m - 1), b[i + d] # NUL,
         \A j \in (i + d)..EndOf(b, i + d) : At(c, j - d) = b[j]
  PROVE  StringAt(c, i) = StringAt(b, i + d)
<1> DEFINE e == EndOf(b, i + d)
<1>0. m \in Nat /\ m < EnvLen /\ EnvLen \in Nat /\ \A j \in 0..(EnvLen + 1) : At(b, j) = b[j]
  BY LayoutSizes
<1>1. e \in (i + d + 1)..(m - 1) /\ b[e] = NUL /\ \A j \in (i + d)..(e - 1) : b[j] # NUL
  BY StringEnd
<1>2. \A j \in (i + d)..e : At(c, j - d) = b[j]
  OBVIOUS
<1> HIDE DEF e
<1>3. EndOf(c, i) = e - d
  <2>1. e - d \in i..(EnvLen + 2) /\ i \in 0..(EnvLen + 2)
    BY <1>0, <1>1
  <2>2. At(c, e - d) = NUL
    <3>1. e \in (i + d)..e
      BY <1>0, <1>1
    <3> QED
      BY <1>1, <1>2, <3>1
  <2>3. ASSUME NEW j \in i..((e - d) - 1) PROVE At(c, j) # NUL
    <3>1. j + d \in (i + d)..(e - 1) /\ j + d \in (i + d)..e /\ (j + d) - d = j
      BY <1>0, <1>1
    <3>2. At(c, (j + d) - d) = b[j + d] /\ b[j + d] # NUL
      BY <1>1, <1>2, <3>1
    <3> QED
      BY <3>1, <3>2
  <2> QED
    BY <2>1, <2>2, <2>3, EndOfIs
<1>4. \A k \in 1..(e - (i + d)) : c[i + k - 1] = b[(i + d) + k - 1]
  <2> SUFFICES ASSUME NEW k \in 1..(e - (i + d)) PROVE c[i + k - 1] = b[(i + d) + k - 1]
    OBVIOUS
  <2> DEFINE j == (i + d) + k - 1
  <2>1. j \in (i + d)..(e - 1) /\ j \in (i + d)..e /\ j - d = i + k - 1 /\ j - d \in 0..(EnvLen + 1)
    BY <1>0, <1>1
  <2> HIDE DEF j
  <2>2. At(c, j - d) = b[j]
    BY <1>2, <2>1
  <2>3. At(c, j - d) = c[j - d]
    BY <2>1, Sizes
  <2> QED
    BY <2>1, <2>2, <2>3 DEF j
<1>5. (e - d) - i = e - (i + d)
  BY <1>0, <1>1
<1>6. StringAt(c, i) = [k \in 1..(e - (i + d)) |-> c[i + k - 1]]
  BY <1>3, <1>5 DEF StringAt
<1>7. StringAt(b, i + d) = [k \in 1..(e - (i + d)) |-> b[(i + d) + k - 1]]
  BY DEF StringAt, e
<1> QED
  BY <1>4, <1>6, <1>7

-----------------------------------------------------------------------------
(***************************************************************************)
(* Removing the string at a: what follows it moves to its place.           *)
(***************************************************************************)
LEMMA RemovedBytes ==
  ASSUME NEW b, NEW m, Layout(b, m), NEW a \in 0..(m - 1), NEW v \in (a + 1)..m
  PROVE  LET c == Removed(b, a, v, m) IN
         /\ c \in Buffers
         /\ \A i \in 0..(a - 1) : c[i] = b[i]
         /\ \A i \in a..(m - (v - a)) : c[i] = b[i + (v - a)]
         /\ \A i \in (m - (v - a) + 1)..m : c[i] = NUL
         /\ \A i \in (m + 1)..(EnvLen + 1) : c[i] = b[i]
         /\ \A i \in 0..(EnvLen + 1) : At(c, i) = c[i]
<1> DEFINE c == Removed(b, a, v, m)
<1>0. m \in Nat /\ m < EnvLen /\ EnvLen \in Nat /\ b \in Buffers
  BY LayoutSizes DEF Layout
<1>1. Cells = 0..(EnvLen + 1)
  BY DEF Cells
<1>2. \A i \in Cells : c[i] = IF i \notin a..m THEN b[i]
                              ELSE IF i + v - a <= m THEN b[i + v - a] ELSE NUL
  BY DEF Removed
<1>3. c \in Buffers
  <2>1. \A i \in Cells : i + v - a <= m /\ i \in a..m => i + v - a \in Cells
    BY <1>0, <1>1
  <2>2. \A i \in Cells : b[i] \in {NUL} \cup Chars
    BY <1>0 DEF Buffers
  <2>3. \A i \in Cells : (IF i \notin a..m THEN b[i] ELSE IF i + v - a <= m THEN b[i + v - a] ELSE NUL)
                           \in {NUL} \cup Chars
    BY <2>1, <2>2
  <2> QED
    BY <2>3 DEF Removed, Buffers
<1> HIDE DEF c
<1>4. ASSUME NEW i \in a..(m - (v - a)) PROVE c[i] = b[i + (v - a)]
  <2>1. i \in Cells /\ i \in a..m /\ i + v - a <= m /\ i + v - a = i + (v - a)
    BY <1>0, <1>1
  <2> QED
    BY <1>2, <2>1
<1>5. \A i \in 0..(a - 1) : c[i] = b[i]
  BY <1>0, <1>1, <1>2
<1>6. \A i \in (m - (v - a) + 1)..m : c[i] = NUL
  <2> SUFFICES ASSUME NEW i \in (m - (v - a) + 1)..m PROVE c[i] = NUL
    OBVIOUS
  <2>1. i \in Cells /\ i \in a..m /\ ~(i + v - a <= m)
    BY <1>0, <1>1
  <2> QED
    BY <1>2, <2>1
<1>7. \A i \in (m + 1)..(EnvLen + 1) : c[i] = b[i]
  BY <1>0, <1>1, <1>2
<1> QED
  BY <1>3, <1>4, <1>5, <1>6, <1>7, Sizes DEF c

Shifted(b, c, m, a, d) ==
    /\ c \in Buffers
    /\ \A i \in 0..(a - 1) : c[i] = b[i]
    /\ \A i \in a..(m - d) : c[i] = b[i + d]
    /\ \A i \in (m - d + 1)..m : c[i] = NUL
    /\ \A i \in (m + 1)..(EnvLen + 1) : c[i] = b[i]

(* What is known of the string at a and the bytes with d of them gone.     *)
Gone(b, c, m, a, d) ==
    /\ Layout(b, m) /\ Shifted(b, c, m, a, d)
    /\ a \in Starts(b, m) /\ d \in Nat /\ d >= 2 /\ a + d = EndOf(b, a) + 1

LEMMA GoneFacts ==
  ASSUME NEW b, NEW c, NEW m, NEW a, NEW d, Gone(b, c, m, a, d)
  PROVE  /\ a \in 0..(m - 1) /\ m \in Nat /\ m >= 1 /\ m < EnvLen /\ EnvLen \in Nat
         /\ d \in Nat /\ d >= 2 /\ a + d <= m
         /\ b[a] # NUL /\ (a = 0 \/ b[a - 1] = NUL)
         /\ b[a + d - 1] = NUL /\ b[m] = NUL /\ b[m - 1] = NUL
         /\ a + d = m \/ b[a + d] # NUL
         /\ a = 0 \/ b[0] # NUL
<1>1. a \in 0..(m - 1) /\ b[a] # NUL /\ (a = 0 \/ b[a - 1] = NUL)
  BY DEF Gone, Starts
<1>2. Layout(b, m)
  BY DEF Gone
<1>3. m \in Nat /\ m >= 1 /\ m < EnvLen /\ EnvLen \in Nat /\ b[m] = NUL /\ b[m - 1] = NUL
  BY <1>2, LayoutSizes DEF Layout
<1>4. /\ EndOf(b, a) \in (a + 1)..(m - 1) /\ b[EndOf(b, a)] = NUL
      /\ EndOf(b, a) + 1 = m \/ EndOf(b, a) + 1 \in Starts(b, m)
  BY <1>1, <1>2, StringEnd
<1>5. a + d <= m /\ EndOf(b, a) = a + d - 1 /\ (a + d = m \/ a + d \in Starts(b, m)) /\ d \in Nat /\ d >= 2
  BY <1>1, <1>3, <1>4 DEF Gone
<1>6. a + d = m \/ b[a + d] # NUL
  BY <1>5 DEF Starts
<1>7. a = 0 \/ b[0] # NUL
  BY <1>1, <1>2 DEF Layout
<1> QED
  BY <1>1, <1>3, <1>4, <1>5, <1>6, <1>7

EndAfter(m, d) == IF m = d THEN 1 ELSE m - d

LEMMA GoneLayout ==
  ASSUME NEW b, NEW c, NEW m, NEW a, NEW d, Gone(b, c, m, a, d)
  PROVE  Layout(c, EndAfter(m, d))
<1> DEFINE n == EndAfter(m, d)
<1>1. /\ a \in 0..(m - 1) /\ m \in Nat /\ m >= 1 /\ m < EnvLen /\ EnvLen \in Nat
      /\ d \in Nat /\ d >= 2 /\ a + d <= m
      /\ b[a] # NUL /\ (a = 0 \/ b[a - 1] = NUL)
      /\ b[a + d - 1] = NUL /\ b[m] = NUL /\ b[m - 1] = NUL
      /\ (a + d = m \/ b[a + d] # NUL) /\ (a = 0 \/ b[0] # NUL)
  BY GoneFacts
<1>2. /\ c \in Buffers
      /\ \A i \in 0..(a - 1) : c[i] = b[i]
      /\ \A i \in a..(m - d) : c[i] = b[i + d]
      /\ \A i \in (m - d + 1)..m : c[i] = NUL
      /\ \A i \in (m + 1)..(EnvLen + 1) : c[i] = b[i]
  BY DEF Gone, Shifted
<1>3. /\ \A p \in 1..(m - 1) : b[p - 1] # NUL \/ b[p] # NUL
      /\ \A i \in m..(EnvLen - 1) : b[i] = NUL
  BY DEF Gone, Layout
<1>4. n \in 1..(EnvLen - 1) /\ n <= m /\ (m # d => n = m - d) /\ (m = d => n = 1 /\ a = 0)
  BY <1>1 DEF EndAfter
<1> HIDE DEF n
<1>5. c[n - 1] = NUL
  <2>1. CASE m = d
    <3>1. 0 \in a..(m - d) /\ 0 + d = m /\ n - 1 = 0
      BY <1>1, <1>4, <2>1
    <3> QED
      BY <1>1, <1>2, <3>1
  <2>2. CASE m # d /\ a = m - d
    <3>1. n - 1 = a - 1 /\ a # 0 /\ a - 1 \in 0..(a - 1)
      BY <1>1, <1>4, <2>2
    <3> QED
      BY <1>1, <1>2, <3>1
  <2>3. CASE m # d /\ a # m - d
    <3>1. n - 1 \in a..(m - d) /\ (n - 1) + d = m - 1
      BY <1>1, <1>4, <2>3
    <3> QED
      BY <1>1, <1>2, <3>1
  <2> QED
    BY <2>1, <2>2, <2>3
<1>6. ASSUME NEW p \in 1..(n - 1) PROVE c[p - 1] # NUL \/ c[p] # NUL
  <2>0. p \in Nat /\ p >= 1 /\ p < m - d /\ m # d
    BY <1>1, <1>4
  <2>1. CASE p < a
    <3>1. p \in 0..(a - 1) /\ p - 1 \in 0..(a - 1) /\ p \in 1..(m - 1)
      BY <1>1, <2>0, <2>1
    <3> QED
      BY <1>2, <1>3, <3>1
  <2>2. CASE p = a
    <3>1. p \in a..(m - d) /\ p + d = a + d /\ a + d # m
      BY <1>1, <2>0, <2>2
    <3> QED
      BY <1>1, <1>2, <3>1
  <2>3. CASE p > a
    <3>1. /\ p \in a..(m - d) /\ p - 1 \in a..(m - d) /\ p + d \in 1..(m - 1)
          /\ (p - 1) + d = (p + d) - 1
      BY <1>1, <2>0, <2>3
    <3> QED
      BY <1>2, <1>3, <3>1
  <2> QED
    BY <1>1, <2>0, <2>1, <2>2, <2>3
<1>7. ASSUME NEW i \in n..(EnvLen - 1) PROVE c[i] = NUL
  <2>1. CASE i > m
    <3>1. i \in (m + 1)..(EnvLen + 1) /\ i \in m..(EnvLen - 1)
      BY <1>1, <1>4, <2>1
    <3> QED
      BY <1>2, <1>3, <3>1
  <2>2. CASE i <= m /\ i = m - d
    <3>1. i \in a..(m - d) /\ i + d = m
      BY <1>1, <2>2
    <3> QED
      BY <1>1, <1>2, <3>1
  <2>3. CASE i <= m /\ i # m - d
    <3>1. i \in (m - d + 1)..m
      BY <1>1, <1>4, <2>3
    <3> QED
      BY <1>2, <3>1
  <2> QED
    BY <1>1, <1>4, <2>1, <2>2, <2>3
<1>8. ASSUME c[0] = NUL PROVE n = 1
  <2>1. a = 0
    <3> SUFFICES ASSUME a # 0 PROVE FALSE
      OBVIOUS
    <3>1. 0 \in 0..(a - 1)
      BY <1>1
    <3> QED
      BY <1>1, <1>2, <1>8, <3>1
  <2>2. c[0] = b[d]
    <3>1. 0 \in a..(m - d) /\ 0 + d = d
      BY <1>1, <2>1
    <3> QED
      BY <1>2, <3>1
  <2>3. m = d
    <3>1. a + d = d
      BY <1>1, <2>1
    <3> QED
      BY <1>1, <1>8, <2>2, <3>1
  <2> QED
    BY <1>4, <2>3
<1> QED
  BY <1>2, <1>4, <1>5, <1>6, <1>7, <1>8 DEF Layout, n

LEMMA GoneStarts ==
  ASSUME NEW b, NEW c, NEW m, NEW a, NEW d, Gone(b, c, m, a, d), NEW i \in Nat
  PROVE  /\ i < a => (i \in Starts(c, EndAfter(m, d)) <=> i \in Starts(b, m))
         /\ i >= a => (i \in Starts(c, EndAfter(m, d)) <=> i + d \in Starts(b, m))
<1> DEFINE n == EndAfter(m, d)
<1>1. /\ a \in 0..(m - 1) /\ m \in Nat /\ m >= 1 /\ m < EnvLen /\ EnvLen \in Nat
      /\ d \in Nat /\ d >= 2 /\ a + d <= m
      /\ b[a] # NUL /\ (a = 0 \/ b[a - 1] = NUL)
      /\ b[a + d - 1] = NUL /\ b[m] = NUL
  BY GoneFacts
<1>2. /\ \A j \in 0..(a - 1) : c[j] = b[j]
      /\ \A j \in a..(m - d) : c[j] = b[j + d]
      /\ \A j \in (m - d + 1)..m : c[j] = NUL
  BY DEF Gone, Shifted
<1>3. n \in Nat /\ n <= m /\ (m # d => n = m - d) /\ (m = d => n = 1 /\ a = 0)
  BY <1>1 DEF EndAfter
<1> HIDE DEF n
<1>4. ASSUME i < a PROVE i \in Starts(c, n) <=> i \in Starts(b, m)
  <2>1. i \in 0..(n - 1) /\ i \in 0..(m - 1) /\ i \in 0..(a - 1) /\ (i = 0 \/ i - 1 \in 0..(a - 1))
    BY <1>1, <1>3, <1>4
  <2>2. c[i] = b[i] /\ (i = 0 \/ c[i - 1] = b[i - 1])
    BY <1>2, <2>1
  <2> QED
    BY <2>1, <2>2 DEF Starts
<1>5. ASSUME i >= a PROVE i \in Starts(c, n) <=> i + d \in Starts(b, m)
  <2>1. CASE i > m - d
    <3>1. i + d \notin 0..(m - 1)
      BY <1>1, <2>1
    <3>2. i \in 0..(n - 1) => FALSE
      BY <1>1, <1>3, <2>1
    <3> QED
      BY <3>1, <3>2 DEF Starts
  <2>2. CASE i = m - d
    <3>1. i \in a..(m - d) /\ i + d = m /\ m \notin 0..(m - 1)
      BY <1>1, <1>5, <2>2
    <3>2. c[i] = NUL
      BY <1>1, <1>2, <3>1
    <3> QED
      BY <3>1, <3>2 DEF Starts
  <2>3. CASE i < m - d
    <3>1. /\ i \in a..(m - d) /\ i \in 0..(n - 1) /\ i + d \in 0..(m - 1) /\ i + d # 0
          /\ (i + d) - 1 = i + d - 1
      BY <1>1, <1>3, <1>5, <2>3
    <3>2. c[i] = b[i + d]
      BY <1>2, <3>1
    <3>3. (i = 0 \/ c[i - 1] = NUL) <=> b[(i + d) - 1] = NUL
      <4>1. CASE i = a
        <5>1. a = 0 \/ (i - 1 \in 0..(a - 1) /\ i - 1 = a - 1)
          BY <1>1, <4>1
        <5>2. i = 0 \/ c[i - 1] = NUL
          BY <1>1, <1>2, <4>1, <5>1
        <5> QED
          BY <1>1, <3>1, <4>1, <5>2
      <4>2. CASE i # a
        <5>1. i # 0 /\ i - 1 \in a..(m - d) /\ (i - 1) + d = (i + d) - 1
          BY <1>1, <1>5, <2>3, <4>2
        <5> QED
          BY <1>2, <5>1
      <4> QED
        BY <4>1, <4>2
    <3> QED
      BY <3>1, <3>2, <3>3 DEF Starts
  <2> QED
    BY <1>1, <2>1, <2>2, <2>3
<1> QED
  BY <1>4, <1>5 DEF n

LEMMA GoneString ==
  ASSUME NEW b, NEW c, NEW m, NEW a, NEW d, Gone(b, c, m, a, d),
         NEW i \in Starts(c, EndAfter(m, d))
  PROVE  LET j == IF i < a THEN i ELSE i + d
         IN  j \in Starts(b, m) /\ j # a /\ StringAt(c, i) = StringAt(b, j)
<1>1. /\ a \in 0..(m - 1) /\ m \in Nat /\ m >= 1 /\ m < EnvLen /\ EnvLen \in Nat
      /\ d \in Nat /\ d >= 2 /\ a + d <= m
      /\ b[a] # NUL /\ (a = 0 \/ b[a - 1] = NUL)
      /\ Layout(b, m)
  BY GoneFacts DEF Gone
<1>2. /\ \A j \in 0..(a - 1) : c[j] = b[j]
      /\ \A j \in a..(m - d) : c[j] = b[j + d]
  BY DEF Gone, Shifted
<1>3. i \in Nat
  BY <1>1 DEF Starts, EndAfter
<1>4. \A j \in 0..(EnvLen + 1) : At(c, j) = c[j]
  BY Sizes
<1>5. CASE i < a
  <2>1. i \in Starts(b, m)
    BY <1>3, <1>5, GoneStarts
  <2>2. i + 0 = i /\ i \in 0..(m - 1) /\ b[i] # NUL /\ a # 0
    BY <1>1, <1>3, <1>5, <2>1 DEF Starts
  <2>3. EndOf(b, i) \in (i + 1)..(m - 1) /\ \A j \in i..(EndOf(b, i) - 1) : b[j] # NUL
    BY <1>1, <2>2, StringEnd
  <2>4. EndOf(b, i) <= a - 1
    <3> SUFFICES ASSUME ~(EndOf(b, i) <= a - 1) PROVE FALSE
      OBVIOUS
    <3>1. a - 1 \in i..(EndOf(b, i) - 1)
      BY <1>1, <1>3, <1>5, <2>3
    <3> QED
      BY <1>1, <2>2, <2>3, <3>1
  <2>5. ASSUME NEW j \in i..EndOf(b, i) PROVE At(c, j - 0) = b[j]
    <3>1. j \in 0..(a - 1) /\ j \in 0..(EnvLen + 1) /\ j - 0 = j
      BY <1>1, <1>3, <2>3, <2>4
    <3> QED
      BY <1>2, <1>4, <3>1
  <2>6. StringAt(c, i) = StringAt(b, i + 0)
    <3>1. 0 \in Nat /\ i + 0 \in 0..(m - 1) /\ b[i + 0] # NUL
          /\ \A j \in (i + 0)..EndOf(b, i + 0) : At(c, j - 0) = b[j]
      BY <2>2, <2>5
    <3> QED
      BY <1>1, <1>3, <3>1, SameString
  <2> QED
    BY <1>1, <1>5, <2>1, <2>2, <2>6
<1>6. CASE ~(i < a)
  <2>1. i + d \in Starts(b, m)
    BY <1>1, <1>3, <1>6, GoneStarts
  <2>2. i + d \in 0..(m - 1) /\ b[i + d] # NUL
    BY <2>1 DEF Starts
  <2>3. EndOf(b, i + d) \in (i + d + 1)..(m - 1)
    BY <1>1, <2>2, StringEnd
  <2>4. ASSUME NEW j \in (i + d)..EndOf(b, i + d) PROVE At(c, j - d) = b[j]
    <3>1. j - d \in a..(m - d) /\ (j - d) + d = j /\ j - d \in 0..(EnvLen + 1)
      BY <1>1, <1>3, <1>6, <2>3
    <3> QED
      BY <1>2, <1>4, <3>1
  <2>5. StringAt(c, i) = StringAt(b, i + d)
    <3>1. d \in Nat /\ i + d \in 0..(m - 1) /\ b[i + d] # NUL
          /\ \A j \in (i + d)..EndOf(b, i + d) : At(c, j - d) = b[j]
      BY <1>1, <2>2, <2>4
    <3>2. Layout(b, m)
      BY <1>1
    <3> QED
      BY <1>3, <3>1, <3>2, SameString
  <2>6. i + d # a
    BY <1>1, <1>3, <1>6
  <2> QED
    BY <1>6, <2>1, <2>5, <2>6
<1> QED
  BY <1>5, <1>6

-----------------------------------------------------------------------------
(***************************************************************************)
(* A buffer that holds variables, no two of one name.                      *)
(***************************************************************************)
WF(b, m) ==
    /\ Layout(b, m)
    /\ \A i \in Starts(b, m) : StringAt(b, i) \in VarStrings
    /\ \A i, j \in Starts(b, m) :
          get_var_name(StringAt(b, i)) = get_var_name(StringAt(b, j)) => i = j

Without(strings, name) == {t \in strings : get_var_name(t) # name}

(* With the string at a gone, the others are there and still differ.       *)
LEMMA GoneVariable ==
  ASSUME NEW b, NEW c, NEW m, NEW a, NEW d, Gone(b, c, m, a, d), WF(b, m)
  PROVE  /\ WF(c, EndAfter(m, d))
         /\ Strings(c, EndAfter(m, d)) = Without(Strings(b, m), get_var_name(StringAt(b, a)))
         /\ c[EnvLen] = b[EnvLen] /\ c[EnvLen + 1] = b[EnvLen + 1]
<1> DEFINE n == EndAfter(m, d)
           J(i) == IF i < a THEN i ELSE i + d
<1>1. /\ a \in 0..(m - 1) /\ m \in Nat /\ m >= 1 /\ m < EnvLen /\ EnvLen \in Nat
      /\ d \in Nat /\ d >= 2 /\ a + d <= m /\ b[a] # NUL
  BY GoneFacts
<1>2. Layout(b, m) /\ a \in Starts(b, m) /\ a + d = EndOf(b, a) + 1
  BY DEF Gone
<1>3. \A i \in Starts(c, n) : J(i) \in Starts(b, m) /\ J(i) # a /\ StringAt(c, i) = StringAt(b, J(i))
  BY GoneString
<1>4. \A i \in Starts(c, n) : i \in Nat
  BY <1>1 DEF Starts, EndAfter
<1>5. \A i, k \in Starts(c, n) : J(i) = J(k) => i = k
  BY <1>1, <1>4
<1>6. ASSUME NEW j \in Starts(b, m), j # a PROVE \E i \in Starts(c, n) : J(i) = j
  <2>1. j \in Nat
    BY <1>1 DEF Starts
  <2>2. CASE j < a
    <3>1. j \in Starts(c, n)
      BY <2>1, <2>2, GoneStarts
    <3> QED
      BY <2>2, <3>1
  <2>3. CASE j > a
    <3>1. j >= a + d
      BY <1>1, <1>2, <2>3, NoneBetween
    <3>2. j - d \in Nat /\ j - d >= a /\ (j - d) + d = j
      BY <1>1, <2>1, <3>1
    <3>3. j - d \in Starts(c, n)
      BY <3>2, GoneStarts
    <3> QED
      BY <1>1, <3>2, <3>3
  <2> QED
    BY <1>1, <1>6, <2>1, <2>2, <2>3
<1> HIDE DEF J, n
<1>7. /\ \A i \in Starts(b, m) : StringAt(b, i) \in VarStrings
      /\ \A i, j \in Starts(b, m) :
            get_var_name(StringAt(b, i)) = get_var_name(StringAt(b, j)) => i = j
  BY DEF WF
<1>8. WF(c, n)
  <2>1. Layout(c, n)
    BY GoneLayout DEF n
  <2>2. \A i \in Starts(c, n) : StringAt(c, i) \in VarStrings
    BY <1>3, <1>7
  <2>3. ASSUME NEW i \in Starts(c, n), NEW k \in Starts(c, n),
               get_var_name(StringAt(c, i)) = get_var_name(StringAt(c, k))
        PROVE  i = k
    <3>1. J(i) = J(k)
      BY <1>3, <1>7, <2>3
    <3> QED
      BY <1>5, <3>1
  <2> QED
    BY <2>1, <2>2, <2>3 DEF WF
<1>9. Strings(c, n) = Without(Strings(b, m), get_var_name(StringAt(b, a)))
  <2>1. ASSUME NEW i \in Starts(c, n)
        PROVE  /\ StringAt(c, i) \in Strings(b, m)
               /\ get_var_name(StringAt(c, i)) # get_var_name(StringAt(b, a))
    BY <1>2, <1>3, <1>7 DEF Strings
  <2>2. ASSUME NEW j \in Starts(b, m),
               get_var_name(StringAt(b, j)) # get_var_name(StringAt(b, a))
        PROVE  StringAt(b, j) \in Strings(c, n)
    <3>1. j # a
      BY <2>2
    <3>2. PICK i \in Starts(c, n) : J(i) = j
      BY <1>6, <3>1
    <3> QED
      BY <1>3, <3>2 DEF Strings
  <2>3. Strings(c, n) \subseteq Without(Strings(b, m), get_var_name(StringAt(b, a)))
    BY <2>1 DEF Strings, Without
  <2>4. Without(Strings(b, m), get_var_name(StringAt(b, a))) \subseteq Strings(c, n)
    <3> SUFFICES ASSUME NEW t \in Strings(b, m), get_var_name(t) # get_var_name(StringAt(b, a))
                 PROVE  t \in Strings(c, n)
      BY DEF Without
    <3>1. PICK j \in Starts(b, m) : t = StringAt(b, j)
      BY DEF Strings
    <3> QED
      BY <2>2, <3>1
  <2> QED
    BY <2>3, <2>4
<1>10. c[EnvLen] = b[EnvLen] /\ c[EnvLen + 1] = b[EnvLen + 1]
  <2>1. EnvLen \in (m + 1)..(EnvLen + 1) /\ EnvLen + 1 \in (m + 1)..(EnvLen + 1)
    BY <1>1
  <2> QED
    BY <2>1 DEF Gone, Shifted
<1> QED
  BY <1>8, <1>9, <1>10 DEF n

(***************************************************************************)
(* What remove_var does: nothing when there is no such variable, else it   *)
(* takes it out, and the end mark moves to the front.                      *)
(***************************************************************************)
Lost(b, m, c, k, name) ==
    /\ WF(c, k) /\ k <= m
    /\ Strings(c, k) = Without(Strings(b, m), name)
    /\ c[EnvLen] = b[EnvLen] /\ c[EnvLen + 1] = b[EnvLen + 1]

LEMMA NameIsSeq ==
  ASSUME NEW name \in Names
  PROVE  name \in Seq(Chars)
  BY NameOf DEF Names

LEMMA HasName ==
  ASSUME NEW t \in VarStrings, NEW name \in Names
  PROVE  StartsWith(t, name) <=> get_var_name(t) = name
  BY StartsWithName DEF Names

LEMMA RemoveVar ==
  ASSUME NEW b, NEW m, WF(b, m), NEW name \in Names, NEW start \in Starts(b, m) \cup {0}
  PROVE  \/ /\ remove_var(b, start, name) = [buf |-> b, ret |-> 0]
            /\ \A j \in Starts(b, m) : j >= start => get_var_name(StringAt(b, j)) # name
         \/ /\ remove_var(b, start, name).ret = 1
            /\ \E k : Lost(b, m, remove_var(b, start, name).buf, k, name)
            /\ \E t \in Strings(b, m) : get_var_name(t) = name
<1> DEFINE addr == get_var_addr(b, start, name)
           env_end == get_end_mark(b, addr)
           var_end == get_next_env_string(b, addr)
<1>0. /\ Layout(b, m) /\ \A i \in Starts(b, m) : StringAt(b, i) \in VarStrings
      /\ m \in Nat /\ m >= 1 /\ m < EnvLen /\ EnvLen \in Nat
  BY LayoutSizes DEF WF
<1>1. Found(b, m, name, start, addr)
  BY <1>0, NameIsSeq, VarAddr
<1>2. remove_var(b, start, name) =
        IF addr = NULL \/ env_end = NULL \/ var_end = NULL
        THEN [buf |-> b, ret |-> 0]
        ELSE [buf |-> Removed(b, addr, var_end, env_end), ret |-> 1]
  BY DEF remove_var
<1> HIDE DEF addr, env_end, var_end
<1>3. CASE addr = NULL /\ \A j \in Starts(b, m) : j >= start => ~StartsWith(StringAt(b, j), name)
  BY <1>0, <1>2, <1>3, HasName
<1>4. CASE addr \in Starts(b, m) /\ addr >= start /\ StartsWith(StringAt(b, addr), name)
  <2> DEFINE d == var_end - addr
             c == Removed(b, addr, var_end, env_end)
  <2>1. addr \in 0..(m - 1) /\ b[addr] # NUL
    BY <1>4 DEF Starts
  <2>2. env_end = m
    BY <1>0, <2>1, EndMark DEF env_end
  <2>3. /\ EndOf(b, addr) \in (addr + 1)..(m - 1) /\ var_end = EndOf(b, addr) + 1
    BY <1>0, <2>1, StringEnd DEF var_end
  <2>4. /\ var_end \in (addr + 1)..m /\ d \in Nat /\ d >= 2 /\ addr + d = EndOf(b, addr) + 1
        /\ ~(addr = NULL \/ env_end = NULL \/ var_end = NULL)
    BY <1>0, <2>1, <2>2, <2>3 DEF NULL
  <2>5. Shifted(b, c, m, addr, d)
    BY <1>0, <2>1, <2>2, <2>4, RemovedBytes DEF Shifted
  <2> HIDE DEF c, d
  <2>6. Gone(b, c, m, addr, d)
    BY <1>0, <1>4, <2>4, <2>5 DEF Gone
  <2>7. get_var_name(StringAt(b, addr)) = name /\ StringAt(b, addr) \in Strings(b, m)
    BY <1>0, <1>4, HasName DEF Strings
  <2>8. EndAfter(m, d) <= m
    BY <1>0, <2>4 DEF EndAfter
  <2>9. Lost(b, m, c, EndAfter(m, d), name)
    BY <2>6, <2>7, <2>8, GoneVariable DEF Lost
  <2>10. remove_var(b, start, name) = [buf |-> c, ret |-> 1]
    BY <1>2, <2>4 DEF c
  <2> QED
    BY <2>7, <2>9, <2>10
<1> QED
  BY <1>1, <1>3, <1>4 DEF Found

-----------------------------------------------------------------------------
(***************************************************************************)
(* Appending a string where the end mark is.                               *)
(***************************************************************************)
Put(b, c, a, s) ==
    /\ c \in Buffers
    /\ \A i \in 0..(a - 1) : c[i] = b[i]
    /\ \A i \in a..(a + Len(s) - 1) : c[i] = s[i - a + 1]
    /\ c[a + Len(s)] = NUL /\ c[a + Len(s) + 1] = NUL
    /\ \A i \in (a + Len(s) + 2)..(EnvLen + 1) : c[i] = b[i]

LEMMA AppendedBytes ==
  ASSUME NEW b, NEW m, Layout(b, m), NEW s \in VarStrings, Place(m) + Len(s) + 2 <= EnvLen
  PROVE  Put(b, Appended(b, m, s), Place(m), s)
<1> DEFINE c == Appended(b, m, s)
           a == Place(m)
           L == Len(s)
           T == {L, till - a}
<1>0. m \in Nat /\ m >= 1 /\ m < EnvLen /\ EnvLen \in Nat /\ b \in Buffers
  BY LayoutSizes DEF Layout
<1>1. L \in Nat /\ \A k \in 1..L : s[k] \in Chars
  BY VarString
<1>2. a \in 0..m /\ (m = 1 => a = 0) /\ (m # 1 => a = m) /\ a + L + 2 <= EnvLen /\ till = EnvLen
  BY <1>0 DEF Place, from, till
<1> HIDE DEF a
<1>4. Min(T) = L
  <2>1. T \in SUBSET Nat /\ T # {}
    BY <1>0, <1>1, <1>2
  <2>2. Min(T) \in T /\ \A y \in T : Min(T) <= y
    BY <2>1, MinOf
  <2>3. L <= till - a
    BY <1>0, <1>1, <1>2
  <2> QED
    BY <1>0, <1>1, <1>2, <2>2, <2>3
<1>5. c = [i \in Cells |-> IF i \in a..(a + L - 1) THEN s[i - a + 1]
                          ELSE IF i \in {a + L, a + L + 1} THEN NUL ELSE b[i]]
  BY <1>4 DEF Appended, a
<1> HIDE DEF c, L
<1>6. Cells = 0..(EnvLen + 1)
  BY DEF Cells
<1>7. ASSUME NEW i \in Cells
      PROVE  /\ c[i] \in {NUL} \cup Chars
             /\ c[i] = IF i \in a..(a + L - 1) THEN s[i - a + 1]
                       ELSE IF i \in {a + L, a + L + 1} THEN NUL ELSE b[i]
  <2>1. c[i] = IF i \in a..(a + L - 1) THEN s[i - a + 1]
               ELSE IF i \in {a + L, a + L + 1} THEN NUL ELSE b[i]
    BY <1>5
  <2>2. i \in a..(a + L - 1) => i - a + 1 \in 1..L
    BY <1>0, <1>1, <1>2, <1>6
  <2>3. b[i] \in {NUL} \cup Chars
    BY <1>0 DEF Buffers
  <2> QED
    BY <1>1, <2>1, <2>2, <2>3
<1>8. c \in Buffers
  BY <1>5, <1>7 DEF Buffers
<1>9. /\ \A i \in 0..(a - 1) : i \in Cells /\ i \notin a..(a + L - 1) /\ i \notin {a + L, a + L + 1}
      /\ \A i \in a..(a + L - 1) : i \in Cells
      /\ a + L \in Cells /\ a + L + 1 \in Cells
      /\ a + L \notin a..(a + L - 1) /\ a + L + 1 \notin a..(a + L - 1)
      /\ \A i \in (a + L + 2)..(EnvLen + 1) :
            i \in Cells /\ i \notin a..(a + L - 1) /\ i \notin {a + L, a + L + 1}
  BY <1>0, <1>1, <1>2, <1>6
<1>10. /\ \A i \in 0..(a - 1) : c[i] = b[i]
       /\ \A i \in a..(a + L - 1) : c[i] = s[i - a + 1]
       /\ c[a + L] = NUL /\ c[a + L + 1] = NUL
       /\ \A i \in (a + L + 2)..(EnvLen + 1) : c[i] = b[i]
  BY <1>7, <1>9
<1> QED
  BY <1>8, <1>10 DEF Put, c, a, L

(* What is known of the bytes with s appended.                             *)
Placed(b, c, m, s) ==
    /\ Layout(b, m) /\ s \in VarStrings /\ Place(m) + Len(s) + 2 <= EnvLen
    /\ Put(b, c, Place(m), s)

(* The place, and what is there.                                           *)
LEMMA PutFacts ==
  ASSUME NEW b, NEW c, NEW m, NEW s, Placed(b, c, m, s)
  PROVE  /\ m \in Nat /\ m >= 1 /\ m < EnvLen /\ EnvLen \in Nat
         /\ Len(s) \in Nat /\ Len(s) >= 2 /\ Place(m) + Len(s) + 2 <= EnvLen
         /\ Place(m) \in 0..m /\ (m = 1 => Place(m) = 0) /\ (m # 1 => Place(m) = m)
         /\ \A i \in Place(m)..(Place(m) + Len(s) - 1) : c[i] # NUL
         /\ c[Place(m) + Len(s)] = NUL /\ c[Place(m) + Len(s) + 1] = NUL
         /\ Place(m) = 0 \/ c[Place(m) - 1] = NUL
<1> DEFINE a == Place(m)
           L == Len(s)
<1>1. m \in Nat /\ m >= 1 /\ m < EnvLen /\ EnvLen \in Nat /\ b[m - 1] = NUL
  BY LayoutSizes DEF Layout, Placed
<1>2. L \in Nat /\ L >= 2 /\ \A k \in 1..L : s[k] # NUL
  BY VarString DEF Placed
<1>3. a \in 0..m /\ (m = 1 => a = 0) /\ (m # 1 => a = m)
  BY <1>1 DEF Place, from
<1>4. /\ \A i \in 0..(a - 1) : c[i] = b[i]
      /\ \A i \in a..(a + L - 1) : c[i] = s[i - a + 1]
      /\ c[a + L] = NUL /\ c[a + L + 1] = NUL
  BY DEF Put, Placed
<1>5. a + L + 2 <= EnvLen
  BY DEF Placed
<1> HIDE DEF a, L
<1>6. ASSUME NEW i \in a..(a + L - 1) PROVE c[i] # NUL
  <2>1. i - a + 1 \in 1..L
    BY <1>1, <1>2, <1>3
  <2> QED
    BY <1>2, <1>4, <2>1
<1>7. a = 0 \/ c[a - 1] = NUL
  <2>1. a # 0 => a - 1 \in 0..(a - 1) /\ a = m
    BY <1>1, <1>3
  <2> QED
    BY <1>1, <1>4, <2>1
<1> QED
  BY <1>1, <1>2, <1>3, <1>4, <1>5, <1>6, <1>7 DEF a, L

LEMMA PutLayout ==
  ASSUME NEW b, NEW c, NEW m, NEW s, Placed(b, c, m, s)
  PROVE  Layout(c, Place(m) + Len(s) + 1)
<1> DEFINE a == Place(m)
           L == Len(s)
           n == a + L + 1
<1>1. /\ m \in Nat /\ m >= 1 /\ m < EnvLen /\ EnvLen \in Nat
      /\ L \in Nat /\ L >= 2 /\ a + L + 2 <= EnvLen
      /\ a \in 0..m /\ (m = 1 => a = 0) /\ (m # 1 => a = m)
      /\ \A i \in a..(a + L - 1) : c[i] # NUL
      /\ c[a + L] = NUL /\ c[a + L + 1] = NUL
  BY PutFacts
<1>2. /\ c \in Buffers
      /\ \A i \in 0..(a - 1) : c[i] = b[i]
      /\ \A i \in (a + L + 2)..(EnvLen + 1) : c[i] = b[i]
  BY DEF Put, Placed
<1>3. /\ \A p \in 1..(m - 1) : b[p - 1] # NUL \/ b[p] # NUL
      /\ \A i \in m..(EnvLen - 1) : b[i] = NUL
      /\ b[0] = NUL => m = 1
  BY DEF Layout, Placed
<1> HIDE DEF a, L
<1>4. n \in 1..(EnvLen - 1) /\ n - 1 = a + L
  BY <1>1
<1>5. ASSUME NEW p \in 1..(n - 1) PROVE c[p - 1] # NUL \/ c[p] # NUL
  <2>1. CASE p < a
    <3>1. p - 1 \in 0..(a - 1) /\ p \in 0..(a - 1) /\ p \in 1..(m - 1)
      BY <1>1, <2>1
    <3> QED
      BY <1>2, <1>3, <3>1
  <2>2. CASE p = a
    <3>1. p \in a..(a + L - 1)
      BY <1>1, <2>2
    <3> QED
      BY <1>1, <3>1
  <2>3. CASE p > a
    <3>1. p - 1 \in a..(a + L - 1)
      BY <1>1, <2>3
    <3> QED
      BY <1>1, <3>1
  <2> QED
    BY <1>1, <2>1, <2>2, <2>3
<1>6. ASSUME NEW i \in n..(EnvLen - 1) PROVE c[i] = NUL
  <2>1. i = a + L + 1 \/ (i \in (a + L + 2)..(EnvLen + 1) /\ i \in m..(EnvLen - 1))
    BY <1>1
  <2> QED
    BY <1>1, <1>2, <1>3, <2>1
<1>7. c[0] # NUL
  <2>1. a = 0 => 0 \in a..(a + L - 1)
    BY <1>1
  <2>2. a # 0 => 0 \in 0..(a - 1) /\ m # 1
    BY <1>1
  <2> QED
    BY <1>1, <1>2, <1>3, <2>1, <2>2
<1> QED
  BY <1>1, <1>2, <1>4, <1>5, <1>6, <1>7 DEF Layout, a, L

LEMMA PutStarts ==
  ASSUME NEW b, NEW c, NEW m, NEW s, Placed(b, c, m, s)
  PROVE  /\ Starts(c, Place(m) + Len(s) + 1) = Starts(b, m) \cup {Place(m)}
         /\ \A i \in Starts(b, m) : i < Place(m)
<1> DEFINE a == Place(m)
           L == Len(s)
           n == a + L + 1
<1>1. /\ m \in Nat /\ m >= 1 /\ m < EnvLen /\ EnvLen \in Nat
      /\ L \in Nat /\ L >= 2
      /\ a \in 0..m /\ (m = 1 => a = 0) /\ (m # 1 => a = m)
      /\ \A i \in a..(a + L - 1) : c[i] # NUL
      /\ c[a + L] = NUL /\ (a = 0 \/ c[a - 1] = NUL)
  BY PutFacts
<1>2. \A i \in 0..(a - 1) : c[i] = b[i]
  BY DEF Put, Placed
<1>3. b[m - 1] = NUL
  BY DEF Layout, Placed
<1> HIDE DEF a, L
<1>4. ASSUME NEW i \in Starts(b, m) PROVE i < a
  <2>1. i \in 0..(m - 1) /\ b[i] # NUL
    BY DEF Starts
  <2>2. m # 1
    BY <1>3, <2>1
  <2> QED
    BY <1>1, <2>1, <2>2
<1>5. ASSUME NEW i \in Nat, i < a PROVE i \in Starts(c, n) <=> i \in Starts(b, m)
  <2>1. i \in 0..(n - 1) /\ i \in 0..(m - 1) /\ i \in 0..(a - 1) /\ (i = 0 \/ i - 1 \in 0..(a - 1))
    BY <1>1, <1>5
  <2>2. c[i] = b[i] /\ (i = 0 \/ c[i - 1] = b[i - 1])
    BY <1>2, <2>1
  <2> QED
    BY <2>1, <2>2 DEF Starts
<1>6. a \in Starts(c, n)
  <2>1. a \in 0..(n - 1) /\ a \in a..(a + L - 1)
    BY <1>1
  <2> QED
    BY <1>1, <2>1 DEF Starts
<1>7. ASSUME NEW i \in Nat, i > a PROVE i \notin Starts(c, n)
  <2> SUFFICES ASSUME i \in 0..(n - 1), c[i] # NUL, c[i - 1] = NUL PROVE FALSE
    BY <1>1, <1>7 DEF Starts
  <2>1. i - 1 \in a..(a + L - 1)
    BY <1>1, <1>7
  <2> QED
    BY <1>1, <2>1
<1>8. \A i : i \in Starts(c, n) \/ i \in Starts(b, m) => i \in Nat
  BY <1>1 DEF Starts
<1>9. Starts(c, n) = Starts(b, m) \cup {a}
  <2>1. ASSUME NEW i PROVE i \in Starts(c, n) <=> i \in Starts(b, m) \/ i = a
    <3>1. CASE i \in Nat
      BY <1>1, <1>4, <1>5, <1>6, <1>7, <3>1
    <3>2. CASE i \notin Nat
      BY <1>1, <1>8, <3>2
    <3> QED
      BY <3>1, <3>2
  <2> QED
    BY <2>1
<1> QED
  BY <1>4, <1>9 DEF a, L

LEMMA PutVariable ==
  ASSUME NEW b, NEW c, NEW m, NEW s, Placed(b, c, m, s), WF(b, m),
         \A t \in Strings(b, m) : get_var_name(t) # get_var_name(s)
  PROVE  /\ WF(c, Place(m) + Len(s) + 1)
         /\ Strings(c, Place(m) + Len(s) + 1) = Strings(b, m) \cup {s}
         /\ c[EnvLen] = b[EnvLen] /\ c[EnvLen + 1] = b[EnvLen + 1]
<1> DEFINE a == Place(m)
           L == Len(s)
           n == a + L + 1
<1>1. /\ m \in Nat /\ m >= 1 /\ m < EnvLen /\ EnvLen \in Nat
      /\ L \in Nat /\ L >= 2 /\ a + L + 2 <= EnvLen
      /\ a \in 0..m /\ (m = 1 => a = 0) /\ (m # 1 => a = m)
      /\ \A i \in a..(a + L - 1) : c[i] # NUL
      /\ c[a + L] = NUL
  BY PutFacts
<1>2. /\ \A i \in 0..(a - 1) : c[i] = b[i]
      /\ \A i \in a..(a + L - 1) : c[i] = s[i - a + 1]
      /\ \A i \in (a + L + 2)..(EnvLen + 1) : c[i] = b[i]
  BY DEF Put, Placed
<1>3. s \in VarStrings /\ s \in Seq(Chars) /\ Layout(b, m)
  BY VarString DEF Placed
<1>4. Starts(c, n) = Starts(b, m) \cup {a} /\ \A i \in Starts(b, m) : i < a
  BY PutStarts
<1>5. Layout(c, n)
  BY PutLayout
<1> HIDE DEF a, L, n
<1>6. \A j \in 0..(EnvLen + 1) : At(c, j) = c[j]
  BY Sizes
<1>7. StringAt(c, a) = s
  <2>1. a \in 0..(EnvLen + 2) /\ a + L \in a..(EnvLen + 2) /\ a + L \in 0..(EnvLen + 1)
    BY <1>1
  <2>2. \A j \in a..((a + L) - 1) : j \in a..(a + L - 1) /\ j \in 0..(EnvLen + 1)
    BY <1>1
  <2>3. At(c, a + L) = NUL /\ \A j \in a..((a + L) - 1) : At(c, j) # NUL
    BY <1>1, <1>6, <2>1, <2>2
  <2>4. EndOf(c, a) = a + L
    BY <2>1, <2>3, EndOfIs
  <2>5. (a + L) - a = L
    BY <1>1
  <2>6. StringAt(c, a) = [k \in 1..L |-> c[a + k - 1]]
    BY <2>4, <2>5 DEF StringAt
  <2>7. \A k \in 1..L : a + k - 1 \in a..(a + L - 1) /\ (a + k - 1) - a + 1 = k
    BY <1>1
  <2>8. \A k \in 1..L : c[a + k - 1] = s[k]
    BY <1>2, <2>7
  <2>9. s = [k \in 1..L |-> s[k]]
    BY <1>3, LenProperties DEF L
  <2> QED
    BY <2>6, <2>8, <2>9
<1>8. ASSUME NEW i \in Starts(b, m) PROVE StringAt(c, i) = StringAt(b, i)
  <2>1. i \in 0..(m - 1) /\ b[i] # NUL /\ i \in Nat /\ i + 0 = i /\ i < a
    BY <1>1, <1>4 DEF Starts
  <2>2. EndOf(b, i) \in (i + 1)..(m - 1)
    BY <1>3, <2>1, StringEnd
  <2>3. ASSUME NEW j \in i..EndOf(b, i) PROVE At(c, j - 0) = b[j]
    <3>1. j \in 0..(a - 1) /\ j \in 0..(EnvLen + 1) /\ j - 0 = j
      BY <1>1, <2>1, <2>2
    <3> QED
      BY <1>2, <1>6, <3>1
  <2>4. 0 \in Nat /\ i + 0 \in 0..(m - 1) /\ b[i + 0] # NUL
        /\ \A j \in (i + 0)..EndOf(b, i + 0) : At(c, j - 0) = b[j]
    BY <2>1, <2>3
  <2>5. StringAt(c, i) = StringAt(b, i + 0)
    BY ZenonT(40), <1>3, <2>1, <2>4, SameString
  <2> QED
    BY <2>1, <2>5
<1>9. /\ \A i \in Starts(b, m) : StringAt(b, i) \in VarStrings
      /\ \A i, j \in Starts(b, m) :
            get_var_name(StringAt(b, i)) = get_var_name(StringAt(b, j)) => i = j
      /\ \A i \in Starts(b, m) : get_var_name(StringAt(b, i)) # get_var_name(s)
  BY DEF WF, Strings
<1>10. WF(c, n)
  <2>1. \A i \in Starts(c, n) : StringAt(c, i) \in VarStrings
    BY <1>3, <1>4, <1>7, <1>8, <1>9
  <2>2. \A i, j \in Starts(c, n) :
           get_var_name(StringAt(c, i)) = get_var_name(StringAt(c, j)) => i = j
    BY <1>4, <1>7, <1>8, <1>9
  <2> QED
    BY <1>5, <2>1, <2>2 DEF WF
<1>11. Strings(c, n) = Strings(b, m) \cup {s}
  <2>1. Strings(c, n) = {StringAt(c, i) : i \in Starts(b, m)} \cup {StringAt(c, a)}
    BY <1>4 DEF Strings
  <2>2. {StringAt(c, i) : i \in Starts(b, m)} = {StringAt(b, i) : i \in Starts(b, m)}
    BY <1>8
  <2> QED
    BY <1>7, <2>1, <2>2 DEF Strings
<1>12. c[EnvLen] = b[EnvLen] /\ c[EnvLen + 1] = b[EnvLen + 1]
  <2>1. EnvLen \in (a + L + 2)..(EnvLen + 1) /\ EnvLen + 1 \in (a + L + 2)..(EnvLen + 1)
    BY <1>1
  <2> QED
    BY <1>2, <2>1
<1> QED
  BY <1>10, <1>11, <1>12 DEF n, a, L

(***************************************************************************)
(* What add_var does where there is room: the old value goes, the new one  *)
(* is there, and it says so.                                               *)
(***************************************************************************)
LEMMA AddVar ==
  ASSUME NEW b, NEW m, WF(b, m), NEW s \in VarStrings, HasRoom(b, s)
  PROVE  /\ add_var(b, s).ret = 1
         /\ \E k : /\ WF(add_var(b, s).buf, k)
                   /\ Strings(add_var(b, s).buf, k) =
                        Without(Strings(b, m), get_var_name(s)) \cup {s}
                   /\ add_var(b, s).buf[EnvLen] = b[EnvLen]
                   /\ add_var(b, s).buf[EnvLen + 1] = b[EnvLen + 1]
<1> DEFINE name == get_var_name(s)
           addr == get_var_addr(b, from, name)
           removed == WithoutOld(b, s)
           mark == get_end_mark(removed.buf, from)
           c == Appended(removed.buf, mark, s)
<1>0. /\ Layout(b, m) /\ \A i \in Starts(b, m) : StringAt(b, i) \in VarStrings
      /\ m \in Nat /\ m >= 1 /\ m < EnvLen /\ EnvLen \in Nat /\ Len(s) \in Nat
      /\ name \in Names /\ name \in Seq(Chars) /\ from = 0
  BY LayoutSizes, VarString, NameOf DEF WF, Names, from
<1>1. add_var(b, s) = IF removed.ret = 0 \/ mark = NULL
                      THEN [buf |-> removed.buf, ret |-> 0]
                      ELSE [buf |-> c, ret |-> 1]
  BY DEF add_var
<1>2. Found(b, m, name, 0, addr)
  BY <1>0, VarAddr
<1>15. removed = IF addr = NULL THEN [buf |-> b, ret |-> 1] ELSE remove_var(b, addr, name)
  BY DEF WithoutOld
<1>16. mark # NULL /\ Place(mark) + Len(s) + 2 <= EnvLen
  BY DEF HasRoom, Fits
<1> HIDE DEF addr, name, removed
<1>3. removed.ret = 1 /\ \E k : Lost(b, m, removed.buf, k, name)
  <2>1. CASE addr = NULL /\ \A j \in Starts(b, m) : j >= 0 => ~StartsWith(StringAt(b, j), name)
    <3>1. removed = [buf |-> b, ret |-> 1]
      BY <1>15, <2>1
    <3>2. \A j \in Starts(b, m) : get_var_name(StringAt(b, j)) # name
      BY <1>0, <2>1, HasName DEF Starts
    <3>3. Strings(b, m) = Without(Strings(b, m), name)
      BY <3>2 DEF Strings, Without
    <3>4. Lost(b, m, b, m, name)
      BY <1>0, <3>3 DEF Lost
    <3> QED
      BY <3>1, <3>4
  <2>2. CASE addr \in Starts(b, m) /\ addr >= 0 /\ StartsWith(StringAt(b, addr), name)
    <3>1. addr # NULL /\ addr >= addr
      BY <2>2 DEF Starts, NULL
    <3>2. removed = remove_var(b, addr, name)
      BY <1>15, <3>1
    <3>3. get_var_name(StringAt(b, addr)) = name
      BY <1>0, <2>2, HasName
    <3> QED
      BY <1>0, <2>2, <3>1, <3>2, <3>3, RemoveVar
  <2> QED
    BY <1>2, <2>1, <2>2 DEF Found
<1>4. PICK k : Lost(b, m, removed.buf, k, name)
  BY <1>3
<1>5. /\ WF(removed.buf, k) /\ Layout(removed.buf, k) /\ k \in Nat /\ k >= 1 /\ k <= m
      /\ Strings(removed.buf, k) = Without(Strings(b, m), name)
      /\ removed.buf[EnvLen] = b[EnvLen] /\ removed.buf[EnvLen + 1] = b[EnvLen + 1]
  BY <1>4, LayoutSizes DEF Lost, WF
<1>6. mark = k /\ mark # NULL
  <2>1. from \in 0..(k - 1)
    BY <1>0, <1>5
  <2>2. mark = k
    BY <1>5, <2>1, EndMark
  <2> QED
    BY <1>5, <2>2 DEF NULL
<1>7. Place(k) + Len(s) + 2 <= EnvLen
  BY <1>6, <1>16
<1>8. Placed(removed.buf, c, k, s)
  BY <1>5, <1>6, <1>7, AppendedBytes DEF Placed
<1> HIDE DEF c, mark
<1>9. \A t \in Strings(removed.buf, k) : get_var_name(t) # get_var_name(s)
  BY <1>5 DEF Without, name
<1>10. /\ WF(c, Place(k) + Len(s) + 1)
       /\ Strings(c, Place(k) + Len(s) + 1) = Strings(removed.buf, k) \cup {s}
       /\ c[EnvLen] = removed.buf[EnvLen] /\ c[EnvLen + 1] = removed.buf[EnvLen + 1]
  BY <1>5, <1>8, <1>9, PutVariable
<1>11. add_var(b, s) = [buf |-> c, ret |-> 1]
  BY <1>1, <1>3, <1>6
<1> QED
  BY <1>5, <1>10, <1>11 DEF name

-----------------------------------------------------------------------------
(***************************************************************************)
(* Any bytes at all, those of a buffer without an end mark included: what  *)
(* the scans return, and what the functions write.                         *)
(***************************************************************************)
LEMMA AnyAddr ==
  ASSUME NEW b, NEW name, NEW start \in 0..(EnvLen + 2)
  PROVE  get_var_addr(b, start, name) = NULL \/ get_var_addr(b, start, name) \in start..(EnvLen - 1)
<1>1. PICK f : /\ \A i \in start..(EnvLen + 2) : f[i] = WalkStep(f, b, name, i)
               /\ get_var_addr(b, start, name) = f[start]
  BY VarAddrIsWalk
<1> DEFINE N == EnvLen + 2
           P == {i \in 0..N : i >= start => f[i] = NULL \/ f[i] \in i..(EnvLen - 1)}
<1>2. ASSUME NEW i \in 0..N, \A j \in 0..N : j > i => j \in P, i >= start
      PROVE  f[i] = NULL \/ f[i] \in i..(EnvLen - 1)
  <2> DEFINE next == get_next_env_string(b, i)
  <2>1. i \in start..N /\ f[i] = WalkStep(f, b, name, i) /\ EnvLen \in Nat /\ till = EnvLen
    BY <1>1, <1>2, Sizes DEF till
  <2>2. next = NULL \/ (next \in Nat /\ next > i)
    BY NextGrows, Zenon
  <2> HIDE DEF next
  <2>3. CASE i < till /\ StartsWith(StringAt(b, i), name)
    BY <2>1, <2>3 DEF WalkStep
  <2>4. CASE ~(i < till /\ StartsWith(StringAt(b, i), name))
    <3>1. f[i] = IF next = NULL \/ next > N THEN NULL ELSE f[next]
      BY <2>1, <2>4 DEF WalkStep, next
    <3>2. ASSUME ~(next = NULL \/ next > N) PROVE f[next] = NULL \/ f[next] \in i..(EnvLen - 1)
      <4>1. next \in 0..N /\ next > i /\ next >= start
        BY <1>2, <2>1, <2>2, <3>2
      <4>2. f[next] = NULL \/ f[next] \in next..(EnvLen - 1)
        BY <1>2, <4>1
      <4> QED
        BY <2>1, <4>1, <4>2
    <3> QED
      BY <3>1, <3>2
  <2> QED
    BY <2>3, <2>4
<1>3. \A i \in 0..N : (\A j \in 0..N : j > i => j \in P) => i \in P
  BY <1>2
<1>4. N \in Nat
  BY Sizes
<1> HIDE DEF P
<1>5. \A i \in 0..N : i \in P
  <2> HIDE DEF N
  <2> QED
    BY <1>3, <1>4, Downwards
<1>6. start \in P
  BY <1>5
<1> QED
  BY <1>1, <1>6 DEF P

LEMMA AnyEndMark ==
  ASSUME NEW b, NEW a \in 0..EnvLen
  PROVE  \/ get_end_mark(b, a) = NULL
         \/ get_end_mark(b, a) \in (a + 1)..EnvLen /\ At(b, get_end_mark(b, a)) = NUL
<1> DEFINE T == {p \in (a + 1)..till : At(b, p - 1) = NUL /\ At(b, p) = NUL}
<1>1. get_end_mark(b, a) = IF T = {} THEN NULL ELSE Min(T)
  BY DEF get_end_mark
<1>2. T \in SUBSET Nat /\ \A p \in T : p \in (a + 1)..EnvLen /\ At(b, p) = NUL
  BY Sizes DEF till
<1> HIDE DEF T
<1>3. T # {} => Min(T) \in T
  BY <1>2, MinOf
<1> QED
  BY <1>1, <1>2, <1>3

LEMMA AnyNext ==
  ASSUME NEW b, NEW i \in 0..(EnvLen - 1)
  PROVE  get_next_env_string(b, i) = NULL \/ get_next_env_string(b, i) \in (i + 1)..(EnvLen + 1)
<1>1. i \in 0..(EnvLen + 2) /\ i < EnvLen
  BY Sizes
<1>2. CASE At(b, i) = NUL
  BY <1>2, NextAtNUL
<1>3. CASE At(b, i) # NUL
  BY <1>1, <1>3, NextIsFurther
<1> QED
  BY <1>2, <1>3

LEMMA AnyRemoved ==
  ASSUME NEW b \in Buffers, NEW a \in 0..(EnvLen - 1), NEW v \in (a + 1)..(EnvLen + 1),
         NEW m \in (a + 1)..EnvLen, At(b, m) = NUL
  PROVE  LET c == Removed(b, a, v, m) IN
         c \in Buffers /\ c[EnvLen] = b[EnvLen] /\ c[EnvLen + 1] = b[EnvLen + 1]
<1> DEFINE c == Removed(b, a, v, m)
           new(i) == IF i \notin a..m THEN b[i] ELSE IF i + v - a <= m THEN b[i + v - a] ELSE NUL
<1>1. Cells = 0..(EnvLen + 1) /\ EnvLen \in Nat /\ EnvLen \in Cells /\ EnvLen + 1 \in Cells
  BY Sizes DEF Cells
<1>2. c = [i \in Cells |-> new(i)]
  BY DEF Removed
<1>3. \A i \in Cells : i \in a..m /\ i + v - a <= m => i + v - a \in Cells
  BY <1>1
<1>4. \A i \in Cells : b[i] \in {NUL} \cup Chars
  BY DEF Buffers
<1>5. \A i \in Cells : new(i) \in {NUL} \cup Chars
  BY <1>3, <1>4
<1>6. EnvLen + 1 \notin a..m
  BY <1>1
<1>7. ~(EnvLen + v - a <= m)
  BY <1>1
<1>8. EnvLen \in a..m => m = EnvLen
  BY <1>1
<1>9. m = EnvLen => b[EnvLen] = NUL
  BY <1>1 DEF At
<1>10. c[EnvLen + 1] = b[EnvLen + 1]
  BY <1>1, <1>2, <1>6
<1>11. c[EnvLen] = b[EnvLen]
  BY <1>1, <1>2, <1>7, <1>8, <1>9
<1>12. c \in Buffers
  BY <1>2, <1>5 DEF Buffers
<1> QED
  BY <1>10, <1>11, <1>12

LEMMA AnyRemove ==
  ASSUME NEW b \in Buffers, NEW start \in 0..EnvLen, NEW name
  PROVE  LET r == remove_var(b, start, name) IN
         /\ r.buf \in Buffers /\ r.ret \in {0, 1}
         /\ r.buf[EnvLen] = b[EnvLen] /\ r.buf[EnvLen + 1] = b[EnvLen + 1]
<1> DEFINE addr == get_var_addr(b, start, name)
           env_end == get_end_mark(b, addr)
           var_end == get_next_env_string(b, addr)
<1>1. remove_var(b, start, name) =
        IF addr = NULL \/ env_end = NULL \/ var_end = NULL
        THEN [buf |-> b, ret |-> 0]
        ELSE [buf |-> Removed(b, addr, var_end, env_end), ret |-> 1]
  BY DEF remove_var
<1>2. addr = NULL \/ addr \in 0..(EnvLen - 1)
  <2>1. start \in 0..(EnvLen + 2)
    BY Sizes
  <2>2. addr = NULL \/ addr \in start..(EnvLen - 1)
    BY <2>1, AnyAddr
  <2> HIDE DEF addr
  <2> QED
    BY <2>2, Sizes
<1> HIDE DEF addr
<1>3. CASE addr = NULL \/ env_end = NULL \/ var_end = NULL
  BY <1>1, <1>3
<1>4. CASE ~(addr = NULL \/ env_end = NULL \/ var_end = NULL)
  <2>1. addr \in 0..(EnvLen - 1) /\ addr \in 0..EnvLen
    BY <1>2, <1>4, Sizes
  <2>2. env_end \in (addr + 1)..EnvLen /\ At(b, env_end) = NUL
    BY <1>4, <2>1, AnyEndMark
  <2>3. var_end \in (addr + 1)..(EnvLen + 1)
    BY <1>4, <2>1, AnyNext
  <2>4. remove_var(b, start, name) = [buf |-> Removed(b, addr, var_end, env_end), ret |-> 1]
    BY <1>1, <1>4
  <2> HIDE DEF env_end, var_end
  <2> QED
    BY <2>1, <2>2, <2>3, <2>4, AnyRemoved
<1> QED
  BY <1>3, <1>4

LEMMA AnyAppended ==
  ASSUME NEW b \in Buffers, NEW m \in 1..EnvLen, NEW s \in VarStrings
  PROVE  LET c == Appended(b, m, s) IN
         /\ c \in Buffers
         /\ Place(m) + Len(s) + 2 <= EnvLen =>
               c[EnvLen] = b[EnvLen] /\ c[EnvLen + 1] = b[EnvLen + 1]
<1> DEFINE c == Appended(b, m, s)
           a == Place(m)
           L == Len(s)
           T == {L, till - a}
           n == Min(T)
<1>1. L \in Nat /\ \A k \in 1..L : s[k] \in Chars
  BY VarString
<1>2. a \in 0..EnvLen /\ till = EnvLen /\ EnvLen \in Nat
  BY Sizes DEF Place, from, till
<1> HIDE DEF a
<1>3. n \in Nat /\ n <= L
  <2>1. T \in SUBSET Nat /\ T # {}
    BY <1>1, <1>2
  <2>2. Min(T) \in T /\ \A y \in T : Min(T) <= y
    BY <2>1, MinOf
  <2> QED
    BY <1>1, <2>1, <2>2
<1>4. c = [i \in Cells |-> IF i \in a..(a + n - 1) THEN s[i - a + 1]
                          ELSE IF i \in {a + n, a + n + 1} THEN NUL ELSE b[i]]
  BY DEF Appended, a
<1> HIDE DEF c, n, L
<1>5. Cells = 0..(EnvLen + 1) /\ EnvLen \in Cells /\ EnvLen + 1 \in Cells
  BY <1>2 DEF Cells
<1>6. \A i \in Cells : b[i] \in {NUL} \cup Chars
  BY DEF Buffers
<1>7. \A i \in Cells : i \in a..(a + n - 1) => i - a + 1 \in 1..L
  BY <1>1, <1>2, <1>3, <1>5
<1>8. \A i \in Cells : (IF i \in a..(a + n - 1) THEN s[i - a + 1]
                        ELSE IF i \in {a + n, a + n + 1} THEN NUL ELSE b[i]) \in {NUL} \cup Chars
  BY <1>1, <1>6, <1>7
<1>9. c \in Buffers
  BY <1>4, <1>8 DEF Buffers
<1>10. ASSUME a + L + 2 <= EnvLen PROVE c[EnvLen] = b[EnvLen] /\ c[EnvLen + 1] = b[EnvLen + 1]
  <2>1. /\ EnvLen \notin a..(a + n - 1) /\ EnvLen \notin {a + n, a + n + 1}
        /\ EnvLen + 1 \notin a..(a + n - 1) /\ EnvLen + 1 \notin {a + n, a + n + 1}
    BY <1>1, <1>2, <1>3, <1>10
  <2> QED
    BY <1>4, <1>5, <2>1
<1> QED
  BY <1>9, <1>10 DEF c, a, L

LEMMA AnyAdd ==
  ASSUME NEW b \in Buffers, NEW s \in VarStrings
  PROVE  LET r == add_var(b, s) IN
         /\ r.buf \in Buffers /\ r.ret \in {0, 1}
         /\ HasRoom(b, s) => r.buf[EnvLen] = b[EnvLen] /\ r.buf[EnvLen + 1] = b[EnvLen + 1]
<1> DEFINE name == get_var_name(s)
           addr == get_var_addr(b, from, name)
           removed == WithoutOld(b, s)
           mark == get_end_mark(removed.buf, from)
           c == Appended(removed.buf, mark, s)
<1>1. add_var(b, s) = IF removed.ret = 0 \/ mark = NULL
                      THEN [buf |-> removed.buf, ret |-> 0]
                      ELSE [buf |-> c, ret |-> 1]
  BY DEF add_var
<1>2. removed = IF addr = NULL THEN [buf |-> b, ret |-> 1] ELSE remove_var(b, addr, name)
  BY DEF WithoutOld
<1>3. HasRoom(b, s) => Place(mark) + Len(s) + 2 <= EnvLen
  BY DEF HasRoom, Fits
<1>4. from \in 0..(EnvLen + 2) /\ from \in 0..EnvLen /\ from = 0 /\ EnvLen \in Nat
  BY Sizes DEF from
<1>5. addr = NULL \/ addr \in from..(EnvLen - 1)
  BY <1>4, AnyAddr
<1> HIDE DEF addr, removed, name
<1>6. addr = NULL \/ addr \in 0..EnvLen
  BY <1>4, <1>5
<1>7. /\ removed.buf \in Buffers
      /\ removed.buf[EnvLen] = b[EnvLen] /\ removed.buf[EnvLen + 1] = b[EnvLen + 1]
  <2>1. CASE addr = NULL
    BY <1>2, <2>1
  <2>2. CASE addr # NULL
    <3>1. addr \in 0..EnvLen /\ removed = remove_var(b, addr, name)
      BY <1>2, <1>6, <2>2
    <3> QED
      BY <3>1, AnyRemove
  <2> QED
    BY <2>1, <2>2
<1>8. mark = NULL \/ mark \in (from + 1)..EnvLen
  BY <1>4, AnyEndMark
<1> HIDE DEF mark
<1>9. mark = NULL \/ mark \in 1..EnvLen
  BY <1>4, <1>8
<1>10. CASE removed.ret = 0 \/ mark = NULL
  BY <1>1, <1>7, <1>10
<1>11. CASE ~(removed.ret = 0 \/ mark = NULL)
  <2>1. /\ c \in Buffers
        /\ Place(mark) + Len(s) + 2 <= EnvLen =>
              c[EnvLen] = removed.buf[EnvLen] /\ c[EnvLen + 1] = removed.buf[EnvLen + 1]
    BY <1>7, <1>9, <1>11, AnyAppended
  <2>2. add_var(b, s) = [buf |-> c, ret |-> 1]
    BY <1>1, <1>11
  <2> HIDE DEF c
  <2> QED
    BY <1>3, <1>7, <2>1, <2>2
<1> QED
  BY <1>10, <1>11

-----------------------------------------------------------------------------
(***************************************************************************)
(* The inductive invariant: until something is cut off the buffer holds    *)
(* variables, no two of one name, from its start to its end mark; after    *)
(* that, bytes.                                                            *)
(***************************************************************************)
EnvInv ==
    /\ buf \in Buffers /\ ret \in {0, 1} /\ cut \in BOOLEAN
    /\ ~cut => \E m : WF(buf, m)

OnlyWithoutRoom ==
    (\E i \in Behind : buf'[i] # buf[i]) =>
        \E s \in VarStrings : Add(s) /\ ~HasRoom(buf, s)

LEMMA InitEnv ==
  ASSUME Init
  PROVE  EnvInv /\ Store!Init
<1>0. EnvLen \in Nat /\ EnvLen >= 2 /\ Cells = 0..(EnvLen + 1) /\ Behind = {EnvLen, EnvLen + 1}
  BY Sizes DEF Cells, Behind
<1>1. PICK x \in [Behind -> {NUL, "?"}] : buf = [i \in Cells |-> IF i \in Behind THEN x[i] ELSE NUL]
  BY DEF Init
<1>2. \A i \in 0..(EnvLen - 1) : buf[i] = NUL
  BY <1>0, <1>1
<1>3. buf \in Buffers
  <2>1. "?" \in Chars
    BY DEF Chars
  <2> QED
    BY <1>1, <2>1 DEF Buffers
<1>4. Layout(buf, 1)
  <2>1. 1 \in 1..(EnvLen - 1) /\ 1 - 1 = 0 /\ 0 \in 0..(EnvLen - 1)
    BY <1>0
  <2>2. (\A p \in 1..(1 - 1) : FALSE) /\ \A i \in 1..(EnvLen - 1) : i \in 0..(EnvLen - 1)
    BY <1>0
  <2> QED
    BY <1>2, <1>3, <2>1, <2>2 DEF Layout
<1>5. Starts(buf, 1) = {}
  <2>1. \A i \in 0..(1 - 1) : buf[i] = NUL
    BY <1>0, <1>2
  <2> QED
    BY <2>1 DEF Starts
<1>6. WF(buf, 1) /\ Strings(buf, 1) = {}
  BY <1>4, <1>5 DEF WF, Strings
<1>7. StringsIn(buf) = {} /\ ret = 1 /\ cut = FALSE
  BY <1>4, <1>6, Read DEF Init
<1>8. Store!Init
  BY <1>7 DEF Store!Init
<1> QED
  BY <1>3, <1>6, <1>7, <1>8 DEF EnvInv

(* What each step does to the bytes, whatever they are.                    *)
LEMMA NextBytes ==
  ASSUME EnvInv, Next
  PROVE  /\ buf' \in Buffers /\ ret' \in {0, 1} /\ cut' \in BOOLEAN
         /\ OnlyWithoutRoom
<1>0. buf \in Buffers /\ cut \in BOOLEAN /\ Behind = {EnvLen, EnvLen + 1}
  BY DEF EnvInv, Behind
<1>1. ASSUME NEW s \in VarStrings, Add(s)
      PROVE  /\ buf' \in Buffers /\ ret' \in {0, 1} /\ cut' \in BOOLEAN
             /\ OnlyWithoutRoom
  <2>1. buf' = add_var(buf, s).buf /\ ret' = add_var(buf, s).ret /\ cut' \in BOOLEAN
    BY <1>1 DEF Add
  <2>2. /\ buf' \in Buffers /\ ret' \in {0, 1}
        /\ HasRoom(buf, s) => buf'[EnvLen] = buf[EnvLen] /\ buf'[EnvLen + 1] = buf[EnvLen + 1]
    BY <1>0, <2>1, AnyAdd
  <2>3. OnlyWithoutRoom
    BY <1>0, <1>1, <2>2 DEF OnlyWithoutRoom
  <2> QED
    BY <2>1, <2>2, <2>3
<1>2. ASSUME NEW n \in Names, Remove(n)
      PROVE  /\ buf' \in Buffers /\ ret' \in {0, 1} /\ cut' \in BOOLEAN
             /\ OnlyWithoutRoom
  <2>1. /\ buf' = remove_var(buf, from, n).buf /\ ret' = remove_var(buf, from, n).ret
        /\ cut' = cut
    BY <1>2 DEF Remove
  <2>2. from \in 0..EnvLen
    BY Sizes DEF from
  <2>3. /\ buf' \in Buffers /\ ret' \in {0, 1}
        /\ buf'[EnvLen] = buf[EnvLen] /\ buf'[EnvLen + 1] = buf[EnvLen + 1]
    BY <1>0, <2>1, <2>2, AnyRemove
  <2> QED
    BY <1>0, <2>1, <2>3 DEF OnlyWithoutRoom
<1> QED
  BY <1>1, <1>2 DEF Next

(* Adding what there is room for is adding to the store.                   *)
LEMMA AddEnv ==
  ASSUME EnvInv, ~cut, NEW s \in VarStrings, Add(s), HasRoom(buf, s)
  PROVE  (\E m : WF(buf', m)) /\ ~cut' /\ Store!Add(s)
<1>1. PICK m : WF(buf, m)
  BY DEF EnvInv
<1>2. Layout(buf, m)
  BY <1>1 DEF WF
<1>3. buf' = add_var(buf, s).buf /\ ret' = add_var(buf, s).ret /\ ~cut'
  BY DEF Add
<1>4. /\ ret' = 1
      /\ \E k : /\ WF(buf', k)
                /\ Strings(buf', k) = Without(Strings(buf, m), get_var_name(s)) \cup {s}
  BY <1>1, <1>3, AddVar
<1>5. PICK k : /\ WF(buf', k)
               /\ Strings(buf', k) = Without(Strings(buf, m), get_var_name(s)) \cup {s}
  BY <1>4
<1>6. Layout(buf', k)
  BY <1>5 DEF WF
<1>7. StringsIn(buf)' = Strings(buf', k) /\ StringsIn(buf) = Strings(buf, m)
  BY <1>2, <1>6, Read
<1>8. Store!Add(s)
  BY <1>4, <1>5, <1>7 DEF Store!Add, Store!Without, Without
<1> QED
  BY <1>3, <1>5, <1>8

(* Removing is failing, or removing from the store.                        *)
LEMMA RemoveEnv ==
  ASSUME EnvInv, ~cut, NEW name \in Names, Remove(name)
  PROVE  (\E m : WF(buf', m)) /\ ~cut' /\ (Store!Fail \/ Store!Remove(name))
<1>1. PICK m : WF(buf, m)
  BY DEF EnvInv
<1>2. Layout(buf, m)
  BY <1>1 DEF WF
<1>3. StringsIn(buf) = Strings(buf, m)
  BY <1>2, Read
<1>4. buf' = remove_var(buf, 0, name).buf /\ ret' = remove_var(buf, 0, name).ret /\ ~cut'
  BY DEF Remove, from
<1>5. CASE remove_var(buf, 0, name) = [buf |-> buf, ret |-> 0]
  <2>1. buf' = buf /\ ret' = 0
    BY <1>4, <1>5
  <2>2. StringsIn(buf)' = StringsIn(buf)
    BY <2>1
  <2>3. Store!Fail
    BY <2>1, <2>2 DEF Store!Fail
  <2> QED
    BY <1>1, <1>4, <2>1, <2>3
<1>6. CASE /\ remove_var(buf, 0, name).ret = 1
           /\ \E k : Lost(buf, m, remove_var(buf, 0, name).buf, k, name)
           /\ \E t \in Strings(buf, m) : get_var_name(t) = name
  <2>1. PICK k : Lost(buf, m, buf', k, name)
    BY <1>4, <1>6
  <2>2. WF(buf', k) /\ Layout(buf', k) /\ Strings(buf', k) = Without(Strings(buf, m), name)
    BY <2>1 DEF Lost, WF
  <2>3. StringsIn(buf)' = Strings(buf', k)
    BY <2>2, Read
  <2>4. ret' = 1
    BY <1>4, <1>6
  <2>5. Store!Remove(name)
    BY <1>3, <1>6, <2>2, <2>3, <2>4 DEF Store!Remove, Store!Without, Without
  <2> QED
    BY <1>4, <2>2, <2>5
<1> QED
  BY <1>1, <1>5, <1>6, RemoveVar

LEMMA NextEnv ==
  ASSUME EnvInv, Next
  PROVE  (~cut' => \E m : WF(buf', m)) /\ Store!Next
<1>0. cut \in BOOLEAN /\ cut' \in BOOLEAN
  BY NextBytes DEF EnvInv
<1>1. CASE cut'
  BY <1>0, <1>1 DEF Store!Next
<1>2. ASSUME ~cut', NEW s \in VarStrings, Add(s)
      PROVE  (\E m : WF(buf', m)) /\ Store!Next
  <2>1. ~cut /\ HasRoom(buf, s)
    BY <1>2 DEF Add
  <2>2. (\E m : WF(buf', m)) /\ Store!Add(s)
    BY <1>2, <2>1, AddEnv
  <2> QED
    BY <1>0, <1>2, <2>1, <2>2 DEF Store!Next
<1>3. ASSUME ~cut', NEW n \in Names, Remove(n)
      PROVE  (\E m : WF(buf', m)) /\ Store!Next
  <2>1. ~cut
    BY <1>3 DEF Remove
  <2>2. PICK s \in VarStrings : n = get_var_name(s)
    BY DEF Names
  <2>3. (\E m : WF(buf', m)) /\ (Store!Fail \/ Store!Remove(get_var_name(s)))
    BY <1>3, <2>1, <2>2, RemoveEnv
  <2> QED
    BY <1>0, <1>3, <2>1, <2>3 DEF Store!Next
<1> QED
  BY <1>1, <1>2, <1>3 DEF Next

LEMMA StepEnv ==
  ASSUME EnvInv, [Next]_vars
  PROVE  EnvInv' /\ [OnlyWithoutRoom]_vars /\ [Store!Next]_<<StringsIn(buf), ret, cut>>
<1>1. CASE Next
  BY <1>1, NextBytes, NextEnv DEF EnvInv
<1>2. CASE UNCHANGED vars
  <2>1. buf' = buf /\ ret' = ret /\ cut' = cut
    BY <1>2 DEF vars
  <2>2. EnvInv'
    BY <2>1 DEF EnvInv
  <2>3. StringsIn(buf)' = StringsIn(buf)
    BY <2>1
  <2> QED
    BY <1>2, <2>1, <2>2, <2>3
<1> QED
  BY <1>1, <1>2

LEMMA EnvInvariance ==
  Spec => []EnvInv
<1>1. Init => EnvInv
  BY InitEnv
<1>2. EnvInv /\ [Next]_vars => EnvInv'
  BY StepEnv
<1> QED
  BY <1>1, <1>2, PTL DEF Spec

(***************************************************************************)
(* The bytes are NULs and characters whatever is added and removed, and    *)
(* behind the end mark there are only NULs until something does not fit.   *)
(***************************************************************************)
THEOREM TypeCorrect ==
  Spec => []TypeOK
<1>1. EnvInv => TypeOK
  <2> SUFFICES ASSUME EnvInv PROVE TypeOK
    OBVIOUS
  <2>1. ASSUME ~cut, NEW i \in get_end_mark(buf, from)..(EnvLen - 1) PROVE buf[i] = NUL
    <3>1. PICK m : WF(buf, m)
      BY <2>1 DEF EnvInv
    <3>2. Layout(buf, m) /\ m \in Nat /\ m >= 1
      BY <3>1, LayoutSizes DEF WF
    <3>3. get_end_mark(buf, from) = m
      <4>1. from \in 0..(m - 1)
        BY <3>2 DEF from
      <4> QED
        BY <3>2, <4>1, EndMark
    <3> QED
      BY <2>1, <3>2, <3>3 DEF Layout
  <2> QED
    BY <2>1 DEF TypeOK, EnvInv, Buffers
<1>2. Spec => []EnvInv
  BY EnvInvariance
<1> QED
  BY <1>1, <1>2, PTL

(***************************************************************************)
(* Nothing that is removed, nothing that just fits, and nothing done with  *)
(* a buffer that was filled over its end writes behind the buffer: only    *)
(* the addition that does not fit does.                                    *)
(***************************************************************************)
THEOREM StaysInside ==
  Spec => StaysInBuffer
<1>1. EnvInv /\ [Next]_vars => [OnlyWithoutRoom]_vars
  BY StepEnv
<1>2. Spec => []EnvInv
  BY EnvInvariance
<1>3. Spec => [][OnlyWithoutRoom]_vars
  BY <1>1, <1>2, PTL DEF Spec
<1> QED
  BY <1>3 DEF StaysInBuffer, OnlyWithoutRoom

(***************************************************************************)
(* The bytes implement the set of variables of EnvStore: adding replaces,  *)
(* removing leaves the others alone, failure changes nothing - until       *)
(* something is added that there is no room for.                           *)
(***************************************************************************)
THEOREM ImplementsStore ==
  Spec => StoreSpec
<1>1. Init => Store!Init
  BY InitEnv
<1>2. EnvInv /\ [Next]_vars => [Store!Next]_<<StringsIn(buf), ret, cut>>
  BY StepEnv
<1>3. Spec => []EnvInv
  BY EnvInvariance
<1>4. Spec => Store!Spec
  BY <1>1, <1>2, <1>3, PTL DEF Spec, Store!Spec
<1> QED
  BY <1>4 DEF StoreSpec
=============================================================================
