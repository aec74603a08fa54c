----------------------------- MODULE NvramTools -----------------------------
(***************************************************************************)
(* The programs that change the NVRAM partition: ubootenv and prodinfoenv  *)
(* (one binary, main_env.c, named for the section it works on) and nvram   *)
(* (main.c).  Each reads the whole NVRAM into memory (NvInit), works there *)
(* and writes all of it back (NvSave); nothing in these programs or in     *)
(* nvram_priv_linux.c keeps two of them apart.  The NVRAM library between  *)
(* them is external: NvSave is one step, because it keeps two copies.      *)
(***************************************************************************)
EXTENDS Integers, Sequences, FiniteSets

CONSTANTS
    Procs,      \* processes that may run a tool
    Commands,   \* command lines
    Special,    \* excludeVars: network parameters of the critical section
    Names, Values,
    Capacity,   \* variables a section has room for, whatever their length
    InitialFlash,
    Exclusive,  \* whether the user runs one tool at a time
    MaxRuns, MaxFaults, MaxCrashes

NoVars == <<>>      \* the function with the empty domain
PartialFunctions(S, T) == UNION {[D -> T] : D \in SUBSET S}
Cut == "cut"        \* what is left of a variable that was cut off
Stored == Values \cup {Cut}
Section == [state : {"absent", "invalid", "valid"}, vars : PartialFunctions(Names, Stored)]
Nvram == [crit : [Special -> Values], ubootenv : Section, prodinfoenv : Section]
Absent == [state |-> "absent", vars |-> NoVars]
Default == CHOOSE v \in Values : TRUE

(***************************************************************************)
(* The command lines.  An assignment without "=" has no value; --clean and *)
(* --erase are refused together; what nvram loads into a section makes it  *)
(* valid or invalid.                                                       *)
(***************************************************************************)
NoValue == "no value"
Assignment == [name : Names, value : Values \cup {NoValue}]
EnvLine == [tool : {"ubootenv", "prodinfoenv"}, manuf : {FALSE}, clean : BOOLEAN,
            file : Seq(Assignment), erase : Seq(Names), set : Seq(Assignment)]
NvramLine ==
    [tool : {"nvram"}, manuf : BOOLEAN, do : {"print", "reset"}]
    \cup [tool : {"nvram"}, manuf : BOOLEAN, do : {"set"}, name : Special, value : Values]
    \cup [tool : {"nvram"}, manuf : BOOLEAN, do : {"load"}, os : {"ubootenv", "prodinfoenv"},
          content : {x \in Section : x.state # "absent"}]

ASSUME ConstantsAssumption ==
    /\ IsFiniteSet(Names) /\ Special \subseteq Names /\ Values # {} /\ Cut \notin Values
    /\ InitialFlash \subseteq Nvram /\ Capacity \in Nat
    /\ Commands # {}
    /\ \A c \in Commands : IF c.tool = "nvram" THEN c \in NvramLine
                           ELSE c \in EnvLine /\ (c.clean => c.erase = <<>>)
    /\ Exclusive \in BOOLEAN /\ {MaxRuns, MaxFaults, MaxCrashes} \subseteq Nat

VARIABLES
    flash,      \* what is stored
    ram,        \* every process's copy
    cmd, pc,
    runs, faults, crashes

vars == <<flash, ram, cmd, pc, runs, faults, crashes>>
bounds == <<runs, faults, crashes>>

Busy(p) == pc[p] \notin {"idle", "ok", "failed"}
Goto(p, l) == pc' = [pc EXCEPT ![p] = l]
Fault == faults < MaxFaults /\ faults' = faults + 1 /\ UNCHANGED <<runs, crashes>>

-----------------------------------------------------------------------------
(***************************************************************************)
(* main_env.c, in memory.  s is [crit, vars, ok]: the critical section,    *)
(* the variables, and whether all calls have succeeded so far.             *)
(***************************************************************************)
Assigned(f, n, v) == [x \in DOMAIN f \cup {n} |-> IF x = n THEN v ELSE f[x]]

env_have_to_use_nvram(tool, name) == tool = "ubootenv" /\ name \in Special

(* add_var takes the old value out and appends the new one, but only up to *)
(* the end of the section: the variable that does not fit is cut off and   *)
(* taken for added.  From then on the section has no end mark, and nothing *)
(* is added or removed any more (EnvFuncs has the bytes).                  *)
Overrun(v) == \E n \in DOMAIN v : v[n] = Cut
HasRoom(v, n) == Cardinality(DOMAIN v \ {n}) < Capacity
Added(v, a) == Assigned(v, a.name, IF HasRoom(v, a.name) THEN a.value ELSE Cut)

env_add_var_unchecked(tool, s, a) ==        \* mutant: takes a string without "="
    IF env_have_to_use_nvram(tool, a.name)
    THEN [s EXCEPT !.crit[a.name] = a.value]
    ELSE [s EXCEPT !.vars = Added(@, a)]
env_add_var(tool, s, a) ==
    IF env_have_to_use_nvram(tool, a.name) /\ s.ok /\ a.value # NoValue
    THEN [s EXCEPT !.crit[a.name] = a.value]
    ELSE IF s.ok /\ a.value # NoValue /\ ~Overrun(s.vars)
    THEN [s EXCEPT !.vars = Added(@, a)]
    ELSE [s EXCEPT !.ok = FALSE]

env_add_vars_result_ignored(tool, s, as) ==     \* mutant: "< 0" never true
    LET after[k \in 0..Len(as)] ==
            IF k = 0 THEN s ELSE [env_add_var(tool, after[k - 1], as[k]) EXCEPT !.ok = TRUE]
    IN  after[Len(as)]
env_add_vars(tool, s, as) ==
    LET after[k \in 0..Len(as)] ==
            IF k = 0 THEN s ELSE env_add_var(tool, after[k - 1], as[k])
    IN  after[Len(as)]

(* A variable that is not there is reported, but is no failure.            *)
env_remove_varlist(s, names) ==
    LET left == {n \in DOMAIN s.vars : Overrun(s.vars) \/ \A k \in 1..Len(names) : names[k] # n}
    IN [s EXCEPT !.vars = [n \in left |-> @[n]]]

Changes(c) == c.clean \/ c.file # <<>> \/ c.erase # <<>> \/ c.set # <<>>

env_onetime_writable_empty(tool, section) ==    \* mutant: does not look for content
    tool = "prodinfoenv" /\ section.state = "valid" /\ section.vars = NoVars
env_onetime_writable(tool, section) ==
    tool = "prodinfoenv" /\ section.state = "valid" /\ section.vars # NoVars

(* main: a section that does not exist is added for --clean alone.         *)
Refuses(c, section) ==
    \/ section.state \in {"absent", "invalid"} /\ ~c.clean
    \/ env_onetime_writable(c.tool, section) /\ Changes(c)

(***************************************************************************)
(* The order is main's, whatever the order of the options: clean, file,    *)
(* erase, set.                                                             *)
(***************************************************************************)
Cleaned_not(c, variables) == variables      \* mutant: a section is not emptied
Cleaned(c, variables) == IF c.clean THEN NoVars ELSE variables

Edited(c, nv) ==
    LET start  == [crit |-> nv.crit, vars |-> Cleaned(c, nv[c.tool].vars), ok |-> TRUE]
        filled == env_add_vars(c.tool, start, c.file)
        erased == env_remove_varlist(filled, c.erase)
    IN IF filled.ok THEN env_add_vars(c.tool, erased, c.set) ELSE filled

-----------------------------------------------------------------------------
Init ==
    /\ flash \in InitialFlash
    /\ ram = [p \in Procs |-> flash]
    /\ cmd = [p \in Procs |-> CHOOSE c \in Commands : TRUE]
    /\ pc = [p \in Procs |-> "idle"]
    /\ runs = 0 /\ faults = 0 /\ crashes = 0

(* NvInit; nvram goes on without a valid NVRAM if it is to reset it.       *)
Start(p) ==
    /\ ~Busy(p) /\ runs < MaxRuns
    /\ Exclusive => \A q \in Procs : ~Busy(q)
    /\ \E c \in Commands :
         /\ cmd' = [cmd EXCEPT ![p] = c]
         /\ \/ Goto(p, "work") /\ runs' = runs + 1 /\ UNCHANGED <<faults, crashes>>
            \/ /\ ~(c.tool = "nvram" /\ c.do = "reset")
               /\ Goto(p, "failed")
               /\ faults < MaxFaults /\ faults' = faults + 1
               /\ runs' = runs + 1 /\ UNCHANGED crashes
    /\ ram' = [ram EXCEPT ![p] = flash]
    /\ UNCHANGED flash

(***************************************************************************)
(* main of main_env.c after NvInit.  The library call, the allocation or   *)
(* the opening of a file that fails ends it, except for NvOSCfgSet: then   *)
(* NvSave still stores the rest, the network parameters among it, and only *)
(* the exit status tells.                                                  *)
(***************************************************************************)
NotSet(section) == IF section.state = "absent" THEN [Absent EXCEPT !.state = "invalid"]
                                               ELSE section

EnvWork(p) ==
    LET c == cmd[p]
        e == Edited(c, ram[p])
        section == ram[p][c.tool]
    IN
    /\ pc[p] = "work" /\ c.tool # "nvram"
    /\ \/ Refuses(c, section) /\ Goto(p, "failed") /\ UNCHANGED <<ram, bounds>>
       \/ Goto(p, "failed") /\ Fault /\ UNCHANGED ram
       \/ /\ ~Refuses(c, section) /\ ~Changes(c)
          /\ Goto(p, "ok") /\ UNCHANGED <<ram, bounds>>
       \/ /\ ~Refuses(c, section) /\ Changes(c)
          /\ ram' = [ram EXCEPT ![p].crit = e.crit,
                                ![p][c.tool] = [state |-> "valid", vars |-> e.vars]]
          /\ Goto(p, IF e.ok THEN "save" ELSE "failed")
          /\ UNCHANGED bounds
       \/ /\ ~Refuses(c, section) /\ Changes(c) /\ e.ok
          /\ ram' = [ram EXCEPT ![p].crit = e.crit, ![p][c.tool] = NotSet(section)]
          /\ Goto(p, "saveRest") /\ Fault
    /\ UNCHANGED <<flash, cmd>>

(***************************************************************************)
(* nvram: "set" a parameter, load a section's raw content from a file      *)
(* (-s), or "reset", which NvPrivOSCriticalPartReset refuses but in        *)
(* manufacturing mode, as it erases the sections.                          *)
(***************************************************************************)
NvPrivOSCriticalPartReset_any(c) == TRUE        \* mutant
NvPrivOSCriticalPartReset(c) == c.manuf

NvramWork(p) ==
    LET c == cmd[p] IN
    /\ pc[p] = "work" /\ c.tool = "nvram"
    /\ \/ /\ c.do = "set"
          /\ ram' = [ram EXCEPT ![p].crit[c.name] = c.value]
          /\ Goto(p, "save") /\ UNCHANGED bounds
       \/ c.do \in {"set", "print"} /\ Goto(p, "failed") /\ Fault /\ UNCHANGED ram
       \/ /\ c.do = "load" /\ ram[p][c.os].state # "absent"
          /\ ram' = [ram EXCEPT ![p][c.os] = c.content]
          /\ Goto(p, "save") /\ UNCHANGED bounds
       \/ c.do = "load" /\ Goto(p, "failed") /\ UNCHANGED ram
          /\ IF ram[p][c.os].state = "absent" THEN UNCHANGED bounds ELSE Fault
       \/ /\ c.do = "reset" /\ NvPrivOSCriticalPartReset(c)
          /\ ram' = [ram EXCEPT ![p] = [crit |-> [n \in Special |-> Default],
                                        ubootenv |-> Absent, prodinfoenv |-> Absent]]
          /\ Goto(p, "save") /\ UNCHANGED bounds
       \/ c.do = "reset" /\ Goto(p, "failed") /\ UNCHANGED ram
          /\ IF ~NvPrivOSCriticalPartReset(c) THEN UNCHANGED bounds ELSE Fault
       \/ c.do = "print" /\ Goto(p, "ok") /\ UNCHANGED <<ram, bounds>>
    /\ UNCHANGED <<flash, cmd>>

(* NvSave writes everything; if it fails the old copy is still there.      *)
NvSave(p) ==
    /\ pc[p] \in {"save", "saveRest"}
    /\ \/ /\ flash' = ram[p]
          /\ Goto(p, IF pc[p] = "save" THEN "ok" ELSE "failed")
          /\ UNCHANGED bounds
       \/ Goto(p, "failed") /\ Fault /\ UNCHANGED flash
    /\ UNCHANGED <<ram, cmd>>

Crash(p) ==
    /\ Busy(p) /\ crashes < MaxCrashes /\ crashes' = crashes + 1
    /\ Goto(p, "failed")
    /\ UNCHANGED <<flash, ram, cmd, runs, faults>>

Terminated == runs = MaxRuns /\ (\A p \in Procs : ~Busy(p)) /\ UNCHANGED vars

Next ==
    \/ \E p \in Procs : Start(p) \/ EnvWork(p) \/ NvramWork(p) \/ NvSave(p) \/ Crash(p)
    \/ Terminated
Spec == Init /\ [][Next]_vars
-----------------------------------------------------------------------------
(* The type invariant.                                                     *)
TypeOK ==
    /\ flash \in Nvram /\ ram \in [Procs -> Nvram]
    /\ cmd \in [Procs -> Commands]
    /\ pc \in [Procs -> {"idle", "work", "save", "saveRest", "ok", "failed"}]

(***************************************************************************)
(* "Variables can only be set the first time and become read-only          *)
(* afterwards" (prodinfoenv): once there, the product information is       *)
(* changed by no run of ubootenv or prodinfoenv.                           *)
(***************************************************************************)
OneTimeWritable ==
    [][\A p \in Procs :
         /\ NvSave(p) /\ cmd[p].tool # "nvram"
         /\ flash.prodinfoenv.state = "valid" /\ flash.prodinfoenv.vars # NoVars
         => flash'.prodinfoenv = flash.prodinfoenv]_vars

(***************************************************************************)
(* A command is carried out completely or not at all: when one of its      *)
(* assignments is refused, not even the network parameters set by those    *)
(* before it are stored.                                                   *)
(***************************************************************************)
Refused(c) == \E k \in 1..Len(c.file \o c.set) : (c.file \o c.set)[k].value = NoValue
RefusedStoresNothing ==
    [][\A p \in Procs :
         flash' # flash /\ NvSave(p) /\ cmd[p].tool # "nvram" => ~Refused(cmd[p])]_vars

(***************************************************************************)
(* "To init the full environment from file use -c -a simultaneously":      *)
(* afterwards the section holds the file's variables, the last value of    *)
(* each, and no other, unless there are more of them than the section has  *)
(* room for: then the command may succeed with a variable that is cut off. *)
(***************************************************************************)
FullInit(c) == c.tool # "nvram" /\ c.clean /\ c.set = <<>>
InitFromFile ==
    \A p \in Procs : pc[p] = "save" /\ FullInit(cmd[p]) =>
        LET f == cmd[p].file
            own == {k \in 1..Len(f) : ~env_have_to_use_nvram(cmd[p].tool, f[k].name)}
            names == {f[k].name : k \in own}
            section == ram[p][cmd[p].tool].vars
        IN /\ DOMAIN section = names
           /\ \A k \in own : (\A j \in own : f[j].name = f[k].name => j <= k) =>
                \/ section[f[k].name] = f[k].value
                \/ section[f[k].name] = Cut /\ Cardinality(names) > Capacity

(***************************************************************************)
(* "to prevent 'nvram reset' from linux from erasing the OSCfgTable":      *)
(* only manufacturing mode makes a section disappear.                      *)
(***************************************************************************)
SectionsStay ==
    [][\A t \in {"ubootenv", "prodinfoenv"} :
         flash[t].state # "absent" /\ flash'[t].state = "absent"
         => \E p \in Procs : cmd[p].tool = "nvram" /\ cmd[p].manuf]_vars
=============================================================================
