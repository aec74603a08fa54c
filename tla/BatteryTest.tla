----------------------------- MODULE BatteryTest -----------------------------
(***************************************************************************)
(* battery_test turns itself into a daemon (daemonize): the child sets     *)
(* itself up and tells the parent with SIGUSR1, the parent waits in        *)
(* pause() for that, for SIGCHLD or for two seconds.  A signal that is     *)
(* handled before pause() wakes nobody.  The monitoring itself, which      *)
(* keeps nothing from one minute to the next, is one place of the child.   *)
(***************************************************************************)
EXTENDS Integers

CONSTANTS
    Prompt,     \* the child runs, and alarm is followed by pause, in a second
    MaxFaults   \* bound: calls that fail

VARIABLES
    parent, child,  \* where the two processes are
    ppid,           \* parent in the child: who gets the signal
    timer,          \* seconds to SIGALRM, or Off
    told,           \* history: who got SIGUSR1
    faults

vars == <<parent, child, ppid, timer, told, faults>>

Off == -1
Fault(ok) == IF ok THEN UNCHANGED faults
             ELSE faults < MaxFaults /\ faults' = faults + 1

Init ==
    /\ parent = "fork" /\ child = "none" /\ ppid = "unset"
    /\ timer = Off /\ told = "nobody" /\ faults = 0

(* Started by init it is its own daemon.                                   *)
AlreadyDaemon ==
    /\ parent = "fork" /\ parent' = "monitor"
    /\ UNCHANGED <<child, ppid, timer, told, faults>>

(* The lock file is only opened; it keeps no second daemon away.           *)
Fork ==
    /\ parent = "fork"
    /\ \E ok \in BOOLEAN :
        /\ Fault(ok)
        /\ IF ok THEN parent' = "alarm" /\ child' = "getppid"
           ELSE parent' = "exited" /\ UNCHANGED child
    /\ UNCHANGED <<ppid, timer, told>>

Alarm ==
    /\ parent = "alarm" /\ parent' = "call_pause" /\ timer' = 2
    /\ UNCHANGED <<child, ppid, told, faults>>
Pause ==
    /\ parent = "call_pause" /\ parent' = "pause"
    /\ UNCHANGED <<child, ppid, timer, told, faults>>

(* The handler only logs; pause returns and exit(EXIT_FAILURE) follows.    *)
Signalled == IF parent = "pause" THEN "exited" ELSE parent

-----------------------------------------------------------------------------
GetPpid ==
    /\ child = "getppid" /\ child' = "set_up"
    /\ ppid' = IF parent = "exited" THEN "init" ELSE "parent"
    /\ UNCHANGED <<parent, timer, told, faults>>

(* setsid, chdir and freopen; whichever fails ends the child.              *)
SetUp ==
    /\ child = "set_up"
    /\ \E ok \in BOOLEAN :
        /\ Fault(ok)
        /\ child' = IF ok THEN "kill" ELSE "exited"
        /\ parent' = IF ok THEN parent ELSE Signalled
    /\ UNCHANGED <<ppid, timer, told>>

Tell_whoever_is_parent ==   \* mutant: kill(getppid(), SIGUSR1)
    /\ child = "kill" /\ child' = "monitor"
    /\ told' = IF parent = "exited" THEN "init" ELSE "parent"
    /\ parent' = Signalled
    /\ UNCHANGED <<ppid, timer, faults>>
Tell ==
    /\ child = "kill" /\ child' = "monitor"
    /\ told' = IF ppid = "parent" /\ parent = "exited" THEN "nobody" ELSE ppid
    /\ parent' = IF ppid = "parent" THEN Signalled ELSE parent
    /\ UNCHANGED <<ppid, timer, faults>>

Tick ==
    /\ timer > 0 /\ timer' = timer - 1
    /\ Prompt => parent # "call_pause" /\ child # "getppid"
    /\ parent' = IF timer' = 0 THEN Signalled ELSE parent
    /\ UNCHANGED <<child, ppid, told, faults>>

Parent == AlreadyDaemon \/ Fork \/ Alarm \/ Pause
Child == GetPpid \/ SetUp \/ Tell
Terminated ==
    /\ parent \in {"exited", "monitor"} /\ child \in {"none", "monitor", "exited"}
    /\ UNCHANGED vars
Next == Parent \/ Child \/ Tick \/ Terminated
Spec == Init /\ [][Next]_vars
(* Both processes are scheduled, and time passes.                          *)
FairSpec == Spec /\ WF_vars(Parent) /\ WF_vars(Child \/ Tick)
-----------------------------------------------------------------------------
TypeOK ==
    /\ parent \in {"fork", "alarm", "call_pause", "pause", "exited", "monitor"}
    /\ child \in {"none", "getppid", "set_up", "kill", "monitor", "exited"}
    /\ ppid \in {"unset", "parent", "init"} /\ timer \in Off .. 2
    /\ told \in {"nobody", "parent", "init"} /\ faults \in 0 .. MaxFaults

(* "Tell the parent process that we are A-okay": nobody else is told, init *)
(* above all, to which the signal means something else.                    *)
OnlyTheParentIsTold == told # "init"

(* The parent goes when the child has reported, has ended, or is late.     *)
ParentWaits ==
    parent = "exited" => told = "parent" \/ child \in {"none", "exited"} \/ timer = 0

ParentEnds == (parent = "alarm") ~> (parent = "exited")
=============================================================================
