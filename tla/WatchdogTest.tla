---------------------------- MODULE WatchdogTest ----------------------------
(***************************************************************************)
(* watchdog_test kicks the watchdog once a second for the time of the      *)
(* test, then disables it or lets the board reset.  A tick is a second;    *)
(* the program may be late.  The watchdog itself is external.              *)
(***************************************************************************)
EXTENDS Integers

CONSTANTS
    Timeouts,       \* values of -t, at least 1
    TestTimes,      \* values of -n
    DefaultTimeout, \* the driver's until it is told another one
    Lateness,       \* bound: seconds the program is late after sleep(1)
    MaxFaults       \* bound: ioctls that fail

VARIABLES
    pc,
    wd_timeout, wd_disable, wd_test_time,   \* options
    watchdog,       \* "off", "armed" or "fired"
    left,           \* seconds until it fires
    timeout,        \* what the driver was told
    asleep,         \* seconds since sleep(1) began
    since,          \* history: seconds since the test was over
    faults

vars == <<pc, wd_timeout, wd_disable, wd_test_time, watchdog, left, timeout,
          asleep, since, faults>>
options == <<wd_timeout, wd_disable>>

Init ==
    /\ pc = "open"
    /\ wd_timeout \in Timeouts /\ wd_disable \in BOOLEAN /\ wd_test_time \in TestTimes
    /\ watchdog = "off" /\ left = DefaultTimeout /\ timeout = DefaultTimeout
    /\ asleep = 0 /\ since = 0 /\ faults = 0

ConstantsOk ==
    /\ Timeouts \subseteq Nat \ {0} /\ TestTimes \subseteq Nat
    /\ DefaultTimeout \in Nat \ {0} /\ Lateness \in Nat /\ MaxFaults \in Nat

Alive == watchdog # "fired"
At(l) == pc = l /\ Alive
Fault == faults < MaxFaults /\ faults' = faults + 1
Outcome(ok) == IF ok THEN UNCHANGED faults ELSE Fault

(* Opening the device starts the watchdog.                                 *)
Open ==
    /\ At("open") /\ pc' = "settimeout"
    /\ watchdog' = "armed" /\ left' = timeout
    /\ UNCHANGED <<options, wd_test_time, timeout, asleep, since, faults>>

(* When it fails the program ends, with the watchdog running.              *)
SetTimeout ==
    /\ At("settimeout")
    /\ \E ok \in BOOLEAN :
        /\ Outcome(ok)
        /\ IF ok THEN pc' = "loop" /\ timeout' = wd_timeout /\ left' = wd_timeout
           ELSE pc' = "failed" /\ UNCHANGED <<timeout, left>>
    /\ UNCHANGED <<options, wd_test_time, watchdog, asleep, since>>

(* A failed ioctl is reported and the test goes on.                        *)
wd_keep_alive(ok) ==
    /\ Outcome(ok)
    /\ left' = IF ok /\ watchdog = "armed" THEN timeout ELSE left

Kick_only_once ==               \* mutant: kicked before the loop only
    /\ At("loop") /\ wd_test_time # 0
    /\ pc' = "sleep" /\ asleep' = 0
    /\ UNCHANGED <<options, wd_test_time, watchdog, left, timeout, since, faults>>
Kick ==
    /\ At("loop") /\ wd_test_time # 0
    /\ \E ok \in BOOLEAN : wd_keep_alive(ok)
    /\ pc' = "sleep" /\ asleep' = 0
    /\ UNCHANGED <<options, wd_test_time, watchdog, timeout, since>>

Wake ==
    /\ At("sleep") /\ asleep >= 1
    /\ pc' = "loop" /\ wd_test_time' = wd_test_time - 1
    /\ UNCHANGED <<options, watchdog, left, timeout, asleep, since, faults>>

LastKick ==
    /\ At("loop") /\ wd_test_time = 0
    /\ \E ok \in BOOLEAN : wd_keep_alive(ok)
    /\ pc' = "finish"
    /\ UNCHANGED <<options, wd_test_time, watchdog, timeout, asleep, since>>

(* WDIOC_SETOPTIONS with WDIOS_DISABLECARD: not every driver can.  close   *)
(* without the magic character leaves the watchdog running.                *)
Finish_always_disables ==       \* mutant: the option is not looked at
    /\ At("finish") /\ pc' = "done" /\ watchdog' = "off"
    /\ UNCHANGED <<options, wd_test_time, left, timeout, asleep, since, faults>>
Finish ==
    /\ At("finish") /\ pc' = "done"
    /\ IF wd_disable
       THEN \E ok \in BOOLEAN :
                Outcome(ok) /\ watchdog' = IF ok THEN "off" ELSE watchdog
       ELSE UNCHANGED <<watchdog, faults>>
    /\ UNCHANGED <<options, wd_test_time, left, timeout, asleep, since>>

(* A second passes.  Only sleep(1) takes time, and the scheduler.          *)
Tick ==
    /\ pc \in {"sleep", "done", "failed"} /\ watchdog = "armed"
    /\ pc = "sleep" => asleep < 1 + Lateness
    /\ left' = left - 1
    /\ watchdog' = IF left' <= 0 THEN "fired" ELSE watchdog
    /\ asleep' = IF pc = "sleep" THEN asleep + 1 ELSE asleep
    /\ since' = IF pc = "done" THEN since + 1 ELSE since
    /\ UNCHANGED <<pc, options, wd_test_time, timeout, faults>>

Program == Open \/ SetTimeout \/ Kick \/ Wake \/ LastKick \/ Finish
Terminated == (~Alive \/ (pc \in {"done", "failed"} /\ watchdog = "off")) /\ UNCHANGED vars
Next == Program \/ Tick \/ Terminated
Spec == Init /\ [][Next]_vars
(* The program is scheduled, and time passes.                              *)
FairSpec == Spec /\ WF_vars(Program) /\ WF_vars(Tick)

-----------------------------------------------------------------------------
(* Types.                                                                  *)
TypeOK ==
    /\ pc \in {"open", "settimeout", "loop", "sleep", "finish", "done", "failed"}
    /\ wd_timeout \in Timeouts /\ wd_disable \in BOOLEAN
    /\ wd_test_time \in Nat
    /\ watchdog \in {"off", "armed", "fired"}
    /\ timeout \in Timeouts \cup {DefaultTimeout} /\ left \in 0 .. timeout
    /\ asleep \in 0 .. 1 + Lateness /\ since \in Nat /\ faults \in 0 .. MaxFaults

(* The board is not reset before the test is over: one kick a second is    *)
(* enough for every timeout longer than the longest sleep, as long as no   *)
(* kick fails.                                                             *)
NoResetInTest ==
    (watchdog = "fired" /\ faults = 0 /\ pc # "done") => timeout <= 1 + Lateness

(* "so that the last sleep() does not affect the programmed reset time":   *)
(* the reset comes exactly -t seconds after the test.                      *)
ResetInTime ==
    (watchdog = "fired" /\ faults = 0 /\ pc = "done") => since = wd_timeout

(* "-d dead": in the end the board is reset, whatever the program could    *)
(* not do on the way.                                                      *)
DeadMeansReset == ~wd_disable ~> watchdog = "fired"
=============================================================================
