------------------------------ MODULE RtcTest ------------------------------
(***************************************************************************)
(* rtc_test sets the clock two seconds ahead (-b), sets the alarm (-d) and *)
(* waits for it (-e), all from the time it has read once at the start,     *)
(* while the clock goes on.  The clock counts seconds from the start of    *)
(* day 0; the lengths of a minute, an hour and a day are parameters.  What *)
(* is printed and the tests that only read are left out.                   *)
(***************************************************************************)
EXTENDS Integers

CONSTANTS
    Sec, Min, Hour, \* seconds per minute, minutes per hour, hours per day
    Requests,       \* options: [set, alarm, irq, minutes_res, seconds]
    MaxDelay,       \* bound: seconds that pass before the program waits
    MaxFaults       \* bound: ioctls that fail

ConstantsOk ==
    /\ Sec \in Nat \ {0, 1} /\ Min \in Nat \ {0} /\ Hour \in Nat \ {0}
    /\ Requests \subseteq [set : BOOLEAN, alarm : BOOLEAN, irq : BOOLEAN,
                           minutes_res : BOOLEAN, seconds : Int]
    /\ MaxDelay \in Nat /\ MaxFaults \in Nat

Day == Sec * Min * Hour

VARIABLES
    pc,
    req,        \* the options
    rtc,        \* the clock
    alarm,      \* its alarm: [on, at]
    pending,    \* the interrupt was raised and not read
    tm,         \* rtc_tm: [day, h, m, s], all zero and no date when it was not read
    left,       \* what is left of select's timeout
    results,    \* test_results
    start,      \* history: the time that was read
    delay, faults

vars == <<pc, req, rtc, alarm, pending, tm, left, results, start, delay, faults>>
clock == <<rtc, alarm, pending>>

Tm(t) == [day |-> t \div Day, h |-> (t \div (Sec * Min)) % Hour,
          m |-> (t \div Sec) % Min, s |-> t % Sec]
NoDate == -1
Valid(x) == x.s \in 0 .. Sec - 1 /\ x.m \in 0 .. Min - 1 /\ x.h \in 0 .. Hour - 1
Dated(x) == Valid(x) /\ x.day # NoDate
TimeOfDay(x) == (x.h * Min + x.m) * Sec + x.s
Shown(x) == x.day * Day + TimeOfDay(x)
Fault == faults < MaxFaults /\ faults' = faults + 1
Outcome(ok) == IF ok THEN UNCHANGED faults ELSE Fault

Init ==
    /\ pc = "read" /\ req \in Requests
    /\ rtc \in 0 .. Day - 1 /\ alarm = [on |-> FALSE, at |-> 0] /\ pending = FALSE
    /\ tm = Tm(0) /\ left = 0 /\ results = {} /\ start = 0
    /\ delay = 0 /\ faults = 0

TimeRead ==
    /\ pc = "read" /\ pc' = "set" /\ start' = rtc
    /\ \/ tm' = Tm(rtc) /\ UNCHANGED faults
       \/ tm' = [Tm(0) EXCEPT !.day = NoDate] /\ Fault
    /\ UNCHANGED <<req, clock, left, results, delay>>

(* The carry of both functions: at most one minute and one hour, and the   *)
(* date is never advanced.                                                 *)
Carry_off_by_one(x) ==          \* mutant: ">" for ">="
    LET s == [x EXCEPT !.m = IF x.s > Sec THEN @ + 1 ELSE @,
                       !.s = IF @ > Sec THEN @ % Sec ELSE @]
        m == [s EXCEPT !.h = IF s.m = Min THEN @ + 1 ELSE @,
                       !.m = IF @ = Min THEN 0 ELSE @]
    IN [m EXCEPT !.h = IF @ = Hour THEN 0 ELSE @]
Carry(x) ==
    LET s == [x EXCEPT !.m = IF x.s >= Sec THEN @ + 1 ELSE @,
                       !.s = IF @ >= Sec THEN @ % Sec ELSE @]
        m == [s EXCEPT !.h = IF s.m = Min THEN @ + 1 ELSE @,
                       !.m = IF @ = Min THEN 0 ELSE @]
    IN [m EXCEPT !.h = IF @ = Hour THEN 0 ELSE @]

TimeSet ==
    /\ pc = "set" /\ pc' = "alarm"
    /\ IF ~req.set THEN UNCHANGED <<rtc, tm, results, faults>>
       ELSE LET new == Carry([tm EXCEPT !.s = @ + 2])
            IN \E ok \in BOOLEAN :
                /\ IF Dated(new) THEN Outcome(ok) ELSE ~ok /\ UNCHANGED faults
                /\ tm' = new
                /\ rtc' = IF ok THEN Shown(new) ELSE rtc
                /\ results' = IF ok THEN results \cup {"set"} ELSE results
    /\ UNCHANGED <<req, alarm, pending, left, start, delay>>

(* RTC_ALM_SET looks at the time of day only: one that is over is meant    *)
(* for tomorrow.  RTC_AIE_ON lets it ring (both external).                 *)
NextAt(tod) == LET today == (rtc \div Day) * Day + tod
               IN IF today < rtc THEN today + Day ELSE today
Minutes(n) == IF n >= 0 THEN n \div Sec ELSE -((-n) \div Sec)    \* of C
AlarmTime ==
    Carry(IF req.minutes_res THEN [tm EXCEPT !.s = 0, !.m = @ + Minutes(req.seconds)]
          ELSE [tm EXCEPT !.s = @ + req.seconds])
AlarmSet ==
    /\ pc = "alarm" /\ pc' = "irq"
    /\ IF ~(req.alarm \/ req.irq) THEN UNCHANGED <<alarm, tm, results, faults>>
       ELSE \E ok \in BOOLEAN :
            /\ IF Valid(AlarmTime) THEN Outcome(ok) ELSE ~ok /\ UNCHANGED faults
            /\ tm' = AlarmTime
            /\ alarm' = IF ok THEN [on |-> TRUE, at |-> NextAt(TimeOfDay(AlarmTime))]
                        ELSE alarm
            /\ results' = IF ok THEN results \cup {"alarm"} ELSE results
    /\ UNCHANGED <<req, rtc, pending, left, start, delay>>

(* The timeout is computed first, with -m from the clock: when it cannot   *)
(* be read the seconds are those that were on the stack.  RTC_WKALM_SET    *)
(* takes the date as well; a time that is over is refused or never rings,  *)
(* as the kernel likes.                                                    *)
Timeout == 2 + (IF req.minutes_res THEN req.seconds - Tm(rtc).s ELSE req.seconds)
AnyTimeout == {-1, 0, Timeout + Sec}    \* too little, or enough
Irq ==
    /\ pc = "irq"
    /\ IF ~req.irq THEN pc' = "done" /\ UNCHANGED <<alarm, left, faults>>
       ELSE \/ /\ Dated(tm) /\ alarm' = [on |-> TRUE, at |-> Shown(tm)] /\ pc' = "select"
               /\ \/ left' = Timeout /\ UNCHANGED faults
                  \/ req.minutes_res /\ left' \in AnyTimeout /\ Fault
            \/ /\ pc' = "done" /\ left' = Timeout /\ UNCHANGED alarm
               /\ \/ (~Dated(tm) \/ Shown(tm) <= rtc) /\ UNCHANGED faults
                  \/ Fault
    /\ UNCHANGED <<req, rtc, pending, tm, results, start, delay>>

(* select returns with the interrupt or after the timeout; a negative      *)
(* timeout is an error, and the program exits.                             *)
Select ==
    /\ pc = "select"
    /\ \/ pending /\ results' = results \cup {"irq"} /\ pc' = "disable" /\ pending' = FALSE
       \/ ~pending /\ left = 0 /\ pc' = "disable" /\ UNCHANGED <<results, pending>>
       \/ left < 0 /\ pc' = "exit" /\ UNCHANGED <<results, pending>>
    /\ UNCHANGED <<req, rtc, alarm, tm, left, start, delay, faults>>

Disable ==
    /\ pc = "disable" /\ pc' = "done"
    /\ \E ok \in BOOLEAN :
        /\ Outcome(ok)
        /\ alarm' = IF ok THEN [alarm EXCEPT !.on = FALSE] ELSE alarm
        /\ results' = IF ok THEN results ELSE results \ {"irq"}
    /\ UNCHANGED <<req, rtc, pending, tm, left, start, delay>>

(* A second passes (external): while the program waits, or MaxDelay times  *)
(* before that.  The interrupt comes within a second of the alarm.         *)
Tick ==
    /\ \/ pc \in {"set", "alarm", "irq"} /\ delay < MaxDelay
          /\ delay' = delay + 1 /\ UNCHANGED left
       \/ pc = "select" /\ left > 0 /\ ~pending
          /\ left' = left - 1 /\ UNCHANGED delay
    /\ rtc' = rtc + 1
    /\ pending' \in IF alarm.on /\ alarm.at = rtc' THEN {pending, TRUE}
                   ELSE {pending \/ (alarm.on /\ alarm.at + 1 = rtc')}
    /\ UNCHANGED <<pc, req, alarm, tm, results, start, faults>>

Program == TimeRead \/ TimeSet \/ AlarmSet \/ Irq \/ Select \/ Disable
Terminated == pc \in {"done", "exit"} /\ UNCHANGED vars
Next == Program \/ Tick \/ Terminated
Spec == Init /\ [][Next]_vars
FairSpec == Spec /\ WF_vars(Program) /\ WF_vars(Tick)

-----------------------------------------------------------------------------
(* Types.                                                                  *)
TypeOK ==
    /\ pc \in {"read", "set", "alarm", "irq", "select", "disable", "done", "exit"}
    /\ req \in Requests /\ rtc \in Nat
    /\ alarm.on \in BOOLEAN /\ alarm.at \in Nat /\ pending \in BOOLEAN
    /\ tm.s \in Int /\ tm.m \in Int /\ tm.h \in Nat /\ tm.day \in Nat \cup {NoDate}
    /\ left \in Int /\ results \subseteq {"set", "alarm", "irq"}
    /\ delay \in 0 .. MaxDelay /\ faults \in 0 .. MaxFaults

\* when the alarm is due, counted from the time the program has read
Due == IF req.minutes_res THEN (start \div Sec) * Sec + req.seconds
       ELSE start + req.seconds + (IF req.set THEN 2 ELSE 0)
\* requests the carry is good for: within the day, at most one minute on
Served ==
    /\ Due \div Day = start \div Day
    /\ IF req.minutes_res
       THEN /\ req.seconds > 0 /\ req.seconds % Sec = 0
            /\ Tm(start).m + req.seconds \div Sec <= Min
       ELSE req.seconds \in 0 .. Sec - 3
    /\ ~(req.set /\ req.minutes_res)

\* it is not due yet when the program starts to wait
InTime == IF req.minutes_res THEN start + delay < Due ELSE delay < req.seconds

(* An alarm that was set before it was due is reported as rung: it does    *)
(* not get lost at the end of a minute or an hour, nor between setting it  *)
(* and waiting, nor does select give up before.                            *)
AlarmRings ==
    (pc = "done" /\ req.irq /\ Served /\ faults = 0 /\ InTime)
        => "irq" \in results

(* "Set the alarm to trigger in the specified seconds": it does not ring   *)
(* before that.                                                            *)
NotTooEarly == ("irq" \in results /\ Served) => rtc >= Due

(* Setting the clock never takes it back, except over midnight, or when    *)
(* more than the two seconds have passed since it was read.                *)
ClockGoesOn ==
    (TimeSet /\ req.set /\ faults' = faults /\ delay <= 2 /\ (start + 2) \div Day = start \div Day)
        => rtc' >= rtc

(* After -e, which ends with RTC_WKALM_SET, no alarm is left to ring.      *)
AlarmOffAtEnd == (pc = "done" /\ req.irq /\ Served /\ faults = 0 /\ InTime)
                    => ~alarm.on
=============================================================================
