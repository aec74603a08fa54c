----------------------------- MODULE SysfsGpio -----------------------------
(***************************************************************************)
(* gpio_sysfs_test waits for a button and toggles a LED, through the files *)
(* the kernel has in sysfs for an exported pin; every function of          *)
(* sysfsgpio.c opens a file, writes or reads it and closes it.  Six rounds *)
(* go through the edges, active low and active high.  What is printed, and *)
(* read only to be printed, is left out.                                   *)
(***************************************************************************)
EXTENDS Integers, Sequences

CONSTANTS
    Loops,      \* presses in a round (10)
    Leds,       \* whether a LED is given: a negative pin does nothing
    MaxSignals, \* bound
    MaxFaults   \* bound: files that cannot be opened, exports refused

VARIABLES
    pc, round, i, run,  \* the program
    value,              \* what was last written to the LED, in this round
    led_given,
    pin,        \* the kernel's view of the button: active_low, edge, exported
    out_exported,
    line, led,  \* levels
    watched,    \* the value file is open: an edge is noticed
    news,       \* poll would return: an edge since the last read
    edges,      \* history: there was an edge since the file was opened
    late,       \* history: presses counted since a signal
    signals, faults

vars == <<pc, round, i, run, value, led_given, pin, out_exported, line, led,
          watched, news, edges, late, signals, faults>>
program == <<round, i, run, value, led_given, late, signals>>
kernel == <<pin, out_exported, line, led, watched, news, edges>>

\* active_low and edge of each call of gpio_sysfs_test_loop
Rounds == <<[low |-> TRUE, edge |-> "rising"], [low |-> TRUE, edge |-> "falling"],
            [low |-> TRUE, edge |-> "both"], [low |-> FALSE, edge |-> "rising"],
            [low |-> FALSE, edge |-> "falling"], [low |-> FALSE, edge |-> "both"]>>

(* After an even number of presses the LED is as it was before them.       *)
ConstantsOk ==
    /\ Loops \in Nat /\ Loops % 2 = 0 /\ Leds \subseteq BOOLEAN
    /\ MaxSignals \in Nat /\ MaxFaults \in Nat

Init ==
    /\ pc = "export" /\ round = 1 /\ i = 0 /\ run = TRUE /\ value = 0
    /\ led_given \in Leds
    /\ pin = [exported |-> FALSE, low |-> FALSE, edge |-> "none"]
    /\ out_exported = FALSE /\ line \in {0, 1} /\ led = 0
    /\ watched = FALSE /\ news = FALSE /\ edges = FALSE
    /\ late = 0 /\ signals = 0 /\ faults = 0

Fault == faults < MaxFaults /\ faults' = faults + 1
Ended == {"done", "left", "aborted", "killed"}     \* "left": a pin was kept

(* ABORT_ON_ERROR: abort() ends the program where it is.                   *)
Abort == pc' = "aborted" /\ watched' = FALSE

-----------------------------------------------------------------------------
(* main exports both pins.  What write returns is not looked at, so only a *)
(* later function notices that the kernel did not export a pin.            *)
Export ==
    /\ pc = "export"
    /\ \/ /\ \E refused \in BOOLEAN :
                /\ IF refused THEN Fault ELSE UNCHANGED faults
                /\ pin' = [pin EXCEPT !.exported = ~refused]
          /\ out_exported' = led_given
          /\ pc' = "direction" /\ UNCHANGED watched
       \/ Fault /\ Abort /\ UNCHANGED <<pin, out_exported>>
    /\ UNCHANGED <<program, line, led, news, edges>>

(* The directions; the pin that is not exported has no files.              *)
SetDirections ==
    /\ pc = "direction"
    /\ \/ /\ pin.exported /\ pc' = "settings"
          /\ led' = IF led_given THEN 0 ELSE led
          /\ UNCHANGED <<watched, faults>>
       \/ ~pin.exported /\ Abort /\ UNCHANGED <<led, faults>>
       \/ pin.exported /\ Fault /\ Abort /\ UNCHANGED led
    /\ UNCHANGED <<program, pin, out_exported, line, news, edges>>

(* active_low and edge; then gpio_sysfs_test_loop, which only returns -1,  *)
(* and with it poll_test, when run was 0 before it started.  A round with  *)
(* both edges is left out when the edge does not read back as "both": the  *)
(* write, whose result is not looked at, or the read has failed.           *)
AfterRound ==
    IF round < Len(Rounds) THEN pc' = "settings" /\ round' = round + 1
    ELSE pc' = "unexport" /\ UNCHANGED round
NextRound ==
    /\ pc = "settings"
    /\ \/ /\ pin' = [pin EXCEPT !.low = Rounds[round].low, !.edge = Rounds[round].edge]
          /\ pc' = IF run THEN "loop" ELSE "unexport"
          /\ i' = 0 /\ value' = 0 /\ UNCHANGED <<round, watched, faults>>
       \/ /\ Rounds[round].edge = "both" /\ Fault /\ AfterRound
          /\ \E edge \in {pin.edge, "both"} :
                pin' = [pin EXCEPT !.low = Rounds[round].low, !.edge = edge]
          /\ UNCHANGED <<i, value, watched>>
       \/ Fault /\ Abort /\ UNCHANGED <<round, pin, i, value>>
    /\ UNCHANGED <<run, led_given, late, signals, out_exported, line, led, news, edges>>

Loop ==
    /\ pc = "loop"
    /\ IF i < Loops /\ run THEN pc' = "open" /\ UNCHANGED round ELSE AfterRound
    /\ UNCHANGED <<i, run, value, led_given, late, signals, kernel, faults>>

(* sysfs_gpio_poll.  Until the file is read for the first time poll would  *)
(* return at once: "Read here to avoid poll returning immediately".        *)
PollOpen ==
    /\ pc = "open"
    /\ \/ pc' = "read" /\ watched' = TRUE /\ news' = TRUE /\ edges' = FALSE /\ UNCHANGED faults
       \/ Fault /\ Abort /\ UNCHANGED <<news, edges>>
    /\ UNCHANGED <<program, pin, out_exported, line, led>>

DummyRead_missing ==            \* mutant
    /\ pc = "read" /\ pc' = "poll"
    /\ UNCHANGED <<program, kernel, faults>>
DummyRead ==
    /\ pc = "read" /\ pc' = "poll" /\ news' = FALSE
    /\ UNCHANGED <<program, pin, out_exported, line, led, watched, edges, faults>>

(* poll without a timeout; then the value is read and the file closed.     *)
Poll ==
    /\ pc = "poll" /\ news
    /\ pc' = "press" /\ watched' = FALSE /\ news' = FALSE
    /\ UNCHANGED <<program, pin, out_exported, line, led, edges, faults>>

Press ==
    /\ pc = "press"
    /\ \/ /\ pc' = "loop" /\ i' = i + 1 /\ value' = 1 - value
          /\ led' = IF led_given THEN 1 - value ELSE led
          /\ late' = IF run THEN 0 ELSE late + 1
          /\ UNCHANGED <<watched, faults>>
       \/ led_given /\ Fault /\ Abort /\ UNCHANGED <<i, value, led, late>>
    /\ UNCHANGED <<round, run, led_given, signals, pin, out_exported, line, news, edges>>

(* The file may not open and the write fail, for either pin; main does not *)
(* look.                                                                   *)
Unexport ==
    /\ pc = "unexport"
    /\ \E kept \in SUBSET IF led_given THEN {"in", "out"} ELSE {"in"} :
        /\ IF kept = {} THEN pc' = "done" /\ UNCHANGED faults ELSE pc' = "left" /\ Fault
        /\ IF "in" \in kept THEN UNCHANGED pin
           ELSE pin' = [pin EXCEPT !.exported = FALSE, !.edge = "none"]
        /\ out_exported' = ("out" \in kept /\ out_exported)
    /\ UNCHANGED <<program, line, led, watched, news, edges>>

-----------------------------------------------------------------------------
(* The button (external): an edge of the logical value is noticed while    *)
(* the file is open.                                                       *)
Logical(v) == IF pin.low THEN 1 - v ELSE v
Noticed(v) ==
    /\ watched
    /\ CASE pin.edge = "rising" -> Logical(v) = 1
         [] pin.edge = "falling" -> Logical(v) = 0
         [] pin.edge = "both" -> TRUE
         [] OTHER -> FALSE
Button ==
    /\ pc \notin Ended
    /\ line' = 1 - line
    /\ news' = (news \/ Noticed(line')) /\ edges' = (edges \/ Noticed(line'))
    /\ UNCHANGED <<pc, program, pin, out_exported, led, watched, faults>>

(* signal_handler.  Before it is installed the signal ends the program;    *)
(* poll is never restarted, and sysfs_gpio_poll that fails is an abort.    *)
Signal ==
    /\ pc \notin Ended /\ signals < MaxSignals /\ signals' = signals + 1
    /\ run' = FALSE
    /\ CASE pc = "export" -> pc' = "killed" /\ UNCHANGED watched
         [] pc = "poll" -> Abort
         [] OTHER -> UNCHANGED <<pc, watched>>
    /\ UNCHANGED <<round, i, value, led_given, late, pin, out_exported, line, led,
                   news, edges, faults>>

Program == Export \/ SetDirections \/ NextRound \/ Loop \/ PollOpen \/ DummyRead
            \/ Poll \/ Press \/ Unexport
Terminated == pc \in Ended /\ UNCHANGED vars
Next == Program \/ Button \/ Signal \/ Terminated
Spec == Init /\ [][Next]_vars

-----------------------------------------------------------------------------
(* Types.                                                                  *)
TypeOK ==
    /\ pc \in {"export", "direction", "settings", "loop", "open", "read", "poll",
               "press", "unexport"} \cup Ended
    /\ round \in DOMAIN Rounds /\ i \in 0 .. Loops /\ run \in BOOLEAN
    /\ value \in {0, 1} /\ led_given \in BOOLEAN
    /\ pin \in [exported : BOOLEAN, low : BOOLEAN,
                edge : {"none", "rising", "falling", "both"}]
    /\ out_exported \in BOOLEAN /\ line \in {0, 1} /\ led \in {0, 1}
    /\ watched \in BOOLEAN /\ news \in BOOLEAN /\ edges \in BOOLEAN
    /\ late \in 0 .. 2 /\ signals \in 0 .. MaxSignals /\ faults \in 0 .. MaxFaults

(* A press is counted only when the button was pressed (or released, as    *)
(* the round has it) since the program began to wait for it.               *)
PressesAreReal == pc = "press" => edges

(* Every press changes the LED, the first one of a round as well.          *)
EveryPressShows == [][(pc = "press" /\ pc' = "loop" /\ led_given) => led' # led]_vars

(* After a signal at most the press that was being waited for is counted.  *)
StopsAtNextPress == late <= 1

(* On every way to the end, those of a signal as well, both pins are given *)
(* back, and the kernel keeps none unless unexport itself has failed.      *)
NothingLeftExported == pc = "done" => ~pin.exported /\ ~out_exported
=============================================================================
