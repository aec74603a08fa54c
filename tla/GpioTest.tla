------------------------------ MODULE GpioTest ------------------------------
(***************************************************************************)
(* gpio_test as the client of the GPIO driver: it counts presses of a      *)
(* button and toggles a LED, first sampling with ioctl, then with read,    *)
(* then with the button as an interrupt.  The button is the pin of         *)
(* GpioDriver; every step of the program in the driver is a step there,    *)
(* so that the button and the interrupt handler come in between.  The LED  *)
(* is a pin of its own, seen as its level.  The names of the platforms and *)
(* their pull-up pin, which no platform has, are left out.                 *)
(***************************************************************************)
EXTENDS Integers

CONSTANTS
    Presses,    \* loops of each of the three tests (10)
    IrqCapable, \* platforms: whether the button can be an interrupt
    MaxFaults   \* bound

ConstantsOk ==
    Presses \in Nat \ {0} /\ IrqCapable \subseteq BOOLEAN /\ MaxFaults \in Nat

VARIABLES
    module, gpio, opened, dir, line, action, pending, pc, complaint, unseen,
    faults,                     \* of GpioDriver
    at, loops, inval, lastinval, outval, ret_val,   \* main
    irq_capable, led,
    falls,      \* history: times the button went down that no toggle answered,
                \* those that one interrupt stands for counted once
    held        \* history: the button was down before the first sample

client == <<at, loops, inval, lastinval, outval, ret_val, irq_capable, led>>
vars == <<module, gpio, opened, dir, line, action, pending, pc, complaint,
          unseen, faults, client, falls, held>>

Main == "main"
Driver == INSTANCE GpioDriver WITH
    Pin <- 1, Threads <- {Main}, IrqTypes <- {"falling"}, Disciplined <- TRUE, PollFor <- {},
    Calls <- [t \in {Main} |-> {"open", "close", "in", "irq", "pinval", "read"}]

Init ==
    /\ Driver!Init
    /\ at = "open" /\ loops = Presses /\ inval = 1 /\ lastinval = 1
    /\ outval = 0 /\ ret_val = 0 /\ led \in {0, 1}
    /\ irq_capable \in IrqCapable
    /\ falls = 0 /\ held = FALSE

Goto(l) == at' = l
Idle == pc[Main] = "idle"
history == <<falls, held>>

(* open of both pins, AS_INP of the button, AS_OUT of the LED, whose level *)
(* becomes outval.                                                         *)
Open ==
    /\ at = "open" /\ Driver!gpio_open(Main)
    /\ Goto("as_inp")
    /\ UNCHANGED <<loops, inval, lastinval, outval, ret_val, irq_capable, led, history>>
AsInp ==
    /\ at = "as_inp" /\ Driver!AsInpOrOut(Main, "in")
    /\ Goto("as_out")
    /\ UNCHANGED <<loops, inval, lastinval, outval, ret_val, irq_capable, led, history>>
AsOut ==
    /\ at = "as_out" /\ Idle
    /\ \/ Goto("ioctl") /\ outval' = led /\ ret_val' = 0 /\ UNCHANGED faults
       \/ /\ faults < MaxFaults /\ faults' = faults + 1
          /\ Goto("close") /\ ret_val' = -1 /\ UNCHANGED outval
    /\ held' = (line = 0)
    /\ UNCHANGED <<module, gpio, opened, dir, line, action, pending, pc, complaint,
                   unseen, loops, inval, lastinval, irq_capable, led, falls>>

(* The loop ends when it sees the button go down.  The value is taken      *)
(* inside of the call; ioctl returns in a later step, read begins in an    *)
(* earlier one.                                                            *)
SeesPress == lastinval = 1 /\ inval = 0
Sample(takes, returns) ==
    /\ Idle => ~SeesPress
    /\ \/ /\ takes /\ lastinval' = inval /\ inval' = line
          /\ UNCHANGED <<at, loops, outval, ret_val, irq_capable, led, history>>
       \/ /\ returns
          /\ UNCHANGED <<at, loops, inval, lastinval, outval, ret_val, irq_capable, led, history>>

SampleIoctl == at = "ioctl" /\ Sample(Driver!ReadPinVal(Main), Driver!ReadPinValEnd(Main))
SampleRead == at = "read" /\ Sample(Driver!ReadGet(Main), Driver!ReadStart(Main))

(* while (!((lastinval == 1) && (inval == 0))): a press, the LED is        *)
(* written, and after the last one the next test begins.                   *)
NextTest ==
    CASE at = "ioctl" -> "read"
      [] at = "read" -> IF irq_capable THEN "as_irq" ELSE "close"
      [] OTHER -> "close"
Toggle ==
    /\ outval' = 1 - outval /\ led' = 1 - outval
    /\ falls' = (IF at = "irq" THEN falls - 1 ELSE 0) /\ held' = FALSE
    /\ IF loops > 1 THEN loops' = loops - 1 /\ UNCHANGED at
       ELSE loops' = Presses /\ Goto(NextTest)
Pressed_while_down ==           \* mutant: does not compare with the last sample
    /\ at \in {"ioctl", "read"} /\ Idle /\ inval = 0
    /\ Toggle /\ lastinval' = inval
    /\ ret_val' = IF at = "read" THEN 1 ELSE 0
    /\ UNCHANGED <<module, gpio, opened, dir, line, action, pending, pc, complaint,
                   unseen, faults, inval, irq_capable>>
Pressed ==
    /\ at \in {"ioctl", "read"} /\ Idle /\ SeesPress
    /\ Toggle /\ lastinval' = inval
    /\ ret_val' = IF at = "read" THEN 1 ELSE 0
    /\ UNCHANGED <<module, gpio, opened, dir, line, action, pending, pc, complaint,
                   unseen, faults, inval, irq_capable>>

(* A call on either pin fails, before anything was done or after a press   *)
(* was seen: outval has then been changed, the LED has not.                *)
CallFails ==
    /\ at \in {"as_inp", "ioctl", "read", "irq"} /\ Idle
    /\ faults < MaxFaults /\ faults' = faults + 1
    /\ outval' \in IF SeesPress THEN {1 - outval}
                  ELSE IF at = "irq" THEN {outval, 1 - outval} ELSE {outval}
    /\ Goto("close") /\ ret_val' = -1
    /\ UNCHANGED <<module, gpio, opened, dir, line, action, pending, pc, complaint,
                   unseen, loops, inval, lastinval, irq_capable, led, history>>

(* GPIO_CONFIG_AS_IRQ: what it returns does not go to ret_val.             *)
AsIrq ==
    /\ at = "as_irq"
    /\ Driver!AsIrq(Main) /\ Goto("as_irq_end")
    /\ UNCHANGED <<loops, inval, lastinval, outval, ret_val, irq_capable, led, history>>
AsIrqEnd ==
    /\ at = "as_irq_end" /\ Driver!RequestIrq(Main)
    /\ Goto(IF action' = "none" THEN "close" ELSE "irq")
    /\ falls' = 0
    /\ UNCHANGED <<loops, inval, lastinval, outval, ret_val, irq_capable, led, held>>

(* read waits in the driver and returns: a press.                          *)
IrqRead ==
    /\ at = "irq"
    /\ Driver!ReadStart(Main) \/ Driver!WaitEvent(Main) \/ Driver!ReadClear(Main)
    /\ UNCHANGED <<client, history>>
IrqPressed ==
    /\ at = "irq" /\ Driver!ReadGet(Main)
    /\ inval' = line /\ ret_val' = 1 /\ Toggle
    /\ UNCHANGED <<lastinval, irq_capable>>
(* A signal ends the program, and the kernel closes its files.             *)
Killed ==
    /\ at = "irq" /\ Driver!Signal(Main)
    /\ Goto("close")
    /\ UNCHANGED <<loops, inval, lastinval, outval, ret_val, irq_capable, led, history>>

Close ==
    /\ at = "close" /\ Driver!gpio_release_close(Main)
    /\ Goto("done")
    /\ UNCHANGED <<loops, inval, lastinval, outval, ret_val, irq_capable, led, history>>

Program == Open \/ AsInp \/ AsOut \/ SampleIoctl \/ SampleRead \/ Pressed
            \/ CallFails \/ AsIrq \/ AsIrqEnd \/ IrqRead \/ IrqPressed \/ Close

Falling == line = 1 /\ line' = 0
Fallen ==
    IF ~Falling THEN falls
    ELSE IF at # "irq" THEN 1
    ELSE IF pending THEN falls ELSE falls + 1
Handler ==
    /\ Driver!gpio_irq_handler
    /\ falls' = falls - gpio.triggered
    /\ UNCHANGED <<client, held>>
Kernel ==
    \/ (Driver!gpio_init \/ Driver!gpio_init_end) /\ UNCHANGED <<client, history>>
    \/ Handler
    \/ /\ Driver!Button /\ at # "done"
       /\ falls' = Fallen
       /\ UNCHANGED <<client, held>>

Terminated == at = "done" /\ UNCHANGED vars
Next == Program \/ Killed \/ Kernel \/ Terminated
(* The kernel runs the program and delivers interrupts; nobody has to      *)
(* press the button.                                                       *)
Fairness == WF_vars(Program) /\ WF_vars(Handler)
Spec == Init /\ [][Next]_vars /\ Fairness

-----------------------------------------------------------------------------
(* Types.                                                                  *)
TypeOK ==
    /\ Driver!TypeOK
    /\ at \in {"open", "as_inp", "as_out", "ioctl", "read", "as_irq", "as_irq_end",
               "irq", "close", "done"}
    /\ loops \in 1 .. Presses /\ {inval, lastinval, outval, led} \subseteq {0, 1}
    /\ ret_val \in -1 .. 1 /\ irq_capable \in BOOLEAN
    /\ falls \in 0 .. 3 /\ held \in BOOLEAN

(* The LED is toggled only for a button that went down since it was        *)
(* toggled last, by each of the three ways to look at it; the first sample *)
(* alone takes a button that is held for a press.                          *)
EveryPressIsReal == [][led' # led => falls > 0 \/ held]_vars

(* The program as a client of the driver: a press while it waits in read   *)
(* is counted, though it may come before read goes to sleep or after it    *)
(* has cleared the trigger.                                                *)
PressWaits == at = "irq" /\ falls > 0
PressIsCounted == PressWaits ~> ~PressWaits

(* The program takes no step the driver or the kernel would complain of,   *)
(* and leaves the button without a handler.                                *)
LeavesPinQuiet ==
    /\ Driver!KernelIntact
    /\ at = "done" => action = "none" /\ ~opened
=============================================================================
