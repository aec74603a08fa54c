----------------------------- MODULE GpioDriver -----------------------------
(***************************************************************************)
(* The GPIO character driver gpio.c, seen through one pin: the threads of  *)
(* the process that has the pin open call into the driver, the interrupt   *)
(* handler runs between any two of their steps, and the module is loaded   *)
(* and unloaded.  ioctl holds the big kernel lock, which is given up where *)
(* free_irq and request_irq sleep; read and poll hold no lock.             *)
(***************************************************************************)
EXTENDS Integers, FiniteSets

CONSTANTS
    Pin,        \* the minor number
    Threads,
    Calls,      \* Threads -> the calls a thread makes
    IrqTypes,   \* values passed to GPIO_CONFIG_AS_IRQ
    PollFor,    \* the events that callers of poll wait for
    Disciplined,\* nobody is in the driver when a configuration begins, poll
                \* comes after AS_IRQ, and loading the module succeeds before
                \* anybody opens the device
    MaxFaults   \* bound: request_irq or cdev_add fails

CallNames == {"open", "close", "in", "out", "irq", "pinval", "setpin",
              "read", "readnb", "poll"}
ValidTypes == {"high", "low", "rising", "falling"}

ASSUME ConstantsAssumption ==
    /\ Pin \in Nat
    /\ "uninitialised" \notin Threads
    /\ Calls \in [Threads -> SUBSET CallNames]
    /\ Disciplined \in BOOLEAN /\ MaxFaults \in Nat

VARIABLES
    module,     \* "absent", "registered" (visible, not initialised), "loaded"
    gpio,       \* struct gpio_conf: dev_id, irqnum, triggered, wait_q
    opened,     \* the pin is requested and the file open
    dir, line,  \* direction and level of the pin
    action,     \* the kernel's handler for the pin's irq: its type or "none"
    pending,    \* the interrupt is raised and not yet handled
    pc,         \* where each thread is
    complaint,  \* what the kernel would oops or warn about
    unseen,     \* history: an interrupt was handled and the value not read
                \* since: "no", "yes", or "wiped": READ_PIN_VAL, which had the
                \* value before, has cleared the trigger
    faults

vars == <<module, gpio, opened, dir, line, action, pending, pc, complaint,
          unseen, faults>>
hardware == <<dir, line>>

Irq == Pin + 100    \* gpio_to_irq: any number >= 0
NoQueue == {"uninitialised"}
ZeroConf == [dev_id |-> 0, irqnum |-> 0, triggered |-> 0, wait_q |-> NoQueue]

Init ==
    /\ module = "absent" /\ gpio = ZeroConf
    /\ opened = FALSE /\ dir = "in" /\ line \in {0, 1}
    /\ action = "none" /\ pending = FALSE
    /\ pc = [t \in Threads |-> "idle"]
    /\ complaint = {} /\ unseen = "no" /\ faults = 0

May(t, call) == opened /\ pc[t] = "idle" /\ call \in Calls[t]
Alone(t) == Disciplined => \A u \in Threads \ {t} : pc[u] = "idle"
Goto(t, l) == pc' = [pc EXCEPT ![t] = l]

Complain(what) == complaint' = complaint \cup {what}

-----------------------------------------------------------------------------
(***************************************************************************)
(* The kernel's side (external): free_irq waits for a running handler;     *)
(* freeing what was never requested is a bug it warns about.               *)
(***************************************************************************)
free_irq ==
    /\ action' = "none" /\ pending' = FALSE /\ unseen' = "no"
    /\ IF action = "none" THEN Complain("free_irq") ELSE UNCHANGED complaint

Raises(type, before, after) ==
    CASE type = "high" -> after = 1
      [] type = "low" -> after = 0
      [] type = "rising" -> before < after
      [] type = "falling" -> before > after
      [] OTHER -> FALSE
Level == action \in {"high", "low"}

SetLine(v) ==
    /\ line' = v
    /\ pending' = (Raises(action, line, v) \/ (~Level /\ pending))

(* Somebody presses the button.                                            *)
Button ==
    /\ dir = "in" /\ SetLine(1 - line)
    /\ UNCHANGED <<module, gpio, opened, dir, action, pc, complaint, unseen, faults>>

(***************************************************************************)
(* A woken thread checks again what it waits for.  Whoever sleeps in read  *)
(* leaves the queue with that, a caller of poll when poll returns.         *)
(***************************************************************************)
Woken(S) ==
    [t \in Threads |-> CASE t \in S /\ pc[t] = "asleep" -> "waiting"
                        [] t \in S /\ pc[t] = "pollsleep" -> "polling"
                        [] OTHER -> pc[t]]
StillQueued == {t \in gpio.wait_q \cap Threads : pc[t] # "asleep"}

gpio_irq_handler_counts ==      \* mutant: counts the interrupts
    /\ action # "none" /\ pending
    /\ gpio' = [gpio EXCEPT !.triggered = @ + 1, !.wait_q = StillQueued]
    /\ pc' = Woken(gpio.wait_q)
    /\ pending' = Level
    /\ unseen' = "yes"
    /\ UNCHANGED <<module, opened, hardware, action, complaint, faults>>
gpio_irq_handler_no_wakeup ==   \* mutant
    /\ action # "none" /\ pending
    /\ gpio' = [gpio EXCEPT !.triggered = 1]
    /\ pending' = Level
    /\ unseen' = "yes"
    /\ UNCHANGED <<module, opened, hardware, action, pc, complaint, faults>>
gpio_irq_handler ==
    /\ action # "none" /\ pending
    /\ gpio' = [gpio EXCEPT !.triggered = 1, !.wait_q = StillQueued]
    /\ pc' = Woken(gpio.wait_q)
    /\ pending' = Level
    /\ unseen' = "yes"
    /\ UNCHANGED <<module, opened, hardware, action, complaint, faults>>

-----------------------------------------------------------------------------
(***************************************************************************)
(* gpio_ioctl.  AS_INP and AS_OUT (d is the direction) give the interrupt  *)
(* back first; free_irq may sleep, and irqnum is reset only after it.      *)
(***************************************************************************)
AsInpOrOut(t, d) ==
    /\ May(t, d) /\ Alone(t)
    /\ IF gpio.irqnum >= 0
       THEN free_irq /\ Goto(t, d) /\ UNCHANGED dir
       ELSE dir' = d /\ UNCHANGED <<action, pending, unseen, complaint, pc>>
    /\ UNCHANGED <<module, gpio, opened, line, faults>>

AsInpOrOutEnd_irqnum_kept(t, d) ==      \* mutant
    /\ pc[t] = d
    /\ dir' = d /\ Goto(t, "idle")
    /\ UNCHANGED <<module, gpio, opened, line, action, pending, complaint, unseen, faults>>
AsInpOrOutEnd(t, d) ==
    /\ pc[t] = d
    /\ gpio' = [gpio EXCEPT !.irqnum = -1]
    /\ dir' = d /\ Goto(t, "idle")
    /\ UNCHANGED <<module, opened, line, action, pending, complaint, unseen, faults>>

(***************************************************************************)
(* AS_IRQ: irqnum and the wait queue are set before the type is looked at  *)
(* and before request_irq, which may sleep or fail.                        *)
(***************************************************************************)
AsIrq(t) ==
    /\ May(t, "irq") /\ Alone(t) /\ gpio.irqnum < 0
    /\ dir' = "in"
    /\ gpio' = [gpio EXCEPT !.irqnum = Irq, !.triggered = 0, !.wait_q = {}]
    /\ \E type \in IrqTypes :
         Goto(t, IF type \in ValidTypes THEN type ELSE "idle")
    /\ UNCHANGED <<module, opened, line, action, pending, complaint, unseen, faults>>

RequestIrq(t) ==
    /\ pc[t] \in ValidTypes
    /\ Goto(t, "idle")
    /\ \/ /\ action = "none"
          /\ action' = pc[t] /\ unseen' = "no"
          /\ pending' = (pc[t] \in {"high", "low"} /\ Raises(pc[t], line, line))
          /\ UNCHANGED <<gpio, faults>>
       \/ /\ \/ action # "none" /\ UNCHANGED faults
             \/ faults < MaxFaults /\ faults' = faults + 1
          /\ gpio' = [gpio EXCEPT !.irqnum = -1]
          /\ UNCHANGED <<action, pending, unseen>>
    /\ UNCHANGED <<module, opened, hardware, complaint>>

(* READ_PIN_VAL clears the trigger after it has the value: an interrupt    *)
(* handled in between is wiped out, unless a reader is about to look.      *)
ReadPinVal(t) ==
    /\ May(t, "pinval")
    /\ Goto(t, "gotval") /\ unseen' = "no"
    /\ UNCHANGED <<module, gpio, opened, hardware, action, pending, complaint, faults>>

ReadPinValEnd(t) ==
    /\ pc[t] = "gotval"
    /\ gpio' = [gpio EXCEPT !.triggered = 0]
    /\ unseen' = IF unseen = "yes" /\ \A u \in Threads : pc[u] # "get" THEN "wiped" ELSE unseen
    /\ Goto(t, "idle")
    /\ UNCHANGED <<module, opened, hardware, action, pending, complaint, faults>>

(* WRITE_PIN_VAL and gpio_write; on an input gpio_set_value shows nothing. *)
WritePin(t) ==
    /\ May(t, "setpin") /\ dir = "out"
    /\ \E v \in {0, 1} : SetLine(v)
    /\ UNCHANGED <<module, gpio, opened, dir, action, pc, complaint, unseen, faults>>

-----------------------------------------------------------------------------
(***************************************************************************)
(* gpio_read.  On an interrupt pin it waits, unless O_NONBLOCK, clears the *)
(* trigger and only then takes the value.                                  *)
(***************************************************************************)
ReadStart_resets(t) ==      \* mutant: forgets what was triggered before
    /\ May(t, "read") /\ gpio.irqnum >= 0
    /\ gpio' = [gpio EXCEPT !.triggered = 0]
    /\ Goto(t, "waiting")
    /\ UNCHANGED <<module, opened, hardware, action, pending, complaint, unseen, faults>>
ReadStart(t) ==
    /\ May(t, "read") \/ May(t, "readnb")
    /\ \/ gpio.irqnum >= 0 /\ "read" \in Calls[t] /\ Goto(t, "waiting")
       \/ gpio.irqnum >= 0 /\ "readnb" \in Calls[t] /\ Goto(t, "clear")
       \/ gpio.irqnum < 0 /\ Goto(t, "get")
    /\ UNCHANGED <<module, gpio, opened, hardware, action, pending, complaint, unseen, faults>>

(* wait_event_interruptible: queue up, check, sleep; the check comes after *)
(* queueing, so no wake-up falls between.                                  *)
WaitEvent(t) ==
    /\ pc[t] = "waiting"
    /\ IF gpio.triggered # 0
       THEN Goto(t, "clear") /\ UNCHANGED <<gpio, complaint>>
       ELSE /\ Goto(t, "asleep")
            /\ gpio' = [gpio EXCEPT !.wait_q = @ \cup {t}]
            /\ IF gpio.wait_q = NoQueue THEN Complain("wait_q") ELSE UNCHANGED complaint
    /\ UNCHANGED <<module, opened, hardware, action, pending, unseen, faults>>

(* A signal: -ERESTARTSYS, and the trigger is kept; or poll's time is over.*)
Signal(t) ==
    /\ pc[t] \in {"waiting", "asleep", "polling", "pollsleep"}
    /\ gpio' = [gpio EXCEPT !.wait_q = @ \ {t}]
    /\ Goto(t, "idle")
    /\ UNCHANGED <<module, opened, hardware, action, pending, complaint, unseen, faults>>

ReadClear(t) ==
    /\ pc[t] = "clear"
    /\ gpio' = [gpio EXCEPT !.triggered = 0]
    /\ Goto(t, "get")
    /\ UNCHANGED <<module, opened, hardware, action, pending, complaint, unseen, faults>>

ReadGet(t) ==
    /\ pc[t] = "get"
    /\ unseen' = "no"
    /\ Goto(t, "idle")
    /\ UNCHANGED <<module, gpio, opened, hardware, action, pending, complaint, faults>>

(***************************************************************************)
(* gpio_poll queues the caller, whether or not the queue was initialised,  *)
(* and returns the events of a file that is open for reading and writing.  *)
(* The kernel returns from poll if one of them is waited for; else it      *)
(* sleeps and asks again when woken.                                       *)
(***************************************************************************)
Poll(t) ==
    /\ May(t, "poll")
    /\ Disciplined => gpio.wait_q # NoQueue
    /\ IF gpio.wait_q = NoQueue
       THEN Complain("wait_q") /\ UNCHANGED <<gpio, pc>>
       ELSE /\ gpio' = [gpio EXCEPT !.wait_q = @ \cup {t}]
            /\ Goto(t, "polling") /\ UNCHANGED complaint
    /\ UNCHANGED <<module, opened, hardware, action, pending, unseen, faults>>

PollResult == {"POLLOUT", "POLLWRNORM"}
                \cup IF gpio.triggered # 0 THEN {"POLLOUT", "POLLRDNORM"} ELSE {}
PollCheck(t) ==
    /\ pc[t] = "polling"
    /\ IF PollResult \cap PollFor # {}
       THEN gpio' = [gpio EXCEPT !.wait_q = @ \ {t}] /\ Goto(t, "idle")
       ELSE Goto(t, "pollsleep") /\ UNCHANGED gpio
    /\ UNCHANGED <<module, opened, hardware, action, pending, complaint, unseen, faults>>

-----------------------------------------------------------------------------
gpio_open(t) ==
    /\ ~opened /\ pc[t] = "idle" /\ "open" \in Calls[t]
    /\ module = "loaded" \/ (~Disciplined /\ module = "registered")
    /\ gpio.dev_id = Pin
    /\ opened' = TRUE
    /\ UNCHANGED <<module, gpio, hardware, action, pending, pc, complaint, unseen, faults>>

(* The last close, after every call on the file has returned.              *)
gpio_release_close(t) ==
    /\ May(t, "close") /\ \A u \in Threads : pc[u] = "idle"
    /\ opened' = FALSE
    /\ gpio' = [gpio EXCEPT !.irqnum = -1]
    /\ IF gpio.irqnum >= 0 THEN free_irq ELSE UNCHANGED <<action, pending, unseen, complaint>>
    /\ UNCHANGED <<module, hardware, pc, faults>>

(***************************************************************************)
(* gpio_init makes the device visible before it fills dev_id and irqnum    *)
(* in; when cdev_add fails, gpio_exit sees irqnum 0.  gpio_exit deletes    *)
(* the one device in its loop over the pins, once for each.                *)
(***************************************************************************)
gpio_init ==
    /\ module = "absent"
    /\ gpio' = ZeroConf
    /\ \/ module' = "registered" /\ UNCHANGED <<complaint, faults>>
       \/ /\ ~Disciplined /\ faults < MaxFaults /\ faults' = faults + 1
          /\ complaint' = complaint \cup {"free_irq", "cdev_del"} /\ UNCHANGED module
    /\ UNCHANGED <<opened, hardware, action, pending, pc, unseen>>

gpio_init_end ==
    /\ module = "registered"
    /\ module' = "loaded"
    /\ gpio' = [gpio EXCEPT !.dev_id = Pin, !.irqnum = -1]
    /\ UNCHANGED <<opened, hardware, action, pending, pc, complaint, unseen, faults>>

gpio_exit ==
    /\ module = "loaded" /\ ~opened
    /\ module' = "absent"
    /\ complaint' = complaint \cup {"cdev_del"}
                      \cup IF gpio.irqnum # -1 /\ action = "none" THEN {"free_irq"} ELSE {}
    /\ IF gpio.irqnum # -1 THEN action' = "none" /\ pending' = FALSE /\ unseen' = "no"
                           ELSE UNCHANGED <<action, pending, unseen>>
    /\ UNCHANGED <<gpio, opened, hardware, pc, faults>>

-----------------------------------------------------------------------------
Thread(t) ==
    \/ \E d \in {"in", "out"} : AsInpOrOut(t, d) \/ AsInpOrOutEnd(t, d)
    \/ AsIrq(t) \/ RequestIrq(t) \/ ReadPinVal(t) \/ ReadPinValEnd(t) \/ WritePin(t)
    \/ ReadStart(t) \/ WaitEvent(t) \/ Signal(t) \/ ReadClear(t) \/ ReadGet(t)
    \/ Poll(t) \/ PollCheck(t) \/ gpio_open(t) \/ gpio_release_close(t)

Next ==
    \/ \E t \in Threads : Thread(t)
    \/ gpio_irq_handler \/ Button
    \/ gpio_init \/ gpio_init_end \/ gpio_exit

(***************************************************************************)
(* The kernel delivers interrupts and keeps running a thread that is in    *)
(* the driver and not asleep; it need not be called again.                 *)
(***************************************************************************)
InDriver(t) ==
    \/ \E d \in {"in", "out"} : AsInpOrOutEnd(t, d)
    \/ RequestIrq(t) \/ ReadPinValEnd(t) \/ WaitEvent(t) \/ ReadClear(t) \/ ReadGet(t)
    \/ PollCheck(t)

Spec == Init /\ [][Next]_vars
FairSpec == Spec /\ WF_vars(gpio_irq_handler) /\ \A t \in Threads : WF_vars(InDriver(t))
-----------------------------------------------------------------------------
(* The type invariant.                                                     *)
TypeOK ==
    /\ module \in {"absent", "registered", "loaded"}
    /\ gpio.dev_id \in {0, Pin} /\ gpio.irqnum \in {-1, 0, Irq}
    /\ gpio.triggered \in {0, 1} /\ gpio.wait_q \subseteq Threads \cup NoQueue
    /\ opened \in BOOLEAN /\ dir \in {"in", "out"} /\ line \in {0, 1}
    /\ action \in ValidTypes \cup {"none"} /\ pending \in BOOLEAN
    /\ pc \in [Threads -> {"idle", "in", "out", "gotval", "waiting", "asleep",
                           "clear", "get", "polling", "pollsleep"} \cup ValidTypes]
    /\ unseen \in {"no", "yes", "wiped"} /\ faults \in 0..MaxFaults

(***************************************************************************)
(* gpio_release_close and AS_INP/AS_OUT give back what AS_IRQ took, and    *)
(* nobody uses a queue that is not there: the kernel has nothing to        *)
(* complain about but the device that gpio_exit deletes once too often.    *)
(***************************************************************************)
KernelIntact == complaint \subseteq {"cdev_del"}

(***************************************************************************)
(* "irq number assigned" (gpio_conf.irqnum): between calls irqnum is set   *)
(* exactly while the handler is installed; and the handler, which works on *)
(* memory that rmmod frees, is not installed on a closed pin.              *)
(***************************************************************************)
IrqAssigned ==
    IF opened
    THEN (\A t \in Threads : pc[t] \notin ValidTypes \cup {"in", "out"})
            => (gpio.irqnum >= 0 <=> action # "none")
    ELSE action = "none" /\ \A t \in Threads : pc[t] = "idle"

(***************************************************************************)
(* No interrupt is lost, but by a READ_PIN_VAL that ends after the handler *)
(* (see there): once handled, it stays triggered until a reader is on its  *)
(* way to the value, which is therefore no older than it.                  *)
(***************************************************************************)
NoInterruptLost ==
    unseen = "yes" => gpio.triggered = 1 \/ \E t \in Threads : pc[t] = "get"

(* "needed for irq-waiting" (gpio_conf.wait_q): no other call uses it.     *)
QueueIsInitialised == "wait_q" \notin complaint

(* gpio_exit takes back what gpio_init did: one cdev_add, one cdev_del.    *)
DeletedOnce == "cdev_del" \notin complaint

(***************************************************************************)
(* "awake those processes waiting...": when an interrupt is handled while  *)
(* a thread sleeps in gpio_read, or in poll for what gpio_poll reports,    *)
(* the value is read by somebody, poll returns, READ_PIN_VAL wipes the     *)
(* interrupt out, or the pin stops being an interrupt.                     *)
(***************************************************************************)
Waits(t) == pc[t] \in {"waiting", "asleep", "polling", "pollsleep"}
InterruptReachesReader ==
    \A t \in Threads :
      (Waits(t) /\ unseen = "yes") ~> (unseen # "yes" \/ action = "none" \/ pc[t] = "idle")

(* The same without the exception: every interrupt reaches its reader.     *)
EveryInterruptReachesReader ==
    \A t \in Threads :
      (Waits(t) /\ unseen # "no") ~> (unseen = "no" \/ action = "none" \/ pc[t] = "idle")
=============================================================================
