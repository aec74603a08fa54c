-------------------------- MODULE GpioDriverProofs --------------------------
(***************************************************************************)
(* GpioDriver proved for every number of threads and every assignment of   *)
(* calls to them, under the discipline the demonstration programs keep and *)
(* with interrupt types the driver knows.  The inductive invariant says    *)
(* who may be inside a configuration call, and what the interrupt number,  *)
(* the handler, the wait queue and the trigger are worth meanwhile.        *)
(***************************************************************************)
EXTENDS GpioDriver, TLAPS

(* The callers GpioDriver is proved for.                                   *)
Assumed == Disciplined = TRUE /\ IrqTypes \subseteq ValidTypes

Configs == ValidTypes \cup {"in", "out"}
Waiters == {"waiting", "asleep", "polling", "pollsleep"}
PcSet == {"idle", "in", "out", "gotval", "waiting", "asleep", "clear", "get",
          "polling", "pollsleep"} \cup ValidTypes
Queues == (SUBSET Threads) \cup {NoQueue}
Conf == [dev_id : {0, Pin}, irqnum : {-1, 0, Irq}, triggered : {0, 1},
         wait_q : Queues]

(* The types of GpioDriver.TypeOK, with the record as a whole.             *)
Record == gpio \in Conf
Places ==
    /\ pc \in [Threads -> PcSet] /\ opened \in BOOLEAN
    /\ module \in {"absent", "registered", "loaded"}
    /\ dir \in {"in", "out"} /\ line \in {0, 1}
    /\ action \in ValidTypes \cup {"none"} /\ faults \in 0..MaxFaults
Flags == pending \in BOOLEAN /\ unseen \in {"no", "yes", "wiped"}

(* A closed pin is at rest, and the module is loaded while it is open.     *)
ClosedAtRest ==
    ~opened => /\ action = "none" /\ \A t \in Threads : pc[t] = "idle"
               /\ module = "loaded" => gpio.irqnum = -1
OpenIsLoaded == opened => module = "loaded"

(* The big kernel lock and the callers let one thread configure; while it  *)
(* does, no handler is installed and the number is still or already set.   *)
OneConfigures ==
    \A t, u \in Threads : pc[t] \in Configs /\ pc[u] \in Configs => t = u
ConfiguresQuietly ==
    \A t \in Threads : pc[t] \in Configs => gpio.irqnum >= 0 /\ action = "none"
Settled ==
    (opened /\ \A t \in Threads : pc[t] \notin Configs)
        => (gpio.irqnum >= 0 <=> action # "none")

(* The queue is there for whoever waits, and holds nobody else.            *)
QueueReady ==
    /\ (opened /\ gpio.irqnum >= 0) => gpio.wait_q # NoQueue
    /\ \A t \in Threads : pc[t] \in Waiters => gpio.wait_q # NoQueue
QueueSleeps ==
    \A t \in Threads : t \in gpio.wait_q => pc[t] \in {"asleep", "polling", "pollsleep"}

(* Only an installed handler leaves something unseen.                      *)
UnseenIsInstalled == unseen # "no" => action # "none"

Control ==
    /\ ClosedAtRest /\ OpenIsLoaded /\ OneConfigures /\ ConfiguresQuietly
    /\ Settled /\ QueueReady /\ QueueSleeps
    /\ UnseenIsInstalled /\ NoInterruptLost /\ KernelIntact

IInv == Record /\ Places /\ Flags /\ Control
-----------------------------------------------------------------------------
(* AS_INP and AS_OUT begin alone, and free a handler that is installed.    *)
LEMMA AsInpOrOutKeeps ==
    ASSUME Assumed, IInv, NEW t \in Threads, NEW d \in {"in", "out"}, AsInpOrOut(t, d)
    PROVE  IInv'
<1>1. Record'
  BY ConstantsAssumption
     DEF AsInpOrOut, May, Alone, Goto, free_irq, Complain, hardware, IInv,
         Record, Conf, Irq
<1>2. Places'
  BY DEF AsInpOrOut, May, Alone, Goto, free_irq, Complain, hardware, IInv,
         Places, PcSet
<1>3. Flags'
  <2>1. pending' \in BOOLEAN  BY
     DEF AsInpOrOut, May, Alone, Goto, free_irq, Complain, hardware, IInv, Flags
  <2>2. unseen' \in {"no", "yes", "wiped"}  BY
     DEF AsInpOrOut, May, Alone, Goto, free_irq, Complain, hardware, IInv, Flags
  <2> QED  BY <2>1, <2>2 DEF Flags
<1>4. Control'
  <2>1. opened /\ pc[t] = "idle" /\ \A u \in Threads \ {t} : pc[u] = "idle"
    BY DEF AsInpOrOut, May, Alone, Assumed
  <2>2. \A u \in Threads : pc[u] = "idle"  BY <2>1
  <2>3. gpio.irqnum >= 0 <=> action # "none"
    BY <2>1, <2>2 DEF IInv, Control, Settled, Configs, ValidTypes
  <2>4. CASE gpio.irqnum >= 0
    <3>1. action' = "none" /\ unseen' = "no" /\ pc' = [pc EXCEPT ![t] = d]
          /\ UNCHANGED <<complaint, dir, module, gpio, opened, line, faults>>
      BY <2>3, <2>4 DEF AsInpOrOut, free_irq, Goto
    <3>2. pc'[t] = d /\ \A u \in Threads \ {t} : pc'[u] = "idle"
      BY <2>2, <3>1 DEF IInv, Places
    <3>3. ClosedAtRest' /\ OpenIsLoaded' /\ UnseenIsInstalled' /\ NoInterruptLost' /\ KernelIntact'
      BY <2>1, <3>1 DEF IInv, Control, ClosedAtRest, OpenIsLoaded, UnseenIsInstalled,
                        NoInterruptLost, KernelIntact
    <3>4. OneConfigures'  BY <3>2 DEF OneConfigures, Configs, ValidTypes
    <3>5. ConfiguresQuietly' /\ Settled'
      BY <2>4, <3>1, <3>2 DEF ConfiguresQuietly, Settled, Configs, ValidTypes
    <3>6. QueueReady'
      BY <2>1, <2>4, <3>1, <3>2 DEF IInv, Control, QueueReady, Waiters
    <3>7. QueueSleeps'
      BY <2>2, <3>1 DEF IInv, Control, QueueSleeps
    <3> QED  BY <3>3, <3>4, <3>5, <3>6, <3>7 DEF Control
  <2>5. CASE ~(gpio.irqnum >= 0)
    <3>1. UNCHANGED <<action, unseen, pc, complaint, module, gpio, opened, faults>>
      BY <2>5 DEF AsInpOrOut
    <3> QED
      BY <3>1 DEF IInv, Control, ClosedAtRest, OpenIsLoaded, OneConfigures,
                  ConfiguresQuietly, Settled, QueueReady, QueueSleeps,
                  UnseenIsInstalled, NoInterruptLost, KernelIntact
  <2> QED  BY <2>4, <2>5
<1> QED  BY <1>1, <1>2, <1>3, <1>4 DEF IInv

(* The number goes after the handler; nobody could configure in between.   *)
LEMMA AsInpOrOutEndKeeps ==
    ASSUME Assumed, IInv, NEW t \in Threads, NEW d \in {"in", "out"}, AsInpOrOutEnd(t, d)
    PROVE  IInv'
<1>1. Record'
  BY ConstantsAssumption DEF AsInpOrOutEnd, Goto, IInv, Record, Conf, Irq
<1>2. Places'
  BY DEF AsInpOrOutEnd, Goto, IInv, Places, PcSet
<1>3. Flags'
  BY DEF AsInpOrOutEnd, Goto, IInv, Flags
<1>4. Control'
  BY ConstantsAssumption, SMTT(20)
     DEF Assumed, AsInpOrOutEnd, Goto, IInv, Control, Record, Places, PcSet,
         Conf, Queues, NoQueue, Irq, ClosedAtRest, OpenIsLoaded, OneConfigures,
         ConfiguresQuietly, Settled, QueueReady, QueueSleeps,
         UnseenIsInstalled, NoInterruptLost, KernelIntact, Configs, Waiters,
         ValidTypes
<1> QED  BY <1>1, <1>2, <1>3, <1>4 DEF IInv

(* AS_IRQ begins alone on a pin without an interrupt: nothing is unseen.   *)
LEMMA AsIrqKeeps ==
    ASSUME Assumed, IInv, NEW t \in Threads, AsIrq(t)
    PROVE  IInv'
<1>1. Record'
  <2>1. {} \in Queues  BY DEF Queues
  <2> QED  BY <2>1, ConstantsAssumption
     DEF AsIrq, May, Alone, Goto, hardware, IInv, Record, Conf, Irq
<1>2. Places'
  BY DEF AsIrq, May, Alone, Goto, hardware, IInv, Places, PcSet
<1>3. Flags'
  BY DEF AsIrq, May, Alone, Goto, hardware, IInv, Flags
<1>4. Control'
  BY ConstantsAssumption, SMTT(20)
     DEF Assumed, AsIrq, May, Alone, Goto, hardware, IInv, Control, Record,
         Places, PcSet, Conf, Queues, NoQueue, Irq, ClosedAtRest, OpenIsLoaded,
         OneConfigures, ConfiguresQuietly, Settled, QueueReady,
         QueueSleeps, UnseenIsInstalled, NoInterruptLost, KernelIntact, Configs,
         Waiters, ValidTypes
<1> QED  BY <1>1, <1>2, <1>3, <1>4 DEF IInv

(* request_irq finds the interrupt free; without success the number goes.  *)
LEMMA RequestIrqKeeps ==
    ASSUME Assumed, IInv, NEW t \in Threads, RequestIrq(t)
    PROVE  IInv'
<1>1. Record'
  BY ConstantsAssumption
     DEF RequestIrq, Goto, Raises, hardware, IInv, Record, Conf, Irq
<1>2. Places'
  BY ConstantsAssumption DEF RequestIrq, Goto, Raises, hardware, IInv, Places, PcSet
<1>3. Flags'
  <2>1. pending' \in BOOLEAN  BY DEF RequestIrq, Goto, Raises, hardware, IInv, Flags
  <2>2. unseen' \in {"no", "yes", "wiped"}  BY DEF RequestIrq, Goto, Raises, hardware, IInv, Flags
  <2> QED  BY <2>1, <2>2 DEF Flags
<1>4. Control'
  BY ConstantsAssumption, SMTT(20)
     DEF Assumed, RequestIrq, Goto, Raises, hardware, IInv, Control, Record,
         Places, PcSet, Conf, Queues, NoQueue, Irq, ClosedAtRest, OpenIsLoaded,
         OneConfigures, ConfiguresQuietly, Settled, QueueReady,
         QueueSleeps, UnseenIsInstalled, NoInterruptLost, KernelIntact, Configs,
         Waiters, ValidTypes
<1> QED  BY <1>1, <1>2, <1>3, <1>4 DEF IInv

(* READ_PIN_VAL takes the value.                                           *)
LEMMA ReadPinValKeeps ==
    ASSUME Assumed, IInv, NEW t \in Threads, ReadPinVal(t)
    PROVE  IInv'
<1>1. Record'
  BY ConstantsAssumption
     DEF ReadPinVal, May, Goto, hardware, IInv, Record, Conf, Irq
<1>2. Places'
  BY DEF ReadPinVal, May, Goto, hardware, IInv, Places, PcSet
<1>3. Flags'
  <2>1. pending' \in BOOLEAN  BY DEF ReadPinVal, May, Goto, hardware, IInv, Flags
  <2>2. unseen' \in {"no", "yes", "wiped"}  BY DEF ReadPinVal, May, Goto, hardware, IInv, Flags
  <2> QED  BY <2>1, <2>2 DEF Flags
<1>4. Control'
  BY ConstantsAssumption, SMTT(20)
     DEF Assumed, ReadPinVal, May, Goto, hardware, IInv, Control, Record, Places,
         PcSet, Conf, Queues, NoQueue, Irq, ClosedAtRest, OpenIsLoaded,
         OneConfigures, ConfiguresQuietly, Settled, QueueReady,
         QueueSleeps, UnseenIsInstalled, NoInterruptLost, KernelIntact, Configs,
         Waiters, ValidTypes
<1> QED  BY <1>1, <1>2, <1>3, <1>4 DEF IInv

(* The trigger it clears is nobody's any more, or that of a reader about   *)
(* to look, or it is noted as wiped out.                                   *)
LEMMA ReadPinValEndKeeps ==
    ASSUME Assumed, IInv, NEW t \in Threads, ReadPinValEnd(t)
    PROVE  IInv'
<1>1. Record'
  BY ConstantsAssumption DEF ReadPinValEnd, Goto, hardware, IInv, Record, Conf, Irq
<1>2. Places'
  BY DEF ReadPinValEnd, Goto, hardware, IInv, Places, PcSet
<1>3. Flags'
  <2>1. pending' \in BOOLEAN  BY DEF ReadPinValEnd, Goto, hardware, IInv, Flags
  <2>2. unseen' \in {"no", "yes", "wiped"}  BY DEF ReadPinValEnd, Goto, hardware, IInv, Flags
  <2> QED  BY <2>1, <2>2 DEF Flags
<1>4. Control'
  BY ConstantsAssumption, SMTT(20)
     DEF Assumed, ReadPinValEnd, Goto, hardware, IInv, Control, Record, Places,
         PcSet, Conf, Queues, NoQueue, Irq, ClosedAtRest, OpenIsLoaded,
         OneConfigures, ConfiguresQuietly, Settled, QueueReady,
         QueueSleeps, UnseenIsInstalled, NoInterruptLost, KernelIntact, Configs,
         Waiters, ValidTypes
<1> QED  BY <1>1, <1>2, <1>3, <1>4 DEF IInv

(* An output may raise the interrupt, which changes nothing yet.           *)
LEMMA WritePinKeeps ==
    ASSUME Assumed, IInv, NEW t \in Threads, WritePin(t)
    PROVE  IInv'
<1>1. Record'
  BY ConstantsAssumption
     DEF WritePin, SetLine, Raises, Level, hardware, IInv, Record, Conf, Irq
<1>2. Places'
  BY DEF WritePin, SetLine, Raises, Level, hardware, IInv, Places, PcSet
<1>3. Flags'
  BY DEF WritePin, SetLine, Raises, Level, hardware, IInv, Flags
<1>4. Control'
  BY ConstantsAssumption, SMTT(20)
     DEF Assumed, WritePin, SetLine, Raises, Level, hardware, IInv, Control,
         Record, Places, PcSet, Conf, Queues, NoQueue, Irq, ClosedAtRest,
         OpenIsLoaded, OneConfigures, ConfiguresQuietly, Settled,
         QueueReady, QueueSleeps, UnseenIsInstalled,
         NoInterruptLost, KernelIntact, Configs, Waiters, ValidTypes
<1> QED  BY <1>1, <1>2, <1>3, <1>4 DEF IInv

(* A reader waits only where the queue is ready.                           *)
LEMMA ReadStartKeeps ==
    ASSUME Assumed, IInv, NEW t \in Threads, ReadStart(t)
    PROVE  IInv'
<1>1. Record'
  BY ConstantsAssumption DEF ReadStart, May, Goto, hardware, IInv, Record, Conf, Irq
<1>2. Places'
  BY DEF ReadStart, May, Goto, hardware, IInv, Places, PcSet
<1>3. Flags'
  BY DEF ReadStart, May, Goto, hardware, IInv, Flags
<1>4. Control'
  BY ConstantsAssumption, SMTT(20)
     DEF Assumed, ReadStart, May, Goto, hardware, IInv, Control, Record, Places,
         PcSet, Conf, Queues, NoQueue, Irq, ClosedAtRest, OpenIsLoaded,
         OneConfigures, ConfiguresQuietly, Settled, QueueReady,
         QueueSleeps, UnseenIsInstalled, NoInterruptLost, KernelIntact, Configs,
         Waiters, ValidTypes
<1> QED  BY <1>1, <1>2, <1>3, <1>4 DEF IInv

(* Queueing up: the queue was initialised when the pin became an interrupt.*)
LEMMA WaitEventKeeps ==
    ASSUME Assumed, IInv, NEW t \in Threads, WaitEvent(t)
    PROVE  IInv'
<1>1. Record'
  <2>1. gpio.wait_q \cup {t} \in Queues  BY
     DEF Queues, IInv, Record, Control, Conf, QueueReady, Waiters, WaitEvent
  <2> QED  BY <2>1, ConstantsAssumption
     DEF WaitEvent, Goto, Complain, hardware, IInv, Record, Conf, Irq
<1>2. Places'
  BY DEF WaitEvent, Goto, Complain, hardware, IInv, Places, PcSet
<1>3. Flags'
  BY DEF WaitEvent, Goto, Complain, hardware, IInv, Flags
<1>4. Control'
  BY ConstantsAssumption, SMTT(20)
     DEF Assumed, WaitEvent, Goto, Complain, hardware, IInv, Control, Record,
         Places, PcSet, Conf, Queues, NoQueue, Irq, ClosedAtRest, OpenIsLoaded,
         OneConfigures, ConfiguresQuietly, Settled, QueueReady,
         QueueSleeps, UnseenIsInstalled, NoInterruptLost, KernelIntact, Configs,
         Waiters, ValidTypes
<1> QED  BY <1>1, <1>2, <1>3, <1>4 DEF IInv

(* A signal takes the sleeper from the queue and leaves the trigger.       *)
LEMMA SignalKeeps ==
    ASSUME Assumed, IInv, NEW t \in Threads, Signal(t)
    PROVE  IInv'
<1>1. Record'
  <2>1. gpio.wait_q \ {t} \in Queues  BY
     DEF Queues, IInv, Record, Control, Conf, QueueReady, Waiters, Signal
  <2> QED  BY <2>1, ConstantsAssumption
     DEF Signal, Goto, hardware, IInv, Record, Conf, Irq
<1>2. Places'
  BY DEF Signal, Goto, hardware, IInv, Places, PcSet
<1>3. Flags'
  BY DEF Signal, Goto, hardware, IInv, Flags
<1>4. Control'
  BY ConstantsAssumption, SMTT(20)
     DEF Assumed, Signal, Goto, hardware, IInv, Control, Record, Places, PcSet,
         Conf, Queues, NoQueue, Irq, ClosedAtRest, OpenIsLoaded, OneConfigures,
         ConfiguresQuietly, Settled, QueueReady, QueueSleeps,
         UnseenIsInstalled, NoInterruptLost, KernelIntact, Configs, Waiters,
         ValidTypes
<1> QED  BY <1>1, <1>2, <1>3, <1>4 DEF IInv

(* The trigger is cleared by a reader on its way to the value.             *)
LEMMA ReadClearKeeps ==
    ASSUME Assumed, IInv, NEW t \in Threads, ReadClear(t)
    PROVE  IInv'
<1>1. Record'
  BY ConstantsAssumption DEF ReadClear, Goto, hardware, IInv, Record, Conf, Irq
<1>2. Places'
  BY DEF ReadClear, Goto, hardware, IInv, Places, PcSet
<1>3. Flags'
  BY DEF ReadClear, Goto, hardware, IInv, Flags
<1>4. Control'
  BY ConstantsAssumption, SMTT(20)
     DEF Assumed, ReadClear, Goto, hardware, IInv, Control, Record, Places,
         PcSet, Conf, Queues, NoQueue, Irq, ClosedAtRest, OpenIsLoaded,
         OneConfigures, ConfiguresQuietly, Settled, QueueReady,
         QueueSleeps, UnseenIsInstalled, NoInterruptLost, KernelIntact, Configs,
         Waiters, ValidTypes
<1> QED  BY <1>1, <1>2, <1>3, <1>4 DEF IInv

(* Whatever was unseen is seen.                                            *)
LEMMA ReadGetKeeps ==
    ASSUME Assumed, IInv, NEW t \in Threads, ReadGet(t)
    PROVE  IInv'
<1>1. Record'
  BY ConstantsAssumption DEF ReadGet, Goto, hardware, IInv, Record, Conf, Irq
<1>2. Places'
  BY DEF ReadGet, Goto, hardware, IInv, Places, PcSet
<1>3. Flags'
  <2>1. pending' \in BOOLEAN  BY DEF ReadGet, Goto, hardware, IInv, Flags
  <2>2. unseen' \in {"no", "yes", "wiped"}  BY DEF ReadGet, Goto, hardware, IInv, Flags
  <2> QED  BY <2>1, <2>2 DEF Flags
<1>4. Control'
  BY ConstantsAssumption, SMTT(20)
     DEF Assumed, ReadGet, Goto, hardware, IInv, Control, Record, Places, PcSet,
         Conf, Queues, NoQueue, Irq, ClosedAtRest, OpenIsLoaded, OneConfigures,
         ConfiguresQuietly, Settled, QueueReady, QueueSleeps,
         UnseenIsInstalled, NoInterruptLost, KernelIntact, Configs, Waiters,
         ValidTypes
<1> QED  BY <1>1, <1>2, <1>3, <1>4 DEF IInv

LEMMA QueueChanged ==
    ASSUME Record, NEW q \in Queues, gpio' = [gpio EXCEPT !.wait_q = q]
    PROVE  Record'
  BY SMT DEF Record, Conf

(* poll after AS_IRQ queues its caller in a queue that is there.           *)
LEMMA PollKeeps ==
    ASSUME Assumed, IInv, NEW t \in Threads, Poll(t)
    PROVE  IInv'
<1>1. Record'
  <2>1. gpio.wait_q # NoQueue  BY DEF Assumed, Poll
  <2>2. gpio.wait_q \cup {t} \in Queues  BY <2>1 DEF Queues, IInv, Record, Conf
  <2>3. gpio' = [gpio EXCEPT !.wait_q = gpio.wait_q \cup {t}]
    BY <2>1, Zenon DEF Poll
  <2> QED  BY <2>2, <2>3, QueueChanged DEF IInv
<1>2. Places'
  BY DEF Poll, May, Goto, Complain, hardware, IInv, Places, PcSet
<1>3. Flags'
  BY DEF Poll, May, Goto, Complain, hardware, IInv, Flags
<1>4. Control'
  BY ConstantsAssumption, SMTT(20)
     DEF Assumed, Poll, May, Goto, Complain, hardware, IInv,
         Control, Record, Places, PcSet, Conf, Queues, NoQueue, Irq,
         ClosedAtRest, OpenIsLoaded, OneConfigures, ConfiguresQuietly, Settled,
         QueueReady, QueueSleeps, UnseenIsInstalled, NoInterruptLost,
         KernelIntact, Configs, Waiters, ValidTypes
<1> QED  BY <1>1, <1>2, <1>3, <1>4 DEF IInv

(* What poll has to report, or another sleep; the queue loses its caller.  *)
LEMMA PollCheckKeeps ==
    ASSUME Assumed, IInv, NEW t \in Threads, PollCheck(t)
    PROVE  IInv'
<1>1. Record'
  <2>1. gpio.wait_q \ {t} \in Queues  BY
     DEF Queues, IInv, Record, Control, Conf, QueueReady, Waiters, PollCheck
  <2>2. \/ gpio' = [gpio EXCEPT !.wait_q = gpio.wait_q \ {t}]
        \/ UNCHANGED gpio
    BY Zenon DEF PollCheck
  <2> QED  BY <2>1, <2>2, QueueChanged DEF IInv, Record
<1>2. Places'
  BY DEF PollCheck, Goto, hardware, IInv, Places, PcSet
<1>3. Flags'
  BY DEF PollCheck, Goto, hardware, IInv, Flags
<1>4. Control'
  BY ConstantsAssumption, SMTT(20)
     DEF Assumed, PollCheck, Goto, hardware, IInv,
         Control, Record, Places, PcSet, Conf, Queues, NoQueue, Irq,
         ClosedAtRest, OpenIsLoaded, OneConfigures, ConfiguresQuietly, Settled,
         QueueReady, QueueSleeps, UnseenIsInstalled, NoInterruptLost,
         KernelIntact, Configs, Waiters, ValidTypes
<1> QED  BY <1>1, <1>2, <1>3, <1>4 DEF IInv

(* A pin that is opened is at rest.                                        *)
LEMMA gpio_openKeeps ==
    ASSUME Assumed, IInv, NEW t \in Threads, gpio_open(t)
    PROVE  IInv'
<1>1. Record'
  BY ConstantsAssumption DEF gpio_open, hardware, IInv, Record, Conf, Irq
<1>2. Places'
  BY DEF gpio_open, hardware, IInv, Places, PcSet
<1>3. Flags'
  BY DEF gpio_open, hardware, IInv, Flags
<1>4. Control'
  BY ConstantsAssumption, SMTT(20)
     DEF Assumed, gpio_open, hardware, IInv, Control, Record, Places, PcSet,
         Conf, Queues, NoQueue, Irq, ClosedAtRest, OpenIsLoaded, OneConfigures,
         ConfiguresQuietly, Settled, QueueReady, QueueSleeps,
         UnseenIsInstalled, NoInterruptLost, KernelIntact, Configs, Waiters,
         ValidTypes
<1> QED  BY <1>1, <1>2, <1>3, <1>4 DEF IInv

(* The last close finds everybody out of the driver.                       *)
LEMMA gpio_release_closeKeeps ==
    ASSUME Assumed, IInv, NEW t \in Threads, gpio_release_close(t)
    PROVE  IInv'
<1>1. Record'
  BY ConstantsAssumption
     DEF gpio_release_close, May, free_irq, Complain, hardware, IInv, Record,
         Conf, Irq
<1>2. Places'
  <2>1. opened' \in BOOLEAN  BY DEF gpio_release_close
  <2>2. action' \in ValidTypes \cup {"none"}
    BY DEF gpio_release_close, free_irq, IInv, Places
  <2>3. UNCHANGED <<module, dir, line, pc, faults>>
    BY DEF gpio_release_close, hardware
  <2> QED  BY <2>1, <2>2, <2>3, Zenon DEF IInv, Places
<1>3. Flags'
  <2>1. pending' \in BOOLEAN  BY
     DEF gpio_release_close, May, free_irq, Complain, hardware, IInv, Flags
  <2>2. unseen' \in {"no", "yes", "wiped"}  BY
     DEF gpio_release_close, May, free_irq, Complain, hardware, IInv, Flags
  <2> QED  BY <2>1, <2>2 DEF Flags
<1>4. Control'
  BY ConstantsAssumption, SMTT(20)
     DEF Assumed, gpio_release_close, May, free_irq, Complain, hardware, IInv,
         Control, Record, Places, PcSet, Conf, Queues, NoQueue, Irq,
         ClosedAtRest, OpenIsLoaded, OneConfigures, ConfiguresQuietly, Settled,
         QueueReady, QueueSleeps, UnseenIsInstalled,
         NoInterruptLost, KernelIntact, Configs, Waiters, ValidTypes
<1> QED  BY <1>1, <1>2, <1>3, <1>4 DEF IInv

(* The handler sets the trigger and wakes those who sleep.                 *)
LEMMA gpio_irq_handlerKeeps ==
    ASSUME Assumed, IInv, gpio_irq_handler
    PROVE  IInv'
<1>1. Record'
  <2>1. StillQueued \in Queues  BY DEF Queues, StillQueued
  <2> QED  BY <2>1, ConstantsAssumption
     DEF gpio_irq_handler, Woken, Level, hardware, IInv, Record, Conf, Irq
<1>2. Places'
  BY DEF gpio_irq_handler, Woken, Level, hardware, IInv, Places, PcSet
<1>3. Flags'
  BY DEF gpio_irq_handler, Woken, Level, hardware, IInv, Flags
<1>4. Control'
  BY ConstantsAssumption, SMTT(20)
     DEF Assumed, gpio_irq_handler, Woken, StillQueued, Level, hardware, IInv, Control,
         Record, Places, PcSet, Conf, Queues, NoQueue, Irq, ClosedAtRest,
         OpenIsLoaded, OneConfigures, ConfiguresQuietly, Settled,
         QueueReady, QueueSleeps, UnseenIsInstalled,
         NoInterruptLost, KernelIntact, Configs, Waiters, ValidTypes
<1> QED  BY <1>1, <1>2, <1>3, <1>4 DEF IInv

(* The line changes outside the driver.                                    *)
LEMMA ButtonKeeps ==
    ASSUME Assumed, IInv, Button
    PROVE  IInv'
<1>1. Record'
  BY ConstantsAssumption
     DEF Button, SetLine, Raises, Level, hardware, IInv, Record, Conf, Irq
<1>2. Places'
  BY DEF Button, SetLine, Raises, Level, hardware, IInv, Places, PcSet
<1>3. Flags'
  BY DEF Button, SetLine, Raises, Level, hardware, IInv, Flags
<1>4. Control'
  BY ConstantsAssumption, SMTT(20)
     DEF Assumed, Button, SetLine, Raises, Level, hardware, IInv, Control,
         Record, Places, PcSet, Conf, Queues, NoQueue, Irq, ClosedAtRest,
         OpenIsLoaded, OneConfigures, ConfiguresQuietly, Settled,
         QueueReady, QueueSleeps, UnseenIsInstalled,
         NoInterruptLost, KernelIntact, Configs, Waiters, ValidTypes
<1> QED  BY <1>1, <1>2, <1>3, <1>4 DEF IInv

(* Loading, which succeeds.                                                *)
LEMMA gpio_initKeeps ==
    ASSUME Assumed, IInv, gpio_init
    PROVE  IInv'
<1>1. Record'
  <2>1. NoQueue \in Queues  BY DEF Queues
  <2> QED  BY <2>1, SMT DEF gpio_init, ZeroConf, Record, Conf
<1>2. Places'
  BY ConstantsAssumption
     DEF gpio_init, ZeroConf, Complain, hardware, IInv, Places, PcSet
<1>3. Flags'
  BY ConstantsAssumption DEF gpio_init, ZeroConf, Complain, hardware, IInv, Flags
<1>4. Control'
  <2>1. module = "absent" /\ module' = "registered" /\ gpio' = ZeroConf
        /\ UNCHANGED <<complaint, faults, opened, dir, line, action, pending, pc, unseen>>
    BY DEF gpio_init, Assumed, hardware
  <2>2. ~opened  BY <2>1 DEF IInv, Control, OpenIsLoaded
  <2>3. \A t \in Threads : pc[t] = "idle"  BY <2>2 DEF IInv, Control, ClosedAtRest
  <2>4. action = "none" /\ unseen = "no"
    BY <2>2 DEF IInv, Control, ClosedAtRest, UnseenIsInstalled
  <2>5. KernelIntact'  BY <2>1 DEF IInv, Control, KernelIntact
  <2>6. ClosedAtRest' /\ OpenIsLoaded' /\ UnseenIsInstalled' /\ NoInterruptLost'
    BY <2>1, <2>2, <2>3, <2>4
       DEF ClosedAtRest, OpenIsLoaded, UnseenIsInstalled, NoInterruptLost
  <2>7. OneConfigures' /\ ConfiguresQuietly' /\ Settled'
    BY <2>1, <2>2, <2>3, <2>4
       DEF OneConfigures, ConfiguresQuietly, Settled, Configs, ValidTypes
  <2>8. QueueReady' /\ QueueSleeps'
    BY <2>1, <2>2, <2>3, <2>4, ConstantsAssumption
       DEF QueueReady, QueueSleeps, Waiters, ZeroConf, NoQueue
  <2> QED  BY <2>5, <2>6, <2>7, <2>8 DEF Control
<1> QED  BY <1>1, <1>2, <1>3, <1>4 DEF IInv

(* The number is -1 before the pin can be opened.                          *)
LEMMA gpio_init_endKeeps ==
    ASSUME Assumed, IInv, gpio_init_end
    PROVE  IInv'
<1>1. Record'
  <2> DEFINE g == [gpio EXCEPT !.dev_id = Pin, !.irqnum = -1]
  <2>1. gpio' = g  BY DEF gpio_init_end
  <2>2. g \in Conf
    <3>1. gpio \in Conf  BY DEF IInv, Record
    <3>2. Pin \in {0, Pin} /\ -1 \in {-1, 0, Irq}  OBVIOUS
    <3> QED  BY <3>1, <3>2, Zenon DEF Conf
  <2> QED  BY <2>1, <2>2 DEF Record, Conf
<1>2. Places'
  BY DEF gpio_init_end, hardware, IInv, Places, PcSet
<1>3. Flags'
  BY DEF gpio_init_end, hardware, IInv, Flags
<1>4. Control'
  BY ConstantsAssumption, SMTT(20)
     DEF Assumed, gpio_init_end, hardware, IInv, Control, Record, Places, PcSet,
         Conf, Queues, NoQueue, Irq, ClosedAtRest, OpenIsLoaded, OneConfigures,
         ConfiguresQuietly, Settled, QueueReady, QueueSleeps,
         UnseenIsInstalled, NoInterruptLost, KernelIntact, Configs, Waiters,
         ValidTypes
<1> QED  BY <1>1, <1>2, <1>3, <1>4 DEF IInv

(* Unloading finds a closed pin, which has no handler.                     *)
LEMMA gpio_exitKeeps ==
    ASSUME Assumed, IInv, gpio_exit
    PROVE  IInv'
<1>1. Record'
  BY ConstantsAssumption
     DEF gpio_exit, free_irq, Complain, hardware, IInv, Record, Conf, Irq
<1>2. Places'
  BY DEF gpio_exit, free_irq, Complain, hardware, IInv, Places, PcSet
<1>3. Flags'
  <2>1. pending' \in BOOLEAN  BY
     DEF gpio_exit, free_irq, Complain, hardware, IInv, Flags
  <2>2. unseen' \in {"no", "yes", "wiped"}  BY
     DEF gpio_exit, free_irq, Complain, hardware, IInv, Flags
  <2> QED  BY <2>1, <2>2 DEF Flags
<1>4. Control'
  BY ConstantsAssumption, SMTT(20)
     DEF Assumed, gpio_exit, free_irq, Complain, hardware, IInv, Control, Record,
         Places, PcSet, Conf, Queues, NoQueue, Irq, ClosedAtRest, OpenIsLoaded,
         OneConfigures, ConfiguresQuietly, Settled, QueueReady,
         QueueSleeps, UnseenIsInstalled, NoInterruptLost, KernelIntact, Configs,
         Waiters, ValidTypes
<1> QED  BY <1>1, <1>2, <1>3, <1>4 DEF IInv

-----------------------------------------------------------------------------
(* Before the module is loaded nothing is configured.                      *)
LEMMA InitHolds == Init => IInv
<1> SUFFICES ASSUME Init PROVE IInv  OBVIOUS
<1>1. Record
  <2>1. NoQueue \in Queues  BY DEF Queues
  <2> QED  BY <2>1, SMT DEF Init, ZeroConf, Record, Conf
<1>2. Places
  <2>1. pc \in [Threads -> PcSet]  BY DEF Init, PcSet
  <2>2. opened \in BOOLEAN  BY DEF Init
  <2>3. /\ module \in {"absent", "registered", "loaded"}
        /\ dir \in {"in", "out"} /\ line \in {0, 1}
        /\ action \in ValidTypes \cup {"none"} /\ faults \in 0..MaxFaults
    BY ConstantsAssumption DEF Init
  <2> QED  BY <2>1, <2>2, <2>3 DEF Places
<1>3. Flags
  BY DEF Init, Flags
<1>4. Control
  BY ConstantsAssumption
     DEF Init, ZeroConf, NoQueue, Control, ClosedAtRest, OpenIsLoaded, OneConfigures, ConfiguresQuietly,
         Settled, QueueReady, QueueSleeps, UnseenIsInstalled,
         NoInterruptLost, KernelIntact,
         Configs, Waiters, ValidTypes
<1> QED  BY <1>1, <1>2, <1>3, <1>4 DEF IInv

(* Every step of every thread, of the hardware and of the module loader.   *)
LEMMA NextKeeps == ASSUME Assumed, IInv, [Next]_vars PROVE IInv'
<1>1. ASSUME NEW t \in Threads, Thread(t) PROVE IInv'
  <2>1. CASE \E d \in {"in", "out"} : AsInpOrOut(t, d) \/ AsInpOrOutEnd(t, d)
    BY <2>1, AsInpOrOutKeeps, AsInpOrOutEndKeeps
  <2>2. CASE AsIrq(t) \/ RequestIrq(t) \/ ReadPinVal(t) \/ ReadPinValEnd(t) \/ WritePin(t)
    BY <2>2, AsIrqKeeps, RequestIrqKeeps, ReadPinValKeeps, ReadPinValEndKeeps, WritePinKeeps
  <2>3. CASE ReadStart(t) \/ WaitEvent(t) \/ Signal(t) \/ ReadClear(t) \/ ReadGet(t)
    BY <2>3, ReadStartKeeps, WaitEventKeeps, SignalKeeps, ReadClearKeeps, ReadGetKeeps
  <2>4. CASE Poll(t) \/ PollCheck(t) \/ gpio_open(t) \/ gpio_release_close(t)
    BY <2>4, PollKeeps, PollCheckKeeps, gpio_openKeeps, gpio_release_closeKeeps
  <2> QED  BY <1>1, <2>1, <2>2, <2>3, <2>4 DEF Thread
<1>2. CASE gpio_irq_handler \/ Button
  BY <1>2, gpio_irq_handlerKeeps, ButtonKeeps
<1>3. CASE gpio_init \/ gpio_init_end \/ gpio_exit
  BY <1>3, gpio_initKeeps, gpio_init_endKeeps, gpio_exitKeeps
<1>4. CASE UNCHANGED vars
  BY <1>4
     DEF vars, hardware, IInv, Record, Conf, Queues, Places, Flags, Control,
         ClosedAtRest, OpenIsLoaded, OneConfigures, ConfiguresQuietly,
         Settled, QueueReady, QueueSleeps, UnseenIsInstalled,
         NoInterruptLost, KernelIntact
<1> QED  BY <1>1, <1>2, <1>3, <1>4 DEF Next

LEMMA Invariance == ASSUME Assumed PROVE Spec => []IInv
<1>1. IInv /\ [Next]_vars => IInv'  BY NextKeeps
<1> QED  BY <1>1, InitHolds, PTL DEF Spec

-----------------------------------------------------------------------------
(***************************************************************************)
(* The types of every variable, for every number of threads.               *)
(***************************************************************************)
THEOREM TypeCorrect == ASSUME Assumed PROVE Spec => []TypeOK
<1>1. IInv => TypeOK
  <2> SUFFICES ASSUME IInv PROVE TypeOK  OBVIOUS
  <2>1. /\ gpio.dev_id \in {0, Pin} /\ gpio.irqnum \in {-1, 0, Irq}
        /\ gpio.triggered \in {0, 1} /\ gpio.wait_q \in Queues
    BY DEF IInv, Record, Conf
  <2>2. gpio.wait_q \subseteq Threads \cup NoQueue
    BY <2>1, Zenon DEF Queues
  <2> QED  BY <2>1, <2>2, Zenon DEF IInv, Places, PcSet, Flags, TypeOK
<1> QED  BY <1>1, Invariance, PTL

(***************************************************************************)
(* free_irq is only called for an interrupt that is held, and no call uses *)
(* a wait queue that was not initialised: under the discipline, and with   *)
(* interrupt types the driver knows.                                       *)
(***************************************************************************)
THEOREM KernelStaysIntact == ASSUME Assumed PROVE Spec => []KernelIntact
<1>1. IInv => KernelIntact  BY DEF IInv, Control
<1> QED  BY <1>1, Invariance, PTL

(***************************************************************************)
(* Between configurations irqnum is set exactly while the handler is       *)
(* installed, and a closed pin has neither a handler nor a caller.         *)
(***************************************************************************)
THEOREM IrqStaysAssigned == ASSUME Assumed PROVE Spec => []IrqAssigned
<1>1. IInv => IrqAssigned
  BY DEF IInv, Control, Settled, ClosedAtRest, IrqAssigned, Configs
<1> QED  BY <1>1, Invariance, PTL

(***************************************************************************)
(* An interrupt once handled is not forgotten before a reader is on its    *)
(* way to the value, however many threads read, poll and give up           *)
(* meanwhile, and whoever is interrupted: nothing but a READ_PIN_VAL that  *)
(* had the value before the handler ran can lose it.                       *)
(***************************************************************************)
THEOREM InterruptsAreKept == ASSUME Assumed PROVE Spec => []NoInterruptLost
<1>1. IInv => NoInterruptLost  BY DEF IInv, Control
<1> QED  BY <1>1, Invariance, PTL
=============================================================================
