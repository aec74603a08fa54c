------------------------------ MODULE CanTest ------------------------------
(***************************************************************************)
(* can_test on both ends of a CAN bus: the program is started with -m on   *)
(* one side and without on the other, and has one thread for each id of    *)
(* the list -i.  The bus may lose or repeat a frame, and a third node may  *)
(* send frames of its own.  Rates, times and messages are left out.        *)
(***************************************************************************)
EXTENDS Integers, Sequences

CONSTANTS
    CommandLines,   \* the options of both sides: canids, a sequence of
                    \* [low, high]; extended; bytes of each side; same_pattern
    Loops,      \* -l
    PatternMod, \* stands for the 256 values of the data pattern
    MaxFaults   \* bound: frames lost, repeated or foreign, failed calls

Sides == {"tx", "rx"}

VARIABLES
    main_opts,          \* the options
    main,               \* where each main thread is
    cnt,                \* its loop counter
    thread,             \* the threads: pc, loop, result
    queue,              \* frames waiting in each receiver's socket
    got,                \* history: what each receiver read
    clean,              \* history: nothing went wrong on the bus
    faults

vars == <<main_opts, main, cnt, thread, queue,
          got, clean, faults>>
canids == main_opts.canids
extended == main_opts.extended
bytes == main_opts.bytes
same_pattern == main_opts.same_pattern
Index == DOMAIN canids
Fault == faults < MaxFaults /\ faults' = faults + 1

\* -l 0 would leave the threads nothing to do
ConstantsOk ==
    /\ Loops \in Nat \ {0} /\ PatternMod \in Nat \ {0} /\ MaxFaults \in Nat
    /\ \A opts \in CommandLines : opts.canids \in Seq([low : Nat, high : Nat])

Init ==
    /\ main_opts \in CommandLines
    /\ main = [s \in Sides |-> "create"] /\ cnt = [s \in Sides |-> 1]
    /\ thread = [s \in Sides |-> [i \in Index |->
                    [pc |-> "none", loop |-> 1, result |-> "none"]]]
    /\ queue = [i \in Index |-> <<>>] /\ got = [i \in Index |-> <<>>]
    /\ clean = TRUE /\ faults = 0

(* An id of more than 29 bits, or of more than 11 without -E, is refused;  *)
(* high stands for bits 11 to 28, and 9 for anything above.                *)
ValidId(id) == id.high < 9 /\ (id.high > 0 => extended)

(* What both sides make of the id and the loop; seq and from are history.  *)
Frame(s, i, loop) ==
    [id |-> canids[i], eff |-> extended, dlc |-> bytes[s],
     data |-> IF same_pattern THEN 0 ELSE loop % PatternMod,
     seq |-> loop, from |-> i]

(* The kernel compares can_id & mask (external).  CAN_SFF_MASK and         *)
(* CAN_EFF_MASK cover the id, not the flag that makes it an extended one.  *)
PassesFilter(frame, i) ==
    /\ frame.id.low = canids[i].low
    /\ extended => frame.id.high = canids[i].high

compare_frames_header(rcv, exp) ==      \* mutant: does not look at the data
    rcv.id = exp.id /\ rcv.eff = exp.eff /\ rcv.dlc = exp.dlc
compare_frames(rcv, exp) ==
    /\ rcv.id = exp.id /\ rcv.eff = exp.eff /\ rcv.dlc = exp.dlc
    /\ rcv.dlc > 0 => rcv.data = exp.data

-----------------------------------------------------------------------------
(* main: one thread for each id; what pthread_create returns is not looked *)
(* at, and pthread_join of a thread that was not created crashes.          *)
Create(s) ==
    /\ main[s] = "create"
    /\ IF cnt[s] \in Index
       THEN /\ \E ok \in BOOLEAN :
                /\ IF ok THEN UNCHANGED faults ELSE Fault
                /\ thread' = IF ok THEN [thread EXCEPT ![s][cnt[s]].pc = "setup"] ELSE thread
            /\ cnt' = [cnt EXCEPT ![s] = @ + 1] /\ UNCHANGED main
       ELSE /\ main' = [main EXCEPT ![s] = "join"] /\ cnt' = [cnt EXCEPT ![s] = 1]
            /\ UNCHANGED <<thread, faults>>
    /\ UNCHANGED <<main_opts, queue, got, clean>>

Join(s) ==
    /\ main[s] = "join"
    /\ IF cnt[s] \in Index
       THEN /\ thread[s][cnt[s]].pc \in {"none", "ended"}
            /\ IF thread[s][cnt[s]].pc = "none"
               THEN main' = [main EXCEPT ![s] = "crashed"] /\ UNCHANGED cnt
               ELSE cnt' = [cnt EXCEPT ![s] = @ + 1] /\ UNCHANGED main
       ELSE main' = [main EXCEPT ![s] = "freed"] /\ UNCHANGED cnt
    /\ UNCHANGED <<main_opts, thread, queue, got, clean, faults>>

-----------------------------------------------------------------------------
(* xmit_thread.                                                            *)

Running(s, i, pc) == main[s] \in {"create", "join"} /\ thread[s][i].pc = pc
End(s, i, result) ==
    thread' = [thread EXCEPT ![s][i].pc = "ended", ![s][i].result = result]
Advance(s, i) ==
    IF thread[s][i].loop < Loops THEN thread' = [thread EXCEPT ![s][i].loop = @ + 1]
    ELSE End(s, i, "ok")

(* socket, setsockopt, SIOCGIFINDEX, bind, fcntl.                          *)
Setup(s, i) ==
    /\ Running(s, i, "setup")
    /\ \/ /\ ValidId(canids[i]) /\ thread' = [thread EXCEPT ![s][i].pc = "loop"]
          /\ UNCHANGED faults
       \/ ~ValidId(canids[i]) /\ End(s, i, "failed") /\ UNCHANGED faults
       \/ Fault /\ End(s, i, "failed")
    /\ UNCHANGED <<main_opts, main, cnt, queue, got, clean>>

(* The bus takes the frame to every bound socket it passes the filter of.  *)
Listening(i) == thread["rx"][i].pc = "loop"
Bound(i) == thread["rx"][i].pc \in {"loop", "ended"}
Deliver(frame, times) ==
    queue' = [i \in Index |->
        IF Listening(i) /\ PassesFilter(frame, i)
        THEN queue[i] \o [n \in 1 .. times |-> frame] ELSE queue[i]]

Transmit(i) ==
    /\ Running("tx", i, "loop")
    /\ \/ /\ Deliver(Frame("tx", i, thread["tx"][i].loop), 1) /\ UNCHANGED faults
          /\ clean' = (clean /\ \A j \in Index : Bound(j))
          /\ Advance("tx", i)
       \/ /\ Fault /\ clean' = FALSE        \* lost, or repeated
          /\ \E times \in {0, 2} : Deliver(Frame("tx", i, thread["tx"][i].loop), times)
          /\ Advance("tx", i)
       \/ /\ Fault /\ clean' = FALSE        \* write fails
          /\ End("tx", i, "failed") /\ UNCHANGED queue
    /\ UNCHANGED <<main_opts, main, cnt, got>>

(* read blocks without a timeout.                                          *)
Receive(i) ==
    /\ Running("rx", i, "loop") /\ queue[i] # <<>>
    /\ got' = [got EXCEPT ![i] = Append(@, Head(queue[i]))]
    /\ queue' = [queue EXCEPT ![i] = Tail(@)]
    /\ IF compare_frames(Head(queue[i]), Frame("rx", i, thread["rx"][i].loop))
       THEN Advance("rx", i) ELSE End("rx", i, "failed")
    /\ UNCHANGED <<main_opts, main, cnt, clean, faults>>

ReadFails(i) ==
    /\ Running("rx", i, "loop") /\ Fault
    /\ End("rx", i, "failed")
    /\ UNCHANGED <<main_opts, main, cnt, queue, got, clean>>

(* A third node sends a frame (external).                                  *)
Foreign(id, eff, data) ==
    /\ Fault /\ clean' = FALSE
    /\ Deliver([id |-> id, eff |-> eff, dlc |-> bytes["tx"], data |-> data,
                seq |-> 0, from |-> 0], 1)
    /\ UNCHANGED <<main_opts, main, cnt, thread, got>>

Finished == \A s \in Sides : main[s] \in {"freed", "crashed"}
Terminated == Finished /\ UNCHANGED vars
(* A receiver that waits for a lost frame waits for ever.                  *)
Waiting ==
    /\ main["tx"] \in {"freed", "crashed"} /\ ~Finished
    /\ \A i \in Index : ~Running("rx", i, "setup") /\ (Running("rx", i, "loop") => queue[i] = <<>>)
    /\ UNCHANGED vars

Main(s) == Create(s) \/ Join(s)
Thread(s, i) ==
    Setup(s, i) \/ (s = "tx" /\ Transmit(i)) \/ (s = "rx" /\ (Receive(i) \/ ReadFails(i)))
Next ==
    \/ \E s \in Sides : Main(s) \/ \E i \in Index : Thread(s, i)
    \/ \E i \in Index, eff \in BOOLEAN, data \in 0 .. PatternMod - 1 :
            Foreign(canids[i], eff, data)
    \/ Terminated \/ Waiting
Spec == Init /\ [][Next]_vars
(* All threads of both programs are scheduled.                             *)
Fairness ==
    /\ \A s \in Sides : WF_vars(Main(s))
    /\ \A s \in Sides, i \in 1 .. 2 : WF_vars(i \in Index /\ Thread(s, i))

-----------------------------------------------------------------------------
(* Types.                                                                  *)
TypeOK ==
    /\ main_opts \in CommandLines
    /\ main \in [Sides -> {"create", "join", "freed", "crashed"}]
    /\ cnt \in [Sides -> 1 .. Len(canids) + 1]
    /\ thread \in [Sides -> [Index -> [pc : {"none", "setup", "loop", "ended"},
            loop : 1 .. Loops, result : {"none", "ok", "failed"}]]]
    /\ DOMAIN queue = Index /\ DOMAIN got = Index
    /\ clean \in BOOLEAN /\ faults \in 0 .. MaxFaults

UniqueIds == \A i, j \in Index : canids[i] = canids[j] => i = j
(* The data tells the frames of one id apart: -b was given, -p was not.    *)
Telling == bytes["rx"] > 0 /\ ~same_pattern /\ Loops < PatternMod

(* A receiver that reports its time has read exactly the frames of its id, *)
(* each once and in the order they were sent, whatever was lost, repeated  *)
(* or sent by others; a foreign frame passes only as an exact copy.        *)
OkMeansAllReceived ==
    \A i \in Index :
        (thread["rx"][i].result = "ok" /\ Telling /\ UniqueIds)
            => /\ Len(got[i]) = Loops
               /\ \A n \in 1 .. Loops : got[i][n].from = 0 \/ got[i][n].seq = n
               /\ \A n \in 1 .. Loops : got[i][n].from \in {0, i}

(* When nothing is lost, repeated or foreign, all receivers are set up     *)
(* before the first frame and both sides have the same options, no receiver       *)
(* reports different frames: the threads of one bus do not disturb each    *)
(* other.                                                                  *)
CleanMeansOk ==
    \A i \in Index :
        /\ clean /\ faults = 0 /\ UniqueIds /\ bytes["tx"] = bytes["rx"] /\ ValidId(canids[i])
        /\ thread["rx"][i].pc = "ended"
        => thread["rx"][i].result = "ok"

(* main_opts and its lists are freed after the last use by any thread.     *)
OptionsOutliveThreads ==
    \A s \in Sides : main[s] = "freed" => \A i \in Index : thread[s][i].pc = "ended"

(* A transmitter ends in any case, a receiver when the bus did its part    *)
(* and the other side had a transmitter for its id.                        *)
BothOver ==
    /\ main["tx"] \in {"freed", "crashed"}
    /\ main["rx"] \in {"freed", "crashed"} \/ ~clean \/ faults > 0
BothEnd == <>BothOver
=============================================================================
