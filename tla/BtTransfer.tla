----------------------------- MODULE BtTransfer -----------------------------
(***************************************************************************)
(* bt_test sends a file and its permissions over a Bluetooth RFCOMM        *)
(* connection: transmitter_test and receiver_test run on two machines,     *)
(* the link takes what fits and may be lost, the receiver's disk may be    *)
(* full.  A unit stands for some bytes; the options and the addresses are  *)
(* left out.                                                               *)
(***************************************************************************)
EXTENDS Integers, Sequences, SequencesExt

CONSTANTS
    MaxLen,     \* bound: length of the file
    BufLen,     \* size of buf
    LinkLen,    \* what the link holds
    Blocking,   \* send waits; otherwise it may return EAGAIN
    MaxFaults   \* bound: calls that fail, the link lost, the disk full

VARIABLES
    tx, rx,         \* where the transmitter and the receiver are
    file,           \* what the transmitter sends
    pos, buf, bytes_written,    \* fread's position; what is sent of buf
    conn,           \* "none", "listening", "connected", "closed", "lost"
    link,           \* what is on the way
    out, rest,      \* the receiver's file; what it has yet to write of its buffer
    permissions,    \* what the receiver takes for the permissions
    result,         \* exit status of each side
    full,           \* the receiver's disk is full
    heard,          \* history: no call on the permissions failed, see below
    damaged,        \* history: the link was lost, recv or fclose lost data
    faults

vars == <<tx, rx, file, pos, buf, bytes_written, conn, link, out, rest,
          permissions, result, full, heard, damaged, faults>>
transmitter == <<tx, pos, buf, bytes_written>>
receiver == <<rx, out, rest, permissions>>

Mode == 0           \* htonl(st_mode), sent first
Garbage == -1       \* uninitialised, from before buf, or a part of the permissions
Old == <<-2>>       \* what the receiver's file held before
Fault == faults < MaxFaults /\ faults' = faults + 1
Outcome(ok) == IF ok THEN UNCHANGED faults ELSE Fault

ConstantsOk ==
    MaxLen \in Nat /\ BufLen \in Nat \ {0} /\ LinkLen \in Nat /\ MaxFaults \in Nat

Init ==
    /\ tx = "connect" /\ rx = "open"
    /\ file \in {[n \in 1 .. len |-> n] : len \in 0 .. MaxLen}
    /\ pos = 0 /\ buf = <<>> /\ bytes_written = 0
    /\ conn = "none" /\ link = <<>>
    /\ out = Old /\ rest = <<>> /\ permissions = Garbage
    /\ result = [tx |-> "none", rx |-> "none"]
    /\ full = FALSE /\ heard = TRUE /\ damaged = FALSE /\ faults = 0

-----------------------------------------------------------------------------
(* transmitter_test.                                                       *)

EndTx(status) ==
    /\ tx' = "exit" /\ result' = [result EXCEPT !.tx = status]
    /\ conn' = IF conn = "connected" THEN "closed" ELSE conn

Connect ==
    /\ tx = "connect"
    /\ IF conn = "listening"
       THEN tx' = "open" /\ conn' = "connected" /\ UNCHANGED result
       ELSE EndTx("failure")
    /\ UNCHANGED <<receiver, file, pos, buf, bytes_written, link, full, heard, damaged, faults>>

(* fopen and stat.  What send of the permissions returns is not looked at: *)
(* none of them, or a part, may be on the way when the file follows.       *)
OpenFile ==
    /\ tx = "open"
    /\ \/ /\ Fault /\ EndTx("failure") /\ UNCHANGED <<link, heard>>
       \/ /\ tx' = "read" /\ UNCHANGED <<conn, result>>
          /\ \/ conn = "connected" /\ link' = Append(link, Mode) /\ UNCHANGED <<heard, faults>>
             \/ conn # "connected" /\ UNCHANGED <<link, heard, faults>>
             \/ /\ conn = "connected" /\ Fault /\ heard' = FALSE
                /\ link' \in {link, Append(link, Garbage)}
    /\ UNCHANGED <<receiver, file, pos, buf, bytes_written, full, damaged>>

(* fread sees the end of the file when it gets less than it asked for.     *)
Eof == pos = Len(file) /\ Len(buf) < BufLen
Read ==
    /\ tx = "read"
    /\ \/ LET n == IF Len(file) - pos < BufLen THEN Len(file) - pos ELSE BufLen
          IN /\ buf' = SubSeq(file, pos + 1, pos + n) /\ pos' = pos + n
             /\ bytes_written' = 0 /\ UNCHANGED faults
             /\ IF n > 0 THEN tx' = "send" /\ UNCHANGED <<result, conn>>
                ELSE EndTx("success")
       \/ Fault /\ EndTx("failure") /\ UNCHANGED <<pos, buf, bytes_written>>
    /\ UNCHANGED <<receiver, file, link, full, heard, damaged>>

Sent ==     \* after bytes_written changed
    IF bytes_written' < Len(buf) THEN tx' = "send" /\ UNCHANGED <<result, conn>>
    ELSE IF ~Eof THEN tx' = "read" /\ UNCHANGED <<result, conn>>
    ELSE EndTx("success")

(* send takes as much as fits.  On EAGAIN the code sleeps and adds status, *)
(* which is -1, to bytes_written: buf[-1] is sent next when it was 0.      *)
Byte(n) == IF n = 0 THEN Garbage ELSE buf[n]
Send_from_start ==              \* mutant: sends &buf[0] again
    /\ tx = "send"
    /\ \/ /\ conn = "connected"
          /\ \E n \in 1 .. LinkLen - Len(link) :
                /\ bytes_written + n <= Len(buf)
                /\ link' = link \o [k \in 1 .. n |-> Byte(k)]
                /\ bytes_written' = bytes_written + n
          /\ Sent /\ UNCHANGED faults
       \/ /\ (conn = "lost" /\ UNCHANGED faults) \/ (conn # "lost" /\ Fault)
          /\ EndTx("failure") /\ UNCHANGED <<link, bytes_written>>
    /\ UNCHANGED <<receiver, file, pos, buf, full, heard, damaged>>
Send ==
    /\ tx = "send"
    /\ \/ /\ conn = "connected"
          /\ \E n \in 1 .. LinkLen - Len(link) :
                /\ bytes_written + n <= Len(buf)
                /\ link' = link \o [k \in 1 .. n |-> Byte(bytes_written + k)]
                /\ bytes_written' = bytes_written + n
          /\ Sent /\ UNCHANGED faults
       \/ /\ ~Blocking /\ conn = "connected" /\ bytes_written >= 0 /\ Fault
          /\ bytes_written' = bytes_written - 1
          /\ UNCHANGED <<tx, conn, link, result>>
       \/ /\ (conn = "lost" /\ UNCHANGED faults) \/ (conn # "lost" /\ Fault)
          /\ EndTx("failure") /\ UNCHANGED <<link, bytes_written>>
    /\ UNCHANGED <<receiver, file, pos, buf, full, heard, damaged>>

Transmitter == Connect \/ OpenFile \/ Read \/ Send

-----------------------------------------------------------------------------
(* receiver_test.                                                          *)

(* The end of the receiver is the end of the connection.                   *)
EndRx(status) ==
    /\ rx' = "exit" /\ result' = [result EXCEPT !.rx = status]
    /\ conn' = CASE conn = "connected" -> "lost" [] conn = "listening" -> "none"
                 [] OTHER -> conn
    /\ link' = <<>>

(* fopen "wb" empties the file before anybody has connected.               *)
CreateFile ==
    /\ rx = "open"
    /\ \/ rx' = "listen" /\ out' = <<>> /\ UNCHANGED <<conn, link, result, faults>>
       \/ Fault /\ EndRx("failure") /\ UNCHANGED out
    /\ UNCHANGED <<transmitter, file, rest, permissions, full, heard, damaged>>

(* socket, bind (its result is lost) and listen.                           *)
Listen ==
    /\ rx = "listen"
    /\ \/ rx' = "accept" /\ conn' = "listening" /\ UNCHANGED <<link, result, faults>>
       \/ Fault /\ EndRx("failure")
    /\ UNCHANGED <<transmitter, file, out, rest, permissions, full, heard, damaged>>

Accept ==
    /\ rx = "accept"
    /\ \/ /\ conn \in {"connected", "closed", "lost"} /\ rx' = "permissions"
          /\ UNCHANGED <<conn, link, result, faults>>
       \/ Fault /\ EndRx("failure")
    /\ UNCHANGED <<transmitter, file, out, rest, permissions, full, heard, damaged>>

NoMore == link = <<>> /\ conn \in {"closed", "lost"}     \* recv returns 0 or -1

(* What recv returns is not looked at: it may fail, and permissions stay   *)
(* uninitialised, or take a part, and the rest is taken for the file.      *)
RecvPermissions ==
    /\ rx = "permissions" /\ rx' = "recv"
    /\ \/ /\ link # <<>> /\ permissions' = Head(link) /\ link' = Tail(link)
          /\ UNCHANGED <<heard, faults>>
       \/ NoMore /\ UNCHANGED <<permissions, link, heard, faults>>
       \/ /\ Fault /\ heard' = FALSE /\ UNCHANGED permissions
          /\ \/ UNCHANGED link
             \/ link # <<>> /\ link' = [link EXCEPT ![1] = Garbage]
    /\ UNCHANGED <<transmitter, file, conn, out, rest, result, full, damaged>>

(* An error is taken for the end of the file.                              *)
Recv ==
    /\ rx = "recv"
    /\ \/ \E n \in 1 .. Len(link) :
            /\ n <= BufLen
            /\ rest' = SubSeq(link, 1, n) /\ link' = SubSeq(link, n + 1, Len(link))
            /\ rx' = "write" /\ UNCHANGED faults
       \/ NoMore /\ rx' = "close" /\ UNCHANGED <<rest, link, faults>>
       \/ Fault /\ rx' = "close" /\ UNCHANGED <<rest, link>>
    /\ UNCHANGED <<transmitter, file, conn, out, permissions, result, full, heard, damaged>>

(* fwrite writes all, or fewer when the disk fills up.  It is never        *)
(* negative: on a full disk it returns 0 and the loop goes on.             *)
Write ==
    /\ rx = "write"
    /\ \E n \in 0 .. Len(rest) :
        /\ full => n = 0
        /\ IF n = Len(rest) \/ full THEN UNCHANGED <<full, faults>>
           ELSE Fault /\ full' = TRUE
        /\ out' = out \o SubSeq(rest, 1, n)
        /\ rest' = SubSeq(rest, n + 1, Len(rest))
        /\ rx' = IF n = Len(rest) THEN "recv" ELSE "write"
    /\ UNCHANGED <<transmitter, file, conn, link, permissions, result, heard, damaged>>

(* fclose writes what stdio still holds; that it fails is not noticed.     *)
CloseFile ==
    /\ rx = "close"
    /\ EndRx("success")
    /\ \/ /\ damaged' = (damaged \/ ~NoMore)
          /\ UNCHANGED <<out, faults>>
       \/ /\ Fault /\ damaged' = TRUE
          /\ \E n \in 0 .. Len(out) : out' = SubSeq(out, 1, n)
    /\ UNCHANGED <<transmitter, file, rest, permissions, full, heard>>

Receiver == CreateFile \/ Listen \/ Accept \/ RecvPermissions \/ Recv \/ Write \/ CloseFile

(* The link is lost with what is on the way (external).                    *)
LinkLost ==
    /\ conn \in {"connected", "closed"} /\ rx # "exit" /\ Fault
    /\ conn' = "lost" /\ damaged' = TRUE
    /\ \E n \in 0 .. Len(link) : link' = SubSeq(link, 1, n)
    /\ UNCHANGED <<transmitter, receiver, file, result, full, heard>>

(* A receiver nobody connects to waits in accept.                          *)
Terminated ==
    /\ tx = "exit" /\ (rx = "exit" \/ (rx = "accept" /\ conn = "listening"))
    /\ UNCHANGED vars

Next == Transmitter \/ Receiver \/ LinkLost \/ Terminated
Spec == Init /\ [][Next]_vars
(* Both programs are scheduled.                                            *)
FairSpec == Spec /\ WF_vars(Transmitter) /\ WF_vars(Receiver)

-----------------------------------------------------------------------------
(* Types.                                                                  *)
TypeOK ==
    /\ tx \in {"connect", "open", "read", "send", "exit"}
    /\ rx \in {"open", "listen", "accept", "permissions", "recv", "write", "close", "exit"}
    /\ Len(file) <= MaxLen /\ pos \in 0 .. Len(file)
    /\ Len(buf) <= BufLen /\ bytes_written \in -1 .. BufLen
    /\ conn \in {"none", "listening", "connected", "closed", "lost"}
    /\ Len(link) <= LinkLen + 1 /\ Len(rest) <= BufLen
    /\ permissions \in Garbage .. MaxLen
    /\ result \in [{"tx", "rx"} -> {"none", "success", "failure"}]
    /\ full \in BOOLEAN /\ heard \in BOOLEAN /\ damaged \in BOOLEAN /\ faults \in 0 .. MaxFaults

(* At every moment the receiver's file is its old contents or the          *)
(* beginning of what is sent: in spite of partial sends and writes nothing *)
(* is missing in between, nothing comes twice.  Not when a call that sends *)
(* or receives the permissions failed: nobody notices, and the file begins *)
(* too early or too late.                                                  *)
ReceivedIsPrefix == heard => out = Old \/ IsPrefix(out, file)

(* Both exit statuses are EXIT_SUCCESS: the file is complete and has its   *)
(* permissions.  Not when the link was lost, or recv or fclose failed,     *)
(* which the receiver does not report, nor when the permissions were not   *)
(* heard.                                                                  *)
SuccessMeansTransferred ==
    (result = [tx |-> "success", rx |-> "success"] /\ heard /\ ~damaged)
        => out = file /\ permissions = Mode

(* Once there is a connection both programs come to an end, also when it   *)
(* is lost; only a full disk keeps the receiver in its loop.               *)
Over == (tx = "exit" /\ rx = "exit") \/ full
TransferEnds == conn = "connected" ~> Over
=============================================================================
