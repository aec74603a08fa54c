------------------------- MODULE V4l2PreviewProofs -------------------------
(***************************************************************************)
(* Proofs about V4l2Preview, for all rotations, numbers of signals and     *)
(* failing calls: the two threads use no descriptor after it was closed,   *)
(* and the preview comes back, turned as the user chose, and goes off.     *)
(***************************************************************************)
EXTENDS V4l2Preview, TLAPS

MainPlaces == {"start", "loop", "about", "join", "off", "limits", "change", "on",
               "fill", "control", "done", "killed", "menu", "prompt"}
CameraPlaces == {"none", "check", "info", "output", "reset", "find", "start", "streaming",
                 "close_in", "close_out", "close_fg", "ended"}
Closing == {"close_in", "close_out", "close_fg"}

-----------------------------------------------------------------------------
(* What a call of the kernel leaves behind.                                *)

CallType(f) ==
    /\ faults' \in 0 .. MaxFaults /\ faults <= faults'
    /\ misuse \subseteq misuse' /\ misuse' \subseteq misuse \cup {<<f, fd[f]>>}
    /\ misuse' \subseteq Descriptors \X {"unset", "closed"}

LEMMA CallFacts ==
  ASSUME TypeOK, NEW f \in Descriptors, NEW ok \in BOOLEAN, Call(f, ok)
  PROVE  /\ CallType(f)
         /\ ~ok => ~NothingFailed'
<1>1. /\ faults \in 0 .. MaxFaults /\ MaxFaults \in Nat /\ fd[f] \in {"unset", "open", "closed"}
      /\ misuse \subseteq Descriptors \X {"unset", "closed"}
  BY PreviewAssumption DEF TypeOK
<1>2. CASE fd[f] = "open"
  BY <1>1, <1>2 DEF Call, Fault, CallType, NothingFailed
<1>3. CASE fd[f] # "open"
  <2>1. ~ok /\ misuse' = misuse \cup {<<f, fd[f]>>} /\ faults' = faults
    BY <1>3 DEF Call
  <2>2. <<f, fd[f]>> \in Descriptors \X {"unset", "closed"}
    BY <1>1, <1>3
  <2> QED
    BY <1>1, <2>1, <2>2 DEF CallType, NothingFailed
<1> QED
  BY <1>2, <1>3

LEMMA FaultFacts ==
  ASSUME TypeOK, NEW ok \in BOOLEAN, Fault(ok)
  PROVE  /\ faults' \in 0 .. MaxFaults /\ faults <= faults'
         /\ ~ok => faults' > 0
  BY PreviewAssumption DEF TypeOK, Fault

DevType == [overlay : BOOLEAN, rotate : Rotations]

LEMMA OverlayFacts ==
  ASSUME TypeOK, NEW on \in BOOLEAN, NEW ok \in BOOLEAN, overlay_control(on, ok)
  PROVE  /\ CallType("fd_in") /\ (~ok => ~NothingFailed')
         /\ dev' \in DevType /\ dev'.rotate = dev.rotate
         /\ NothingFailed' => (dev'.overlay <=> on)
<1>1. CallType("fd_in") /\ (~ok => ~NothingFailed')
  BY CallFacts DEF overlay_control, Descriptors
<1>2. dev \in DevType
  BY DEF TypeOK, DevType
<1>3. CASE ok
  <2>1. dev' = [dev EXCEPT !.overlay = on]
    BY <1>3 DEF overlay_control
  <2>2. dev' \in DevType /\ dev'.rotate = dev.rotate /\ dev'.overlay = on
    BY <1>2, <2>1 DEF DevType
  <2> QED
    BY <1>1, <2>2, Zenon
<1>4. CASE ~ok
  <2>1. dev' = dev
    BY <1>4 DEF overlay_control
  <2> QED
    BY <1>1, <1>2, <1>4, <2>1
<1> QED
  BY <1>3, <1>4

LEMMA CloseFacts ==
  ASSUME TypeOK, NEW f \in Descriptors, close(f)
  PROVE  /\ fd' \in [Descriptors -> {"unset", "open", "closed"}]
         /\ fd'[f] = (IF fd[f] = "unset" THEN "unset" ELSE "closed")
         /\ \A g \in Descriptors : g # f => fd'[g] = fd[g]
  BY DEF TypeOK, close

-----------------------------------------------------------------------------
(***************************************************************************)
(* The steps, reduced to what the invariants are about.                    *)
(***************************************************************************)
Facts ==
    /\ main \in MainPlaces /\ camera \in CameraPlaces /\ should_stop \in BOOLEAN
    /\ cmd \in Commands /\ arg \in Rotations /\ fd \in [Descriptors -> {"unset", "open", "closed"}]
    /\ dev \in DevType /\ chosen \in Rotations

LEMMA TypeFacts == TypeOK => Facts
  BY DEF TypeOK, Facts, MainPlaces, CameraPlaces, DevType, Reading, Starting, Resetting


-----------------------------------------------------------------------------
(***************************************************************************)
(* The inductive invariant.  Once should_stop is set, main is where it     *)
(* looks at it next, unless the signal came somewhere else (raced); only   *)
(* then the camera thread closes; a patient user gives main something to   *)
(* do only when the camera thread has done its settings.                   *)
(***************************************************************************)
MainInv ==
    /\ should_stop /\ ~raced => main \in {"loop", "join", "done", "killed"}
    /\ main = "start" => camera = "none"
    /\ main = "done" => camera = "ended"

FdInv ==
    /\ camera \in {"none", "check", "info"} => fd["fd_out"] = "unset"
    /\ camera \notin {"close_out", "close_fg", "ended"} => fd["fd_in"] # "closed"
    /\ camera \notin {"close_fg", "ended"} => fd["fd_out"] # "closed"
    /\ camera # "ended" /\ faults = 0 => fd["fb_fg"] # "closed"
    /\ camera \in Closing => should_stop
    /\ camera = "ended" /\ ~should_stop => fd["fd_out"] = "unset" /\ fd["fd_in"] # "closed"
                                           /\ (faults = 0 => fd["fb_fg"] # "closed")

WaitInv == camera \in Resetting => chosen = 0

PreviewInv == NothingFailed =>
    /\ camera = "streaming" /\ main \notin {"change", "on"} => dev.overlay
    /\ camera \in {"find", "start", "streaming"} => dev.rotate = chosen
    /\ ~raced /\ camera \in Closing \cup {"ended"} /\ fd["fd_out"] # "unset" => ~dev.overlay

FdsInv == TypeOK /\ MainInv /\ FdInv /\ NoStaleDescriptor

LEMMA StaleKept ==
  ASSUME TypeOK, NoStaleDescriptor, NEW f \in Descriptors, CallType(f), raced = raced',
         raced \/ faults' > 0 \/ fd[f] # "closed"
  PROVE  NoStaleDescriptor'
<1>1. faults \in Nat /\ faults' \in Nat
  BY PreviewAssumption DEF TypeOK, CallType
<1>2. \A g \in Descriptors : <<g, "closed">> \in misuse' =>
        <<g, "closed">> \in misuse \/ fd[f] = "closed"
  BY DEF CallType
<1> QED
  BY <1>1, <1>2 DEF NoStaleDescriptor, CallType

(* The camera thread.                                                      *)
LEMMA CameraType ==
  ASSUME TypeOK, Camera
  PROVE  TypeOK'
<1>1. CASE CheckDevice
  BY <1>1 DEF CheckDevice, TypeOK, GotoCamera, history, kernel, asked, Starting, Resetting
<1>2. CASE GetInfo
  <2>1. PICK ok \in BOOLEAN :
           /\ Fault(ok)
           /\ IF ok THEN GotoCamera("output") /\ fd' = [fd EXCEPT !.fd_out = "open"]
              ELSE Exit /\ UNCHANGED fd
    BY <1>2 DEF GetInfo
  <2>2. faults' \in 0 .. MaxFaults
    BY <2>1, FaultFacts
  <2> QED
    BY <1>2, <2>1, <2>2 DEF GetInfo, TypeOK, GotoCamera, Exit, history, asked, Starting, Resetting
<1>3. CASE SetOutput
  <2>1. PICK ok \in BOOLEAN : Call("fd_in", ok) /\ (IF ok THEN GotoCamera("reset") ELSE Exit)
    BY <1>3 DEF SetOutput
  <2>2. CallType("fd_in")
    BY <2>1, CallFacts DEF Descriptors
  <2> QED
    BY <1>3, <2>1, <2>2 DEF SetOutput, CallType, TypeOK, GotoCamera, Exit, history, asked, Starting, Resetting
<1>4. CASE ResetSettings
  <2>1. PICK ok \in BOOLEAN :
           Call("fd_in", ok) /\ dev' = IF ok THEN [dev EXCEPT !.rotate = 0] ELSE dev
    BY <1>4 DEF ResetSettings
  <2>2. CallType("fd_in")
    BY <2>1, CallFacts DEF Descriptors
  <2>3. dev' \in DevType
    BY <2>1, PreviewAssumption DEF TypeOK, DevType
  <2> QED
    BY <1>4, <2>2, <2>3 DEF ResetSettings, CallType, TypeOK, DevType, GotoCamera, history, asked, Starting, Resetting
<1>5. CASE FindOverlay
  <2>1. PICK ok \in BOOLEAN :
           /\ Fault(ok) /\ fd' = IF ok THEN [fd EXCEPT !.fb_fg = "open"] ELSE fd
    BY <1>5 DEF FindOverlay
  <2>2. faults' \in 0 .. MaxFaults
    BY <2>1, FaultFacts
  <2> QED
    BY <1>5, <2>1, <2>2 DEF FindOverlay, TypeOK, GotoCamera, history, asked, Starting, Resetting
<1>6. CASE StartOverlay
  <2>1. CallType("fd_in") /\ dev' \in DevType
    BY <1>6, OverlayFacts DEF StartOverlay
  <2> QED
    BY <1>6, <2>1 DEF StartOverlay, CallType, TypeOK, DevType, GotoCamera, history, asked
<1>7. CASE StopOverlay
  <2>1. CallType("fd_in") /\ dev' \in DevType
    BY <1>7, OverlayFacts DEF StopOverlay
  <2> QED
    BY <1>7, <2>1 DEF StopOverlay, CallType, TypeOK, DevType, GotoCamera, history, asked
<1>8. CASE CloseAll
  <2>1. ASSUME NEW f \in Descriptors, NEW l, NEW n \in {"close_out", "close_fg", "ended"}, CloseFd(l, f, n)
        PROVE  TypeOK'
    <3>1. fd' \in [Descriptors -> {"unset", "open", "closed"}]
      BY <2>1, CloseFacts DEF CloseFd
    <3>2. misuse' \subseteq Descriptors \X {"unset", "closed"}
      BY <2>1 DEF CloseFd, TypeOK
    <3> QED
      BY <2>1, <3>1, <3>2 DEF CloseFd, TypeOK, GotoCamera, history, asked
  <2>2. CASE camera = "close_fg" /\ GotoCamera("ended") /\ UNCHANGED <<fd, dev, history, kernel, signals>>
    BY <2>2 DEF TypeOK, GotoCamera, history, asked, kernel
  <2> QED
    BY <1>8, <2>1, <2>2 DEF CloseAll, Descriptors
<1> QED
  BY <1>1, <1>2, <1>3, <1>4, <1>5, <1>6, <1>7, <1>8 DEF Camera

(* The main thread, the user and the signals.                              *)
LEMMA MainType ==
  ASSUME TypeOK, Main
  PROVE  TypeOK'
<1> USE DEF history, kernel, asked, GotoMain, Reading
<1>1. CASE Start
  <2>1. PICK ok \in BOOLEAN :
           /\ Fault(ok)
           /\ IF ok THEN main' = "loop" /\ camera' = "check" /\ fd' = [fd EXCEPT !.fd_in = "open"]
              ELSE main' = "killed" /\ UNCHANGED <<camera, fd>>
    BY <1>1 DEF Start
  <2>2. faults' \in 0 .. MaxFaults
    BY <2>1, FaultFacts
  <2> QED
    BY <1>1, <2>1, <2>2 DEF Start, TypeOK, Starting, Resetting
<1>2. CASE Loop \/ ShowMenu \/ Join
  BY <1>2 DEF Loop, ShowMenu, Join, TypeOK
<1>3. CASE GetLimits
  <2>1. PICK ok \in BOOLEAN : Call("fd_in", ok) /\ GotoMain(IF ok THEN "off" ELSE "loop")
    BY <1>3 DEF GetLimits
  <2>2. CallType("fd_in")
    BY <2>1, CallFacts DEF Descriptors
  <2> QED
    BY <1>3, <2>1, <2>2 DEF GetLimits, CallType, TypeOK
<1>4. CASE OverlayOff
  <2>1. PICK ok \in BOOLEAN :
          overlay_control(FALSE, ok) /\ GotoMain(IF ok \/ cmd = "l" THEN "change" ELSE "loop")
    BY <1>4 DEF OverlayOff
  <2>2. CallType("fd_in") /\ dev' \in DevType
    BY <2>1, OverlayFacts
  <2> QED
    BY <1>4, <2>1, <2>2 DEF OverlayOff, CallType, TypeOK, DevType
<1>5. CASE Rotate
  <2>1. CallType("fd_in") /\ \E l \in {"on", "loop"} : GotoMain(l)
    BY <1>5, CallFacts DEF Rotate, Descriptors
  <2>2. dev' \in DevType /\ chosen' \in Rotations
    BY <1>5, PreviewAssumption DEF Rotate, TypeOK, DevType
  <2> QED
    BY <1>5, <2>1, <2>2 DEF Rotate, CallType, TypeOK, DevType
<1>6. CASE Crop
  <2>1. PICK ok \in BOOLEAN : Call("fd_in", ok) /\ GotoMain(IF ok THEN "on" ELSE "loop")
    BY <1>6 DEF Crop
  <2>2. CallType("fd_in")
    BY <2>1, CallFacts DEF Descriptors
  <2> QED
    BY <1>6, <2>1, <2>2 DEF Crop, CallType, TypeOK
<1>7. CASE PrepareAlpha
  <2>1. PICK ok \in BOOLEAN :
          /\ Call("fb_fg", ok) /\ GotoMain(IF ok THEN "on" ELSE "loop")
          /\ IF ok THEN UNCHANGED fd ELSE close("fb_fg")
    BY <1>7 DEF PrepareAlpha
  <2>2. CallType("fb_fg") /\ fd' \in [Descriptors -> {"unset", "open", "closed"}]
    BY <2>1, CallFacts, CloseFacts DEF Descriptors, TypeOK
  <2> QED
    BY <1>7, <2>1, <2>2 DEF PrepareAlpha, CallType, TypeOK
<1>8. CASE OverlayOn
  <2>1. CallType("fd_in") /\ dev' \in DevType
    BY <1>8, OverlayFacts DEF OverlayOn
  <2> QED
    BY <1>8, <2>1 DEF OverlayOn, CallType, TypeOK, DevType
<1>9. CASE FillAlpha
  <2>1. PICK ok \in BOOLEAN : Call("fb_fg", ok) /\ (IF ok THEN UNCHANGED fd ELSE close("fb_fg"))
    BY <1>9 DEF FillAlpha
  <2>2. CallType("fb_fg") /\ fd' \in [Descriptors -> {"unset", "open", "closed"}]
    BY <2>1, CallFacts, CloseFacts DEF Descriptors, TypeOK
  <2> QED
    BY <1>9, <2>2 DEF FillAlpha, CallType, TypeOK
<1>10. CASE SetControl
  <2>1. PICK ok \in BOOLEAN : Call(IF cmd = "g" THEN "fd_out" ELSE "fd_in", ok)
    BY <1>10 DEF SetControl
  <2>2. CallType("fd_out") \/ CallType("fd_in")
    BY <2>1, CallFacts DEF Descriptors
  <2> QED
    BY <1>10, <2>2 DEF SetControl, CallType, TypeOK
<1> QED
  BY <1>1, <1>2, <1>3, <1>4, <1>5, <1>6, <1>7, <1>8, <1>9, <1>10 DEF Main

LEMMA OutsideType ==
  ASSUME TypeOK, User \/ Signal
  PROVE  TypeOK'
<1> USE DEF history, kernel, asked, GotoMain, Reading
<1>1. ASSUME NEW c \in Commands, Type(c) PROVE TypeOK'
  <2>1. faults' \in 0 .. MaxFaults /\ misuse' \subseteq Descriptors \X {"unset", "closed"}
    <3>1. CASE c = "b"
      <4>1. CallType("fd_in")
        BY <1>1, <3>1, CallFacts DEF Type, Descriptors
      <4> QED
        BY <4>1 DEF CallType
    <3>2. CASE c # "b"
      BY <1>1, <3>2 DEF Type, TypeOK
    <3> QED
      BY <3>1, <3>2
  <2>2. should_stop' \in BOOLEAN
    BY <1>1, Zenon DEF Type, TypeOK
  <2>3. arg' \in Rotations
    BY <1>1, PreviewAssumption DEF Type
  <2> QED
    BY <1>1, <2>1, <2>2, <2>3 DEF Type, TypeOK
<1>2. ASSUME NEW a \in Rotations, Answer(a) PROVE TypeOK'
  BY <1>2 DEF Answer, After, TypeOK
<1>3. CASE Reject
  BY <1>3 DEF Reject, TypeOK
<1>4. CASE Signal
  <2>1. main' \in {"loop", "off", "control", main}
    BY <1>4, Zenon DEF Signal, Interrupted
  <2>2. signals' \in 0 .. MaxSignals /\ arg' \in Rotations /\ cmd' \in Commands
    BY <1>4, PreviewAssumption DEF Signal, TypeOK, Commands
  <2>3. raced' \in BOOLEAN
    BY <1>4, Zenon DEF Signal, TypeOK
  <2> QED
    BY <1>4, <2>1, <2>2, <2>3 DEF Signal, TypeOK
<1> QED
  BY <1>1, <1>2, <1>3, <1>4 DEF User

LEMMA TypeInit == Init => TypeOK
<1> SUFFICES ASSUME Init PROVE TypeOK
  OBVIOUS
<1>1. fd \in [Descriptors -> {"unset", "open", "closed"}]
  BY DEF Init, Descriptors
<1>2. dev \in [overlay : BOOLEAN, rotate : Rotations]
  BY DEF Init
<1>3. arg \in Rotations /\ chosen \in Rotations /\ cmd \in Commands
  BY PreviewAssumption DEF Init, Commands
<1>4. faults \in 0 .. MaxFaults /\ signals \in 0 .. MaxSignals
  BY PreviewAssumption DEF Init
<1> QED
  BY <1>1, <1>2, <1>3, <1>4 DEF Init, TypeOK, Starting, Resetting

LEMMA TypeStep == TypeOK /\ [Next]_vars => TypeOK'
<1>1. TypeOK /\ UNCHANGED vars => TypeOK'
  BY DEF TypeOK, vars
<1> QED
  BY <1>1, CameraType, MainType, OutsideType DEF Next, Ended

(***************************************************************************)
(* The types: the threads are where the program can be, and a rotation     *)
(* given to the camera is one the user may choose (main, "rotate > 7").    *)
(***************************************************************************)
THEOREM TypeCorrect == Spec => []TypeOK
<1> QED
  BY TypeInit, TypeStep, PTL DEF Spec

-----------------------------------------------------------------------------
(***************************************************************************)
(* The descriptors.                                                        *)
(***************************************************************************)
LEMMA CameraFds ==
  ASSUME FdsInv, TypeOK', Camera
  PROVE  FdsInv'
<1> USE DEF history, kernel, asked, GotoCamera
<1>0. TypeOK /\ MainInv /\ FdInv /\ NoStaleDescriptor /\ faults \in Nat
  BY PreviewAssumption DEF FdsInv, TypeOK
<1>1. CASE CheckDevice
  BY <1>0, <1>1 DEF CheckDevice, FdsInv, MainInv, FdInv, NoStaleDescriptor, Closing
<1>2. CASE GetInfo
  <2>1. PICK ok \in BOOLEAN :
           /\ Fault(ok)
           /\ IF ok THEN GotoCamera("output") /\ fd' = [fd EXCEPT !.fd_out = "open"]
              ELSE Exit /\ UNCHANGED fd
    BY <1>2 DEF GetInfo
  <2>2. faults' \in 0 .. MaxFaults /\ faults <= faults'
    BY <1>0, <2>1, FaultFacts
  <2>3. NoStaleDescriptor'
    BY <1>0, <1>2, <2>2 DEF GetInfo, NoStaleDescriptor
  <2> QED
    BY <1>0, <1>2, <2>1, <2>2, <2>3 DEF GetInfo, FdsInv, MainInv, FdInv, Closing, Exit, TypeOK, Descriptors
<1>3. CASE SetOutput
  <2>1. PICK ok \in BOOLEAN : Call("fd_in", ok) /\ (IF ok THEN GotoCamera("reset") ELSE Exit)
    BY <1>3 DEF SetOutput
  <2>2. CallType("fd_in") /\ "fd_in" \in Descriptors
    BY <1>0, <2>1, CallFacts DEF Descriptors
  <2>3. NoStaleDescriptor'
    BY <1>0, <1>3, <2>2, StaleKept DEF SetOutput, FdInv
  <2> QED
    BY <1>0, <1>3, <2>1, <2>2, <2>3 DEF SetOutput, CallType, FdsInv, MainInv, FdInv, Closing, Exit
<1>4. CASE ResetSettings
  <2>1. CallType("fd_in") /\ "fd_in" \in Descriptors
    BY <1>0, <1>4, CallFacts DEF ResetSettings, Descriptors
  <2>2. NoStaleDescriptor'
    BY <1>0, <1>4, <2>1, StaleKept DEF ResetSettings, FdInv
  <2> QED
    BY <1>0, <1>4, <2>1, <2>2 DEF ResetSettings, CallType, FdsInv, MainInv, FdInv, Closing
<1>5. CASE FindOverlay
  <2>1. PICK ok \in BOOLEAN :
           /\ Fault(ok) /\ fd' = IF ok THEN [fd EXCEPT !.fb_fg = "open"] ELSE fd
    BY <1>5 DEF FindOverlay
  <2>2. faults' \in 0 .. MaxFaults /\ faults <= faults'
    BY <1>0, <2>1, FaultFacts
  <2>3. NoStaleDescriptor'
    BY <1>0, <1>5, <2>2 DEF FindOverlay, NoStaleDescriptor
  <2> QED
    BY <1>0, <1>5, <2>1, <2>2, <2>3 DEF FindOverlay, FdsInv, MainInv, FdInv, Closing, TypeOK, Descriptors
<1>6. CASE StartOverlay \/ StopOverlay
  <2>1. CallType("fd_in") /\ "fd_in" \in Descriptors
    BY <1>0, <1>6, OverlayFacts DEF StartOverlay, StopOverlay, Descriptors
  <2>2. NoStaleDescriptor'
    BY <1>0, <1>6, <2>1, StaleKept DEF StartOverlay, StopOverlay, FdInv
  <2>3. /\ UNCHANGED <<main, should_stop, fd, raced>>
        /\ \/ camera = "start" /\ camera' = "streaming"
           \/ camera = "streaming" /\ should_stop /\ camera' = "close_in"
    BY <1>6 DEF StartOverlay, StopOverlay
  <2>4. MainInv' /\ FdInv'
    BY <1>0, <2>1, <2>3 DEF CallType, MainInv, FdInv, Closing
  <2> QED
    BY <2>2, <2>4 DEF FdsInv
<1>7. CASE CloseAll
  <2>1. ASSUME NEW f \in Descriptors, NEW l, NEW n, CloseFd(l, f, n), fd[f] # "closed" \/ faults > 0
        PROVE  NoStaleDescriptor'
    <3>1. CallType(f)
      BY <1>0, <2>1 DEF CloseFd, CallType, TypeOK
    <3> QED
      BY <1>0, <2>1, <3>1, StaleKept DEF CloseFd
  <2>2. CASE CloseFd("close_in", "fd_in", "close_out") \/ CloseFd("close_out", "fd_out", "close_fg")
    <3>1. NoStaleDescriptor'
      BY <1>0, <2>1, <2>2 DEF CloseFd, FdInv, Descriptors
    <3>2. /\ CloseFd("close_in", "fd_in", "close_out") => fd'["fd_out"] = fd["fd_out"]
          /\ fd'["fb_fg"] = fd["fb_fg"]
      BY <1>0, <2>2, CloseFacts DEF CloseFd, Descriptors
    <3> QED
      BY <1>0, <2>2, <3>1, <3>2 DEF CloseFd, FdsInv, MainInv, FdInv, Closing
  <2>3. CASE CloseFd("close_fg", "fb_fg", "ended")
    <3>1. NoStaleDescriptor'
      BY <1>0, <2>1, <2>3 DEF CloseFd, FdInv, Descriptors
    <3> QED
      BY <1>0, <2>3, <3>1 DEF CloseFd, FdsInv, MainInv, FdInv, Closing
  <2>4. CASE camera = "close_fg" /\ GotoCamera("ended") /\ UNCHANGED <<fd, dev, history, kernel, signals>>
    BY <1>0, <2>4 DEF FdsInv, MainInv, FdInv, NoStaleDescriptor, Closing
  <2> QED
    BY <1>7, <2>2, <2>3, <2>4 DEF CloseAll
<1> QED
  BY <1>1, <1>2, <1>3, <1>4, <1>5, <1>6, <1>7 DEF Camera

(* A step of main that uses f: it looked at should_stop before, and closes *)
(* nothing but the framebuffer, after a failure.                           *)
Uses(f) ==
    /\ CallType(f) /\ UNCHANGED <<camera, raced>>
    /\ main \notin {"start", "loop", "join", "done", "killed"}
    /\ main' \notin {"start", "done"}
    /\ should_stop' = should_stop \/ (should_stop' /\ main' = "loop")
    /\ \A g \in Descriptors : fd'[g] = fd[g] \/ (g = "fb_fg" /\ faults' > 0)

LEMMA UseKeepsFds ==
  ASSUME FdsInv, TypeOK', NEW f \in Descriptors, Uses(f)
  PROVE  FdsInv'
<1>0. /\ TypeOK /\ MainInv /\ FdInv /\ NoStaleDescriptor /\ faults \in Nat /\ faults' \in Nat
      /\ CallType(f) /\ UNCHANGED <<camera, raced>>
  BY PreviewAssumption DEF FdsInv, TypeOK, Uses
<1>1. should_stop => raced
  BY <1>0 DEF Uses, MainInv
<1>2. raced \/ faults' > 0 \/ fd[f] # "closed"
  BY <1>0, <1>1 DEF FdInv, CallType, Closing, Descriptors
<1>3. NoStaleDescriptor'
  BY <1>0, <1>2, StaleKept
<1>4. should_stop => should_stop'
  BY DEF Uses
<1>5. MainInv'
  <2>1. raced' = raced /\ (should_stop' = should_stop \/ main' = "loop")
    BY <1>0 DEF Uses
  <2>2. should_stop' /\ ~raced' => main' = "loop"
    <3>1. CASE should_stop' = should_stop /\ should_stop
      BY <1>1, <2>1, <3>1
    <3>2. CASE should_stop' = should_stop /\ ~should_stop
      BY <3>2
    <3> QED
      BY <2>1, <3>1, <3>2
  <2>3. main' \notin {"start", "done"}
    BY DEF Uses
  <2> QED
    BY <2>2, <2>3 DEF MainInv
<1>6. FdInv'
  BY <1>0, <1>4 DEF FdInv, CallType, Uses, Descriptors
<1> QED
  BY <1>3, <1>5, <1>6 DEF FdsInv

LEMMA MainFds ==
  ASSUME FdsInv, TypeOK', Main
  PROVE  FdsInv'
<1> USE DEF history, kernel, asked, GotoMain
<1>0. TypeOK /\ MainInv /\ FdInv /\ NoStaleDescriptor /\ faults \in Nat
  BY PreviewAssumption DEF FdsInv, TypeOK
<1>1. CASE Start
  <2>1. PICK ok \in BOOLEAN :
           /\ Fault(ok)
           /\ IF ok THEN main' = "loop" /\ camera' = "check" /\ fd' = [fd EXCEPT !.fd_in = "open"]
              ELSE main' = "killed" /\ UNCHANGED <<camera, fd>>
    BY <1>1 DEF Start
  <2>2. faults' \in 0 .. MaxFaults /\ faults <= faults'
    BY <1>0, <2>1, FaultFacts
  <2>3. NoStaleDescriptor'
    BY <1>0, <1>1, <2>2 DEF Start, NoStaleDescriptor
  <2> QED
    BY <1>0, <1>1, <2>1, <2>2, <2>3 DEF Start, FdsInv, MainInv, FdInv, Closing, TypeOK, Descriptors
<1>2. CASE Loop \/ ShowMenu \/ Join
  BY <1>0, <1>2 DEF Loop, ShowMenu, Join, FdsInv, MainInv, FdInv, NoStaleDescriptor
<1>3. CASE GetLimits
  <2>1. CallType("fd_in")
    BY <1>0, <1>3, CallFacts DEF GetLimits, Descriptors
  <2> QED
    BY <1>3, <2>1, UseKeepsFds DEF GetLimits, Uses, Descriptors
<1>4. CASE OverlayOff
  <2>1. CallType("fd_in")
    BY <1>0, <1>4, OverlayFacts DEF OverlayOff
  <2> QED
    BY <1>4, <2>1, UseKeepsFds DEF OverlayOff, Uses, Descriptors
<1>5. CASE Rotate
  <2>1. CallType("fd_in")
    BY <1>0, <1>5, CallFacts DEF Rotate, Descriptors
  <2> QED
    BY <1>5, <2>1, UseKeepsFds DEF Rotate, Uses, Descriptors
<1>6. CASE Crop
  <2>1. CallType("fd_in")
    BY <1>0, <1>6, CallFacts DEF Crop, Descriptors
  <2> QED
    BY <1>6, <2>1, UseKeepsFds DEF Crop, Uses, Descriptors
<1>7. CASE PrepareAlpha \/ FillAlpha
  <2>1. PICK ok \in BOOLEAN : Call("fb_fg", ok) /\ (IF ok THEN UNCHANGED fd ELSE close("fb_fg"))
    BY <1>7 DEF PrepareAlpha, FillAlpha
  <2>2. CallType("fb_fg") /\ "fb_fg" \in Descriptors
    BY <1>0, <2>1, CallFacts DEF Descriptors
  <2>3. \A g \in Descriptors : fd'[g] = fd[g] \/ (g = "fb_fg" /\ faults' > 0)
    <3>1. CASE ok
      BY <2>1, <3>1
    <3>2. CASE ~ok
      <4>1. fd["fb_fg"] = "open" => faults' > 0
        BY <1>0, <2>1, <3>2 DEF Call, Fault
      <4>2. /\ fd'["fb_fg"] = (IF fd["fb_fg"] = "unset" THEN "unset" ELSE "closed")
            /\ \A g \in Descriptors : g # "fb_fg" => fd'[g] = fd[g]
        BY <1>0, <2>1, <2>2, <3>2, CloseFacts
      <4>3. fd["fb_fg"] \in {"unset", "open", "closed"}
        BY <1>0, <2>2 DEF TypeOK
      <4> QED
        BY <4>1, <4>2, <4>3
    <3> QED
      BY <3>1, <3>2
  <2> QED
    BY <1>7, <2>2, <2>3, UseKeepsFds DEF PrepareAlpha, FillAlpha, Uses
<1>8. CASE OverlayOn
  <2>1. CallType("fd_in")
    BY <1>0, <1>8, OverlayFacts DEF OverlayOn
  <2> QED
    BY <1>8, <2>1, UseKeepsFds DEF OverlayOn, Uses, Descriptors
<1>9. CASE SetControl
  <2>1. CallType("fd_in") \/ CallType("fd_out")
    BY <1>0, <1>9, CallFacts DEF SetControl, Descriptors
  <2> QED
    BY <1>9, <2>1, UseKeepsFds DEF SetControl, Uses, Descriptors
<1> QED
  BY <1>1, <1>2, <1>3, <1>4, <1>5, <1>6, <1>7, <1>8, <1>9 DEF Main

LEMMA OutsideFds ==
  ASSUME FdsInv, TypeOK', User \/ Signal
  PROVE  FdsInv'
<1> USE DEF history, kernel, asked, GotoMain
<1>0. TypeOK /\ MainInv /\ FdInv /\ NoStaleDescriptor /\ faults \in Nat
  BY PreviewAssumption DEF FdsInv, TypeOK
<1>1. ASSUME NEW c \in Commands, Type(c) PROVE FdsInv'
  <2>1. should_stop' = should_stop \/ (should_stop' /\ main' = "loop")
    <3>1. CASE c = "x"
      BY <1>1, <3>1 DEF Type, Prompts
    <3>2. CASE c # "x"
      <4>1. should_stop' = (should_stop \/ c = "x") /\ should_stop \in BOOLEAN
        BY <1>0, <1>1, Zenon DEF Type, TypeOK
      <4> QED
        BY <3>2, <4>1
    <3> QED
      BY <3>1, <3>2
  <2>2. CASE c = "b"
    <3>1. CallType("fd_in")
      BY <1>0, <1>1, <2>2, CallFacts DEF Type, Descriptors
    <3> QED
      BY <1>1, <2>1, <3>1, UseKeepsFds DEF Type, Uses, Descriptors
  <2>3. CASE c # "b"
    <3>1. CallType("fd_in")
      BY <1>0, <1>1, <2>3 DEF Type, CallType, TypeOK
    <3> QED
      BY <1>1, <2>1, <3>1, UseKeepsFds DEF Type, Uses, Descriptors
  <2> QED
    BY <2>2, <2>3
<1>2. CASE Reject \/ \E a \in Rotations : Answer(a)
  <2>1. main = "prompt" /\ UNCHANGED <<camera, should_stop, fd, raced, misuse, faults>>
    BY <1>2 DEF Reject, Answer
  <2>2. should_stop => raced
    BY <1>0, <2>1 DEF MainInv
  <2>3. main' \notin {"start", "done"}
    BY <1>2 DEF Reject, Answer, After
  <2>4. MainInv'
    BY <2>1, <2>2, <2>3 DEF MainInv
  <2>5. FdInv' /\ NoStaleDescriptor'
    BY <1>0, <2>1 DEF FdInv, NoStaleDescriptor
  <2> QED
    BY <2>4, <2>5 DEF FdsInv
<1>3. CASE Signal
  <2>1. UNCHANGED <<camera, fd, misuse, faults>> /\ should_stop' /\ raced' = (raced \/ Blind)
    BY <1>3 DEF Signal
  <2>2. raced => raced'
    BY <2>1, Zenon
  <2>3. MainInv'
    <3>1. /\ main' # "start" /\ (main' = "done" => main = "done")
          /\ (~Blind => main' \in {"loop", "join", "done", "killed"})
      BY <1>0, <1>3 DEF Blind, Signal, Interrupted, TypeOK, Reading
    <3>2. main' = "done" => camera' = "ended"
      BY <1>0, <2>1, <3>1 DEF MainInv
    <3>3. ~raced' => ~Blind
      BY <2>1, Zenon
    <3> QED
      BY <3>1, <3>2, <3>3 DEF MainInv
  <2>4. NoStaleDescriptor'
    BY <1>0, <2>1, <2>2 DEF NoStaleDescriptor
  <2>5. FdInv'
    BY <1>0, <2>1 DEF FdInv
  <2> QED
    BY <2>3, <2>4, <2>5 DEF FdsInv
<1> QED
  BY <1>1, <1>2, <1>3 DEF User

LEMMA FdsStep == FdsInv /\ [Next]_vars => FdsInv'
<1>1. FdsInv /\ [Next]_vars => TypeOK'
  BY TypeStep DEF FdsInv
<1>2. FdsInv /\ UNCHANGED vars => FdsInv'
  <2> SUFFICES ASSUME FdsInv, UNCHANGED vars PROVE FdsInv'
    OBVIOUS
  <2>1. TypeOK'
    BY <1>1
  <2>2. MainInv'
    BY DEF FdsInv, vars, MainInv
  <2>3. FdInv' /\ NoStaleDescriptor'
    BY DEF FdsInv, vars, FdInv, NoStaleDescriptor
  <2> QED
    BY <2>1, <2>2, <2>3 DEF FdsInv
<1> QED
  BY <1>1, <1>2, CameraFds, MainFds, OutsideFds DEF Next, Ended

LEMMA FdsInit == Init => FdsInv
<1> SUFFICES ASSUME Init PROVE FdsInv
  OBVIOUS
<1>1. FdInv
  BY DEF Init, FdInv, Closing
<1>2. NoStaleDescriptor
  BY DEF Init, NoStaleDescriptor
<1> QED
  BY <1>1, <1>2, TypeInit DEF Init, FdsInv, MainInv

(***************************************************************************)
(* No descriptor is used after it was closed, as long as no signal comes   *)
(* where main does not look at should_stop and no call fails (the two      *)
(* threads and signal_handler of v4l2_preview_test).                       *)
(***************************************************************************)
THEOREM DescriptorsAreFresh == Spec => []NoStaleDescriptor
<1>1. FdsInv => NoStaleDescriptor
  BY DEF FdsInv
<1> QED
  BY <1>1, FdsInit, FdsStep, PTL DEF Spec

-----------------------------------------------------------------------------
(***************************************************************************)
(* The preview, whenever the commands come.                                *)
(***************************************************************************)
LEMMA WaitStep ==
  ASSUME FdsInv, WaitInv, Next
  PROVE  WaitInv'
<1> USE DEF history, kernel, asked, GotoMain, GotoCamera, Resetting
<1>0. MainInv
  BY DEF FdsInv
<1>1. CASE Camera
  <2>1. UNCHANGED chosen /\ (camera' \in Resetting => camera \in Resetting)
    BY <1>1 DEF Camera, CheckDevice, GetInfo, SetOutput, ResetSettings, FindOverlay, StartOverlay,
                StopOverlay, CloseAll, CloseFd, Exit
  <2> QED
    BY <2>1 DEF WaitInv
<1>2. CASE Start
  BY <1>0, <1>2 DEF Start, MainInv, WaitInv
<1>3. CASE Rotate
  BY <1>3 DEF Rotate, WaitInv
<1>4. CASE Main /\ ~Start /\ ~Rotate
  <2>1. UNCHANGED <<camera, chosen>>
    BY <1>4 DEF Main, Loop, ShowMenu, GetLimits, OverlayOff, Crop, PrepareAlpha, OverlayOn, FillAlpha, SetControl, Join
  <2> QED
    BY <2>1 DEF WaitInv
<1>5. CASE User \/ Signal \/ UNCHANGED vars
  <2>1. UNCHANGED <<camera, chosen>>
    BY <1>5 DEF User, Type, Answer, Reject, Signal, vars
  <2> QED
    BY <2>1 DEF WaitInv
<1> QED
  BY <1>1, <1>2, <1>3, <1>4, <1>5 DEF Next, Ended, Main

(* What has not failed has not failed before.                              *)
LEMMA FailedBefore ==
  ASSUME TypeOK, TypeOK', Next
  PROVE  NothingFailed' => NothingFailed
<1> USE DEF history, kernel, asked
<1>1. ASSUME NEW f \in Descriptors, CallType(f) PROVE NothingFailed' => NothingFailed
  BY <1>1, PreviewAssumption DEF CallType, NothingFailed, TypeOK
<1>2. ASSUME NEW f \in Descriptors, NEW ok \in BOOLEAN, Call(f, ok) PROVE NothingFailed' => NothingFailed
  BY <1>1, <1>2, CallFacts
<1>3. ASSUME NEW ok \in BOOLEAN, Fault(ok), UNCHANGED misuse PROVE NothingFailed' => NothingFailed
  BY <1>3, FaultFacts, PreviewAssumption DEF NothingFailed, TypeOK
<1>4. ASSUME UNCHANGED <<misuse, faults>> PROVE NothingFailed' => NothingFailed
  BY <1>4 DEF NothingFailed
<1>5. CASE Camera
  <2>1. ASSUME NEW l, NEW f, NEW n, CloseFd(l, f, n) PROVE NothingFailed' => NothingFailed
    BY <2>1 DEF CloseFd, NothingFailed
  <2>2. CASE CheckDevice \/ CloseAll
    BY <1>4, <2>1, <2>2 DEF CheckDevice, CloseAll
  <2>3. CASE GetInfo \/ FindOverlay
    BY <1>3, <2>3 DEF GetInfo, FindOverlay
  <2>4. CASE SetOutput \/ ResetSettings \/ StartOverlay \/ StopOverlay
    BY <1>2, <2>4 DEF SetOutput, ResetSettings, StartOverlay, StopOverlay, overlay_control, Descriptors
  <2> QED
    BY <1>5, <2>2, <2>3, <2>4 DEF Camera
<1>6. CASE Main
  <2>1. CASE Start
    BY <1>3, <2>1 DEF Start
  <2>2. CASE Loop \/ ShowMenu \/ Join
    BY <1>4, <2>2 DEF Loop, ShowMenu, Join
  <2>3. CASE GetLimits \/ OverlayOff \/ OverlayOn \/ SetControl
    BY <1>2, <2>3 DEF GetLimits, OverlayOff, OverlayOn, SetControl, overlay_control, Descriptors
  <2>4. CASE Crop \/ PrepareAlpha \/ FillAlpha
    BY <1>2, <2>4 DEF Crop, PrepareAlpha, FillAlpha, Descriptors
  <2>5. CASE Rotate
    BY <1>2, <2>5 DEF Rotate, Descriptors
  <2> QED
    BY <1>6, <2>1, <2>2, <2>3, <2>4, <2>5 DEF Main
<1>7. CASE User \/ Signal
  <2>1. CASE \E c \in Commands : Type(c)
    BY <1>2, <1>4, <2>1 DEF Type, Descriptors
  <2> QED
    BY <1>4, <1>7, <2>1 DEF User, Answer, Reject, Signal
<1>8. CASE UNCHANGED vars
  BY <1>4, <1>8 DEF vars
<1> QED
  BY <1>5, <1>6, <1>7, <1>8 DEF Next, Ended

OverlayGood == camera = "streaming" /\ main \notin {"change", "on"} => dev.overlay
RotationGood == camera \in {"find", "start", "streaming"} => dev.rotate = chosen
OffGood == ~raced /\ camera \in Closing \cup {"ended"} /\ fd["fd_out"] # "unset" => ~dev.overlay

LEMMA PreviewParts == PreviewInv <=> (NothingFailed => OverlayGood /\ RotationGood /\ OffGood)
  BY Zenon DEF PreviewInv, OverlayGood, RotationGood, OffGood

(* A step that leaves the camera's settings alone.                         *)
LEMMA PreviewKept ==
  ASSUME OverlayGood /\ RotationGood /\ OffGood, UNCHANGED <<camera, dev, chosen>>,
         fd'["fd_out"] = fd["fd_out"], raced => raced',
         main \in {"change", "on"} => main' \in {"change", "on"}
  PROVE  (OverlayGood /\ RotationGood /\ OffGood)'
<1>1. dev' = dev /\ camera' = camera /\ chosen' = chosen
  OBVIOUS
<1>2. OverlayGood'
  BY <1>1 DEF OverlayGood
<1>3. RotationGood'
  BY <1>1 DEF RotationGood
<1>4. OffGood'
  <2>1. ~raced' => ~raced
    BY Zenon
  <2> QED
    BY <1>1, <2>1 DEF OffGood
<1> QED
  BY <1>2, <1>3, <1>4

LEMMA PreviewStep ==
  ASSUME FdsInv, WaitInv, TypeOK', Next, NothingFailed',
         OverlayGood /\ RotationGood /\ OffGood
  PROVE  (OverlayGood /\ RotationGood /\ OffGood)'
<1> USE DEF history, kernel, asked, GotoMain, GotoCamera
<1>0. TypeOK /\ MainInv /\ FdInv /\ "fd_in" \in Descriptors /\ "fd_out" \in Descriptors
      /\ "fb_fg" \in Descriptors
  BY DEF FdsInv, Descriptors
<1>1. CASE CheckDevice \/ GetInfo \/ SetOutput
  <2>1. camera' \in {"info", "output", "reset"} \/ (camera' = "ended" /\ fd'["fd_out"] = "unset")
    BY <1>0, <1>1 DEF CheckDevice, GetInfo, SetOutput, Exit, FdInv
  <2> QED
    BY <2>1 DEF OverlayGood, RotationGood, OffGood, Closing
<1>2. CASE ResetSettings
  <2>1. PICK ok \in BOOLEAN :
           Call("fd_in", ok) /\ dev' = IF ok THEN [dev EXCEPT !.rotate = 0] ELSE dev
    BY <1>2 DEF ResetSettings
  <2>2. ok
    BY <1>0, <2>1, CallFacts
  <2>3. dev'.rotate = 0 /\ chosen' = 0 /\ camera' = "find"
    BY <1>0, <1>2, <2>1, <2>2 DEF ResetSettings, WaitInv, Resetting, TypeOK
  <2> QED
    BY <2>3 DEF OverlayGood, RotationGood, OffGood, Closing
<1>3. CASE FindOverlay
  BY <1>3 DEF FindOverlay, OverlayGood, RotationGood, OffGood, Closing
<1>4. CASE StartOverlay
  <2>1. dev'.rotate = dev.rotate /\ dev'.overlay
    BY <1>0, <1>4, OverlayFacts DEF StartOverlay
  <2>2. camera = "start" /\ camera' = "streaming" /\ chosen' = chosen
    BY <1>4 DEF StartOverlay
  <2> QED
    BY <2>1, <2>2 DEF OverlayGood, RotationGood, OffGood, Closing
<1>5. CASE StopOverlay
  <2>1. ~dev'.overlay
    BY <1>0, <1>5, OverlayFacts DEF StopOverlay
  <2>2. camera' = "close_in"
    BY <1>5 DEF StopOverlay
  <2> QED
    BY <2>1, <2>2 DEF OverlayGood, RotationGood, OffGood
<1>6. CASE CloseAll
  <2>1. /\ camera \in Closing /\ camera' \in Closing \cup {"ended"} /\ raced' = raced /\ dev' = dev
    BY <1>6 DEF CloseAll, CloseFd, Closing
  <2>2. fd'["fd_out"] = "unset" <=> fd["fd_out"] = "unset"
    <3>1. ASSUME NEW f \in Descriptors, NEW l, NEW n, CloseFd(l, f, n)
          PROVE  fd'["fd_out"] = "unset" <=> fd["fd_out"] = "unset"
      BY <1>0, <3>1, CloseFacts DEF CloseFd
    <3> QED
      BY <1>0, <1>6, <3>1 DEF CloseAll
  <2> QED
    BY <2>1, <2>2 DEF OverlayGood, RotationGood, OffGood, Closing
<1>7. CASE Start
  <2>1. camera' \in {"none", "check"}
    BY <1>0, <1>7 DEF Start, MainInv
  <2> QED
    BY <2>1 DEF OverlayGood, RotationGood, OffGood, Closing
<1>8. CASE Loop \/ ShowMenu \/ Join \/ GetLimits \/ SetControl
  <2>1. /\ UNCHANGED <<camera, dev, chosen, fd, raced>> /\ main \notin {"change", "on"}
    BY <1>8 DEF Loop, ShowMenu, Join, GetLimits, SetControl
  <2> QED
    BY <2>1, PreviewKept
<1>9. CASE OverlayOff
  <2>1. PICK ok \in BOOLEAN :
          overlay_control(FALSE, ok) /\ GotoMain(IF ok \/ cmd = "l" THEN "change" ELSE "loop")
    BY <1>9 DEF OverlayOff
  <2>2. ok /\ ~dev'.overlay /\ dev'.rotate = dev.rotate
    BY <1>0, <2>1, OverlayFacts
  <2>3. main' = "change" /\ UNCHANGED <<camera, chosen>>
    BY <1>9, <2>1, <2>2 DEF OverlayOff
  <2> QED
    BY <2>2, <2>3 DEF OverlayGood, RotationGood, OffGood
<1>10. CASE Rotate
  <2>1. /\ dev'.overlay = dev.overlay
        /\ camera \notin Resetting /\ dev.rotate = chosen => dev'.rotate = chosen'
        /\ UNCHANGED <<camera, fd, raced>>
    BY <1>0, <1>10 DEF Rotate, TypeOK
  <2>2. main' = "on"
    BY <1>0, <1>10, CallFacts DEF Rotate
  <2>3. OverlayGood'
    BY <2>2 DEF OverlayGood
  <2>4. RotationGood'
    BY <2>1 DEF RotationGood, Resetting
  <2>5. OffGood'
    BY <2>1 DEF OffGood
  <2> QED
    BY <2>3, <2>4, <2>5
<1>11. CASE Crop
  <2>1. main' = "on" /\ UNCHANGED <<camera, dev, chosen, fd, raced>>
    BY <1>0, <1>11, CallFacts DEF Crop
  <2> QED
    BY <2>1, PreviewKept
<1>12. CASE PrepareAlpha \/ FillAlpha
  <2>1. PICK ok \in BOOLEAN : Call("fb_fg", ok) /\ (IF ok THEN UNCHANGED fd ELSE close("fb_fg"))
    BY <1>12 DEF PrepareAlpha, FillAlpha
  <2>2. ok
    BY <1>0, <2>1, CallFacts
  <2>3. /\ UNCHANGED <<camera, dev, chosen, fd, raced>>
        /\ main \in {"change", "on"} => main' \in {"change", "on"}
    <3>1. PrepareAlpha => main' = "on"
      BY <1>0, CallFacts DEF PrepareAlpha
    <3> QED
      BY <1>12, <2>1, <2>2, <3>1 DEF PrepareAlpha, FillAlpha
  <2> QED
    BY <2>3, PreviewKept
<1>13. CASE OverlayOn
  <2>1. dev'.rotate = dev.rotate /\ dev'.overlay
    BY <1>0, <1>13, OverlayFacts DEF OverlayOn
  <2>2. UNCHANGED <<camera, chosen, fd, raced, should_stop>> /\ main = "on"
    BY <1>13 DEF OverlayOn
  <2>3. should_stop => raced
    BY <1>0, <2>2 DEF MainInv
  <2>4. ~(~raced /\ camera \in Closing \cup {"ended"} /\ fd["fd_out"] # "unset")
    BY <1>0, <2>3 DEF FdInv
  <2> QED
    BY <2>1, <2>2, <2>4 DEF OverlayGood, RotationGood, OffGood
<1>14. CASE User
  <2>1. UNCHANGED <<camera, dev, chosen, fd, raced>> /\ main \notin {"change", "on"}
    BY <1>14 DEF User, Type, Answer, Reject
  <2> QED
    BY <2>1, PreviewKept
<1>15. CASE Signal
  <2>1. UNCHANGED <<camera, dev, chosen, fd>> /\ raced' = (raced \/ Blind)
    BY <1>15 DEF Signal
  <2>2. main \in {"change", "on"} => main' = main
    BY <1>15 DEF Signal, Interrupted
  <2>3. raced => raced'
    BY <2>1, Zenon
  <2> QED
    BY <2>1, <2>2, <2>3, PreviewKept
<1>16. CASE UNCHANGED vars
  <2>1. UNCHANGED <<camera, dev, chosen, fd, raced, main>>
    BY <1>16 DEF vars
  <2> QED
    BY <2>1, PreviewKept
<1> QED
  BY <1>1, <1>2, <1>3, <1>4, <1>5, <1>6, <1>7, <1>8, <1>9, <1>10, <1>11, <1>12, <1>13, <1>14, <1>15, <1>16
     DEF Next, Camera, Main, Ended

Inv == FdsInv /\ WaitInv /\ PreviewInv

LEMMA InvInit == Init => Inv
<1> SUFFICES ASSUME Init PROVE Inv
  OBVIOUS
<1>1. WaitInv
  BY DEF Init, WaitInv
<1>2. OverlayGood /\ RotationGood /\ OffGood
  BY DEF Init, OverlayGood, RotationGood, OffGood, Closing
<1> QED
  BY <1>1, <1>2, FdsInit, PreviewParts DEF Inv

LEMMA InvStep == Inv /\ [Next]_vars => Inv'
<1> SUFFICES ASSUME Inv, [Next]_vars PROVE Inv'
  OBVIOUS
<1>0. FdsInv /\ WaitInv /\ PreviewInv /\ FdsInv' /\ TypeOK /\ TypeOK'
  BY FdsStep DEF Inv, FdsInv
<1>1. CASE Next
  <2>1. WaitInv'
    BY <1>0, <1>1, WaitStep
  <2>2. NothingFailed' => (OverlayGood /\ RotationGood /\ OffGood)'
    BY <1>0, <1>1, PreviewStep, PreviewParts, FailedBefore
  <2>3. PreviewInv'
    BY <2>2, Zenon DEF PreviewInv, OverlayGood, RotationGood, OffGood
  <2> QED
    BY <1>0, <2>1, <2>3 DEF Inv
<1>2. CASE UNCHANGED vars
  <2>1. WaitInv'
    BY <1>0, <1>2 DEF vars, WaitInv
  <2>2. PreviewInv'
    BY <1>0, <1>2 DEF vars, PreviewInv, NothingFailed
  <2> QED
    BY <1>0, <2>1, <2>2 DEF Inv
<1> QED
  BY <1>1, <1>2

(***************************************************************************)
(* As long as no call fails, whatever the user types and whenever: the     *)
(* preview comes back after every command, turned the way chosen last      *)
(* after the reset, and it is off at the end unless SIGINT came where main *)
(* does not look at should_stop before it starts the preview again         *)
(* (v4l2_rotate, v4l2_area_zoom, v4l2_local_alpha_set,                     *)
(* v4l2_camera_thread).                                                    *)
(***************************************************************************)
THEOREM PreviewIsRestored == Spec => []PreviewComesBack
<1>1. Inv /\ [Next]_vars => Inv'
  BY InvStep
<1>2. Inv => PreviewComesBack
  <2> SUFFICES ASSUME Inv, NothingFailed PROVE PreviewIsOn /\ RotationIsTheUsers /\ PreviewIsOff
    BY DEF PreviewComesBack
  <2>1. OverlayGood /\ RotationGood /\ OffGood
    BY PreviewParts DEF Inv
  <2>2. main = "done" => camera = "ended"
    BY DEF Inv, FdsInv, MainInv
  <2> QED
    BY <2>1, <2>2 DEF PreviewIsOn, RotationIsTheUsers, PreviewIsOff, OverlayGood, RotationGood, OffGood
<1> QED
  BY <1>1, <1>2, InvInit, PTL DEF Spec
=============================================================================
