---------------------------- MODULE V4l2Preview ----------------------------
(***************************************************************************)
(* v4l2_preview_test: the main thread reads commands of the user and       *)
(* changes the camera's settings, the camera thread starts the preview,    *)
(* waits for should_stop and stops it, and SIGINT sets should_stop at any  *)
(* moment.  The two threads share the descriptors in args, fb_fg_fd and    *)
(* the device, without a lock.  The wording of the menu, the sizes and the *)
(* values of the controls are left out; an action makes the calls that     *)
(* only log their failure together.                                        *)
(***************************************************************************)
EXTENDS Integers, FiniteSets

CONSTANTS
    Rotations,  \* the values the user rotates to
    MaxSignals, \* bound: SIGINTs
    MaxFaults   \* bound: calls of the kernel that fail

ASSUME PreviewAssumption ==
    /\ 0 \in Rotations /\ Rotations \subseteq 0 .. 7
    /\ MaxSignals \in Nat /\ MaxFaults \in Nat

VARIABLES
    main, camera,   \* where the two threads are
    should_stop,
    non_destructive,\* the option -x
    cmd, arg,       \* the command and its argument
    fd,             \* args.fd_in, args.fd_out, fb_fg_fd
    dev,            \* the camera: overlay on or off, rotation
    chosen,         \* history: the rotation the user should see, the last one
                    \* chosen after the camera thread has reset the settings
    misuse,         \* history: descriptors used when not open, and what they were
    raced,          \* history: a signal came where main does not look at it
    faults, signals

vars == <<main, camera, should_stop, non_destructive, cmd, arg, fd, dev,
          chosen, misuse, raced, faults, signals>>
history == <<chosen, raced>>
asked == <<cmd, arg, non_destructive>>
kernel == <<misuse, faults>>

Guarded == {"b", "a", "g", "l"}     \* scanf(...) != n || should_stop
Commands == Guarded \cup {"x", "r", "z", "c", "other"}
Reading == {"menu", "prompt"}       \* blocked in scanf
Resetting == {"none", "check", "info", "output", "reset"}
Starting == Resetting \cup {"find", "start"}
\* main goes on to use a descriptor without a look at should_stop
Blind == main \in {"about", "off", "limits", "change", "on", "fill", "control"}
            \/ (main = "prompt" /\ cmd \in {"r", "c"})

Init ==
    /\ main = "start" /\ camera = "none" /\ should_stop = FALSE
    /\ non_destructive \in BOOLEAN
    /\ cmd = "other" /\ arg = 0
    /\ fd = [fd_in |-> "unset", fd_out |-> "unset", fb_fg |-> "unset"]
    /\ dev \in [overlay : {FALSE}, rotate : Rotations]
    /\ chosen = 0 /\ misuse = {} /\ raced = FALSE
    /\ faults = 0 /\ signals = 0

-----------------------------------------------------------------------------
(***************************************************************************)
(* Calls of the kernel.  One on a descriptor that is not open fails, one   *)
(* on an open descriptor may.                                              *)
(***************************************************************************)
Fault(ok) == IF ok THEN UNCHANGED faults
             ELSE faults < MaxFaults /\ faults' = faults + 1
Call(f, ok) ==
    IF fd[f] = "open" THEN Fault(ok) /\ UNCHANGED misuse
    ELSE ~ok /\ misuse' = misuse \cup {<<f, fd[f]>>} /\ UNCHANGED faults

overlay_control(on, ok) ==
    /\ Call("fd_in", ok)
    /\ dev' = IF ok THEN [dev EXCEPT !.overlay = on] ELSE dev

close(f) == fd' = [fd EXCEPT ![f] = IF @ = "unset" THEN @ ELSE "closed"]

GotoMain(l) == main' = l /\ UNCHANGED <<camera, should_stop, asked>>
GotoCamera(l) == camera' = l /\ UNCHANGED <<main, should_stop, asked>>
Exit == main' = "killed" /\ UNCHANGED <<camera, should_stop, asked>>
Running == main \notin {"done", "killed"}

-----------------------------------------------------------------------------
(* The camera thread, v4l2_camera_thread.                                  *)

CheckDevice ==
    /\ camera = "check"
    /\ \E supported \in BOOLEAN : GotoCamera(IF supported THEN "info" ELSE "ended")
    /\ UNCHANGED <<fd, dev, history, kernel, signals>>

GetInfo ==
    /\ camera = "info"
    /\ \E ok \in BOOLEAN :
        /\ Fault(ok)
        /\ IF ok THEN GotoCamera("output") /\ fd' = [fd EXCEPT !.fd_out = "open"]
           ELSE Exit /\ UNCHANGED fd
    /\ UNCHANGED <<dev, history, misuse, signals>>

SetOutput ==
    /\ camera = "output"
    /\ \E ok \in BOOLEAN :
        Call("fd_in", ok) /\ (IF ok THEN GotoCamera("reset") ELSE Exit)
    /\ UNCHANGED <<fd, dev, history, signals>>

(* Cropping, rotation, capture mode and size: failures are ignored.        *)
ResetSettings ==
    /\ camera = "reset"
    /\ \E ok \in BOOLEAN :
        /\ Call("fd_in", ok)
        /\ dev' = IF ok THEN [dev EXCEPT !.rotate = 0] ELSE dev
    /\ GotoCamera("find")
    /\ UNCHANGED <<fd, history, signals>>

FindOverlay ==
    /\ camera = "find"
    /\ \E ok \in BOOLEAN :
        /\ Fault(ok)
        /\ fd' = IF ok THEN [fd EXCEPT !.fb_fg = "open"] ELSE fd
    /\ GotoCamera("start")
    /\ UNCHANGED <<dev, history, misuse, signals>>

StartOverlay ==
    /\ camera = "start" /\ GotoCamera("streaming")
    /\ \E ok \in BOOLEAN : overlay_control(TRUE, ok)
    /\ UNCHANGED <<fd, history, signals>>

(* while (should_stop != TRUE) sleep(1);                                   *)
StopOverlay_forgotten ==        \* mutant
    /\ camera = "streaming" /\ should_stop /\ GotoCamera("close_in")
    /\ UNCHANGED <<fd, dev, history, kernel, signals>>
StopOverlay ==
    /\ camera = "streaming" /\ should_stop /\ GotoCamera("close_in")
    /\ \E ok \in BOOLEAN : overlay_control(FALSE, ok)
    /\ UNCHANGED <<fd, history, signals>>

CloseFd(l, f, next) ==
    /\ camera = l /\ GotoCamera(next) /\ close(f)
    /\ misuse' = IF fd[f] = "open" THEN misuse ELSE misuse \cup {<<f, fd[f]>>}
    /\ UNCHANGED <<dev, history, faults, signals>>

CloseAll ==
    \/ CloseFd("close_in", "fd_in", "close_out")
    \/ CloseFd("close_out", "fd_out", "close_fg")
    \/ /\ fd.fb_fg # "unset" /\ CloseFd("close_fg", "fb_fg", "ended")
    \/ /\ camera = "close_fg" /\ fd.fb_fg = "unset" /\ GotoCamera("ended")
       /\ UNCHANGED <<fd, dev, history, kernel, signals>>

Camera == CheckDevice \/ GetInfo \/ SetOutput \/ ResetSettings \/ FindOverlay
            \/ StartOverlay \/ StopOverlay \/ CloseAll

-----------------------------------------------------------------------------
(* The main thread.                                                        *)

(* The options are read, the device is opened, the thread is created.      *)
Start ==
    /\ main = "start"
    /\ \E ok \in BOOLEAN :
        /\ Fault(ok)
        /\ IF ok THEN /\ main' = "loop" /\ camera' = "check"
                      /\ fd' = [fd EXCEPT !.fd_in = "open"]
           ELSE main' = "killed" /\ UNCHANGED <<camera, fd>>
    /\ UNCHANGED <<should_stop, asked, dev, history, misuse, signals>>

Loop ==
    /\ main = "loop" /\ GotoMain(IF should_stop THEN "join" ELSE "about")
    /\ UNCHANGED <<fd, dev, history, kernel, signals>>

(* The menu is printed and scanf entered.                                  *)
ShowMenu ==
    /\ main = "about" /\ GotoMain("menu")
    /\ UNCHANGED <<fd, dev, history, kernel, signals>>

(* The user types a command.  -x brings [g] and [l]; [b] and [s] read the  *)
(* present value before they ask for the new one.                          *)
Prompts(c) == c \in {"r", "b", "z", "a", "c"} \/ (c \in {"g", "l"} /\ non_destructive)
Type(c) ==
    /\ main = "menu"
    /\ cmd' = c /\ arg' = 0
    /\ main' = IF Prompts(c) THEN "prompt" ELSE "loop"
    /\ should_stop' = (should_stop \/ c = "x")
    /\ IF c = "b" THEN \E ok \in BOOLEAN : Call("fd_in", ok) ELSE UNCHANGED kernel
    /\ UNCHANGED <<camera, non_destructive, fd, dev, history, signals>>

(* The user answers: a is the rotation, or 0 for a rectangle within the    *)
(* sensor (zoom) or the picture (local alpha).                             *)
After(c) == CASE c \in {"r", "a", "l"} -> "off"
              [] c = "z" -> "limits"
              [] OTHER -> "control"
Answer(a) ==
    /\ main = "prompt"
    /\ arg' = a
    /\ main' = IF (cmd \in Guarded /\ should_stop) \/ (cmd = "l" /\ a # 0) THEN "loop"
               ELSE After(cmd)
    /\ UNCHANGED <<camera, should_stop, non_destructive, cmd, fd, dev, history,
                   kernel, signals>>
(* Not a number, or out of range; [r] and [c] take 0 for what is no number.*)
Reject_unchecked ==             \* mutant: without "if (rotate > 7)"
    /\ main = "prompt" /\ arg' = 8
    /\ main' = After(cmd)
    /\ UNCHANGED <<camera, should_stop, non_destructive, cmd, fd, dev, history,
                   kernel, signals>>
Reject ==
    /\ main = "prompt" /\ GotoMain("loop")
    /\ UNCHANGED <<fd, dev, history, kernel, signals>>

(* v4l2_zoom asks for the sensor's bounds before it calls v4l2_area_zoom.  *)
GetLimits ==
    /\ main = "limits"
    /\ \E ok \in BOOLEAN : Call("fd_in", ok) /\ GotoMain(IF ok THEN "off" ELSE "loop")
    /\ UNCHANGED <<fd, dev, history, signals>>

(* v4l2_rotate, v4l2_area_zoom and v4l2_local_alpha_set stop the overlay,  *)
(* make their change and start it again; the last ignores the results.     *)
OverlayOff ==
    /\ main = "off"
    /\ \E ok \in BOOLEAN :
        /\ overlay_control(FALSE, ok)
        /\ GotoMain(IF ok \/ cmd = "l" THEN "change" ELSE "loop")
    /\ UNCHANGED <<fd, history, signals>>

(* EINVAL, a value the driver does not know, is no reason to return.       *)
Rotate ==
    /\ main = "change" /\ cmd = "r"
    /\ \/ /\ Call("fd_in", TRUE) /\ GotoMain("on")
          /\ dev' = [dev EXCEPT !.rotate = arg]
          /\ chosen' = IF camera \in Resetting THEN 0 ELSE arg
       \/ /\ Call("fd_in", TRUE) /\ GotoMain("on") /\ UNCHANGED <<dev, chosen>>
       \/ /\ Call("fd_in", FALSE) /\ GotoMain("loop") /\ UNCHANGED <<dev, chosen>>
    /\ UNCHANGED <<fd, raced, signals>>

(* A rectangle outside of the bounds is explained and the overlay comes    *)
(* back; when the kernel refuses, v4l2_area_zoom returns without it.       *)
Crop ==
    /\ main = "change" /\ cmd \in {"z", "a"}
    /\ \E ok \in BOOLEAN : Call("fd_in", ok) /\ GotoMain(IF ok THEN "on" ELSE "loop")
    /\ UNCHANGED <<fd, dev, history, signals>>

(* Seven calls on fb_fg_fd; the first that fails closes it and returns.    *)
PrepareAlpha ==
    /\ main = "change" /\ cmd = "l"
    /\ \E ok \in BOOLEAN :
        /\ Call("fb_fg", ok)
        /\ GotoMain(IF ok THEN "on" ELSE "loop")
        /\ IF ok THEN UNCHANGED fd ELSE close("fb_fg")
    /\ UNCHANGED <<dev, history, signals>>

OverlayOn ==
    /\ main = "on"
    /\ \E ok \in BOOLEAN : overlay_control(TRUE, ok)
    /\ GotoMain(IF cmd = "l" THEN "fill" ELSE "loop")
    /\ UNCHANGED <<fd, history, signals>>

FillAlpha_closes ==             \* mutant: closes on success too
    /\ main = "fill" /\ GotoMain("loop")
    /\ \E ok \in BOOLEAN : Call("fb_fg", ok) /\ close("fb_fg")
    /\ UNCHANGED <<dev, history, signals>>
FillAlpha ==
    /\ main = "fill" /\ GotoMain("loop")
    /\ \E ok \in BOOLEAN :
        Call("fb_fg", ok) /\ (IF ok THEN UNCHANGED fd ELSE close("fb_fg"))
    /\ UNCHANGED <<dev, history, signals>>

(* Brightness, saturation, colour balance; global alpha on the framebuffer.*)
SetControl ==
    /\ main = "control" /\ GotoMain("loop")
    /\ \E ok \in BOOLEAN : Call(IF cmd = "g" THEN "fd_out" ELSE "fd_in", ok)
    /\ UNCHANGED <<fd, dev, history, signals>>

Join_not_waiting ==             \* mutant: goes back to the menu's loop
    /\ main = "join" /\ GotoMain("loop")
    /\ UNCHANGED <<fd, dev, history, kernel, signals>>
Join ==
    /\ main = "join" /\ camera = "ended" /\ GotoMain("done")
    /\ UNCHANGED <<fd, dev, history, kernel, signals>>

Main == Start \/ Loop \/ ShowMenu \/ GetLimits \/ OverlayOff \/ Rotate \/ Crop
            \/ PrepareAlpha \/ OverlayOn \/ FillAlpha \/ SetControl \/ Join

User == (\E c \in Commands : Type(c)) \/ (\E a \in Rotations : Answer(a)) \/ Reject

(***************************************************************************)
(* signal_handler, in the main thread, where the kernel delivers what is   *)
(* sent to the process.  SA_RESTART is not set: a blocked scanf returns.   *)
(* Of the commands only [r] goes on without a number, with rotate = 0, and *)
(* [c] with the value it has just read.                                    *)
(***************************************************************************)
Interrupted ==
    CASE main = "menu" -> {"loop"}
      [] main = "prompt" /\ cmd = "r" -> {"off"}
      [] main = "prompt" /\ cmd = "c" -> {"loop", "control"}
      [] main = "prompt" /\ cmd \notin {"r", "c"} -> {"loop"}
      [] OTHER -> {main}
Signal ==
    /\ Running /\ main # "start" /\ signals < MaxSignals
    /\ should_stop' = TRUE /\ signals' = signals + 1
    /\ main' \in Interrupted
    /\ cmd' = IF main = "menu" THEN "other" ELSE cmd
    /\ arg' = IF main \in Reading THEN 0 ELSE arg
    /\ raced' = (raced \/ Blind)
    /\ UNCHANGED <<camera, non_destructive, fd, dev, chosen, kernel>>

Ended == ~Running /\ UNCHANGED vars

Next == (Running /\ (Main \/ Camera)) \/ User \/ Signal \/ Ended
Spec == Init /\ [][Next]_vars
(* Both threads are scheduled; nobody makes the user type or send signals. *)
FairSpec == Spec /\ WF_vars(Running /\ Main) /\ WF_vars(Running /\ Camera)

-----------------------------------------------------------------------------
Descriptors == {"fd_in", "fd_out", "fb_fg"}

(* Types, and the threads are where they can be.                           *)
TypeOK ==
    /\ main \in {"start", "loop", "about", "join", "off", "limits", "change", "on",
                 "fill", "control", "done", "killed"} \cup Reading
    /\ camera \in Starting \cup {"streaming", "close_in", "close_out", "close_fg", "ended"}
    /\ should_stop \in BOOLEAN /\ non_destructive \in BOOLEAN
    /\ cmd \in Commands /\ arg \in Rotations
    /\ fd \in [Descriptors -> {"unset", "open", "closed"}]
    /\ dev \in [overlay : BOOLEAN, rotate : Rotations]
    /\ chosen \in Rotations /\ misuse \subseteq Descriptors \X {"unset", "closed"} /\ raced \in BOOLEAN
    /\ faults \in 0 .. MaxFaults /\ signals \in 0 .. MaxSignals

NothingFailed == faults = 0 /\ misuse = {}

(* Whatever the user asked for and whenever, also before the preview is    *)
(* there, also rectangles outside of the sensor and rotations the driver   *)
(* refuses: as long as no call fails, the preview runs when the menu is    *)
(* shown again (v4l2_rotate, v4l2_area_zoom and v4l2_local_alpha_set all   *)
(* stop it), turned the way the user chose last, where the camera thread's *)
(* "Reset rotation to ROTATE_NONE" undoes what was chosen before it.  When *)
(* the program has ended the preview is stopped, unless SIGINT came where  *)
(* main goes on to start it again without a look at should_stop (raced).   *)
(* When the format is not supported the camera thread leaves main with a   *)
(* menu whose [r] starts the overlay, and nobody to stop it.               *)
PreviewIsOn == (main = "menu" /\ camera = "streaming") => dev.overlay
RotationIsTheUsers == camera = "streaming" => dev.rotate = chosen
PreviewIsOff == (main = "done" /\ fd.fd_out # "unset") => (~dev.overlay \/ raced)
PreviewComesBack ==
    NothingFailed => PreviewIsOn /\ RotationIsTheUsers /\ PreviewIsOff

(* No descriptor is used or closed after it was closed, although main uses *)
(* what the camera thread opens and closes - unless SIGINT came where main *)
(* goes on without a look at should_stop (raced), or a call has failed.    *)
(* What is left is [x] and every SIGINT where main is about to look: then  *)
(* main makes no other call of the kernel while the camera thread closes.  *)
NoStaleDescriptor ==
    (\E f \in Descriptors : <<f, "closed">> \in misuse) => raced \/ faults > 0

(* Once should_stop is set, by [x] or a signal, both threads end, but for  *)
(* a main thread that was about to read: that needs one more input.        *)
StopEnds == should_stop ~> (~Running \/ (camera = "ended" /\ main \in Reading))
=============================================================================
