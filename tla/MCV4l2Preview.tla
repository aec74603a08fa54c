--------------------------- MODULE MCV4l2Preview ---------------------------
(* Instances of V4l2Preview.                                               *)
EXTENDS V4l2Preview

\* not turned, and turned by a half
Half == {0, 3}

(* What one might expect of SIGINT, and the code does not give: the        *)
(* preview is always off when the program has ended.                       *)
NeverLeftOn == (main = "done" /\ fd.fd_out # "unset") => ~dev.overlay
=============================================================================
