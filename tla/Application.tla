----------------------------- MODULE Application -----------------------------
(* The Qt application object, as far as the features of the pilot share it  *)
(* when it quits: a Quit event stops what can defer the closing of windows, *)
(* the event loop is left, aboutToQuit joins threads, and the process ends. *)

VARIABLE app    \* "running", "quitting", "left", "gone"

AppStates == {"running", "quitting", "left", "gone"}
AppInit == app = "running"
=============================================================================
