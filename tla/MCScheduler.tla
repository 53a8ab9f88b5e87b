---------------------------- MODULE MCScheduler ----------------------------
(***************************************************************************)
(* Small instances of Scheduler.  The clients are the Qt thread, which     *)
(* stops the scheduler and pushes workflows, and one task thread, which    *)
(* pushes completions; the third pusher is the loop thread itself.         *)
(***************************************************************************)
EXTENDS Scheduler

=============================================================================
