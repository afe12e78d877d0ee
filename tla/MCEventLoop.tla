----------------------------- MODULE MCEventLoop -----------------------------
(* Model-checking instances of EventLoop: see the MCEventLoop*.cfg files. *)
EXTENDS EventLoop, TLC

(* The threads of a pool are interchangeable. *)
TimerSymmetry == Permutations(Timers)
=============================================================================
