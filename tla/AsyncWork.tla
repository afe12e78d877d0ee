------------------------------ MODULE AsyncWork ------------------------------
(***************************************************************************)
(* What Planck promises a script about asynchronous work, abstractly       *)
(* (doc/scripts.md, "Script Termination Delay"): the process stays while   *)
(* work is pending and stops once none is.  Work is the main script and    *)
(* every timer and asynchronous shell interaction it leads to: only work   *)
(* that is itself pending can begin more work, so an empty set of pending  *)
(* work is final.  A script may also stop the process by calling exit.     *)
(*                                                                         *)
(* Tasks (the counter and condition variable of tasks.c) and EventLoop     *)
(* (the timers, shell threads and main function around it) are shown to    *)
(* implement this specification.                                           *)
(***************************************************************************)
CONSTANTS Work,    (* everything that can be pending                       *)
          Script   (* the work that is pending when the process starts     *)

VARIABLES pending,   (* the work begun and not yet over                    *)
          state      (* the process: "running", "finished" or "killed"     *)

workVars == <<pending, state>>

Init == /\ pending = {Script}
        /\ state = "running"

(* Pending work begins another piece of work. *)
Begin(w) == /\ state = "running"
            /\ pending # {}
            /\ w \notin pending
            /\ pending' = pending \cup {w}
            /\ UNCHANGED state

(* A piece of work is over: its callback has returned, or it was cleared. *)
End(w) == /\ state = "running"
          /\ w \in pending
          /\ pending' = pending \ {w}
          /\ UNCHANGED state

(* Nothing is pending any more: the process goes on to its end. *)
Finish == /\ state = "running"
          /\ pending = {}
          /\ state' = "finished"
          /\ UNCHANGED pending

(* Pending work calls exit: the process stops at once. *)
Kill == /\ state = "running"
        /\ pending # {}
        /\ state' = "killed"
        /\ UNCHANGED pending

Next == \/ \E w \in Work : Begin(w) \/ End(w)
        \/ Finish
        \/ Kill

Safety == Init /\ [][Next]_workVars

(* Once nothing is pending the process does stop; how long work stays      *)
(* pending is up to the script.                                            *)
Promise == Safety /\ WF_workVars(Finish)
=============================================================================
