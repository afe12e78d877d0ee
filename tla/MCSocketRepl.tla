----------------------------- MODULE MCSocketRepl -----------------------------
(* Model-checking instances of SocketRepl: see the MCSocketRepl*.cfg files. *)
EXTENDS SocketRepl
=============================================================================
