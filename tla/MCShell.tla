------------------------------- MODULE MCShell -------------------------------
EXTENDS Shell, TLC

Exits(n) == [signaled |-> FALSE, code |-> n]

(* cat, and a command that complains and is killed *)
Cat == [launched |-> TRUE, reads |-> TRUE, says |-> <<>>, ends |-> Exits(0)]
Complain == [launched |-> TRUE, reads |-> FALSE, says |-> <<"stderr">>,
             ends |-> [signaled |-> TRUE, code |-> 9]]

MCCalls == {1, 2}
MCPrograms == {Cat, Complain}
MCInputs == {Nothing, 0, 2}
MCFds == 1 .. 11
MCFailures == {"fork", "poll"}
=============================================================================
