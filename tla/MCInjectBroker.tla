--------------------------- MODULE MCInjectBroker ---------------------------
(* Model values for InjectBroker. *)
EXTENDS InjectBroker

CONSTANTS j1, j2, c1, c2

TwoJobs == {j1, j2}
TwoConns == {c1, c2}
=============================================================================
