---------------------------- MODULE MCServerLoop ----------------------------
(* Instances of ServerLoop for TLC.  Two connections are enough to have one *)
(* client served, and aborted, while the other waits or is rebooting.      *)
EXTENDS ServerLoop

CONSTANTS c1, c2
TwoClients == {c1, c2}

AllRequests == ShortRequests \cup ExtendedRequests
=============================================================================
