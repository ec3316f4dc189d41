-------------------------- MODULE MCProcessMonitor --------------------------
(* Instances of ProcessMonitor for TLC: the configurations choose the      *)
(* number of entries and which of them are special.                        *)
EXTENDS ProcessMonitor

\* Entry 1 is exempt from signals, 2 an ordinary host process, 3 the VMM and
\* 4 secure_env; in the small instance 1 is ordinary and 2 the VMM.
NoEntry  == {}
First    == {1}
Second   == {2}
Third    == {3}
=============================================================================
