------------------------- MODULE MCBootStateMachine -------------------------
(* Instances of BootStateMachine for TLC; the configurations set them up.  *)
EXTENDS BootStateMachine
=============================================================================
