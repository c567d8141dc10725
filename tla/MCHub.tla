-------------------------------- MODULE MCHub --------------------------------
(* Instances of Hub for TLC.  The clients are not declared symmetric: the      *)
(* liveness properties speak of one client at a time.                         *)
EXTENDS Hub
=============================================================================
