---------------------------- MODULE MCModelCalls ----------------------------
(* Small instances of ModelCalls for TLC.                                  *)
EXTENDS ModelCalls

CONSTANTS plain, stream1, stream2
=============================================================================
