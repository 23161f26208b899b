---------------------------- MODULE MCEventAnswers ----------------------------
(* EventAnswers for TLC.                                                   *)
EXTENDS EventAnswers
=============================================================================
