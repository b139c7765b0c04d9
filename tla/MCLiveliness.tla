---------------------------- MODULE MCLiveliness ----------------------------
(* The timeouts are scaled down in the .cfg file; MaxDelay is the longest   *)
(* that AnswerInTime allows, so that an answer in the last second happens.  *)
EXTENDS Liveliness
=============================================================================
