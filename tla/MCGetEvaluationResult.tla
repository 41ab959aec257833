------------------------- MODULE MCGetEvaluationResult -------------------------
(* Three segments of up to two overrides, of one feature of the environment *)
(* and of one that is gone from it.                                         *)
EXTENDS GetEvaluationResult

ThreeKeys == 1..3

===============================================================================
