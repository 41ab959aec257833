------------------------------- MODULE MCBackoff -------------------------------
(* backoff.go's own constants, and a few values of its jitter.               *)
EXTENDS Backoff

SomeJitters == {0, 1, 250, 500, 998, 999}

===============================================================================
