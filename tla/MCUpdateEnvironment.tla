-------------------------- MODULE MCUpdateEnvironment --------------------------
(* Three interchangeable callers, three versions of one, two and two pages.  *)
EXTENDS UpdateEnvironment, TLC

Pages == <<1, 2, 2>>

CallerSymmetry == Permutations(Callers)

===============================================================================
