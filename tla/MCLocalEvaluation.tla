--------------------------- MODULE MCLocalEvaluation ---------------------------
(* Versions of one and of two pages, so that an edit can lengthen a document *)
(* between the pages of a fetch, and versions of one page for the run of all *)
(* the workers.                                                              *)
EXTENDS LocalEvaluation

OneThenTwo == <<1, 2>>

OneOne == <<1, 1>>

OneTwoTwo == <<1, 2, 2>>

===============================================================================
