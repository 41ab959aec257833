----------------------------- MODULE MCEngineEdits -----------------------------
(* Texts for every rung of the ladder: integers that are booleans too, an   *)
(* integer that sorts before a smaller one as a string, floats, one of them *)
(* between two booleans, NaN, words, versions, and two integers that are    *)
(* one float.  Weights and buckets such that some ends of variants fall on  *)
(* a bucket and some between two; a UUID on either side of the priority of  *)
(* none.  Five edits of the rules: enough for a rule of each type above one *)
(* of each type with two conditions, for two exclusions above one another   *)
(* and below a third, and for rules beside one another.                     *)
EXTENDS EngineEdits, TLC

\* In the order of strings, the capital before the small letters.
Ordered == <<"-1", "0", "0.5", "1", "1.0.0", "1.2.0", "1.2.0:semver", "10", "2.5", "2|0", "2|1",
             "3", "90071992547409920", "90071992547409921", "NaN", "true", "x:semver">>

SomeTexts == {Ordered[i] : i \in DOMAIN Ordered}

SomeRank == [t \in SomeTexts |-> CHOOSE i \in DOMAIN Ordered : Ordered[i] = t]

Typed == {[type |-> "bool", text |-> "true"], [type |-> "float64", text |-> "1"],
          [type |-> "int", text |-> "10"]}

SomeValues == {[type |-> "string", text |-> t] : t \in SomeTexts} \cup Typed

SomeFound == {Unset, Object, [type |-> "string", text |-> "2.5"]}

AsText == [v \in SomeValues |-> v.text]

Bools == ("0" :> FALSE) @@ ("1" :> TRUE) @@ ("true" :> TRUE)

\* 10 * 2^53 and its successor, which a float64 cannot tell apart, as 20 and 21.
Ints == ("-1" :> -1) @@ ("0" :> 0) @@ ("1" :> 1) @@ ("3" :> 3) @@ ("10" :> 10)
        @@ ("90071992547409920" :> 20) @@ ("90071992547409921" :> 21)

Floats == ("-1" :> -10) @@ ("0" :> 0) @@ ("0.5" :> 5) @@ ("1" :> 10) @@ ("2.5" :> 25)
          @@ ("3" :> 30) @@ ("10" :> 100) @@ ("90071992547409920" :> 200) @@ ("90071992547409921" :> 200)
          @@ ("NaN" :> NaN)

Versions == ("1.0.0" :> 1) @@ ("1.2.0" :> 2)

Suffixed == ("1.2.0:semver" :> "1.2.0") @@ ("x:semver" :> "x")

Modulos == ("2|0" :> <<20, 0>>) @@ ("2|1" :> <<20, 10>>)

Substrings == {<<"1.2.0", "2">>, <<"10", "1">>, <<"10", "0">>} \cup {<<t, t>> : t \in SomeTexts}

Hash == [t \in SomeTexts |-> (SomeRank[t] * 3) % 20]

SomeWeights == {0, 30, 50}

\* Conditions of rules are told apart only by the contexts that they match.
Alike == Permutations(Atoms)

===============================================================================
