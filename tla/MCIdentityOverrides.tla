-------------------------- MODULE MCIdentityOverrides --------------------------
(* Identities that share overrides or not, two values that are written      *)
(* alike, and one that reads like the end of an override and the beginning  *)
(* of the next; identifiers with and without commas, and such as are JSON.  *)
EXTENDS IdentityOverrides, TLC

Plain == {<<"ann">>, <<"bob">>, <<"cy">>}

WithComma == {<<"ann">>, <<"bob">>, <<"ann", "bob">>}

Arrays == (<<"null">> :> {}) @@ (<<"[]">> :> {}) @@ (<<"[\"ann\"]">> :> {<<"ann">>})

Starts == {"null", "[]", "[\"ann\"]"}

\* The text "7;2:true:7".
Continued == [text |-> "7", rest |-> <<[name |-> 2, enabled |-> TRUE, text |-> "7"]>>]

SomeTexts ==
  ("number 7" :> [text |-> "7", rest |-> <<>>]) @@ ("text 7" :> [text |-> "7", rest |-> <<>>])
  @@ ("empty" :> [text |-> "", rest |-> <<>>]) @@ ("continued" :> Continued)

State(f, e, v) == [feature |-> f, enabled |-> e, value |-> v]

SomeStates == {State(1, TRUE, "number 7"), State(1, TRUE, "continued"), State(1, FALSE, "text 7"),
               State(2, TRUE, "number 7"), State(2, TRUE, "text 7"), State(2, TRUE, "empty")}

OneState == {State(1, TRUE, "number 7")}

===============================================================================
