-------------------------- MODULE MCConstantFolding --------------------------
(* Literals and call results for model checking. *)
EXTENDS ConstantFolding

SomeStrings == {<<"n">>, <<"backslash">>}

SomeReturned == {IntValue(1), BoolValue(FALSE)}
=============================================================================
