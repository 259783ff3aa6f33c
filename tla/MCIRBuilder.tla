----------------------------- MODULE MCIRBuilder -----------------------------
(* One parameter and one more name for model checking.                      *)
EXTENDS IRPasses

OneParam == <<"x">>

Control == AllForms \ {"nothing", "block", "unary", "binary", "call", "literal"}

Straight == AllForms \ {"while", "nothing", "unary"}

\* All forms; more of those that branch; calls of more arguments.
EveryControlStraight ==
    {[forms |-> AllForms, nodes |-> 3, args |-> 1],
     [forms |-> Control, nodes |-> 4, args |-> 1],
     [forms |-> Straight, nodes |-> 3, args |-> 2]}
=============================================================================
