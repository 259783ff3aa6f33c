-------------------------- MODULE MCTreeWalkControl --------------------------
(* Model checking of TreeWalkControl: what its configurations instantiate. *)
EXTENDS TreeWalkControl, TLC

\* Five scopes; seven, so that calls reach their limit, when one function is
\* called in a file.
Instance ==
    Len(parent) > 5 => ~repl /\ Len(fns) = 1
                       /\ \A k \in DOMAIN handlers : handlers[k].kind \in {"block", "call"}
=============================================================================
