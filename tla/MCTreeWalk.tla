----------------------------- MODULE MCTreeWalk -----------------------------
(* Model checking of TreeWalkMemory: variable names are interchangeable.    *)
EXTENDS TreeWalkMemory, TLC

VarSymmetry == Permutations(Vars)

(* Files are followed with one object that two names in two scopes alias,   *)
(* sessions with two objects, one name and the global scope.                *)
Instance ==
    IF repl
    THEN /\ Len(scopes) = 1
         /\ Cardinality({x \in Vars : scopes[1][x] # Undefined}) <= 1
    ELSE nextId <= 2
=============================================================================
