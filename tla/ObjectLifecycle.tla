--------------------------- MODULE ObjectLifecycle ---------------------------
(***************************************************************************)
(* What the simulated heap promises of every object, whoever executes the  *)
(* program: identifiers are handed out once and in order, an object is     *)
(* live from its allocation to its one and only release, ownership is      *)
(* transferred at most once, and only while the object is live, and the    *)
(* contents of an object never change once it has been released.           *)
(*                                                                         *)
(* TreeWalkMemory implements this specification (its property Lifecycle).  *)
(***************************************************************************)
EXTENDS Integers

CONSTANTS
    MaxObjects,  \* bound: how many objects are ever allocated
    Content      \* what a (one-field) object may hold

VARIABLES
    born,        \* number of objects allocated so far; they are 1 .. born
    released,    \* the objects that were freed
    transferred, \* the objects whose ownership was moved
    holds        \* what each object holds

lifecycleVars == <<born, released, transferred, holds>>

TypeOK ==
    /\ born \in 0 .. MaxObjects
    /\ released \subseteq 1 .. born
    /\ transferred \subseteq 1 .. born
    /\ holds \in [1 .. born -> Content]

Live == (1 .. born) \ released

Init ==
    /\ born = 0
    /\ released = {}
    /\ transferred = {}
    /\ holds = [id \in 1 .. 0 |-> 0]

Allocate(content) ==
    /\ born < MaxObjects
    /\ born' = born + 1
    /\ holds' = [id \in 1 .. born + 1 |->
                    IF id = born + 1 THEN content ELSE holds[id]]
    /\ UNCHANGED <<released, transferred>>

Release(id) ==
    /\ released' = released \cup {id}
    /\ UNCHANGED <<born, transferred, holds>>

Transfer(id) ==
    /\ id \notin transferred
    /\ transferred' = transferred \cup {id}
    /\ UNCHANGED <<born, released, holds>>

Write(id, content) ==
    /\ holds' = [holds EXCEPT ![id] = content]
    /\ UNCHANGED <<born, released, transferred>>

Next ==
    \/ \E content \in Content : Allocate(content)
    \/ \E id \in Live :
        \/ Release(id)
        \/ Transfer(id)
        \/ \E content \in Content : Write(id, content)

Spec == Init /\ [][Next]_lifecycleVars
=============================================================================
