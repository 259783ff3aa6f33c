----------------------------- MODULE MemoryPaths -----------------------------
(***************************************************************************)
(* The two execution paths side by side: one program, run by the tree-walk *)
(* interpreter (TreeWalkMemory) and by the bytecode VM (VMMemory), each    *)
(* with a heap and a tracker of its own.  Every step is one evaluation     *)
(* step of the program, which the interpreter and the instructions that    *)
(* the compiler emits for it take together.                                *)
(*                                                                         *)
(* Some steps part the paths: the VM's instructions for move(), ref() and  *)
(* the assignment of a field are not the interpreter's operations.  They   *)
(* are steps of both paths like any other, and `parted` records that one   *)
(* was taken: from then on each path runs as its own module says, and the  *)
(* pair is followed no further.  A run that is not paired is the VM's      *)
(* alone, of whatever program.                                             *)
(***************************************************************************)
EXTENDS VMMemory

CONSTANTS
    Pending,     \* "<pending>": owner of an object not yet bound by let
    MaxEvents    \* bound on the events of the interpreter's timelines

VARIABLES
    paired,      \* whether the interpreter runs the program as well
    parted,      \* whether a step was taken that the paths take differently
    wScopes, wTemps, wNextId, wAlive, wField, wOwner, wMoved, wTimeline, wVarToHeap, wCrash

walkVars ==
    <<wScopes, wTemps, wNextId, wAlive, wField, wOwner, wMoved, wTimeline, wVarToHeap, wCrash>>

W == INSTANCE TreeWalkMemory
        WITH scopes <- wScopes, temps <- wTemps, nextId <- wNextId, alive <- wAlive,
             field <- wField, owner <- wOwner, moved <- wMoved, timeline <- wTimeline,
             varToHeap <- wVarToHeap, crash <- wCrash, repl <- FALSE, MaxScopes <- 1

pathsVars == <<vmVars, walkVars, paired, parted>>

PathsInit == Init /\ W!Init /\ paired \in BOOLEAN /\ parted = FALSE

Literal(v) == Constant(v) /\ W!EvalLiteral /\ wTemps' = Append(wTemps, v)

\* new T { f: value }, and new T { }.
New ==
    \/ /\ stack # <<>> /\ Allocate(Peek, Pop(1))
       /\ wTemps # <<>> /\ W!EvalNew(W!Operand, W!Consume(1))
    \/ Len(stack) < MaxTemps /\ Allocate(NoField, stack) /\ W!EvalNew(NoField, wTemps)

\* ref(e): the VM does not ask whether the object is alive.
Reference ==
    /\ Ref /\ W!EvalRef
    /\ parted' = (IsHeapRef(Peek) /\ ~IsAlive(Peek))

\* move(e): the VM asks for nothing.
MoveOperand ==
    /\ Move /\ W!EvalMoveExpr
    /\ parted' = (W!MoveError(Peek) # W!Ok)

\* move(x) is GetGlobal and Move, which leaves the stack as it is: x keeps its
\* value, which the interpreter takes away.
MoveVariable(x) == GetGlobal(x) /\ W!EvalMoveIdentifier(x) /\ parted' = TRUE

\* o.f = v, which the VM takes for v.f = o.
AssignToField ==
    /\ SetField /\ W!AssignField
    /\ parted' = (Peek # Below /\ (IsHeapRef(Peek) \/ IsHeapRef(Below)))

Plain ==
    \/ \E v \in {Nil, Num} : Literal(v)
    \/ \E x \in Vars :
        \/ GetGlobal(x) /\ W!EvalIdentifier(x)
        \/ SetGlobal(x) /\ W!AssignIdentifier(x)
        \/ DefineGlobal(x) /\ W!ExecuteLet(x)
    \/ New
    \/ GetField /\ W!EvalFieldAccess
    \/ Deref /\ W!EvalDeref
    \/ Free /\ W!ExecuteFree
    \/ PopOperand /\ W!ExecuteExprStmt

Together ==
    \/ Plain /\ UNCHANGED parted
    \/ Reference \/ MoveOperand \/ AssignToField
    \/ \E x \in Vars : MoveVariable(x)

Alone == Next /\ UNCHANGED <<walkVars, parted>>

PathsNext ==
    /\ \/ paired /\ ~parted /\ Together
       \/ ~paired /\ Alone
    /\ UNCHANGED paired

PathsSpec == PathsInit /\ [][PathsNext]_pathsVars

-----------------------------------------------------------------------------
(* Properties *)

Lifetime == {"Allocated", "Freed"}

\* short is long without the events that are none of a lifetime: each of the
\* others has its place in long, in the same order, and no place is left over.
KeepsLifetime(short, long) ==
    \E place \in [DOMAIN short -> DOMAIN long] :
        /\ \A m, n \in DOMAIN short : m < n => place[m] < place[n]
        /\ \A n \in DOMAIN short : short[n] \in Lifetime /\ long[place[n]] = short[n]
        /\ \A n \in DOMAIN long : long[n] \in Lifetime => \E m \in DOMAIN short : place[m] = n

\* Both report the same lifetimes: the VM's timelines are the interpreter's
\* without the accesses.
TimelinesAgree == \A id \in Allocated : KeepsLifetime(timeline[id], wTimeline[id])

\* What a program can observe is the same on both paths: the values of its
\* variables and operands, the objects and their contents, and the crash that
\* ends it, with its kind and the object it blames.
ObservablesAgree ==
    /\ <<nextId, alive, field>> = <<wNextId, wAlive, wField>>
    /\ stack = wTemps
    /\ <<globals>> = wScopes
    /\ crash = wCrash

\* Until a step parts them the paths do not differ in what a program can observe
\* nor in the lifetimes that their reports show.  Four steps do, with these
\* operands and no other: move(x) of a variable, a move() that the interpreter
\* refuses, ref() of a freed object, and o.f = v of an o and a v that differ and
\* of which one is an object.
PathsAgree == paired /\ ~parted => ObservablesAgree /\ TimelinesAgree

\* "p.x = 10" (README.md:177) makes 10 the field's content, on --vm as well: the
\* object named by the assignment is the one that is written.
AssignmentsReachField ==
    [][SetField /\ FieldError(Peek) = Ok => field'[Peek] = Below]_pathsVars

\* move() transfers ownership, "source becomes nil" (design.md:85): when the
\* interpreter accepts the move, the VM's variable is nil, too.
MovesTakeTheSource ==
    [][\A x \in Vars : MoveVariable(x) /\ wCrash' = NoCrash => globals'[x] = Nil]_pathsVars
=============================================================================
