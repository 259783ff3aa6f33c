---------------------------- MODULE SharedArrays ----------------------------
(***************************************************************************)
(* Arrays, which every alias shares, while loops and builtins iterate over *)
(* them and the program they call back changes them.                       *)
(*                                                                         *)
(* The interpreter's for loop and the builtins map, filter and forEach     *)
(* hold C++ iterators into the vector of the elements for as long as the   *)
(* iteration lasts.  push() moves the elements to a new buffer when there  *)
(* is no room, pop() removes one: the iterators do not notice.  The VM's   *)
(* for loop keeps the array and an index instead and asks for the length   *)
(* before every element.                                                   *)
(*                                                                         *)
(* A buffer is named by its capacity, which no two buffers of an array     *)
(* have in common.  What a dead iterator reads is undefined: some value,   *)
(* or Garbage.  The program text runs at top level and in the bodies of    *)
(* iterations, in any order; strings, which never change, are left out.    *)
(***************************************************************************)
EXTENDS Integers, Sequences, SequencesExt, FiniteSetsExt

CONSTANTS
    Arrays,      \* the arrays of a program
    Items,       \* the values its arrays hold
    Garbage,     \* what is read from memory that holds no element
    MaxLength,   \* bound on the length of an array
    MaxDepth     \* bound on the iterations in progress

ASSUME ParametersAssumption ==
    /\ Garbage \notin Items
    /\ Arrays \cap Items = {}
    /\ MaxLength \in Nat /\ MaxLength >= 2
    /\ MaxDepth \in Nat

VARIABLES
    path,        \* the execution path of the run, "tree walk" or "vm"
    elems,       \* the elements of each array
    capacity,    \* the capacity of its vector
    frames,      \* the iterations in progress, the innermost last
    crashed      \* a CrashError has ended the run

vars == <<path, elems, capacity, frames, crashed>>

Constructs == {"for", "map", "filter", "forEach"}

\* Of a frame, pos and end are iterators into the buffer of that capacity, arg
\* is the element the body works on, and kept pairs each element the body was
\* given with the one that went into the result.  steady is a history: nothing
\* has moved or shortened what the iterators of the interpreter point into.

Init ==
    /\ path \in {"tree walk", "vm"}
    /\ elems \in [Arrays -> BoundedSeq(Items, 2)]
    /\ capacity = [a \in Arrays |-> Len(elems[a])]
    /\ frames = <<>>
    /\ crashed = FALSE

-----------------------------------------------------------------------------
(* The program text *)

Top == Last(frames)
WithTop(f) == frames' = Append(Front(frames), f)

TextRuns == ~crashed /\ (frames # <<>> => Top.phase = "body")

Crash == crashed' = TRUE /\ UNCHANGED <<elems, capacity, frames>>

\* The iterations over a have iterators into memory that is about to go.
Disturb(a) ==
    frames' = [i \in DOMAIN frames |->
                [frames[i] EXCEPT !.steady = @ /\ (path = "vm" \/ frames[i].array # a)]]

\* The VM collects the operands of a builtin from its stack in reverse.
Received(args) == IF path = "vm" THEN Reverse(args) ELSE args

\* Mutation of PushBack: the vector does not grow its buffer.
PushBackInPlace(a, v) ==
    /\ elems' = [elems EXCEPT ![a] = Append(@, v)]
    /\ UNCHANGED <<capacity, frames>>

\* std::vector::push_back: a full buffer is replaced by one of twice its size.
PushBack(a, v) ==
    /\ elems' = [elems EXCEPT ![a] = Append(@, v)]
    /\ \/ Len(elems[a]) < capacity[a] /\ UNCHANGED <<capacity, frames>>
       \/ /\ Len(elems[a]) = capacity[a]
          /\ capacity' = [capacity EXCEPT ![a] = Max({1, 2 * @})]
          /\ Disturb(a)

\* push(arr, val)
CallPush(args) ==
    /\ TextRuns
    /\ LET a == Received(args)[1]
           v == Received(args)[2]
       IN  \/ a \notin Arrays /\ Crash
           \/ /\ a \in Arrays /\ v \in Items /\ Len(elems[a]) < MaxLength
              /\ PushBack(a, v)
              /\ UNCHANGED crashed

\* pop(arr)
CallPop(a) ==
    /\ TextRuns
    /\ \/ elems[a] = <<>> /\ Crash
       \/ /\ elems[a] # <<>>
          /\ elems' = [elems EXCEPT ![a] = Front(@)]
          /\ Disturb(a)
          /\ UNCHANGED <<capacity, crashed>>

\* arr[i] = v, the VM's instruction takes the operands in another order than
\* the compiler leaves them: it finds the value where it expects the array.
AssignIndex(a, i, v) ==
    /\ TextRuns
    /\ \/ (path = "vm" \/ i \notin DOMAIN elems[a]) /\ Crash
       \/ /\ path = "tree walk" /\ i \in DOMAIN elems[a]
          /\ elems' = [elems EXCEPT ![a][i] = v]
          /\ UNCHANGED <<capacity, frames, crashed>>

-----------------------------------------------------------------------------
(* Iterations *)

\* Nothing gives the builtins of the VM a way to call the program's functions.
Start(construct, a) ==
    /\ TextRuns /\ Len(frames) < MaxDepth
    /\ \/ path = "vm" /\ construct # "for" /\ Crash
       \/ /\ path = "tree walk" \/ construct = "for"
          /\ frames' = Append(frames,
                [construct |-> construct, array |-> a, pos |-> 0, end |-> Len(elems[a]),
                 buffer |-> capacity[a], arg |-> Garbage, kept |-> <<>>, phase |-> "header",
                 steady |-> TRUE])
          /\ UNCHANGED <<elems, capacity, crashed>>

\* The element that pos stands for is still there.
IsLive(f) ==
    /\ f.pos < Len(elems[f.array])
    /\ path = "vm" \/ f.buffer = capacity[f.array]

Read(f) == IF IsLive(f) THEN {elems[f.array][f.pos + 1]} ELSE Items \cup {Garbage}

\* Mutation of HasNext: every path keeps the end of the start.
HasNextKeepsEnd(f) == f.pos # f.end

\* Mutation of HasNext: every path asks for the length.
HasNextAsksLength(f) == f.pos < Len(elems[f.array])

HasNext(f) == IF path = "vm" THEN f.pos < Len(elems[f.array]) ELSE f.pos # f.end

AtHeader == ~crashed /\ frames # <<>> /\ Top.phase = "header"

Enter ==
    /\ AtHeader /\ HasNext(Top)
    /\ \E v \in Read(Top) : WithTop([Top EXCEPT !.arg = v, !.phase = "body"])
    /\ UNCHANGED <<elems, capacity, crashed>>

\* Mutation of Leave: the iterator moves on before filter copies the element.
LeaveAdvancesFirst ==
    /\ TextRuns /\ frames # <<>>
    /\ LET next == [Top EXCEPT !.pos = @ + 1, !.phase = "header"]
       IN  \/ WithTop(next)
           \/ /\ Top.construct = "filter"
              /\ \E v \in Read(next) :
                    WithTop([next EXCEPT !.kept = Append(@, <<Top.arg, v>>)])
    /\ UNCHANGED <<elems, capacity, crashed>>

\* The body ends, or continues.  map keeps what the function made of the
\* element; filter reads the element again when it passed the test.
Leave ==
    /\ TextRuns /\ frames # <<>>
    /\ LET next == [Top EXCEPT !.pos = @ + 1, !.phase = "header"]
       IN  \/ Top.construct \in {"for", "forEach", "filter"} /\ WithTop(next)
           \/ /\ Top.construct = "map"
              /\ WithTop([next EXCEPT !.kept = Append(@, <<Top.arg, Top.arg>>)])
           \/ /\ Top.construct = "filter"
              /\ \E v \in Read(Top) :
                    WithTop([next EXCEPT !.kept = Append(@, <<Top.arg, v>>)])
    /\ UNCHANGED <<elems, capacity, crashed>>

Finish ==
    /\ AtHeader /\ ~HasNext(Top)
    /\ frames' = Front(frames)
    /\ UNCHANGED <<elems, capacity, crashed>>

\* break, return, or an exception on its way out.
Abandon ==
    /\ TextRuns /\ frames # <<>>
    /\ frames' = Front(frames)
    /\ UNCHANGED <<elems, capacity, crashed>>

Step ==
    \/ \E a \in Arrays, v \in Items : CallPush(<<a, v>>) \/ CallPush(<<v, a>>)
    \/ \E a \in Arrays : CallPop(a)
    \/ \E a \in Arrays, v \in Items, i \in 1 .. MaxLength + 1 : AssignIndex(a, i, v)
    \/ \E c \in Constructs, a \in Arrays : Start(c, a)
    \/ Enter \/ Leave \/ Finish \/ Abandon

Next == Step /\ UNCHANGED path

Spec == Init /\ [][Next]_vars

-----------------------------------------------------------------------------
(* Properties *)

\* Types, and no array is longer than its buffer.
TypeOK ==
    /\ elems \in [Arrays -> BoundedSeq(Items, MaxLength)]
    /\ capacity \in [Arrays -> Nat]
    /\ \A a \in Arrays : Len(elems[a]) <= capacity[a]
    /\ Len(frames) <= MaxDepth
    /\ \A i \in DOMAIN frames :
            /\ frames[i].arg \in Items \cup {Garbage}
            /\ frames[i].pos \in 0 .. MaxLength
            /\ frames[i].construct \in Constructs /\ frames[i].phase \in {"header", "body"}

\* Neither the value a body is given nor what a construct keeps comes from
\* memory that holds no element.
ReadsElements(f) ==
    /\ f.phase = "body" => f.arg # Garbage
    /\ \A n \in DOMAIN f.kept : Garbage \notin {f.kept[n][1], f.kept[n][2]}

\* An iteration of the VM reads elements and nothing else, however the bodies
\* in progress change its array; one of the interpreter does until a body takes
\* an element away or makes the array move, through whatever alias and at
\* whatever depth.
ReadsAreLive == \A i \in DOMAIN frames : frames[i].steady => ReadsElements(frames[i])

\* A map that comes to its end has one result for each element the array had
\* when it started, also when its function appended to the array: the growth
\* is not iterated, and nothing is left out.
MapIsTotal ==
    AtHeader /\ Top.construct = "map" /\ ~HasNext(Top) => Len(Top.kept) = Top.end

\* An iteration stays within its array.
IterationsAreSound == TypeOK /\ ReadsAreLive /\ MapIsTotal

\* The language's single principle is that a crash explains itself, "instead of
\* an opaque signal" (design.md:15): whatever a body does to the array that is
\* iterated, the interpreter reads its elements.  It does not once push() has
\* moved them or pop() has removed one.
NoStaleIterator == \A i \in DOMAIN frames : ReadsElements(frames[i])
=============================================================================
