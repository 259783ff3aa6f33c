------------------------------ MODULE VMUpvalues ------------------------------
(***************************************************************************)
(* Closures in the bytecode VM: the value stack, the call frames and the   *)
(* chain of open upvalues, as the instructions that the compiler emits     *)
(* for functions, local variables and blocks change them.                  *)
(*                                                                         *)
(* The code a frame runs is any code the compiler can emit: `locals` of a  *)
(* frame counts the variables the compiler knows to be in scope, which are *)
(* the lowest slots of the frame, and what lies above them is operands.    *)
(* A variable is declared by leaving its initializer on the stack when     *)
(* there is no other operand, and the end of a block removes the newest    *)
(* ones.  Functions have `Arity` parameters; globals, arithmetic and jumps *)
(* are left out.                                                           *)
(*                                                                         *)
(* Positions on the stack count from 1 where the code counts from 0.       *)
(*                                                                         *)
(* slotVar, upVar and store are history: they say which variable instance  *)
(* of the program a slot or an upvalue stands for, and the value that      *)
(* instance has by the rules of lexical scoping (the bindings of a Scope   *)
(* of the tree-walk interpreter).  No instruction reads them.              *)
(***************************************************************************)
EXTENDS Integers, Sequences

CONSTANTS
    Data,          \* the values that are not functions
    Nil,           \* the value nil, one of Data
    Arity,         \* number of parameters of every function
    StackMax,      \* STACK_MAX
    FramesMax,     \* FRAMES_MAX
    MaxCaptures,   \* bound on the upvalues of one closure
    MaxUpvalues,   \* bound on the upvalue objects ever created
    MaxVars        \* bound on the variable instances ever created

ASSUME SizesAssumption ==
    /\ Nil \in Data
    /\ Arity \in Nat
    /\ StackMax \in Nat \ {0}
    /\ FramesMax \in Nat \ {0}
    /\ MaxCaptures \in Nat
    /\ MaxUpvalues \in Nat
    /\ MaxVars \in Nat

VARIABLES
    stack,         \* stack_
    frames,        \* frames_: base, upvalues, and the locals in scope
    open,          \* open_upvalues_, the chain from its head
    position,      \* ObjUpvalue::stack_index of every upvalue created
    isClosed,      \* ObjUpvalue::is_closed
    closed,        \* ObjUpvalue::closed
    building,      \* the upvalues captured so far by a Closure in progress
    naming,        \* the variable that this closure initializes and captures, or 0
    status,        \* "running", "returned" or "crashed"
    slotVar,       \* history: the variable in each slot, 0 for an operand
    upVar,         \* history: the variable each upvalue was created for
    store          \* history: the value of every variable instance

upvalueVars == <<open, position, isClosed, closed, upVar>>
vars == <<stack, frames, upvalueVars, building, naming, status, slotVar, store>>

----------------------------------------------------------------------------
Upvalues == 1 .. Len(position)
Variables == 1 .. Len(store)

(* A function value carries the upvalues of its closure. *)
Closures == [ups : Seq(1 .. MaxUpvalues)]
IsFunction(v) == v \notin Data

Frame == frames[Len(frames)]
LocalTop == Frame.base + Frame.locals
Operands == Len(stack) - LocalTop
Top == stack[Len(stack)]

Init ==
    /\ stack = << >>
    /\ frames = << [base |-> 0, ups |-> << >>, locals |-> 0, fixed |-> 0] >>
    /\ open = << >>
    /\ position = << >>
    /\ isClosed = << >>
    /\ closed = << >>
    /\ building = << >>
    /\ naming = 0
    /\ status = "running"
    /\ slotVar = << >>
    /\ upVar = << >>
    /\ store = << >>

Running == status = "running" /\ building = << >> /\ naming = 0

----------------------------------------------------------------------------
(* Operands. *)

(* Mutation of CanPush: the stack may grow past STACK_MAX. *)
CanPushOneMore == Len(stack) <= StackMax

CanPush == Len(stack) < StackMax

Push(v) ==
    /\ stack' = Append(stack, v)
    /\ slotVar' = Append(slotVar, 0)

Overflow ==
    /\ status' = "crashed"
    /\ UNCHANGED <<stack, slotVar>>

Drop(n) ==
    /\ stack' = SubSeq(stack, 1, Len(stack) - n)
    /\ slotVar' = SubSeq(slotVar, 1, Len(slotVar) - n)

PushOperand(v) ==
    /\ \/ CanPush /\ Push(v) /\ UNCHANGED status
       \/ ~CanPush /\ Overflow
    /\ UNCHANGED <<frames, upvalueVars, building, naming, store>>

Constant == Running /\ \E v \in Data : PushOperand(v)

PopOperand ==
    /\ Running /\ Operands > 0
    /\ Drop(1)
    /\ UNCHANGED <<frames, upvalueVars, building, naming, status, store>>

----------------------------------------------------------------------------
(* Local variables.  Slot 0 of a function's frame is the callee and has no *)
(* name.                                                                   *)

NamedLocals == {n \in Frame.base + 1 .. LocalTop : n > Frame.base + 1 \/ Len(frames) = 1}

GetLocal == Running /\ \E n \in NamedLocals : PushOperand(stack[n])

SetLocal ==
    /\ Running /\ Operands > 0
    /\ \E n \in NamedLocals :
        /\ stack' = [stack EXCEPT ![n] = Top]
        /\ store' = [store EXCEPT ![slotVar[n]] = Top]
    /\ UNCHANGED <<frames, upvalueVars, building, naming, status, slotVar>>

(* let: the initializer's value stays where it is and gets a name. *)
DeclareLocal ==
    /\ Running /\ Operands = 1 /\ Len(store) < MaxVars
    /\ frames' = [frames EXCEPT ![Len(frames)].locals = @ + 1]
    /\ store' = Append(store, Top)
    /\ slotVar' = [slotVar EXCEPT ![Len(stack)] = Len(store) + 1]
    /\ UNCHANGED <<stack, upvalueVars, building, naming, status>>

----------------------------------------------------------------------------
(* The chain of open upvalues. *)

(* The first k upvalues of the chain are above position n, the next is not. *)
LeadingAbove(k, n) ==
    /\ k \in 0 .. Len(open)
    /\ \A j \in 1 .. k : position[open[j]] > n
    /\ k < Len(open) => position[open[k + 1]] <= n

(* Mutations of CaptureUpvalue: a new upvalue is linked at the head; the   *)
(* chain is not searched for the slot's upvalue.                           *)
CaptureAtHead(n, var) ==
    \E k \in 0 .. Len(open) :
        /\ LeadingAbove(k, n)
        /\ \/ /\ k < Len(open) /\ position[open[k + 1]] = n
              /\ building' = Append(building, open[k + 1])
              /\ UNCHANGED upvalueVars
           \/ /\ ~(k < Len(open) /\ position[open[k + 1]] = n)
              /\ Len(position) < MaxUpvalues
              /\ open' = <<Len(position) + 1>> \o open
              /\ building' = Append(building, Len(position) + 1)
              /\ position' = Append(position, n)
              /\ isClosed' = Append(isClosed, FALSE)
              /\ closed' = Append(closed, Nil)
              /\ upVar' = Append(upVar, var)

CaptureAnew(n, var) ==
    \E k \in 0 .. Len(open) :
        /\ LeadingAbove(k, n)
        /\ Len(position) < MaxUpvalues
        /\ open' = SubSeq(open, 1, k) \o <<Len(position) + 1>> \o SubSeq(open, k + 1, Len(open))
        /\ building' = Append(building, Len(position) + 1)
        /\ position' = Append(position, n)
        /\ isClosed' = Append(isClosed, FALSE)
        /\ closed' = Append(closed, Nil)
        /\ upVar' = Append(upVar, var)

(* capture_upvalue: the open upvalue for position n, or a new one linked   *)
(* in front of the first upvalue that is not above n.  var is the variable *)
(* that lives there.                                                       *)
CaptureUpvalue(n, var) ==
    \E k \in 0 .. Len(open) :
        /\ LeadingAbove(k, n)
        /\ \/ /\ k < Len(open) /\ position[open[k + 1]] = n
              /\ building' = Append(building, open[k + 1])
              /\ UNCHANGED upvalueVars
           \/ /\ ~(k < Len(open) /\ position[open[k + 1]] = n)
              /\ Len(position) < MaxUpvalues
              /\ LET uv == Len(position) + 1 IN
                    /\ open' = SubSeq(open, 1, k) \o <<uv>> \o SubSeq(open, k + 1, Len(open))
                    /\ building' = Append(building, uv)
              /\ position' = Append(position, n)
              /\ isClosed' = Append(isClosed, FALSE)
              /\ closed' = Append(closed, Nil)
              /\ upVar' = Append(upVar, var)

(* close_upvalues: the leading upvalues at or above `last` take their      *)
(* value off the stack and leave the chain.                                *)
CloseUpvalues(last) ==
    \E k \in 0 .. Len(open) :
        /\ LeadingAbove(k, last - 1)
        /\ LET gone == {open[j] : j \in 1 .. k} IN
            /\ closed' = [uv \in Upvalues |->
                            IF uv \in gone THEN stack[position[uv]] ELSE closed[uv]]
            /\ isClosed' = [uv \in Upvalues |-> uv \in gone \/ isClosed[uv]]
        /\ open' = SubSeq(open, k + 1, Len(open))
        /\ UNCHANGED <<position, upVar>>

----------------------------------------------------------------------------
(* Closures: the instruction captures its upvalues one by one. *)

CanCapture == status = "running" /\ Len(building) < MaxCaptures

CaptureLocal ==
    /\ CanCapture
    /\ \E n \in NamedLocals : CaptureUpvalue(n, slotVar[n])
    /\ UNCHANGED <<stack, frames, naming, status, slotVar, store>>

(* let f = fn () { ... f ... }: the name is declared before its value is   *)
(* on the stack, so the capture is of the slot the closure will be in.     *)
CaptureSelf ==
    /\ CanCapture /\ naming = 0 /\ Operands = 0 /\ Len(store) < MaxVars
    /\ CaptureUpvalue(LocalTop + 1, Len(store) + 1)
    /\ naming' = Len(store) + 1
    /\ UNCHANGED <<stack, frames, status, slotVar, store>>

CaptureEnclosing ==
    /\ CanCapture
    /\ \E i \in DOMAIN Frame.ups : building' = Append(building, Frame.ups[i])
    /\ UNCHANGED <<stack, frames, upvalueVars, naming, status, slotVar, store>>

Closure ==
    /\ status = "running"
    /\ LET fn == [ups |-> building] IN
        \/ /\ CanPush /\ naming = 0
           /\ Push(fn)
           /\ building' = << >>
           /\ UNCHANGED <<frames, naming, status, store>>
        \/ /\ CanPush /\ naming # 0
           /\ stack' = Append(stack, fn)
           /\ slotVar' = Append(slotVar, naming)
           /\ store' = Append(store, fn)
           /\ frames' = [frames EXCEPT ![Len(frames)].locals = @ + 1]
           /\ building' = << >> /\ naming' = 0
           /\ UNCHANGED status
        \/ ~CanPush /\ Overflow /\ UNCHANGED <<frames, building, naming, store>>
    /\ UNCHANGED upvalueVars

(* What the frame's upvalue number i reads. *)
UpvalueValue(uv) == IF isClosed[uv] THEN closed[uv] ELSE stack[position[uv]]

GetUpvalue ==
    Running /\ \E i \in DOMAIN Frame.ups : PushOperand(UpvalueValue(Frame.ups[i]))

(* Mutation of SetUpvalue: an open upvalue is written in its closed copy. *)
SetUpvalueInCopy ==
    /\ Running /\ Operands > 0
    /\ \E i \in DOMAIN Frame.ups :
        LET uv == Frame.ups[i] IN
        /\ closed' = [closed EXCEPT ![uv] = Top]
        /\ store' = [store EXCEPT ![upVar[uv]] = Top]
    /\ UNCHANGED <<stack, frames, open, position, isClosed, upVar, building, naming,
                   status, slotVar>>

SetUpvalue ==
    /\ Running /\ Operands > 0
    /\ \E i \in DOMAIN Frame.ups :
        LET uv == Frame.ups[i] IN
        /\ \/ /\ isClosed[uv]
              /\ closed' = [closed EXCEPT ![uv] = Top]
              /\ UNCHANGED stack
           \/ /\ ~isClosed[uv]
              /\ stack' = [stack EXCEPT ![position[uv]] = Top]
              /\ UNCHANGED closed
        /\ store' = [store EXCEPT ![upVar[uv]] = Top]
    /\ UNCHANGED <<frames, open, position, isClosed, upVar, building, naming, status, slotVar>>

----------------------------------------------------------------------------
(* The end of a block removes its variables, the newest first: with        *)
(* CloseUpvalue where some closure in the text captures the variable, with *)
(* Pop where none does.                                                    *)

BlockLocal == Running /\ Operands = 0 /\ Frame.locals > Frame.fixed

RemoveLocal ==
    /\ Drop(1)
    /\ frames' = [frames EXCEPT ![Len(frames)].locals = @ - 1]
    /\ UNCHANGED <<building, naming, status, store>>

CloseUpvalue ==
    /\ BlockLocal
    /\ CloseUpvalues(Len(stack))
    /\ RemoveLocal

PopLocal ==
    /\ BlockLocal
    /\ \A uv \in Upvalues : upVar[uv] # slotVar[Len(stack)]
    /\ RemoveLocal
    /\ UNCHANGED upvalueVars

----------------------------------------------------------------------------
(* Calls. *)

(* Mutation of Call: the new frame does not count the callee. *)
CallWithoutCallee ==
    /\ Running
    /\ \E argc \in 0 .. Operands - 1 :
        LET base == Len(stack) - argc
            callee == stack[base]
            accepted == IsFunction(callee) /\ argc = Arity /\ Len(frames) < FramesMax
        IN
        \/ /\ ~accepted
           /\ status' = "crashed"
           /\ UNCHANGED <<frames, slotVar, store>>
        \/ /\ accepted /\ Len(store) + argc <= MaxVars
           /\ frames' = Append(frames, [base |-> base, ups |-> callee.ups,
                                        locals |-> argc + 1, fixed |-> argc + 1])
           /\ slotVar' = [n \in DOMAIN slotVar |->
                            IF n > base THEN Len(store) + n - base ELSE slotVar[n]]
           /\ store' = store \o SubSeq(stack, base + 1, Len(stack))
           /\ UNCHANGED status
    /\ UNCHANGED <<stack, upvalueVars, building, naming>>

(* The callee lies under its argc arguments, and becomes slot 0 of a frame *)
(* whose parameters are the arguments where they lie.                      *)
Call ==
    /\ Running
    /\ \E argc \in 0 .. Operands - 1 :
        LET base == Len(stack) - argc - 1
            callee == stack[base + 1]
            accepted == IsFunction(callee) /\ argc = Arity /\ Len(frames) < FramesMax
        IN
        \/ /\ ~accepted
           /\ status' = "crashed"
           /\ UNCHANGED <<frames, slotVar, store>>
        \/ /\ accepted /\ Len(store) + argc <= MaxVars
           /\ frames' = Append(frames, [base |-> base, ups |-> callee.ups,
                                        locals |-> argc + 1, fixed |-> argc + 1])
           /\ slotVar' = [n \in DOMAIN slotVar |->
                            IF n > base + 1 THEN Len(store) + n - base - 1 ELSE slotVar[n]]
           /\ store' = store \o SubSeq(stack, base + 2, Len(stack))
           /\ UNCHANGED status
    /\ UNCHANGED <<stack, upvalueVars, building, naming>>

(* Mutation of Return: the frame's upvalues stay open. *)
ReturnLeavesOpen ==
    /\ Running /\ Operands > 0
    /\ frames' = SubSeq(frames, 1, Len(frames) - 1)
    /\ IF Len(frames) = 1
       THEN Drop(1) /\ status' = "returned"
       ELSE /\ stack' = Append(SubSeq(stack, 1, Frame.base), Top)
            /\ slotVar' = Append(SubSeq(slotVar, 1, Frame.base), 0)
            /\ UNCHANGED status
    /\ UNCHANGED <<upvalueVars, building, naming, store>>

Return ==
    /\ Running /\ Operands > 0
    /\ CloseUpvalues(Frame.base + 1)
    /\ frames' = SubSeq(frames, 1, Len(frames) - 1)
    /\ IF Len(frames) = 1
       THEN Drop(1) /\ status' = "returned"
       ELSE /\ stack' = Append(SubSeq(stack, 1, Frame.base), Top)
            /\ slotVar' = Append(SubSeq(slotVar, 1, Frame.base), 0)
            /\ UNCHANGED status
    /\ UNCHANGED <<building, naming, store>>

Next ==
    \/ Constant \/ PopOperand \/ GetLocal \/ SetLocal \/ DeclareLocal
    \/ CaptureLocal \/ CaptureSelf \/ CaptureEnclosing \/ Closure
    \/ GetUpvalue \/ SetUpvalue
    \/ CloseUpvalue \/ PopLocal
    \/ Call \/ Return

Spec == Init /\ [][Next]_vars

----------------------------------------------------------------------------
(* What must hold. *)

Values == Data \cup Closures

TypeOK ==
    /\ stack \in Seq(Values) /\ Len(stack) <= StackMax
    /\ frames \in Seq([base : Nat, ups : Seq(Upvalues), locals : Nat, fixed : Nat])
    /\ Len(frames) <= FramesMax
    /\ open \in Seq(Upvalues)
    /\ position \in Seq(1 .. StackMax + 1) /\ Len(position) <= MaxUpvalues
    /\ isClosed \in [Upvalues -> BOOLEAN]
    /\ closed \in [Upvalues -> Values]
    /\ building \in Seq(Upvalues) /\ Len(building) <= MaxCaptures
    /\ naming \in 0 .. MaxVars
    /\ status \in {"running", "returned", "crashed"}
    /\ slotVar \in [DOMAIN stack -> 0 .. Len(store)]
    /\ upVar \in [Upvalues -> 1 .. MaxVars]
    /\ store \in Seq(Values) /\ Len(store) <= MaxVars

(* "Open upvalue chain, sorted by stack index (descending)": strictly, so  *)
(* that a variable is found by capture_upvalue if it is in the chain, and  *)
(* close_upvalues may stop at the first upvalue below its bound.           *)
ChainDescends ==
    \A j, k \in DOMAIN open : j < k => position[open[j]] > position[open[k]]

(* The chain holds the upvalues that are not closed, all of them, and each *)
(* points at the slot where its variable lives now: a slot is never given  *)
(* up or reused under an open upvalue.                                     *)
OpenUpvaluesLive ==
    /\ \A uv \in Upvalues : ~isClosed[uv] <=> \E j \in DOMAIN open : open[j] = uv
    /\ \A uv \in Upvalues : ~isClosed[uv] =>
            \/ position[uv] \in DOMAIN stack /\ slotVar[position[uv]] = upVar[uv]
            \/ naming # 0 /\ upVar[uv] = naming /\ position[uv] = Len(stack) + 1

(* Closures that capture the same variable instance share one upvalue,     *)
(* before and after the variable leaves the stack, and closures over       *)
(* different instances share none.                                         *)
OneUpvaluePerVariable ==
    \A u, w \in Upvalues : upVar[u] = upVar[w] => u = w

(* The chain of open upvalues is what capture and close take it for. *)
OpenChainIsTrue == ChainDescends /\ OpenUpvaluesLive /\ OneUpvaluePerVariable

(* Lexical scoping: whoever reads a variable, by its slot or through any   *)
(* closure's upvalue, before or after its block or call has ended, reads   *)
(* the value last assigned to that instance of the variable.               *)
ReadsSeeLastWrite ==
    /\ \A n \in DOMAIN stack : slotVar[n] # 0 => stack[n] = store[slotVar[n]]
    /\ \A uv \in Upvalues : upVar[uv] # naming => UpvalueValue(uv) = store[upVar[uv]]

(* The frames partition the stack: each frame's locals are named variables *)
(* (but for the callee), its operands are not, and the caller's part of    *)
(* the stack ends where the callee's begins.                               *)
FramesNested ==
    status # "returned" =>
        \A f \in DOMAIN frames :
            LET top == IF f = Len(frames) THEN Len(stack) ELSE frames[f + 1].base IN
            /\ frames[f].base + frames[f].locals <= top
            /\ frames[f].fixed <= frames[f].locals
            /\ \A n \in frames[f].base + 1 .. top :
                slotVar[n] # 0 <=> /\ n <= frames[f].base + frames[f].locals
                                   /\ f = 1 \/ n > frames[f].base + 1
=============================================================================
