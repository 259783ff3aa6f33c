--------------------------- MODULE TreeWalkControl ---------------------------
(***************************************************************************)
(* Control flow of the tree-walk interpreter: blocks, loops and calls, the *)
(* scopes they push, the call stack, and the four signals - C++ exceptions *)
(* - that unwind them.                                                     *)
(*                                                                         *)
(* `handlers` is the C++ stack, reduced to the execute_ and call_ frames   *)
(* that hold a scope or catch something, the innermost last.  What a block *)
(* does next, how a condition turns out and which function a call names    *)
(* are nondeterministic: a behaviour is a run of some program.  Conditions *)
(* and operands may contain calls, lambdas and crashes; no break, continue *)
(* or return, which the grammar has as statements only.                    *)
(*                                                                         *)
(* `if`, `match` and the operands of an expression hold no scope and catch *)
(* nothing; what variables hold is the subject of TreeWalkMemory.          *)
(***************************************************************************)
EXTENDS Integers, Sequences, FiniteSets

CONSTANTS
    MaxCallDepth,  \* Interpreter::MAX_CALL_DEPTH
    MaxLines,      \* bound on the lines of a session
    MaxScopes,     \* bound on the scopes ever created
    MaxFns         \* bound on the function values ever created

ASSUME BoundsAssumption ==
    /\ MaxCallDepth \in Nat
    /\ MaxLines \in Nat \ {0}
    /\ MaxScopes \in Nat \ {0}
    /\ MaxFns \in Nat

VARIABLES
    current,    \* Environment::current_
    parent,     \* Scope::parent_ of every scope, 0 for none
    handlers,   \* the C++ frames in progress
    callStack,  \* Interpreter::call_stack_, by function value
    signal,     \* the exception in flight
    fns,        \* the function values: closure scope, and line of their body
    line,       \* the program that is being executed
    status,     \* of the process
    target,     \* history: the frame that ought to catch `signal`, 0 for none
    repl        \* how main was called: TRUE for a session, FALSE for a file

vars == <<current, parent, handlers, callStack, signal, fns, line, status, target, repl>>

----------------------------------------------------------------------------
Global == 1
Scopes == DOMAIN parent
Fns == DOMAIN fns
Kinds == {"block", "while", "for", "call"}
Signals == {"break", "continue", "return", "crash"}

(* A frame: the scope in force when it was entered, whether its try block  *)
(* is being executed, and for a call the function.                         *)
Frame(kind, entry, trying, fn) ==
    [kind |-> kind, entry |-> entry, trying |-> trying, fn |-> fn]
Block(entry) == Frame("block", entry, TRUE, 0)
CallOf(f, entry) == Frame("call", entry, TRUE, f)

Depth == Len(handlers)
Top == handlers[Depth]
TopIs(kind) == handlers # <<>> /\ Top.kind = kind
Below == SubSeq(handlers, 1, Depth - 1)
SetTrying(b) == [handlers EXCEPT ![Depth] = [@ EXCEPT !.trying = b]]

(* Environment::pop_scope, which never leaves the global scope. *)
PoppedScope == IF parent[current] # 0 THEN parent[current] ELSE current

Running == status = "running" /\ signal = "none"
AtStatement == Running /\ (handlers = <<>> \/ TopIs("block"))
AtExpression == AtStatement \/ (Running /\ TopIs("while") /\ ~Top.trying)

Init ==
    /\ current = Global
    /\ parent = <<0>>
    /\ handlers = <<>>
    /\ callStack = <<>>
    /\ signal = "none"
    /\ fns = <<>>
    /\ line = 1
    /\ status = "running"
    /\ target = 0
    /\ repl \in BOOLEAN

----------------------------------------------------------------------------
(* Statements and expressions, no exception in flight. *)

(* execute_block: a scope, and a frame that pops it on every exit.  `hs`   *)
(* are the frames below the new one, `base` the scope it extends.          *)
PushBlock(hs, ps, base) ==
    /\ Len(ps) < MaxScopes
    /\ parent' = Append(ps, base)
    /\ current' = Len(ps) + 1
    /\ handlers' = Append(hs, Block(base))

EnterBlock ==
    /\ AtStatement
    /\ PushBlock(handlers, parent, current)
    /\ UNCHANGED <<callStack, signal, fns, line, status, target>>

LeaveBlock ==
    /\ Running
    /\ TopIs("block")
    /\ current' = PoppedScope
    /\ handlers' = Below
    /\ UNCHANGED <<parent, callStack, signal, fns, line, status, target>>

(* Both loops evaluate outside of their try block: a while its condition,  *)
(* a for the array or string, before the frame exists.                     *)
EnterLoop(kind) ==
    /\ AtStatement
    /\ handlers' = Append(handlers, Frame(kind, current, FALSE, 0))
    /\ UNCHANGED <<current, parent, callStack, signal, fns, line, status, target>>

EnterWhile == EnterLoop("while")
EnterFor == EnterLoop("for")

(* The condition is true; the body is a block. *)
WhileIteration ==
    /\ Running
    /\ TopIs("while")
    /\ ~Top.trying
    /\ PushBlock(SetTrying(TRUE), parent, current)
    /\ UNCHANGED <<callStack, signal, fns, line, status, target>>

WhileIterationEnds ==
    /\ Running
    /\ TopIs("while")
    /\ Top.trying
    /\ handlers' = SetTrying(FALSE)
    /\ UNCHANGED <<current, parent, callStack, signal, fns, line, status, target>>

(* One more element: a scope for the loop variable, and the body's block. *)
ForIteration ==
    /\ Running
    /\ TopIs("for")
    /\ ~Top.trying
    /\ PushBlock(SetTrying(TRUE), Append(parent, current), Len(parent) + 1)
    /\ UNCHANGED <<callStack, signal, fns, line, status, target>>

ForIterationEnds ==
    /\ Running
    /\ TopIs("for")
    /\ Top.trying
    /\ current' = PoppedScope
    /\ handlers' = SetTrying(FALSE)
    /\ UNCHANGED <<parent, callStack, signal, fns, line, status, target>>

(* The condition is false, or the elements are exhausted. *)
LeaveLoop ==
    /\ Running
    /\ TopIs("while") \/ TopIs("for")
    /\ ~Top.trying
    /\ handlers' = Below
    /\ UNCHANGED <<current, parent, callStack, signal, fns, line, status, target>>

(* execute_fn and eval_lambda: the value keeps the current scope, and a    *)
(* pointer into the tree of the line that is being executed.               *)
CreateFunction ==
    /\ AtExpression
    /\ Len(fns) < MaxFns
    /\ fns' = Append(fns, [closure |-> current, line |-> line])
    /\ UNCHANGED <<current, parent, handlers, callStack, signal, line, status, target>>

(* Mutation of Call: the depth is not checked. *)
CallAtAnyDepth(f) ==
    /\ AtExpression
    /\ fns[f].line = line
    /\ callStack' = Append(callStack, f)
    /\ PushBlock(Append(handlers, CallOf(f, current)),
                 Append(parent, fns[f].closure), Len(parent) + 1)
    /\ UNCHANGED <<signal, fns, line, status, target>>

(* eval_call, or a builtin that calls back, to call_function: the scope of *)
(* the parameters extends the closure, the body is a block in it.  The     *)
(* depth is checked first.                                                 *)
Call(f) ==
    /\ AtExpression
    /\ fns[f].line = line
    /\ Len(callStack) < MaxCallDepth
    /\ callStack' = Append(callStack, f)
    /\ PushBlock(Append(handlers, CallOf(f, current)),
                 Append(parent, fns[f].closure), Len(parent) + 1)
    /\ UNCHANGED <<signal, fns, line, status, target>>

(* The body of a function of an earlier line: main's loop has destroyed    *)
(* the tree it points into.  What follows is undefined, and not modelled.  *)
CallStale(f) ==
    /\ AtExpression
    /\ fns[f].line # line
    /\ Len(callStack) < MaxCallDepth
    /\ status' = "undefined"
    /\ UNCHANGED <<current, parent, handlers, callStack, signal, fns, line, target>>

(* Mutation of FinishCall: pops a scope instead of restoring the saved one. *)
FinishCallPopsScope ==
    /\ Running
    /\ TopIs("call")
    /\ current' = PoppedScope
    /\ handlers' = Below
    /\ callStack' = SubSeq(callStack, 1, Len(callStack) - 1)
    /\ UNCHANGED <<parent, signal, fns, line, status, target>>

FinishCall ==
    /\ Running
    /\ TopIs("call")
    /\ current' = Top.entry
    /\ handlers' = Below
    /\ callStack' = SubSeq(callStack, 1, Len(callStack) - 1)
    /\ UNCHANGED <<parent, signal, fns, line, status, target>>

----------------------------------------------------------------------------
(* Exceptions. *)

(* Which frames ought to stop which signal: a return ends the innermost    *)
(* call, break and continue the innermost loop whose body is running -     *)
(* through calls, as the interpreter has it.  A crash ends the program or  *)
(* the line.                                                               *)
Stops(h, s) ==
    \/ s = "return" /\ h.kind = "call"
    \/ s \in {"break", "continue"} /\ h.kind \in {"while", "for"} /\ h.trying

InnermostStopping(s, k) ==
    /\ k \in 0 .. Depth
    /\ k # 0 => Stops(handlers[k], s)
    /\ \A j \in k + 1 .. Depth : ~Stops(handlers[j], s)

Throw(s) ==
    /\ signal' = s
    /\ target' \in 0 .. Depth
    /\ InnermostStopping(s, target')
    /\ UNCHANGED <<current, parent, handlers, callStack, fns, line, status>>

(* A statement of these names.  A crash may come of any expression, also *)
(* of a call with too many arguments, or one too deep.                     *)
BreakContinueOrReturn == AtStatement /\ \E s \in Signals \ {"crash"} : Throw(s)
Crash == AtExpression /\ Throw("crash")

Unwinding == status = "running" /\ signal # "none"

UnwindBlock ==
    /\ Unwinding
    /\ TopIs("block")
    /\ current' = PoppedScope
    /\ handlers' = Below
    /\ UNCHANGED <<parent, callStack, signal, fns, line, status, target>>

(* Mutation of UnwindWhile: an exception of the condition goes nowhere. *)
UnwindWhileOnlyInBody ==
    /\ Unwinding
    /\ TopIs("while")
    /\ Top.trying
    /\ signal \in {"return", "crash"}
    /\ handlers' = Below
    /\ UNCHANGED <<current, parent, callStack, signal, fns, line, status, target>>

(* A while catches nothing while it evaluates its condition. *)
UnwindWhile ==
    /\ Unwinding
    /\ TopIs("while")
    /\ ~Top.trying \/ signal \in {"return", "crash"}
    /\ handlers' = Below
    /\ UNCHANGED <<current, parent, callStack, signal, fns, line, status, target>>

(* Mutation of BreakWhile: the condition is inside of the try block. *)
BreakWhileInCondition ==
    /\ Unwinding
    /\ TopIs("while")
    /\ signal = "break"
    /\ signal' = "none"
    /\ handlers' = Below
    /\ UNCHANGED <<current, parent, callStack, fns, line, status, target>>

BreakWhile ==
    /\ Unwinding
    /\ TopIs("while")
    /\ Top.trying
    /\ signal = "break"
    /\ signal' = "none"
    /\ handlers' = Below
    /\ UNCHANGED <<current, parent, callStack, fns, line, status, target>>

ContinueWhile ==
    /\ Unwinding
    /\ TopIs("while")
    /\ Top.trying
    /\ signal = "continue"
    /\ signal' = "none"
    /\ handlers' = SetTrying(FALSE)
    /\ UNCHANGED <<current, parent, callStack, fns, line, status, target>>

(* Mutation of UnwindFor: catch (...) rethrows before pop_scope. *)
UnwindForKeepsScope ==
    /\ Unwinding
    /\ TopIs("for")
    /\ Top.trying
    /\ signal \in {"return", "crash"}
    /\ handlers' = Below
    /\ UNCHANGED <<current, parent, callStack, signal, fns, line, status, target>>

(* The clauses of a for pop the iteration's scope before they act. *)
UnwindFor ==
    /\ Unwinding
    /\ TopIs("for")
    /\ Top.trying
    /\ signal \in {"return", "crash"}
    /\ current' = PoppedScope
    /\ handlers' = Below
    /\ UNCHANGED <<parent, callStack, signal, fns, line, status, target>>

BreakFor ==
    /\ Unwinding
    /\ TopIs("for")
    /\ Top.trying
    /\ signal = "break"
    /\ signal' = "none"
    /\ current' = PoppedScope
    /\ handlers' = Below
    /\ UNCHANGED <<parent, callStack, fns, line, status, target>>

ContinueFor ==
    /\ Unwinding
    /\ TopIs("for")
    /\ Top.trying
    /\ signal = "continue"
    /\ signal' = "none"
    /\ current' = PoppedScope
    /\ handlers' = SetTrying(FALSE)
    /\ UNCHANGED <<parent, callStack, fns, line, status, target>>

(* Mutation of UnwindCall: only a return pops the call stack. *)
UnwindCallKeepsStack ==
    /\ Unwinding
    /\ TopIs("call")
    /\ signal' = IF signal = "return" THEN "none" ELSE signal
    /\ current' = Top.entry
    /\ handlers' = Below
    /\ callStack' = IF signal = "return" THEN SubSeq(callStack, 1, Len(callStack) - 1)
                                         ELSE callStack
    /\ UNCHANGED <<parent, fns, line, status, target>>

(* catch (...) of call_function; a return is caught by the clause before. *)
UnwindCall ==
    /\ Unwinding
    /\ TopIs("call")
    /\ signal' = IF signal = "return" THEN "none" ELSE signal
    /\ current' = Top.entry
    /\ handlers' = Below
    /\ callStack' = SubSeq(callStack, 1, Len(callStack) - 1)
    /\ UNCHANGED <<parent, fns, line, status, target>>

----------------------------------------------------------------------------
(* The ends of a line, of a file, and of the process. *)

(* The last statement is done, or in a session a CrashError was reported:  *)
(* the session goes on with the next line, if there is one.                *)
NextLine ==
    /\ status = "running"
    /\ handlers = <<>>
    /\ signal = "none" \/ (repl /\ signal = "crash")
    /\ signal' = "none"
    /\ IF repl /\ line < MaxLines THEN line' = line + 1 /\ status' = status
                                  ELSE line' = line /\ status' = "done"
    /\ UNCHANGED <<current, parent, handlers, callStack, fns, target>>

(* run_file reports the CrashError and exits with 1. *)
FileCrashes ==
    /\ Unwinding
    /\ handlers = <<>>
    /\ signal = "crash"
    /\ ~repl
    /\ status' = "crashed"
    /\ UNCHANGED <<current, parent, handlers, callStack, signal, fns, line, target>>

(* Nothing catches any other exception outside of the interpreter: the     *)
(* C++ runtime terminates the process.                                     *)
Terminate ==
    /\ Unwinding
    /\ handlers = <<>>
    /\ signal # "crash"
    /\ status' = "aborted"
    /\ UNCHANGED <<current, parent, handlers, callStack, signal, fns, line, target>>

Unwind ==
    \/ UnwindBlock
    \/ UnwindWhile \/ BreakWhile \/ ContinueWhile
    \/ UnwindFor \/ BreakFor \/ ContinueFor
    \/ UnwindCall
    \/ (signal # "none" /\ NextLine)
    \/ FileCrashes
    \/ Terminate

Execute ==
    \/ EnterBlock \/ LeaveBlock
    \/ EnterWhile \/ WhileIteration \/ WhileIterationEnds
    \/ EnterFor \/ ForIteration \/ ForIterationEnds
    \/ LeaveLoop
    \/ CreateFunction
    \/ \E f \in Fns : Call(f) \/ CallStale(f)
    \/ FinishCall
    \/ BreakContinueOrReturn \/ Crash
    \/ (signal = "none" /\ NextLine)

Next == (Execute \/ Unwind) /\ UNCHANGED repl

Spec == Init /\ [][Next]_vars

(* An exception is unwound by the C++ runtime, which does nothing else in  *)
(* between: it makes progress.  The program itself need not.               *)
FairSpec == Spec /\ WF_vars(Unwind /\ UNCHANGED repl)

----------------------------------------------------------------------------
(* What must hold. *)

TypeOK ==
    /\ parent \in Seq(Nat)
    /\ Len(parent) \in 1 .. MaxScopes
    /\ \A s \in Scopes : parent[s] < s
    /\ current \in Scopes
    /\ handlers \in Seq([kind : Kinds, entry : Scopes, trying : BOOLEAN,
                         fn : 0 .. Len(fns)])
    /\ callStack \in Seq(Fns) /\ Len(callStack) <= MaxCallDepth
    /\ signal \in Signals \cup {"none"}
    /\ fns \in Seq([closure : Scopes, line : 1 .. MaxLines])
    /\ Len(fns) <= MaxFns
    /\ line \in 1 .. MaxLines
    /\ status \in {"running", "done", "crashed", "aborted", "undefined"}
    /\ target \in Nat

(* The scope in force inside of frame k: the entry of the next frame. *)
Inside(k) == IF k = Depth THEN current ELSE handlers[k + 1].entry

(* "Lexical scope chain with parent pointers": whatever was thrown, caught *)
(* and unwound, names are looked up where the program's text says.  The    *)
(* scope in force in a frame extends the one in force around it - for a    *)
(* call, the one where the function was written, whoever calls it - a loop *)
(* between two iterations has left its iteration's scope, and at top level *)
(* the global scope is in force, also on the line after a crash.           *)
ScopesFollowText ==
    /\ Inside(0) = Global
    /\ \A k \in DOMAIN handlers :
        LET h == handlers[k] IN
        CASE h.kind = "block" -> parent[Inside(k)] = h.entry
          [] h.kind = "while" -> Inside(k) = h.entry
          [] h.kind = "for"   -> IF h.trying THEN parent[Inside(k)] = h.entry
                                             ELSE Inside(k) = h.entry
          [] h.kind = "call"  -> parent[Inside(k)] = fns[h.fn].closure

(* The call stack that a crash report prints is the calls in progress, in  *)
(* their order, neither more nor less.                                     *)
CallsUpTo(k) == {j \in 1 .. k : handlers[j].kind = "call"}
CallStackIsTrue ==
    /\ Len(callStack) = Cardinality(CallsUpTo(Depth))
    /\ \A k \in CallsUpTo(Depth) :
            callStack[Cardinality(CallsUpTo(k))] = handlers[k].fn

(* Every frame gives back the scope it found, on every way out: its end,   *)
(* break, return, and each exception that only passes.                     *)
FramesRestoreScope ==
    [][Len(handlers') < Depth =>
            /\ handlers' = Below
            /\ current' = Top.entry]_vars

(* A signal is caught by the frame that was its innermost target when it   *)
(* was thrown, however many frames were unwound on the way: that frame is  *)
(* the top then, and ends, except for a loop that continues.               *)
SignalsStopAtTarget ==
    [][signal # "none" /\ signal' # signal =>
            /\ target = Depth
            /\ signal # "crash" => target # 0
            /\ signal = "continue" => /\ TopIs("while") \/ TopIs("for")
                                      /\ Len(handlers') = Depth
            /\ signal = "return" => Len(callStack') = Len(callStack) - 1]_vars

(* A signal that some frame in progress ought to catch comes to be caught, *)
(* with the process still running, and a crash to be reported.  Of signals *)
(* that no frame is the target of this says nothing.                       *)
ExceptionsLand ==
    /\ (signal # "none" /\ target # 0) ~> (signal = "none" /\ status = "running")
    /\ signal = "crash" ~> (signal = "none" \/ status = "crashed")

(* Return, break and continue are caught within the interpreter, as the    *)
(* comment on their types has it.  Not the case: thrown where no loop or   *)
(* call is in progress, they end the process.                              *)
SignalsAreCaught == status # "aborted"

(* A session's functions, first-class values, can be called on the lines   *)
(* after the one that defines them.                                        *)
CallsRunLiveCode == status # "undefined"
=============================================================================
