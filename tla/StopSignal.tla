----------------------------- MODULE StopSignal -----------------------------
(***************************************************************************)
(* The stop event under signals.  orchestrator.stop() is called by the     *)
(* loop and by the handler of SIGINT and SIGTERM, which Python runs on the *)
(* main thread, between two bytecodes of whatever that thread is doing.    *)
(* The event is a flag guarded by a lock that is not reentrant, and the    *)
(* loop's own wait() takes the same lock.  The steps of is_set(), set()    *)
(* and wait() are those of the standard library, as the code uses them.    *)
(***************************************************************************)
EXTENDS Naturals, Sequences

CONSTANTS
    MaxSignals,  \* bound: signals delivered
    MaxVisits    \* bound: waits of handler threads of /v1/generate

VARIABLES
    flag,        \* the event is set
    lock,        \* who holds its lock: "none", "main" or "handler"
    stack,       \* the main thread: the loop, below the calls that run on it
    signals,     \* signals delivered
    visits       \* waits begun by handler threads

vars == <<flag, lock, stack, signals, visits>>

Init ==
    /\ flag = FALSE
    /\ lock = "none"
    /\ stack = <<"test">>
    /\ signals = 0
    /\ visits = 0

Top == stack[Len(stack)]
Pop == SubSeq(stack, 1, Len(stack) - 1)
Jump(label) == stack' = Append(Pop, label)
Call(label, return) == stack' = Pop \o <<return, label>>
Exited == stack = <<"exit">>
environment == <<signals, visits>>

Acquire == lock = "none" /\ lock' = "main"
Release == lock' = "none"

-----------------------------------------------------------------------------
\* The loop: while not stop_event.is_set(), with a policy halt that calls
\* stop() and breaks, or a pause in stop_event.wait().
LoopTest ==
    /\ Top = "test"
    /\ \/ flag /\ Jump("exit")
       \/ ~flag /\ Call("isset", "exit")
       \/ ~flag /\ Jump("enter")
    /\ UNCHANGED <<flag, lock>>

\* wait(): with the lock held, look at the flag ...
WaitEnter == Top = "enter" /\ Acquire /\ Jump("check") /\ UNCHANGED flag
WaitCheck ==
    /\ Top = "check"
    /\ IF flag THEN Jump("leave") /\ UNCHANGED lock
               ELSE Jump("asleep") /\ Release
    /\ UNCHANGED flag
\* ... sleep without it until notified or timed out, and take it again.
WaitWake == Top = "asleep" /\ Jump("reacquire") /\ UNCHANGED <<flag, lock>>
WaitReacquire == Top = "reacquire" /\ Acquire /\ Jump("leave") /\ UNCHANGED flag
WaitLeave == Top = "leave" /\ Release /\ Jump("test") /\ UNCHANGED flag

\* stop(): if not is_set(), set().
StopTest ==
    /\ Top = "isset"
    /\ IF flag THEN stack' = Pop ELSE Jump("grab")
    /\ UNCHANGED <<flag, lock>>
SetEnter == Top = "grab" /\ Acquire /\ Jump("set") /\ UNCHANGED flag
SetFlag == Top = "set" /\ flag' = TRUE /\ Jump("drop") /\ UNCHANGED lock
SetLeave == Top = "drop" /\ Release /\ stack' = Pop /\ UNCHANGED flag

Main ==
    /\ \/ LoopTest
       \/ WaitEnter \/ WaitCheck \/ WaitWake \/ WaitReacquire \/ WaitLeave
       \/ StopTest \/ SetEnter \/ SetFlag \/ SetLeave
    /\ UNCHANGED environment

-----------------------------------------------------------------------------
\* handle_signal, on top of whatever the main thread was in.
Signal ==
    /\ ~Exited
    /\ signals < MaxSignals
    /\ signals' = signals + 1
    /\ stack' = Append(stack, "isset")
    /\ UNCHANGED <<flag, lock, visits>>

\* A handler thread passes through wait(0.1) of its own.
Visit ==
    /\ visits < MaxVisits
    /\ lock = "none"
    /\ lock' = "handler"
    /\ visits' = visits + 1
    /\ UNCHANGED <<flag, stack, signals>>
Depart ==
    /\ lock = "handler"
    /\ lock' = "none"
    /\ UNCHANGED <<flag, stack, environment>>

Next == Main \/ Signal \/ Visit \/ Depart

Spec == Init /\ [][Next]_vars /\ WF_vars(Main) /\ WF_vars(Depart)

-----------------------------------------------------------------------------
\* docs/DESIGN.md draws an arrow "signal/operator -> stopped": whenever a signal comes, the
\* process leaves its loop (orchestrator.stop, handle_signal).  False: a signal that is
\* handled while the main thread is inside set() or wait() waits for a lock that the
\* thread itself holds, and the program has no other way out.
SignalStops == (signals > 0) ~> Exited
=============================================================================
