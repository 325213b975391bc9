------------------------------ MODULE Runtime ------------------------------
(***************************************************************************)
(* The process `earn-or-halt run`: the loop of orchestrator.py, which      *)
(* evaluates the policy, claims a job, calls the provider and books the    *)
(* result, and the handler threads of service.py, which write to the same  *)
(* database at any moment.  Several processes may run over one data        *)
(* directory.  pc[w] names the next statement of process w that touches    *)
(* something shared; whatever lies between two such statements is private  *)
(* and is folded into the earlier one.                                     *)
(***************************************************************************)
EXTENDS Storage, EconomicPolicy, Providers

CONSTANTS
    Workers,            \* processes over the data directory
    ProviderCostCents,  \* what a provider call is booked at
    FailureCostCents,   \* what a failed call is booked at
    Prices,             \* prices that clients offer
    OperatorKinds,      \* kinds of ledger rows that operators post
    Amounts,            \* their amounts
    MaxPosts,           \* bound: ledger rows posted by operators
    Orders,             \* what else operators do: "halt", "clear", "signal"
    MaxStarts,          \* bound: starts of processes, the first ones included
    Faults,             \* what may break: "crash", "db", "disk", "stdout"
    NoJob               \* None in place of a job

ASSUME RuntimeAssumption ==
    /\ ProviderCostCents \in Nat
    /\ FailureCostCents \in Nat
    /\ Prices \subseteq Nat
    /\ OperatorKinds \subseteq Kinds
    /\ Amounts \subseteq Nat
    /\ MaxPosts \in Nat
    /\ Orders \subseteq {"halt", "clear", "signal"}
    /\ MaxStarts \in Nat
    /\ Faults \subseteq {"crash", "db", "disk", "stdout"}
    /\ NoJob \notin Jobs

VARIABLES
    pc,           \* the next statement of each process
    mem,          \* the memory of each main thread
    stopping,     \* the stop event of each process
    posting,      \* jobs that handler threads are about to insert
    stateFile,    \* the status in runtime-state.json
    posts,        \* ledger rows posted so far
    starts        \* processes started so far

\* History, which no action reads.
VARIABLES
    operatorWord,  \* the last of /v1/halt and clear-halt to succeed
    barred,        \* who has started or claimed a job under the standing flag
    streak,        \* failures booked since the last success was booked
    billed         \* calls that vendors have charged for each job

history == <<operatorWord, barred, streak, billed>>
outside == <<posts, starts>>
vars == <<storageVars, pc, mem, stopping, posting, stateFile, outside, history>>

NoView == [revenue |-> 0, cost |-> 0, daily |-> 0, succeeded |-> 0, failures |-> 0]
NoVerdict == "undecided"

NoMemory ==
    [busy |-> FALSE,          \* was the queue found non-empty?
     idle |-> 0,              \* self.idle_cycles
     view |-> NoView,         \* the statistics read so far
     verdict |-> NoVerdict,   \* the policy's decision
     held |-> NoJob,          \* self.current_job_id
     stamp |-> NoStamp,       \* `now` of complete_job or fail_job
     policyHalted |-> FALSE,  \* self.policy_halted
     raised |-> FALSE]        \* an exception is on its way out of run()

\* How a process may have ended: exit codes 0, 20 and 1, and kill -9.
Ended == {"stopped", "halted", "error", "killed"}
Down == Ended \cup {"off"}
Up(w) == pc[w] \notin Down
Serving(w) == Up(w) /\ pc[w] # "starting"

Init ==
    /\ StorageInit
    /\ stateFile = "none"
    /\ pc = [w \in Workers |-> "off"]
    /\ mem = [w \in Workers |-> NoMemory]
    /\ stopping = [w \in Workers |-> FALSE]
    /\ posting = [w \in Workers |-> {}]
    /\ posts = 0
    /\ starts = 0
    /\ operatorWord = "none"
    /\ barred = {}
    /\ streak = 0
    /\ billed = [j \in Jobs |-> 0]

-----------------------------------------------------------------------------
\* Process w goes to a statement, its memory changed as given.
Goto(w, label) == pc' = [pc EXCEPT ![w] = label]
Keep(w, memory) == mem' = [mem EXCEPT ![w] = memory]
Proceed(w, label) == Goto(w, label) /\ UNCHANGED mem

\* The process is gone, with its memory and its handler threads.
End(w, how) ==
    /\ Goto(w, how)
    /\ Keep(w, NoMemory)
    /\ stopping' = [stopping EXCEPT ![w] = FALSE]
    /\ posting' = [posting EXCEPT ![w] = {}]

\* History: w may claim nothing more while the flag stands.
Bar(w) == barred' = IF haltReason = NoFlag THEN barred ELSE barred \cup {w}

Start(w) ==
    /\ ~Up(w)
    /\ starts < MaxStarts
    /\ starts' = starts + 1
    /\ Proceed(w, "starting")
    /\ Bar(w)
    /\ UNCHANGED <<storageVars, stopping, posting, stateFile, posts,
                   operatorWord, streak, billed>>

\* write_state("starting"), and the server thread is started.
Starting(w) ==
    /\ pc[w] = "starting"
    /\ Proceed(w, "loop")
    /\ stateFile' = "starting"
    /\ UNCHANGED <<storageVars, stopping, posting, outside, history>>

\* Faulty variants: a loop that waits for a second job, and one that never asks
\* for the stop event.
LoopOffByOne(w) ==
    LET m == mem[w]
    IN  /\ pc[w] = "loop"
        /\ \/ stopping[w] /\ Proceed(w, "final")
           \/ /\ ~stopping[w]
              /\ Goto(w, "totals")
              /\ Keep(w, [m EXCEPT !.busy = QueuedJobs > 1])
        /\ UNCHANGED <<storageVars, stopping, posting, stateFile, outside, history>>
LoopDeaf(w) ==
    /\ pc[w] = "loop"
    /\ Goto(w, "totals")
    /\ Keep(w, [mem[w] EXCEPT !.busy = QueuedJobs > 0])
    /\ UNCHANGED <<storageVars, stopping, posting, stateFile, outside, history>>

\* The loop test and the first look at the queue.  idle_cycles is counted only
\* up to the limit it is compared with.
Loop(w) ==
    LET m == mem[w]
    IN  /\ pc[w] = "loop"
        /\ \/ /\ stopping[w]
              /\ Proceed(w, "final")
           \/ /\ ~stopping[w]
              /\ QueuedJobs <= 0
              /\ Goto(w, "totals")
              /\ Keep(w, [m EXCEPT !.busy = FALSE,
                     !.idle = IF @ < MaximumIdleCycles THEN @ + 1 ELSE @])
           \/ /\ ~stopping[w]
              /\ QueuedJobs > 0
              /\ Goto(w, "totals")
              /\ Keep(w, [m EXCEPT !.busy = TRUE, !.idle = 0])
        /\ UNCHANGED <<storageVars, stopping, posting, stateFile, outside, history>>

\* _evaluate(): the four queries of stats(), one by one.
Reads(w, at, then, view) ==
    /\ pc[w] = at
    /\ Goto(w, then)
    /\ Keep(w, [mem[w] EXCEPT !.view = view])
    /\ UNCHANGED <<storageVars, stopping, posting, stateFile, outside, history>>

ReadTotals(w) ==
    Reads(w, "totals", "daily",
          [mem[w].view EXCEPT !.revenue = Revenue, !.cost = ledger["cost"]])
\* Faulty variant: the day is read once, at the start.
ReadFirstDay(w) ==
    Reads(w, "daily", "counts", [mem[w].view EXCEPT !.daily = costOn[0]])
ReadDaily(w) ==
    Reads(w, "daily", "counts", [mem[w].view EXCEPT !.daily = DailyCost])
ReadCounts(w) ==
    Reads(w, "counts", "recent", [mem[w].view EXCEPT !.succeeded = SucceededJobs])
ReadRecent(w) ==
    Reads(w, "recent", "decide",
          [mem[w].view EXCEPT !.failures = ConsecutiveFailures])

\* halt_reason() is read last, and the policy decides.
\* Faulty variant: the evaluation before a job leaves its cost out.
NextCostLeftOut(w) == 0
NextCost(w) == IF mem[w].busy THEN ProviderCostCents ELSE 0
Decide(w) ==
    LET m == mem[w]
    IN  /\ pc[w] = "decide"
        /\ Goto(w, "report")
        /\ Keep(w, [m EXCEPT !.view = NoView,
               !.verdict = Evaluate(m.view, NextCost(w), haltReason, m.idle)])
        /\ UNCHANGED <<storageVars, stopping, posting, stateFile, outside, history>>

\* write_state("idle" or "evaluating", decision), and the branch on it.
Report(w) ==
    /\ pc[w] = "report"
    /\ \/ /\ mem[w].verdict # Continue
          /\ Proceed(w, "persist")
       \/ /\ mem[w].verdict = Continue
          /\ Goto(w, IF mem[w].busy THEN "claim" ELSE "loop")
          /\ Keep(w, [mem[w] EXCEPT !.verdict = NoVerdict])
    /\ stateFile' = IF mem[w].busy THEN "evaluating" ELSE "idle"
    /\ UNCHANGED <<storageVars, stopping, posting, outside, history>>

\* The halt is made persistent, and the loop is left.
Persist(w) ==
    /\ pc[w] = "persist"
    /\ RequestHalt(mem[w].verdict)
    /\ Goto(w, "final")
    /\ Keep(w, [mem[w] EXCEPT !.policyHalted = TRUE, !.verdict = NoVerdict])
    /\ stopping' = [stopping EXCEPT ![w] = TRUE]
    /\ UNCHANGED <<jobVars, ledgerVars, timeVars, posting, stateFile, outside, history>>

Claim(w) ==
    /\ pc[w] = "claim"
    /\ \/ /\ Queued = {}
          /\ Proceed(w, "loop")
          /\ UNCHANGED <<jobVars, timeVars, barred>>
       \/ \E j \in Jobs :
            /\ ClaimNextJob(j)
            /\ Goto(w, "announce")
            /\ Keep(w, [mem[w] EXCEPT !.held = j])
            /\ Bar(w)
    /\ UNCHANGED <<ledgerVars, haltReason, stopping, posting, stateFile, outside,
                   operatorWord, streak, billed>>

\* Faulty variant: a stop request abandons the job that has just been claimed.
AnnounceUnlessStopping(w) ==
    /\ pc[w] = "announce"
    /\ Proceed(w, IF stopping[w] THEN "final" ELSE "generate")
    /\ stateFile' = "working"
    /\ UNCHANGED <<storageVars, stopping, posting, outside, history>>

\* write_state("working", decision)
Announce(w) ==
    /\ pc[w] = "announce"
    /\ Proceed(w, "generate")
    /\ stateFile' = "working"
    /\ UNCHANGED <<storageVars, stopping, posting, outside, history>>

\* The provider answers or raises; complete_job or fail_job reads the clock.
Generate(w) ==
    /\ pc[w] = "generate"
    /\ \E primary, fallback \in Answers :
         LET call == Call(primary, fallback)
         IN  /\ Goto(w, IF call.returns THEN "complete" ELSE "fail")
             /\ billed' = [billed EXCEPT ![mem[w].held] = @ + call.bills]
    /\ Keep(w, [mem[w] EXCEPT !.stamp = Now])
    /\ ReadClock
    /\ UNCHANGED <<jobVars, ledgerVars, haltReason, stopping, posting, stateFile,
                   outside, operatorWord, barred, streak>>

\* complete_job commits, and the success is printed -- inside the same try, so
\* that a print that raises leads to fail_job.
Complete(w) ==
    /\ pc[w] = "complete"
    /\ CompleteJob(mem[w].held, ProviderCostCents, mem[w].stamp)
    /\ streak' = 0
    /\ \/ /\ Goto(w, "running")
          /\ Keep(w, [mem[w] EXCEPT !.stamp = NoStamp])
          /\ UNCHANGED timeVars
       \/ /\ "stdout" \in Faults
          /\ Goto(w, "fail")
          /\ Keep(w, [mem[w] EXCEPT !.stamp = Now])
          /\ ReadClock
    /\ UNCHANGED <<haltReason, stopping, posting, stateFile, outside,
                   operatorWord, barred, billed>>

\* fail_job commits; the print after it may raise as well.
Fail(w) ==
    /\ pc[w] = "fail"
    /\ FailJob(mem[w].held, FailureCostCents, mem[w].stamp)
    /\ streak' = streak + 1
    /\ Goto(w, "running")
    /\ \/ Keep(w, [mem[w] EXCEPT !.stamp = NoStamp])
       \/ /\ "stdout" \in Faults
          /\ Keep(w, [mem[w] EXCEPT !.stamp = NoStamp, !.raised = TRUE])
    /\ UNCHANGED <<haltReason, timeVars, stopping, posting, stateFile, outside,
                   operatorWord, barred, billed>>

\* The inner finally: current_job_id = None and write_state("running").
Running(w) ==
    /\ pc[w] = "running"
    /\ Goto(w, IF mem[w].raised THEN "final" ELSE "loop")
    /\ Keep(w, [mem[w] EXCEPT !.held = NoJob])
    /\ stateFile' = "running"
    /\ UNCHANGED <<storageVars, stopping, posting, outside, history>>

\* Faulty variant: only the flag decides the final status.
FinalByFlag(w) ==
    /\ pc[w] = "final"
    /\ Proceed(w, IF haltReason # NoFlag THEN "endHalted" ELSE "endStopped")
    /\ UNCHANGED <<storageVars, stopping, posting, stateFile, outside, history>>

\* The outer finally: the final status is chosen ...
Final(w) ==
    /\ pc[w] = "final"
    /\ Proceed(w, IF mem[w].policyHalted \/ haltReason # NoFlag
                  THEN "endHalted" ELSE "endStopped")
    /\ UNCHANGED <<storageVars, stopping, posting, stateFile, outside, history>>

\* ... and written ...
WriteEnd(w) ==
    /\ pc[w] \in {"endHalted", "endStopped"}
    /\ Proceed(w, "shutdown")
    /\ stateFile' = IF pc[w] = "endHalted" THEN "halted" ELSE "stopped"
    /\ UNCHANGED <<storageVars, stopping, posting, outside, history>>

\* ... the server is shut down and the process exits.
Shutdown(w) ==
    /\ pc[w] = "shutdown"
    /\ \/ End(w, IF mem[w].raised THEN "error"
                 ELSE IF mem[w].policyHalted THEN "halted" ELSE "stopped")
       \/ "stdout" \in Faults /\ End(w, "error")
    /\ UNCHANGED <<storageVars, stateFile, outside, history>>

Step(w) ==
    \/ Starting(w) \/ Loop(w)
    \/ ReadTotals(w) \/ ReadDaily(w) \/ ReadCounts(w) \/ ReadRecent(w)
    \/ Decide(w) \/ Report(w) \/ Persist(w)
    \/ Claim(w) \/ Announce(w) \/ Generate(w) \/ Complete(w) \/ Fail(w)
    \/ Running(w) \/ Final(w) \/ WriteEnd(w) \/ Shutdown(w)

-----------------------------------------------------------------------------
\* What may raise at each statement.
WritesState == {"starting", "report", "announce", "running", "endHalted", "endStopped"}
Queries ==
    {"loop", "totals", "daily", "counts", "recent", "decide", "persist", "claim",
     "complete", "fail", "final"} \cup WritesState
Breakable(w) ==
    \/ "db" \in Faults /\ pc[w] \in Queries /\ ~(pc[w] = "loop" /\ stopping[w])
    \/ "disk" \in Faults /\ pc[w] \in WritesState
    \/ "stdout" \in Faults /\ pc[w] = "starting"

\* The exception is caught around the job: fail_job is called.
RaisesInJob(w) ==
    /\ pc[w] = "complete"
    /\ Goto(w, "fail")
    /\ Keep(w, [mem[w] EXCEPT !.stamp = Now])
    /\ ReadClock
    /\ UNCHANGED <<stopping, posting>>

\* It passes the inner finally, then the outer one.
RaisesInHandler(w) ==
    /\ pc[w] = "fail"
    /\ Goto(w, "running")
    /\ Keep(w, [mem[w] EXCEPT !.stamp = NoStamp, !.raised = TRUE])
    /\ UNCHANGED <<timeVars, stopping, posting>>

\* Faulty variant: the exception is swallowed, and the loop goes on.
RaisesInLoopGoesOn(w) ==
    /\ pc[w] \in Queries \ {"starting", "complete", "fail", "final",
                            "endHalted", "endStopped"}
    /\ Goto(w, "loop")
    /\ Keep(w, [mem[w] EXCEPT !.view = NoView, !.verdict = NoVerdict, !.held = NoJob])
    /\ UNCHANGED <<timeVars, stopping, posting>>

\* It passes the outer finally only.
RaisesInLoop(w) ==
    /\ pc[w] \in Queries \ {"starting", "complete", "fail", "final",
                            "endHalted", "endStopped"}
    /\ Goto(w, "final")
    /\ Keep(w, [mem[w] EXCEPT
           !.view = NoView,
           !.verdict = NoVerdict,
           !.held = IF pc[w] = "running" THEN NoJob ELSE @,
           !.policyHalted = pc[w] = "persist",
           !.raised = TRUE])
    /\ UNCHANGED <<timeVars, stopping, posting>>

\* It is raised before the try or inside the outer finally, and ends the process.
RaisesOutside(w) ==
    /\ pc[w] \in {"starting", "final", "endHalted", "endStopped"}
    /\ End(w, "error")
    /\ UNCHANGED timeVars

Raises(w) ==
    /\ Breakable(w)
    /\ \/ RaisesInJob(w) \/ RaisesInHandler(w) \/ RaisesInLoop(w) \/ RaisesOutside(w)
    /\ UNCHANGED <<jobVars, ledgerVars, haltReason, stateFile, outside, history>>

Crash(w) ==
    /\ "crash" \in Faults
    /\ Up(w)
    /\ End(w, "killed")
    /\ UNCHANGED <<storageVars, stateFile, outside, history>>

-----------------------------------------------------------------------------
\* SIGINT or SIGTERM: the handler sets the stop event ...
Signal(w) ==
    /\ "signal" \in Orders
    /\ Up(w)
    /\ pc[w] # "stuck"
    /\ stopping' = [stopping EXCEPT ![w] = TRUE]
    /\ UNCHANGED <<storageVars, pc, mem, posting, stateFile, outside, history>>

\* ... or waits for ever for the event's lock, because it interrupts the main thread while
\* that thread holds it: in a pause of the loop, in the handler of an earlier signal, which
\* may be anywhere, or in the stop() after a halt has been made persistent.  StopSignal
\* takes this apart.  The handler threads live on; the main thread's memory is not read again.
Jam(w) ==
    /\ "signal" \in Orders
    /\ Up(w)
    /\ pc[w] # "stuck"
    /\ ~stopping[w]
    /\ Goto(w, "stuck")
    /\ Keep(w, NoMemory)
    /\ \/ UNCHANGED haltReason
       \/ pc[w] = "persist" /\ RequestHalt(mem[w].verdict)
    /\ UNCHANGED <<jobVars, ledgerVars, timeVars, stopping, posting, stateFile, outside, history>>

\* POST /v1/jobs and the first half of POST /v1/generate, in two steps.
PostJob(w, j, price) ==
    /\ Serving(w)
    /\ DrawJob(j, price)
    /\ posting' = [posting EXCEPT ![w] = @ \cup {j}]
    /\ UNCHANGED <<ledgerVars, haltReason, pc, mem, stopping, stateFile, outside, history>>

InsertJob(w, j) ==
    /\ j \in posting[w]
    /\ EnqueueJob(j)
    /\ posting' = [posting EXCEPT ![w] = @ \ {j}]
    /\ UNCHANGED <<ledgerVars, haltReason, timeVars, pc, mem, stopping, stateFile,
                   outside, history>>

\* POST /v1/ledger
PostLedger(kind, amount) ==
    /\ \E w \in Workers : Serving(w)
    /\ posts < MaxPosts
    /\ posts' = posts + 1
    /\ RecordLedger(kind, amount)
    /\ UNCHANGED <<jobVars, haltReason, timeVars, pc, mem, stopping, posting,
                   stateFile, starts, history>>

\* POST /v1/halt
PostHalt ==
    /\ "halt" \in Orders
    /\ \E w \in Workers : Serving(w)
    /\ RequestHalt(Operator)
    /\ operatorWord' = "halt"
    /\ UNCHANGED <<jobVars, ledgerVars, timeVars, pc, mem, stopping, posting,
                   stateFile, outside, barred, streak, billed>>

\* POST /v1/clear-halt, and the command clear-halt, which needs no server.
PostClearHalt ==
    /\ "clear" \in Orders
    /\ ClearHalt
    /\ operatorWord' = "clear"
    /\ barred' = {}
    /\ UNCHANGED <<jobVars, ledgerVars, timeVars, pc, mem, stopping, posting,
                   stateFile, outside, streak, billed>>

Midnight ==
    /\ day < LastDay
    /\ day' = day + 1
    /\ UNCHANGED <<jobVars, ledgerVars, haltReason, clock, pc, mem, stopping,
                   posting, stateFile, outside, history>>

Environment ==
    \/ \E w \in Workers : Start(w) \/ Signal(w) \/ Jam(w) \/ Crash(w) \/ Raises(w)
    \/ \E w \in Workers, j \in Jobs :
         InsertJob(w, j) \/ \E price \in Prices : PostJob(w, j, price)
    \/ \E kind \in OperatorKinds, amount \in Amounts : PostLedger(kind, amount)
    \/ PostHalt \/ PostClearHalt \/ Midnight

Next == (\E w \in Workers : Step(w)) \/ Environment

Spec == Init /\ [][Next]_vars

\* A main thread that can run does: nothing it waits for is unbounded (the
\* provider call and the database lock time out, the pause is one poll
\* interval).  Nothing is assumed of clients, operators, signals or faults.
FairSpec == Spec /\ \A w \in Workers : WF_vars(Step(w))
=============================================================================
