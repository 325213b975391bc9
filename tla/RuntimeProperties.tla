------------------------- MODULE RuntimeProperties -------------------------
(* What the processes of Runtime must get right, and under which            *)
(* configurations they do: the runs fix the constants.                      *)
EXTENDS Runtime

Memory ==
    [busy : BOOLEAN, idle : Nat, view : Statistics,
     verdict : Reasons \cup {Continue, NoVerdict},
     held : Jobs \cup {NoJob}, stamp : Stamp,
     policyHalted : BOOLEAN, raised : BOOLEAN]

Labels ==
    {"starting", "loop", "totals", "daily", "counts", "recent", "decide", "report",
     "persist", "claim", "announce", "generate", "complete", "fail", "running",
     "final", "endHalted", "endStopped", "shutdown", "stuck"} \cup Down

StateFiles == {"none", "starting", "idle", "evaluating", "working", "running",
               "halted", "stopped"}

\* Every variable keeps its type.
TypeOK ==
    /\ StorageTypeOK
    /\ haltReason \in Reasons \cup {NoFlag}
    /\ pc \in [Workers -> Labels]
    /\ mem \in [Workers -> Memory]
    /\ stopping \in [Workers -> BOOLEAN]
    /\ posting \in [Workers -> SUBSET Jobs]
    /\ stateFile \in StateFiles
    /\ posts \in Nat
    /\ starts \in Nat
    /\ operatorWord \in {"none", "halt", "clear"}
    /\ barred \subseteq Workers
    /\ streak \in Nat
    /\ billed \in [Jobs -> Nat]

\* The statements between a claim and the return to the loop.
AtWork == {"announce", "generate", "complete", "fail"}

\* A job that a process is working on is running, is worked on by no other
\* process, and is claimed once in its life -- over crashes and restarts too
\* (storage.claim_next_job).  The print that fails after a success is the one
\* case in which fail_job meets a job that is no longer running.
ClaimsExclusive ==
    /\ \A w \in Workers : pc[w] \in AtWork =>
         /\ mem[w].held \in Jobs
         /\ \/ jobs[mem[w].held].status = "running"
            \/ "stdout" \in Faults /\ pc[w] = "fail"
    /\ \A v, w \in Workers :
         (pc[v] \in AtWork /\ pc[w] \in AtWork /\ v # w) => mem[v].held # mem[w].held
    /\ \A j \in Jobs : jobs[j].attempts <= 1

\* While a halt flag stands, a process claims at most the one job whose
\* evaluation it had already passed, and a process started under the flag
\* claims none (orchestrator.run, storage.halt_reason).
OneClaimAfterHalt ==
    [][\A w \in barred : haltReason # NoFlag =>
           ~(pc[w] = "claim" /\ pc'[w] = "announce")]_vars

\* Exit code 20 leaves the state file at "halted" and the flag set, unless the
\* operator has cleared it meanwhile (orchestrator.run, one process).
HaltIsRecorded ==
    \A w \in Workers : pc[w] = "halted" =>
        /\ stateFile = "halted"
        /\ (haltReason = NoFlag => operatorWord = "clear")

\* The credit is never overdrawn by more than the calls that other processes
\* had in flight; with one process it is never overdrawn (policy.evaluate and
\* the loop, when a failure costs no more than a call and operators post only
\* income).
OverdraftBounded ==
    HaltOnNoFunds =>
        Available(Revenue, ledger["cost"])
            >= -((Cardinality(Workers) - 1) * ProviderCostCents)

\* On no day do the costs exceed the cap by more than that, whatever day each
\* of them was evaluated on.
DailyCapKept ==
    DailyCostCapCents # 0 =>
        \A d \in Days : costOn[d] <=
            DailyCostCapCents + (Cardinality(Workers) - 1) * ProviderCostCents

\* The ledger says of each job what the jobs table says: revenue at its price
\* exactly when it has succeeded, and the cost that is recorded with it
\* (storage.complete_job, storage.fail_job).
BooksMatchJobs ==
    \A j \in Jobs :
        /\ earned[j] = IF jobs[j].status = "succeeded" THEN jobs[j].price ELSE 0
        /\ spent[j] = jobs[j].cost

\* What vendors have charged for a job is booked once the job is settled, except
\* for the first of two calls when a fallback stood in; only a job that is still
\* running -- in flight, or left behind by a crash -- has calls that no cost row
\* covers (providers.py, and run, when a failure costs what a call costs).
BillsCovered ==
    FailureCostCents >= ProviderCostCents =>
        \A j \in Jobs : billed[j] * ProviderCostCents <=
            spent[j] + ProviderCostCents *
                (IF jobs[j].status = "running" THEN MaxBills ELSE MaxBills - 1)

\* A running job that no process works on stays running for ever.  Each process that
\* is started leaves at most one such job behind, and only if it has been killed, is stuck
\* in a signal, or an exception is on its way out of run() (storage.claim_next_job,
\* orchestrator.run).
Lost ==
    {j \in Jobs : /\ jobs[j].status = "running"
                  /\ ~\E w \in Workers : pc[w] \in AtWork /\ mem[w].held = j}
Sound == {w \in Workers : Up(w) /\ pc[w] # "stuck" /\ ~mem[w].raised}
LossBounded == Cardinality(Lost) <= starts - Cardinality(Sound)

\* consecutive_failures, which is computed from stamps, is the number of jobs
\* that have failed since the last success (storage.stats, one process).
StreakCounted == ConsecutiveFailures = streak

\* No more jobs in a row fail than the limit allows, plus two for each other process:
\* a failure that it had in flight, and one that it had booked already when a success
\* with a later stamp hid it from the count; clearing the halt flag does not lift the
\* limit (policy.evaluate, storage.stats).
FailuresLimited ==
    MaximumConsecutiveFailures # 0 =>
        streak <= MaximumConsecutiveFailures + 2 * (Cardinality(Workers) - 1)

\* The books as they are now, as stats() would give them in one piece.
Books ==
    [revenue |-> Revenue, cost |-> ledger["cost"], daily |-> DailyCost,
     succeeded |-> SucceededJobs, failures |-> ConsecutiveFailures]

\* A job is only claimed at a moment at which the policy has no objection,
\* although it was asked some statements ago, about four readings taken one
\* after the other (one process, operators who post only income).
ClaimIsSound ==
    [][\A w \in Workers : (pc[w] = "claim" /\ pc'[w] = "announce") =>
           Objections(Books, ProviderCostCents, 0) = {}]_vars

\* The database shows clients the life of a job that JobBook describes: over every crash,
\* error and restart a job is taken once and settled once, its credit and its success are
\* one step, and only a print that fails can turn the success into a failure
\* (storage.py, orchestrator.run).
Promise ==
    INSTANCE JobBook WITH
        book <- [j \in Jobs |-> jobs[j].status],
        offer <- [j \in Jobs |-> IF jobs[j].status = "absent" THEN 0 ELSE jobs[j].price],
        credit <- earned
JobBookKept == Promise!BookSpec

\* A halt in the operator's name stands only if the operator's last word was
\* halt, not clear-halt (service.do_POST, __main__.main).
ClearHaltClears == haltReason = Operator => operatorWord = "halt"

-----------------------------------------------------------------------------
\* Liveness, under FairSpec.

\* Its main thread waits for the lock of its own stop event.
Stuck(w) == pc[w] = "stuck"

\* A process under a standing halt flag exits, or the operator clears the flag, unless a
\* signal gets the process stuck (orchestrator.run).
HaltStops ==
    \A w \in Workers :
        (Up(w) /\ haltReason # NoFlag) ~> (~Up(w) \/ haltReason = NoFlag \/ Stuck(w))

\* A process whose stop event has been set, by a signal or by its policy, exits, whatever
\* raises on the way (orchestrator.run).  That a signal need not get as far as setting it
\* is what StopSignal shows.
StopHeeded == \A w \in Workers : stopping[w] ~> ~Up(w)

\* A claimed job is settled, unless a process dies of a fault or gets stuck in a signal:
\* halts, stop requests and the end of the process wait for it (orchestrator.run).
RunningSettles ==
    \A j \in Jobs : (jobs[j].status = "running")
        ~> (jobs[j].status # "running" \/ \E w \in Workers : pc[w] \in {"error", "killed", "stuck"})

\* Even if processes are killed, a claimed job is settled as long as some process
\* is there to stay (docs/PROOFS.md: queued, running, succeeded or failed).
RunningSettlesAfterCrash ==
    (<>[] \E w \in Workers : Up(w) /\ ~Stuck(w)) =>
        \A j \in Jobs : (jobs[j].status = "running") ~> (jobs[j].status # "running")

\* A queued job is claimed, unless every process ends or gets stuck.
QueuedServed ==
    \A j \in Jobs : (jobs[j].status = "queued")
        ~> (jobs[j].status # "queued" \/ \A w \in Workers : ~Up(w) \/ Stuck(w))
=============================================================================
