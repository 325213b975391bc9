------------------------------ MODULE Storage ------------------------------
(***************************************************************************)
(* The SQLite database of earn_or_halt/storage.py: the tables jobs, ledger *)
(* and meta, one operator per method.  Every method that writes does so in *)
(* one transaction (BEGIN IMMEDIATE, or a single autocommitted statement), *)
(* so each operator is one atomic step; a transaction that raises is       *)
(* rolled back and leaves everything as it was.  stats() is four SELECTs   *)
(* with no transaction around them: its queries are separate operators,    *)
(* for the caller to read one by one.                                      *)
(*                                                                         *)
(* The ledger is kept as the sums that the code ever asks of its rows: per *)
(* kind, per day (costs only) and per job.  Payloads, results, error texts *)
(* and estimated_cost_cents are stored by the code but decide nothing, and *)
(* are left out.                                                           *)
(***************************************************************************)
EXTENDS Integers, FiniteSets

CONSTANTS
    Jobs,             \* the ids that uuid4 will ever hand out
    LastDay,          \* bound: the last day on which anything happens
    MicrosPerSecond   \* clock ticks in a second

ASSUME StorageAssumption ==
    /\ IsFiniteSet(Jobs)
    /\ LastDay \in Nat
    /\ MicrosPerSecond \in Nat \ {0}

NoFlag == "none"  \* halt_reason() returns None: the row is not there

Kinds == {"revenue", "cost", "credit", "refund"}
JobStatus == {"absent", "queued", "running", "succeeded", "failed"}
Days == 0 .. LastDay

VARIABLES
    jobs,        \* table jobs, by id; "absent" is a row not inserted yet
    ledger,      \* table ledger: the sum of the amounts of each kind
    costOn,      \* table ledger: the sum of the costs dated on each day
    earned,      \* table ledger: the sum of the revenue rows of each job
    spent,       \* table ledger: the sum of the cost rows of each job
    haltReason,  \* table meta: the value under the key halt_reason
    clock,       \* the last reading of utc_now(), in ticks
    day          \* the date of the next reading

jobVars == <<jobs>>
ledgerVars == <<ledger, costOn, earned, spent>>
timeVars == <<clock, day>>
storageVars == <<jobVars, ledgerVars, haltReason, timeVars>>

-----------------------------------------------------------------------------
\* utc_now(): a reading later than every reading before it.  Only readings that
\* are stored and compared later advance the clock of the model.
Stamp == [at : Nat, day : Days]
NoStamp == [at |-> 0, day |-> 0]
Now == [at |-> clock + 1, day |-> day]
ReadClock == clock' = clock + 1 /\ UNCHANGED day

\* The database compares stamps as text.  isoformat() leaves the fraction out
\* when it is zero, so "...:05Z" is compared with "...:05.000001Z" at "Z" and
\* ".", and the reading on the second comes after all others of that second.
Second(at) == at \div MicrosPerSecond
Fraction(at) ==
    IF at % MicrosPerSecond = 0 THEN MicrosPerSecond ELSE at % MicrosPerSecond

TextLess(a, b) ==
    \/ Second(a) < Second(b)
    \/ Second(a) = Second(b) /\ Fraction(a) < Fraction(b)

-----------------------------------------------------------------------------
NoRow == [status |-> "absent", price |-> 0, cost |-> 0,
          attempts |-> 0, created |-> 0, updated |-> 0]

StorageInit ==
    /\ jobs = [j \in Jobs |-> NoRow]
    /\ ledger = [k \in Kinds |-> 0]
    /\ costOn = [d \in Days |-> 0]
    /\ earned = [j \in Jobs |-> 0]
    /\ spent = [j \in Jobs |-> 0]
    /\ haltReason = NoFlag
    /\ clock = 0
    /\ day = 0

\* enqueue_job draws an id and reads the clock ...
DrawJob(j, price) ==
    /\ jobs[j] = NoRow
    /\ jobs' = [jobs EXCEPT ![j].price = price, ![j].created = Now.at,
                            ![j].updated = Now.at]
    /\ ReadClock

\* ... and inserts the row in a statement of its own.
EnqueueJob(j) ==
    /\ jobs[j].status = "absent"
    /\ jobs' = [jobs EXCEPT ![j].status = "queued"]

\* Faulty variant: interrupted jobs are taken up again, live ones with them.
QueuedOrRunning == {j \in Jobs : jobs[j].status \in {"queued", "running"}}

Queued == {j \in Jobs : jobs[j].status = "queued"}

\* ORDER BY created_at: the job a claim selects (equal stamps do not occur).
IsNext(j) ==
    /\ j \in Queued
    /\ \A other \in Queued : ~TextLess(jobs[other].created, jobs[j].created)

ClaimNextJob(j) ==
    /\ IsNext(j)
    /\ jobs' = [jobs EXCEPT ![j].status = "running", ![j].updated = Now.at,
                            ![j].attempts = @ + 1]
    /\ ReadClock

\* Faulty variant: the cost is booked with the wrong sign.
BookBackwards(j, cost, revenue, stamp) ==
    /\ ledger' = [ledger EXCEPT !["cost"] = @ - cost, !["revenue"] = @ + revenue]
    /\ costOn' = [costOn EXCEPT ![stamp.day] = @ - cost]
    /\ spent' = [spent EXCEPT ![j] = @ - cost]
    /\ earned' = [earned EXCEPT ![j] = @ + revenue]

\* The ledger after a cost row and a revenue row of job j.
Book(j, cost, revenue, stamp) ==
    /\ ledger' = [ledger EXCEPT !["cost"] = @ + cost, !["revenue"] = @ + revenue]
    /\ costOn' = [costOn EXCEPT ![stamp.day] = @ + cost]
    /\ spent' = [spent EXCEPT ![j] = @ + cost]
    /\ earned' = [earned EXCEPT ![j] = @ + revenue]

\* Faulty variants: a success without its revenue, a failure without its cost.
CompleteJobUnpaid(j, cost, stamp) ==
    /\ jobs' = [jobs EXCEPT ![j].status = "succeeded", ![j].cost = cost,
                            ![j].updated = stamp.at]
    /\ Book(j, cost, 0, stamp)
FailJobUnbooked(j, cost, stamp) ==
    /\ jobs' = [jobs EXCEPT ![j].status = "failed", ![j].cost = cost,
                            ![j].updated = stamp.at]
    /\ Book(j, 0, 0, stamp)

\* Neither UPDATE asks what status the row has: WHERE id=? and nothing more.
CompleteJob(j, cost, stamp) ==
    /\ jobs' = [jobs EXCEPT ![j].status = "succeeded", ![j].cost = cost,
                            ![j].updated = stamp.at]
    /\ Book(j, cost, jobs[j].price, stamp)

FailJob(j, cost, stamp) ==
    /\ jobs' = [jobs EXCEPT ![j].status = "failed", ![j].cost = cost,
                            ![j].updated = stamp.at]
    /\ Book(j, cost, 0, stamp)

\* A row an operator posts, which belongs to no job.
RecordLedger(kind, amount) ==
    /\ ledger' = [ledger EXCEPT ![kind] = @ + amount]
    /\ costOn' = IF kind = "cost" THEN [costOn EXCEPT ![day] = @ + amount]
                                  ELSE costOn
    /\ UNCHANGED <<earned, spent>>

RequestHalt(reason) == haltReason' = reason
ClearHalt == haltReason' = NoFlag

-----------------------------------------------------------------------------
\* The queries of stats().
Revenue ==
    LET balance == ledger["revenue"] + ledger["credit"] - ledger["refund"]
    IN  IF balance < 0 THEN 0 ELSE balance
DailyCost == costOn[day]
QueuedJobs == Cardinality(Queued)
SucceededJobs == Cardinality({j \in Jobs : jobs[j].status = "succeeded"})
Failed == {j \in Jobs : jobs[j].status = "failed"}

\* Faulty variant: every failure counts, whatever came after it.
AllFailures == Cardinality(Failed)

\* The failed jobs before the first success, in ORDER BY updated_at DESC.
ConsecutiveFailures ==
    Cardinality({j \in Failed :
        ~\E s \in Jobs : /\ jobs[s].status = "succeeded"
                         /\ TextLess(jobs[j].updated, jobs[s].updated)})

StorageTypeOK ==
    /\ jobs \in [Jobs -> [status : JobStatus, price : Nat, cost : Nat,
                          attempts : Nat, created : Nat, updated : Nat]]
    /\ ledger \in [Kinds -> Nat]
    /\ costOn \in [Days -> Nat]
    /\ earned \in [Jobs -> Nat]
    /\ spent \in [Jobs -> Nat]
    /\ clock \in Nat
    /\ day \in Days
=============================================================================
