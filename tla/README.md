# Earn-or-halt: a verification of the runtime and its bootstrap

`earn-or-halt` is a small "economic organism": a process that takes paid jobs
over HTTP, calls a language-model provider for each, books revenue and cost in a
SQLite ledger, and stops itself when a fixed policy says that it no longer earns
its keep. A shell script, the signed bootstrap, finds the newest release on a
public chain, verifies it, installs it and starts it. This directory holds TLA+
modules of both, the TLC configurations that check them on small instances, and
TLAPS proofs of the properties that matter most for every number of processes,
jobs, executions and gateways.

## 1. The system

| part | source | state it keeps | operations |
|---|---|---|---|
| economic policy | `earn_or_halt/policy.py` | none | `evaluate` |
| storage and ledger | `earn_or_halt/storage.py`, `util.py` | SQLite tables `jobs`, `ledger`, `meta` | `enqueue_job`, `claim_next_job`, `complete_job`, `fail_job`, `record_ledger`, `request_halt`, `clear_halt`, `halt_reason`, `stats`, `get_job` |
| orchestrator | `earn_or_halt/orchestrator.py`, `__main__.py` | `stop_event`, `idle_cycles`, `current_job_id`, `policy_halted`; `runtime-state.json` | the loop of `run`, `write_state`, `stop`, the signal handler, `clear-halt` |
| HTTP API | `earn_or_halt/service.py` | one thread per request | `POST /v1/jobs`, `/v1/generate`, `/v1/ledger`, `/v1/halt`, `/v1/clear-halt`; several `GET`s |
| providers | `earn_or_halt/providers.py` | none; the vendor's bill is outside | `generate`, with a fallback model |
| scraper | `earn_or_halt/scraper.py` | none | fetches a client's company page |
| configuration | `earn_or_halt/config.py` | constants | `from_env` |
| bootstrap | `bootstrap.sh` | `releases/*`, the link `current`, the PID file, its work directory, the script itself | verify, extract, move, link, start, clean up |
| resource fetcher | `bootstrap/fetch_resource.py` | one thread and temporary file per gateway, a queue, the output file | race, download, move the winner |
| pointer resolver | `bootstrap/resolve_pointer.py` | none | newest transaction to one of the vanity addresses |
| safe extractor | `bootstrap/safe_extract.py` | none | judge and unpack an archive |
| release tools | `tools/` | none | build, sign, publish by hand |

How the parts interact. The main thread runs the loop: look at the queue, ask the
policy about `stats()` and the halt flag, write the state file, claim a job, call
the provider, book the result. The handler threads write to the same database at
any moment: they enqueue jobs, post ledger rows, set and clear the halt flag. A
signal handler runs on the main thread between two of its bytecodes. Nothing
stops several processes from being started over one data directory; then they
share database and state file. The state in the database outlives a process, the
rest does not. The bootstrap runs before all that, in processes of its own: the
script calls resolver, fetcher and extractor one after the other, and meets other
executions of itself only in the install root. What it starts imports modules
through `current` long after the script has ended.

What is hard about it, and what each part must get right:

- **Claims.** A job must be worked on by one process and once, over crashes and
  restarts (`claim_next_job`).
- **The books.** Status, cost and revenue of a job must agree, whatever raises
  (`complete_job`, `fail_job`, and the `try` around them in `run`).
- **Staleness.** The policy is asked several statements before the claim, about
  four queries that share no transaction, while operators, midnight and other
  processes change what they read. Credit, daily cap and failure limit must be
  kept all the same.
- **The halt.** It must stop claims at once, end the process, survive a restart,
  and be on record; `clear-halt` must clear it.
- **Partial failure.** Every statement that touches the database, the disk or
  standard output may raise, and the exception passes one or two `finally` blocks
  that use the same resources.
- **Liveness.** A halt and a signal must end the process; a queue must be served; a
  waiting HTTP request must be answered.
- **Time.** Failures in a row are counted by sorting textual time stamps.
- **Money outside.** A vendor charges for calls whose answer is useless or late; the
  books must cover them (`generate`, and the `except` in `run`).
- **Installation.** A crash or a failure may fall between any two statements of the
  script, and executions may overlap. Still only a whole, signed release may be
  imported, from one release only, by one process, and the newest one.
- **The race.** Threads that lost write on while the winner's file is moved and
  theirs are removed, and a response may be cut short; nobody may write any more to what
  is handed on, and what is truncated must not be installed.

`PROJECT.json` lists these hazards at their lines, with the properties that
would notice them going wrong.

## 2. The modules

The runtime:

| module | models | form |
|---|---|---|
| `EconomicPolicy` | `policy.py` | pure operators: `Applies` per reason, `Evaluate` |
| `Providers` | `providers.py` | pure operators: what a call returns and what is charged for it |
| `Storage` | `storage.py`, `utc_now` | variables of the database, one operator per method |
| `Runtime` | `orchestrator.py`, `__main__.py`, the `POST`s of `service.py` | state machine; EXTENDS the three above |
| `RuntimeProperties` | | invariants, action and liveness properties of `Runtime`, its refinement mapping to `JobBook` |
| `MCRuntime` | | symmetry sets for TLC |
| `JobBook` | what a client is promised of a job | abstract specification |
| `GenerateRequest` | `POST /v1/generate` | state machine of the handlers; EXTENDS `JobBook` as its worker |
| `StopSignal` | `stop_event` under signals | state machine of one event, its lock and the main thread's stack |
| `RuntimeTypeProofs`, `RuntimePolicyProofs`, `RuntimeBookProofs`, `RuntimeEvaluationProofs`, `GenerateProofs` | | theorems |

The bootstrap:

| module | models | form |
|---|---|---|
| `Pointer` | `resolve_pointer.py` | pure operators on the sequence of transactions |
| `SafeExtract` | `safe_extract.py` | pure operators on the sequence of an archive's members |
| `GatewayRace` | `fetch_resource.py` | variables and actions of main thread and workers, one race per execution |
| `Bootstrap` | `bootstrap.sh` | state machine; EXTENDS the three above, so that the races of all executions interleave with everything else |
| `BootstrapProperties` | | invariants and liveness of `Bootstrap`, its refinement mapping to `ReleaseShelf` |
| `ReleaseShelf` | what the documents promise of an installation | abstract specification |
| `MCBootstrap` | | releases, archives, manifests and transactions for TLC |
| `BootstrapTypeProofs`, `BootstrapInstallProofs`, `BootstrapPidProofs` | | theorems |

### The runtime

**Steps.** `pc[w]` names the next statement of process `w` that touches something
shared; an action is that statement together with the private computation that
follows it. So one pass of the loop is `Loop` (loop test and queue length),
`ReadTotals`, `ReadDaily`, `ReadCounts`, `ReadRecent` (the four `SELECT`s of
`stats()`), `Decide` (`halt_reason()` and the policy), `Report` (the state file and
the branch), `Claim`, `Announce`, `Generate`, `Complete` or `Fail`, and `Running`
(the inner `finally`). `Persist` is the policy's halt, and `Final`, `WriteEnd` and
`Shutdown` are the outer `finally` and the exit. Everything else can happen
between two of these. Further `stats()` calls, whose only use is the content of
the state file, are left out, but the statement they belong to may still raise.

**Database.** Each writing method is one transaction and hence one atomic step.
`enqueue_job` is two: it reads the clock (`PostJob`) and then inserts (`InsertJob`),
so rows can be inserted in another order than their stamps. The ledger is kept as
the sums the code asks of its rows: per kind, per day, per job.

**Faults.** `Faults` says what may break. `"crash"` is `kill -9` at any
statement; `"db"`, `"disk"` and `"stdout"` make the statements in `Breakable` raise,
and `RaisesInJob`, `RaisesInHandler`, `RaisesInLoop` and `RaisesOutside` say where
the exception goes. A print after a commit is part of `Complete` and `Fail`; if it raises
after a success, the job goes on to `Fail`, as in the code.

**Time.** A stamp is a tick and a day. Every reading that is stored is later than
those before it. `TextLess` compares them as the database does: as ISO text, in
which a stamp on the full second has no fraction and sorts after the others of its
second.

**Abstractions worth knowing.** Payloads, results, texts and the free wording of
reasons are left out. The margin is compared as an exact fraction, where the code
divides in floating point. `idle_cycles` is counted up to the limit it is compared
with. A signal (`"signal"` in `Orders`) either sets the stop event (`Signal`) or gets
stuck (`Jam`): the handler runs on the main thread, which may be holding the lock that
`Event.set()` takes, and then never leaves it. `StopSignal` takes that apart. The main
thread may hold the lock in `wait()`, when it is idle, in the `set()` of its own halt, and
at any statement in the `set()` of a first signal that a second one interrupts. A stuck
process stays up and can only be killed; the job it has claimed stays `running`, and the
model forgets what else it held. Its handler threads go on serving, also if it was stuck
before they had been started, which allows more than the code does. Operators' clear-halt works with and without a running server,
their other requests need one. A prompt and its reply are one of four `Answers`; with
a fallback model, `Generate` is both calls, and a job that succeeds books the cost of
one. History variables (`operatorWord`, `barred`, `streak`, and `billed`, the calls
that vendors have charged for each job) are read by no action.

**A job, seen by its client.** `JobBook` has four steps: `Submit`, `Take`, `Succeed` and
`GiveUp`. The last is `fail_job`, which does not look at the status: it fails a job that
runs or, where standard output may break, one that has succeeded, and leaves its credit
alone. `GenerateRequest` has the handler threads of `POST /v1/generate` with their
deadlines over these steps; `spoiled` is the history of jobs that failed after they had
succeeded. Its stop event may be set by `stop()` or be jammed by a signal, when handlers
that pause in `wait()` never return, and the process may exit with or without it.

### The bootstrap

**Steps.** A *seed* is one execution of the script. `pc[s]` names its next statement
that has an effect outside or looks at something outside: `resolve`, `fetch`,
`verify`, `checkpid`, `look`, `move`, `copying`, `unlink`, `symlink`, `launch`,
`writepid`. While it is at `fetch`, the actions of its race are taken. Any statement
may fail: `GiveUp` is a check that does not let it pass, `Fail` an error or a signal
that it catches (both run the `EXIT` trap), `Kill` is a death that runs nothing.
What it starts is `proc[s]`, which imports in two steps whatever `current` names at
that moment; `loaded[s]` notes the directories and how complete they were.

**File systems.** `layout` says whether `mv` from the work directory to `releases/`
renames (`Rename`) or copies file by file (`CopyBegin`, `CopyEnd`, with a directory
that is `partial` in between and after a failure). `ln -sfn` is two steps, unlink and
symlink, as the shell of the Alpine image in `Dockerfile.bootstrap` has it.

**Excuses.** `excuses` records, as history, what the script does not guard against:
an execution that began while another was at work (`overlap`), a child that was
started and not recorded (`unrecorded`), an address that did not answer (`miss`), a
transaction sent after the execution began (`late`). The properties that need an
undisturbed execution say which of these they exclude; `LoadedVerified`, `NoLitter`,
`OutputClosed` and the refinement exclude none.

**Abstractions.** A response is one value; its digest is itself. A response
that ends early is the value `Cut`: `_copy_limited` takes a connection that is closed for
the end of the body, so the thread reports success, and only the digest tells. The code takes 48 bits
of the digest into the directory's name, modelled as enough to tell releases apart. A
manifest behind a URI stands for its text. A PID is the seed whose child it is and is
not used again for another process. When another seed has made the directory
meanwhile, `mv` puts `staging` inside it, where nothing is imported from. A gateway
that trickles bytes may keep its own thread for ever, as in the code. A `file://` or
`https://` URI is a race of one, though there the main thread downloads by itself:
for `https://`, `SeedEnds` supposes that the bytes do not trickle in for ever.

The definitions marked "Faulty variant" are plausible bugs, kept next to the
definition each one replaces; nothing uses them except the mutation entries in
`PROJECT.json`, which show that each property can fail.

## 3. The runs

Passing runs:

| run | instance | checks |
|---|---|---|
| `core` | 1 process, 3 jobs, 2 days, 2 starts; crash, database and disk errors; clear | `TypeOK`, `HaltIsRecorded`, `LossBounded`, `BooksMatchJobs`, `StreakCounted`, `FailuresLimited`, `OverdraftBounded`, `DailyCapKept`, `ClaimIsSound` |
| `pair` | 2 processes, 3 jobs, crashes; credit and cap for one job, an idle limit of 1 | `ClaimsExclusive`, `OverdraftBounded`, `DailyCapKept`, `OneClaimAfterHalt` |
| `live` | 1 process with a fallback model, 2 jobs, every fault (standard output too), halt, clear, signals; no credit but what is posted | `HaltIsRecorded`, `BillsCovered`, `JobBookKept` (refinement), `OneClaimAfterHalt`, `HaltStops`, `StopHeeded`, `RunningSettles`, `QueuedServed` |
| `generate` | 2 requests, 2 jobs, 2 prices, a standard output that may break | `TypeOK`, `AnswerTrue`, `EveryRequestAnswered` |
| `bootstrap` | 2 seeds with 1 gateway each, 2 signed releases and an unsigned one, 2 transactions, one file system | `TypeOK`, `LoadedVerified`, `OneRuntime`, `OneRelease`, `UpToDate`, `NoLitter`, `ShelfKept` (refinement) |
| `race` | 1 seed, 2 gateways, a plain signed release, a signed one with a symbolic link, an unsigned response, responses cut short, transactions that are no manifest, both layouts | `OutputClosed`, `LoadedVerified`, `SeedEnds` |

`core` leaves out standard output, posted halts and signals, with which three jobs are too
many; `live` has them all with two, and the theorems have everything at once.

Violation runs, each a disagreement between the code and what the repository says
of it (`findings` in `PROJECT.json` quotes both sides):

| run | what TLC finds |
|---|---|
| `orphan` | a job whose process is killed, or whose `write_state("working")` raises, stays `running` for ever: nothing ever looks at running jobs again |
| `stdout` | a print that fails after a success sends the job through `fail_job`: it is failed, its revenue stays, its cost is booked twice |
| `clearrace` | the process re-persists the operator's halt that the operator has cleared in the meantime |
| `partial` | with `TMPDIR` on another file system, a seed that dies during `mv` leaves a part of a release, which the next takes as installed and starts: what runs has passed no check as a whole, though docs/PROOFS.md:74 says so |
| `reenter` | a signal handled while the main thread is inside `wait()` or `set()`, with the lock of the stop event held, waits for that lock for ever: the process neither stops nor works, though docs/DESIGN.md:38 draws an arrow from signal to stopped |
| `gap` | between the unlink and the symlink of `ln -sfn` there is no `current`, though docs/DESIGN.md:19 and docs/INSIDE.md:130 call the switch atomic |

Two statements are known to be false and have no run of their own. `AcceptedIsPending`
of `GenerateRequest`: a 202 may be answered with a job that has been settled since the
last look, where docs/API.md:26 says that the job is still in the queue.
`FailuresLimited`, if the clock reaches a full second (`MicrosPerSecond = 4`): a success
stamped exactly on it sorts after the failures that follow it in that second and hides
them.

What the properties mean is said at each of them. Some conditions are part of the
result. With one process the credit is not overdrawn and the cap not exceeded;
with n processes the excess is at most n-1 calls, because each may be past its
evaluation when another books. Both need a failure to cost no more than a call:
`failure_cost_cents` is in no evaluation and `config.py` puts no bound on it, so a
larger one carries a day over its cap. `ClaimIsSound` and `OverdraftBounded` need
operators to post only income while a process is between evaluation and claim.
`HaltIsRecorded`, `StreakCounted` and `ClaimIsSound` are about one process.
`BillsCovered` needs a failure to cost at least a call, the other way round, and
allows the first of two calls that a fallback makes, which is never booked.
`FailuresLimited` allows with n processes 2(n-1) failures more than the limit. One per
other process is in flight when the limit is reached. The other is a failure that was
stamped before a success and booked after it: it is later in the order of events and
earlier in the order of stamps, by which the policy counts. `LossBounded` says how much
the finding of the run `orphan` can cost: each start of a process leaves at most one job
`running` for ever, and none unless it is killed, is stuck in a signal or leaves `run` by
an exception. `HaltStops`, `RunningSettles` and `QueuedServed` except a process that is
stuck in a signal, `EveryRequestAnswered` handlers of one; what `StopHeeded` says of a
signal begins when the stop event is set, and that it need not get so far is the run
`reenter`. `AnswerTrue` excepts a success that could not be printed (the run `stdout`):
it fails after all, after a 200, and a 502 may then be about a job with a credit.
`AnswerFinal` is the same without the exception and is proved for a standard output that
works. `LoadedVerified` holds in both layouts; what it says of completeness, only where `mv`
renames. `OutputClosed` says that what a race hands on is what one thread has received and
that no thread writes to it any more; it may be truncated, and that such an artifact goes no
further is `LoadedVerified`. `ShelfKept` lets the link name nothing while it is replaced,
which is what the code does; that the documents promise more is the run `gap`.
`OneRuntime` is about executions that do not overlap and record their children, and
`OneRelease` about such executions that are all in the background: in the foreground the
PID file is not asked, and a process may import one module from one release and the next
from another.

**Bounds**, and why they are enough for what they are used for. `Jobs`: two
processes need three jobs before an error in the evaluation can overdraw by more
than the one call that is allowed, a streak needs three for "failure, success,
failure" and for one more than a limit of two. `LastDay = 1`: one midnight can fall
between any two statements. `MaxStarts`: starts of processes; one restart
is what a halt must survive. `MaxPosts`: posted ledger rows. `MicrosPerSecond`: the
clock never reaches a full second in the runs (1000 ticks); what happens if it does
is said above. `MaxSignals`,
`MaxVisits`: one signal, and one handler thread in the event, suffice for the deadlock. `Prices`, `Amounts` and the costs are chosen so that the reasons of
the policy occur one after the other: in `core`, for instance, one call fits the
daily cap after a failure and a second call does not.

In the bootstrap, `Seeds`: two executions are enough for each hazard, which is always
of one that meets what another has left or is doing; `MaxPosts = 2` transactions let a
second release replace the first, or a useless one follow it. `Gateways`: one
where only the outcome of the fetch matters, two where a loser writes on while the
winner is moved. `MaxFiles` and `MaxBytes` are limits of the code, here 2.

`CHECK_DEADLOCK FALSE` is said where all processes may have ended with no start
left, or all requests are answered, or all seeds have ended; elsewhere `clear-halt` is always possible.
`core` permutes jobs and `pair` permutes jobs and processes, which no
definition tells apart; `bootstrap` permutes seeds; `live` and `race` use no symmetry.

**Fairness.** `FairSpec` has weak fairness of each process's own step: what a main
thread waits for is bounded (provider calls and the database lock time out, the
pause is one poll interval), so a step that stays possible is taken. Nothing is
assumed of clients, operators, signals, faults or restarts. `GenerateRequest`
assumes the same of handler threads and that deadlines pass, and nothing of the
worker. `StopSignal` assumes that the main thread runs and that handler threads
leave the event's lock. `Bootstrap` has weak fairness of each seed's own step, since its
shell and the fetcher's main thread are scheduled and wait with a time-out; nothing
is assumed of gateways, download threads, the publisher or what has been started, so
`SeedEnds` holds though nobody ever answers.

## 4. The proofs

For all values of the constants that satisfy the named assumptions of the modules
(naturals and finite sets as `config.py` enforces them; distinct values for "nothing"),
so for any number of processes, jobs, days, restarts, executions, gateways and
releases. Some theorems need more: *Alone* is one process, *Budgeted* is what the text
under the runs says of failures, operators and printing, *Printing* is that standard
output never raises, and `OffTheSecond` that a result is not stamped at a full second.

| theorem | statement |
|---|---|
| `TypeCorrect` | `Spec => []TypeOK` of `Runtime` |
| `HaltHeeded` | `Spec => OneClaimAfterHalt` |
| `HaltsAreRecorded` | `Alone` gives `Spec => []HaltIsRecorded` |
| `OverdraftIsBounded`, `DailyCapIsKept` | `Budgeted` gives `Spec => []OverdraftBounded`, `Spec => []DailyCapKept` |
| `ClaimsAreExclusive` | `Spec => []ClaimsExclusive` |
| `BooksAreMatched` | `"stdout" \notin Faults` gives `Spec => []BooksMatchJobs` |
| `BillsAreCovered` | `Spec => []BillsCovered` |
| `JobBookImplemented` | `Spec => JobBookKept`, for every `Faults` |
| `LossIsBounded` | `Spec => []LossBounded` |
| `FailuresAreLimited` | `Printing` gives `Spec /\ []SuccessesOffTheSecond => []FailuresLimited` |
| `StreakIsCounted` | `Alone` and `"stdout" \notin Faults` give `Spec /\ []SettledOffTheSecond => []StreakCounted` |
| `ClaimsAreSound` | `Alone` and operators who post only income give `Spec => ClaimIsSound` |
| `GenerateTypeCorrect`, `AnswersStayTrue` | `Spec => []TypeOK`, `Spec => []AnswerTrue` of `GenerateRequest` |
| `AnswersAreFinal` | `"stdout" \notin Faults` gives `Spec => []AnswerFinal` |
| `BootstrapTypeCorrect`, `NoLitterHolds` | `Spec => []TypeOK`, `Spec => []NoLitter` of `Bootstrap` |
| `OutputIsClosed`, `LoadedIsVerified` | `Spec => []OutputClosed`, `Spec => []LoadedVerified` |
| `ShelfImplemented` | `Spec => ShelfKept` |
| `OneRuntimeHolds`, `OneReleaseHolds`, `UpToDateHolds` | `Spec => []OneRuntime`, `[]OneRelease`, `[]UpToDate`, each about executions without the excuses it names |

### The runtime

*Types.* `TypeOK` is not inductive: `complete_job` books a price only because the
process holds a job. `TypeInv` adds `Fits`: at work a process holds a job, past the
policy it has a decision, at `persist` that decision is a reason. `Moving`,
`Proceeding` and `Ending` say once what a step of one process does to `pc` and
`mem`; `TypeStep` then has one step per action and one part each for the database,
for control and for the rest. `JamEffect` says once what a process stuck in a signal has done: at
most persisted its halt, and let go of everything else.

*Halt.* `barred` is the set of processes that have started or claimed under the
standing flag. `BarInv` says that it is empty without a flag and that its members
are not at the claim and hold no "continue" at the report. Only `Decide` makes a
verdict, and `EvaluateType` says that a flag is answered with itself. `HaltInv` is
why exit 20 is on record: who leaves the loop by a decision has set the flag, which
only the operator takes away, and passes `endHalted`; being alone, it is the last to
write the state file. A raise on the way leads to another exit code.

*Budget.* A process is *cleared* from the moment its reading of the totals allows one
more call until it has booked what it then spent. `BudgetInv` bounds the cost of all
cleared processes by the room that is left plus n-1 calls. A process that becomes
cleared has just read room for its own call, and there are at most n-1 others;
one that books takes from the room what it no longer has pending. For the cap the
same is said of every day, since a call may be evaluated on one day and booked on the
next, on which nothing can have been booked before.

*Claims.* `ClaimInv` says that a process at work finds its job `running`
(or `succeeded`, on the way from a failed print), that no two hold the same, and
that a job not yet claimed has no attempt. A claim takes a queued job, which by
this invariant nobody holds.

*Books.* `BookInv` adds that a job not yet settled has cost nothing. With
`ClaimInv`, a settlement finds the job running, so what it adds is all there is.
Exactly here printing has to work: the `stdout` run is the counterexample without it.
`BillInv` says that a job is charged for one request at most (a process about to
call holds a job for which nothing has been charged) and that a settled job has
booked a call; printing need not work for that.

*Losses.* `LossInv` says that the lost jobs and the processes that are sound, together,
are no more than the starts. A start adds one sound process. A process at work that is
killed, or whose exception gets past the handler of its job, stops being sound and loses
the one job it holds; what `ClaimInv` says of that job is not needed, since nobody holds
more than one. Nobody who is not sound is at work.

*Refinement.* `JobBook`'s variables are the status and price columns of the
database and the revenue per job. Two invariants are needed besides `ClaimInv`. `OfferInv`:
a job about to be inserted has the price that was offered. `CreditInv`: a job that has not
been settled has earned nothing, so that what `Complete` adds is the whole credit; unlike
`BookInv` it does not need printing to work. `PromiseStep` maps `InsertJob` to `Submit`,
`Claim` to `Take`, `Complete` to `Succeed`, `Fail` to `GiveUp` -- of a running job, or of a
succeeded one where `"stdout" \in Faults`, as `ClaimInv` says -- and all else to a stutter.
So `GenerateRequest`, which uses `JobBook` for the worker, rests on what `Runtime` is proved
to do. Its `GenerateInv` says that a job has been credited its price exactly if it has
succeeded or is spoiled, that a spoiled job has failed, and that a code of 200 or 502 is
right about the book but for spoiled jobs. A step of the book changes a settled job only by
spoiling it (`Settled`), and without a standard output that breaks nothing is spoiled, which
is all that `AnswersAreFinal` adds.

*Failures in a row.* The model counts them twice: `streak` in the order in which they are
booked, `ConsecutiveFailures` in the order of their stamps, as the policy does.
`SinceSuccess` is the set behind the second. Two invariants bound the two numbers. A
process is *awaiting* from the moment at which it has counted fewer failures than the
limit until it has settled its job. `LimitInv` says that `SinceSuccess` and the awaiting
together are at most the limit plus n-1. Who begins to wait has just counted a number
below the limit, and there are n-1 others; a failure adds one to the set and takes one
from the awaiting. A process is *overtaken* if a success is stamped later than the result
it is about to book. `HiddenInv` says that `streak` exceeds `SinceSuccess` by at most n-1,
less the overtaken: only a failure of an overtaken process is hidden, a success starts
`streak` afresh, and nobody is overtaken by a stamp who reads the clock after it. That
last step needs `ClockInv` (nothing is stamped later than now) and that the success is
not stamped at a full second, since it would otherwise be sorted after stamps that are
later. The first form of `FailuresLimited` allowed n-1 failures. `HiddenInv` could not be
proved with it, and TLC found why with two processes: the hidden failure.

For one process `StreakInv` says that the two counts are equal and that a stamp it holds
is later than all that are booked. Here failures, too, must be off the full second.

*Soundness of a claim.* `ReadInv` says what each of the four readings is worth at every
statement after it: revenue may have grown since, costs and counts are the same, and what
was spent today is no more, because midnight takes it to nothing and `FutureInv` says that
no cost is dated on a day yet to come. `FewerObjections` is the lemma about the policy:
who objects to books that are better in this sense, would have objected before. For the
margin it needs that (r - c) / r grows with r (`MarginGrows`). So once the decision was to
continue, the books of every later moment up to the claim have no objection.

### The bootstrap

*Types.* `MarkOK` adds that a seed past the resolver has a manifest; transactions are
only appended, so it keeps it.

*Race.* `RaceInv` is about the time while the main thread waits: a thread that writes
has its file, and what it has reported is a body it has received to the end that it could
see, which may be cut short, in a file that it has closed. After that the files of losers
may be anything, but nothing reads them.

*Installation.* `InstallInv` has three parts: a seed past `verify` holds the bytes of its
manifest, which are signed; a seed that is copying or about to link finds its directory
there, and `current` names a directory that is there, or nothing; and every directory that
is there is trusted, because what is moved has been unpacked (`UnpacksPlain`). On one file
system, besides, nobody copies and nothing is partial. So `LoadedIsVerified` holds in
every layout, with completeness where `mv` renames. `ShelfImplemented` maps `Rename` to
`Install`, `Unlink` to `Withdraw`, `Symlink` to `Activate`; it is about one file system,
and `partial` is the counterexample without that.

*Processes.* `PidInv` says that, without overlap and without unrecorded children, a
living background process is the one in the PID file or the child of the seed that is
about to write it, and no seed is past `checkpid` while another lives. `ImportInv`
follows: as long as one lives, no other seed gets to `unlink`. `FreshInv` says that an
undisturbed seed is alone, that its manifest is the newest of the chain, and that
from `launch` on `current` is its release.

Only model-checked: all liveness (`HaltStops`, `StopHeeded`, `RunningSettles`,
`QueuedServed`, `EveryRequestAnswered`, `SeedEnds`), because fairness and ENABLED are
outside the prover, and the counterexample of `StopSignal`. Every
invariant and every safety property over steps that a passing run checks is stated by a
theorem. What a fold computes (`Expanded` in `SafeExtract`) is used in the proofs only
through what `Unpacks` says of it.

## 5. Not modelled, and why

- `GET` endpoints, authorisation, body parsing: they change nothing. The one
  refusal that comes after a state change (`wait_seconds`) is in `GenerateRequest`.
- `scraper.py`: its errors become a warning in the output; no state.
- `config.py`: the minimum of each setting is the assumption on its constant;
  parsing of the environment is left out.
- The texts of manifests, HTTP requests and archives: their parsers raise or return,
  and both are modelled, what they accept only as far as a property depends on it.
- File modes in `safe_extract.py`, ownership and `umask` in `bootstrap.sh`.
- `tools/`: sequential programs run by hand, of which `Publish` is what the bootstrap
  sees. `scripts/` and the demonstrations exercise the program.

Known, and without a property, because no document excludes it: the newest
transaction blocks the resolver if it is text but no manifest; an address that does not
answer can bring back an older release; a gateway with wrong bytes beats one with the
right ones; a refused `wait_seconds` leaves a job that will run; with two processes the
four queries of `stats()` can tear and halt for a revenue that is there. The hazards
in `PROJECT.json` list these with their lines.

## 6. Plan

Done: the runtime with its policy, books, providers and HTTP waiting; the bootstrap
with its race, resolver and extractor; both refinements; the theorems above. Left, in
order of importance:

1. The composition of bootstrap and runtime as a theorem: what the PID file and
   `OneRuntime` give to `Alone`.
2. An honest-halt property for two processes: a halt for "no revenue" only if at
   some moment there was none (torn reads of `stats()`).
3. The safety half of `StopSignal`: an inductive invariant that says who holds the
   event's lock when the main thread waits for it, and with it that `Signal` and `Jam`
   are all that a signal can do to `Runtime`.
