-------------------------- MODULE GenerateRequest --------------------------
(***************************************************************************)
(* POST /v1/generate (service.py): a handler thread enqueues a job, polls  *)
(* the database until the job is settled, the deadline has passed or the   *)
(* process is stopping, and answers.  The worker, of this process or of    *)
(* another one, is whatever moves jobs as JobBook allows, which is what    *)
(* Runtime is shown to do.                                                 *)
(***************************************************************************)
EXTENDS JobBook

CONSTANTS Requests, NoJob

ASSUME RequestAssumption == NoJob \notin Jobs

VARIABLES
    pc,      \* the next statement of each handler
    job,     \* the job it has enqueued
    late,    \* has its deadline passed?
    code,    \* the status code it answered, 0 before
    body,    \* the status of the job in the answer
    stop,    \* the stop event: "clear", "set", or "jammed" by a signal (StopSignal)
    exited,  \* the process, and its handler threads with it, is gone
    spoiled  \* history: jobs that failed after they had succeeded

handlerVars == <<pc, job, late, code, body>>
vars == <<bookVars, handlerVars, stop, exited, spoiled>>

Init ==
    /\ BookInit
    /\ pc = [r \in Requests |-> "new"]
    /\ job = [r \in Requests |-> NoJob]
    /\ late = [r \in Requests |-> FALSE]
    /\ code = [r \in Requests |-> 0]
    /\ body = [r \in Requests |-> "absent"]
    /\ stop = "clear"
    /\ exited = FALSE
    /\ spoiled = {}

At(r, label) == ~exited /\ pc[r] = label
Goto(r, label) == pc' = [pc EXCEPT ![r] = label]

Answer(r, status, found) ==
    /\ Goto(r, "answered")
    /\ code' = [code EXCEPT ![r] = status]
    /\ body' = [body EXCEPT ![r] = found]

-----------------------------------------------------------------------------
\* The body is refused before anything is stored.
Refuse(r) ==
    /\ At(r, "new")
    /\ Answer(r, 400, "absent")
    /\ UNCHANGED <<bookVars, job, late, stop, exited, spoiled>>

\* Faulty variant: the handler does not keep the job it has enqueued.
EnqueueForgets(r, j, price) ==
    /\ At(r, "new")
    /\ Submit(j, price)
    /\ Goto(r, "enqueued")
    /\ UNCHANGED <<job, late, code, body, stop, exited, spoiled>>

Enqueue(r, j, price) ==
    /\ At(r, "new")
    /\ Submit(j, price)
    /\ job' = [job EXCEPT ![r] = j]
    /\ Goto(r, "enqueued")
    /\ UNCHANGED <<late, code, body, stop, exited, spoiled>>

\* wait_seconds is parsed only now: a bad one is refused with the job queued,
\* and zero is a deadline that has passed.
ParseWait(r) ==
    /\ At(r, "enqueued")
    /\ \/ /\ Answer(r, 400, "absent")
          /\ UNCHANGED late
       \/ /\ Goto(r, "look")
          /\ \E zero \in BOOLEAN : late' = [late EXCEPT ![r] = zero]
          /\ UNCHANGED <<code, body>>
    /\ UNCHANGED <<bookVars, job, stop, exited, spoiled>>

\* Faulty variant: the loop asks for the job only, never for the time.
LookForever(r) ==
    /\ At(r, "look")
    /\ Goto(r, "poll")
    /\ UNCHANGED <<bookVars, job, late, code, body, stop, exited, spoiled>>

\* while time.monotonic() < deadline
Look(r) ==
    /\ At(r, "look")
    /\ Goto(r, IF late[r] THEN "lastlook" ELSE "poll")
    /\ UNCHANGED <<bookVars, job, late, code, body, stop, exited, spoiled>>

\* Faulty variant: any job that has been taken is reported as a success.
PollEager(r) ==
    /\ At(r, "poll")
    /\ IF book[job[r]] \in {"running", "succeeded"}
       THEN Answer(r, 200, "succeeded")
       ELSE Goto(r, "pause") /\ UNCHANGED <<code, body>>
    /\ UNCHANGED <<bookVars, job, late, stop, exited, spoiled>>

Poll(r) ==
    /\ At(r, "poll")
    /\ \/ /\ book[job[r]] = "succeeded"
          /\ Answer(r, 200, "succeeded")
       \/ /\ book[job[r]] = "failed"
          /\ Answer(r, 502, "failed")
       \/ /\ book[job[r]] \notin {"succeeded", "failed"}
          /\ Goto(r, "pause")
          /\ UNCHANGED <<code, body>>
    /\ UNCHANGED <<bookVars, job, late, stop, exited, spoiled>>

\* stop_event.wait(0.1), which takes the lock of the event.
Pause(r) ==
    /\ At(r, "pause")
    /\ \/ stop = "clear" /\ Goto(r, "look")
       \/ stop = "set" /\ Goto(r, "lastlook")
    /\ UNCHANGED <<bookVars, job, late, code, body, stop, exited, spoiled>>

\* The answer after the loop is 202, whatever the job has become.
LastLook(r) ==
    /\ At(r, "lastlook")
    /\ Answer(r, 202, book[job[r]])
    /\ UNCHANGED <<bookVars, job, late, stop, exited, spoiled>>

\* The database raises: in the INSERT, which leaves no job, in the get_job that ends
\* enqueue_job, which leaves one in the queue, or in a look at the job.
DatabaseError(r) ==
    /\ ~exited
    /\ pc[r] \in {"new", "enqueued", "poll", "lastlook"}
    /\ Answer(r, 500, "absent")
    /\ UNCHANGED <<bookVars, job, late, stop, exited, spoiled>>

Handle(r) ==
    \/ ParseWait(r) \/ Look(r) \/ Poll(r) \/ Pause(r) \/ LastLook(r)

-----------------------------------------------------------------------------
Deadline(r) ==
    /\ pc[r] \in {"look", "poll", "pause"}
    /\ ~late[r]
    /\ late' = [late EXCEPT ![r] = TRUE]
    /\ UNCHANGED <<bookVars, pc, job, code, body, stop, exited, spoiled>>

Work ==
    /\ \E j \in Jobs :
        /\ Take(j) \/ Succeed(j) \/ GiveUp(j)
        /\ spoiled' = IF book[j] = "succeeded" THEN spoiled \cup {j} ELSE spoiled
    /\ UNCHANGED <<handlerVars, stop, exited>>

\* stop(), which may get stuck with the lock held if a signal calls it.
Stop ==
    /\ stop = "clear"
    /\ stop' \in {"set", "jammed"}
    /\ UNCHANGED <<bookVars, handlerVars, exited, spoiled>>

\* The process ends, asked or not: server_close() does not wait for daemon threads, an
\* exception or a kill does not even set the event.
Exit ==
    /\ ~exited
    /\ exited' = TRUE
    /\ UNCHANGED <<bookVars, handlerVars, stop, spoiled>>

Next ==
    \/ \E r \in Requests :
        \/ Refuse(r) \/ Handle(r) \/ DatabaseError(r) \/ Deadline(r)
        \/ \E j \in Jobs, price \in Prices : Enqueue(r, j, price)
    \/ Work \/ Stop \/ Exit

\* Handler threads run and deadlines come; the worker owes nothing.
Spec ==
    /\ Init /\ [][Next]_vars
    /\ \A r \in Requests : WF_vars(Handle(r)) /\ WF_vars(Deadline(r))

-----------------------------------------------------------------------------
\* Each variable keeps its type, and a handler past the INSERT has a job.
TypeOK ==
    /\ book \in [Jobs -> {"absent", "queued", "running", "succeeded", "failed"}]
    /\ offer \in [Jobs -> Prices \cup {0}]
    /\ credit \in [Jobs -> Prices \cup {0}]
    /\ late \in [Requests -> BOOLEAN]
    /\ body \in [Requests -> {"absent", "queued", "running", "succeeded", "failed"}]
    /\ stop \in {"clear", "set", "jammed"}
    /\ exited \in BOOLEAN
    /\ spoiled \subseteq Jobs
    /\ pc \in [Requests -> {"new", "enqueued", "look", "poll", "pause", "lastlook",
                            "answered"}]
    /\ job \in [Requests -> Jobs \cup {NoJob}]
    /\ code \in [Requests -> {0, 200, 202, 400, 500, 502}]
    /\ \A r \in Requests :
        pc[r] \in {"enqueued", "look", "poll", "pause", "lastlook"} => job[r] \in Jobs

\* 200 means that the request's own job has been credited at its price and has succeeded,
\* 502 that it has failed for good and has been credited nothing -- when the answer is
\* read, not only when it was written.  The one exception is a job whose success could not
\* be printed: it fails after all, and keeps its credit (service.do_POST, docs/API.md,
\* orchestrator.py:160).
AnswerTrue ==
    \A r \in Requests :
        /\ code[r] = 200 => /\ credit[job[r]] = offer[job[r]]
                            /\ book[job[r]] = "succeeded" \/ job[r] \in spoiled
        /\ code[r] = 502 => /\ book[job[r]] = "failed"
                            /\ credit[job[r]] = 0 \/ job[r] \in spoiled

\* The same without the exception.
AnswerFinal ==
    \A r \in Requests :
        /\ code[r] = 200 => credit[job[r]] = offer[job[r]] /\ book[job[r]] = "succeeded"
        /\ code[r] = 502 => credit[job[r]] = 0 /\ book[job[r]] = "failed"

\* A handler that has enqueued its job answers, though the worker may never get to it,
\* unless the process exits first, or a signal jams the event on which handlers pause.
EveryRequestAnswered ==
    \A r \in Requests :
        (pc[r] = "enqueued") ~> (pc[r] = "answered" \/ exited \/ stop = "jammed")

\* docs/API.md: 202 says that the job is still in the queue.
AcceptedIsPending ==
    \A r \in Requests : code[r] = 202 => body[r] \notin {"succeeded", "failed"}
=============================================================================
