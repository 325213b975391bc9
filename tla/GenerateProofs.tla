--------------------------- MODULE GenerateProofs ---------------------------
(***************************************************************************)
(* Types of GenerateRequest, and that what its answers say of a job stays  *)
(* true, for any number of requests, jobs and prices.                      *)
(***************************************************************************)
EXTENDS GenerateRequest, TLAPS

\* The worker's side: a job has been credited its price if it has succeeded, then failed
\* or not, and nothing otherwise.  Only a standard output that breaks spoils a success.
BookSound ==
    /\ \A j \in Jobs :
        credit[j] = IF book[j] = "succeeded" \/ j \in spoiled THEN offer[j] ELSE 0
    /\ \A j \in spoiled : book[j] = "failed"
    /\ spoiled # {} => "stdout" \in Faults

\* The handlers' side: a code is given with the answer, and only of a job of its own.
AnswerSound ==
    \A r \in Requests :
        /\ pc[r] # "answered" => code[r] = 0
        /\ code[r] = 200 =>
            job[r] \in Jobs /\ (book[job[r]] = "succeeded" \/ job[r] \in spoiled)
        /\ code[r] = 502 => job[r] \in Jobs /\ book[job[r]] = "failed"

GenerateInv == TypeOK /\ BookSound /\ AnswerSound

\* A settled job stays as it is or is spoiled, so that a step of the book keeps what has
\* been answered.
Settled ==
    /\ spoiled \subseteq spoiled'
    /\ \A j \in Jobs :
        /\ book[j] = "failed" => book'[j] = "failed"
        /\ book[j] = "succeeded" => book'[j] = "succeeded" \/ j \in spoiled'

BookTypes ==
    /\ book \in [Jobs -> {"absent", "queued", "running", "succeeded", "failed"}]
    /\ offer \in [Jobs -> Prices \cup {0}]
    /\ credit \in [Jobs -> Prices \cup {0}]
    /\ spoiled \subseteq Jobs

LEMMA SubmitSound ==
    ASSUME BookTypes, BookSound, NEW j \in Jobs, NEW price \in Prices, Submit(j, price),
           UNCHANGED spoiled
    PROVE BookTypes' /\ BookSound' /\ Settled
<1>1. BookTypes' /\ j \notin spoiled
    BY DEF BookTypes, BookSound, Submit
<1>2. BookSound' /\ Settled
    BY <1>1 DEF BookTypes, BookSound, Settled, Submit
<1>3. QED
    BY <1>1, <1>2

LEMMA WorkSound ==
    ASSUME BookTypes, BookSound, Work
    PROVE BookTypes' /\ BookSound' /\ Settled
<1>1. PICK j \in Jobs :
        /\ Take(j) \/ Succeed(j) \/ GiveUp(j)
        /\ spoiled' = IF book[j] = "succeeded" THEN spoiled \cup {j} ELSE spoiled
    BY DEF Work
<1>2. CASE Take(j)
    <2>1. spoiled' = spoiled /\ j \notin spoiled
        BY <1>1, <1>2 DEF Take, BookSound
    <2>2. QED
        BY <1>2, <2>1 DEF BookTypes, BookSound, Settled, Take
<1>3. CASE Succeed(j)
    <2>1. spoiled' = spoiled /\ j \notin spoiled
        BY <1>1, <1>3 DEF Succeed, BookSound
    <2>2. QED
        BY <1>3, <2>1 DEF BookTypes, BookSound, Settled, Succeed
<1>4. CASE GiveUp(j) /\ book[j] = "running"
    <2>1. spoiled' = spoiled /\ j \notin spoiled
        BY <1>1, <1>4 DEF BookSound
    <2>2. QED
        BY <1>4, <2>1 DEF BookTypes, BookSound, Settled, GiveUp
<1>5. CASE GiveUp(j) /\ book[j] = "succeeded"
    <2>1. spoiled' = spoiled \cup {j} /\ "stdout" \in Faults
        BY <1>1, <1>5 DEF GiveUp
    <2>2. QED
        BY <1>5, <2>1 DEF BookTypes, BookSound, Settled, GiveUp
<1>6. QED
    BY <1>1, <1>2, <1>3, <1>4, <1>5 DEF GiveUp

LEMMA GenerateInit == ASSUME Init PROVE GenerateInv
<1>1. TypeOK
    <2>1. exited \in BOOLEAN
        BY Zenon DEF Init
    <2>2. QED
        BY <2>1 DEF Init, BookInit, TypeOK
<1>2. BookSound
    BY DEF Init, BookInit, BookSound
<1>3. AnswerSound
    BY DEF Init, AnswerSound
<1>4. QED
    BY <1>1, <1>2, <1>3 DEF GenerateInv

\* A step of one handler that leaves the book alone.
LEMMA HandlerSound ==
    ASSUME GenerateInv, NEW r \in Requests,
           Refuse(r) \/ Handle(r) \/ DatabaseError(r) \/ Deadline(r)
    PROVE GenerateInv'
<1> USE DEF GenerateInv, TypeOK, AnswerSound, Answer, Goto, At
<1>1. UNCHANGED bookVars
    BY DEF Refuse, Handle, ParseWait, Look, Poll, Pause, LastLook, DatabaseError, Deadline
<1>a. UNCHANGED spoiled
    BY DEF Refuse, Handle, ParseWait, Look, Poll, Pause, LastLook, DatabaseError, Deadline
<1>2. BookSound'
    BY <1>1, <1>a DEF BookSound, bookVars
<1>3. UNCHANGED <<book, offer, credit, spoiled>>
    BY <1>1, <1>a DEF bookVars
<1>4. CASE Refuse(r)
    BY <1>2, <1>3, <1>4 DEF Refuse
<1>5. CASE ParseWait(r)
    BY <1>2, <1>3, <1>5 DEF ParseWait
<1>6. CASE Look(r)
    BY <1>2, <1>3, <1>6 DEF Look
<1>7. CASE Poll(r)
    BY <1>2, <1>3, <1>7 DEF Poll
<1>8. CASE Pause(r)
    BY <1>2, <1>3, <1>8 DEF Pause
<1>9. CASE LastLook(r)
    BY <1>2, <1>3, <1>9 DEF LastLook
<1>10. CASE DatabaseError(r)
    BY <1>2, <1>3, <1>10 DEF DatabaseError
<1>11. CASE Deadline(r)
    BY <1>2, <1>3, <1>11 DEF Deadline
<1>12. QED
    BY <1>4, <1>5, <1>6, <1>7, <1>8, <1>9, <1>10, <1>11 DEF Handle

LEMMA EnqueueSound ==
    ASSUME GenerateInv, NEW r \in Requests, NEW j \in Jobs, NEW price \in Prices,
           Enqueue(r, j, price)
    PROVE GenerateInv'
<1>1. BookTypes' /\ BookSound' /\ Settled
    BY SubmitSound DEF GenerateInv, TypeOK, BookTypes, Enqueue
<1>2. TypeOK'
    BY <1>1 DEF BookTypes, GenerateInv, TypeOK, Enqueue, Goto, At
<1>3. AnswerSound'
    BY <1>1 DEF GenerateInv, TypeOK, AnswerSound, Settled, Enqueue, Goto, At
<1>4. QED
    BY <1>1, <1>2, <1>3 DEF GenerateInv

LEMMA GenerateStep ==
    ASSUME GenerateInv, [Next]_vars
    PROVE GenerateInv'
<1>1. ASSUME NEW r \in Requests, Refuse(r) \/ Handle(r) \/ DatabaseError(r) \/ Deadline(r)
      PROVE GenerateInv'
    BY <1>1, HandlerSound
<1>2. ASSUME NEW r \in Requests, NEW j \in Jobs, NEW price \in Prices, Enqueue(r, j, price)
      PROVE GenerateInv'
    BY <1>2, EnqueueSound
<1>3. CASE Work
    <2>1. BookTypes' /\ BookSound' /\ Settled
        BY <1>3, WorkSound DEF GenerateInv, TypeOK, BookTypes
    <2>2. UNCHANGED <<handlerVars, stop, exited>>
        BY <1>3 DEF Work
    <2>3. TypeOK'
        BY <2>1, <2>2 DEF GenerateInv, TypeOK, BookTypes, handlerVars
    <2>4. AnswerSound'
        BY <2>1, <2>2 DEF GenerateInv, TypeOK, AnswerSound, Settled, handlerVars
    <2>5. QED
        BY <2>1, <2>3, <2>4 DEF GenerateInv
<1>4. CASE Stop \/ Exit \/ UNCHANGED vars
    <2>1. UNCHANGED <<bookVars, handlerVars, spoiled>>
        BY <1>4 DEF Stop, Exit, vars
    <2>2. exited' \in BOOLEAN
        BY <1>4, Zenon DEF Stop, Exit, vars, GenerateInv, TypeOK
    <2>3. stop' \in {"clear", "set", "jammed"}
        BY <1>4 DEF Stop, Exit, vars, GenerateInv, TypeOK
    <2>4. TypeOK'
        BY <2>1, <2>2, <2>3 DEF bookVars, handlerVars, GenerateInv, TypeOK
    <2>5. BookSound' /\ AnswerSound'
        BY <2>1 DEF bookVars, handlerVars, GenerateInv, BookSound, AnswerSound
    <2>6. QED
        BY <2>4, <2>5 DEF GenerateInv
<1>5. QED
    BY <1>1, <1>2, <1>3, <1>4 DEF Next

\* Each variable of the requests, of the worker and of the process keeps its type, and a
\* handler past the INSERT has a job (service.do_POST).
THEOREM GenerateTypeCorrect == Spec => []TypeOK
<1>1. GenerateInv => TypeOK
    BY DEF GenerateInv
<1>2. QED
    BY <1>1, GenerateInit, GenerateStep, PTL DEF Spec

\* 200 and 502 are true of the request's own job from the answer on for ever, however
\* other requests, the worker and the end of the process interleave, but for a success
\* that could not be printed (service.do_POST, orchestrator.py:160).
THEOREM AnswersStayTrue == Spec => []AnswerTrue
<1>1. GenerateInv => AnswerTrue
    BY DEF GenerateInv, BookSound, AnswerSound, AnswerTrue
<1>2. QED
    BY <1>1, GenerateInit, GenerateStep, PTL DEF Spec

\* Where standard output does not break there is no such success, and what 200 and 502 say
\* is final (service.do_POST).
THEOREM AnswersAreFinal ==
    ASSUME "stdout" \notin Faults
    PROVE  Spec => []AnswerFinal
<1>1. GenerateInv => AnswerFinal
    BY DEF GenerateInv, BookSound, AnswerSound, AnswerFinal
<1>2. QED
    BY <1>1, GenerateInit, GenerateStep, PTL DEF Spec
=============================================================================
