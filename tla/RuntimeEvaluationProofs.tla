---------------------- MODULE RuntimeEvaluationProofs ----------------------
(* What the policy's evaluations are worth although stats() is four queries one *)
(* after the other, results are ordered by the text of their stamps, and other  *)
(* processes book meanwhile: how many jobs in a row may fail, when the count of *)
(* them is exact, and that a claim is still sound when it is made.              *)
EXTENDS RuntimeBookProofs, RuntimePolicyProofs

\* What the queries of stats() read of the jobs: the rows that are settled.
SinceSuccess ==
    {j \in Failed :
        ~\E s \in Jobs : /\ jobs[s].status = "succeeded"
                         /\ TextLess(jobs[j].updated, jobs[s].updated)}
Settled(j) == jobs[j].status \in {"succeeded", "failed"}

\* Only complete_job and fail_job change what they read.
LEMMA SettledStay ==
    ASSUME TypeInv, [Next]_vars, ~\E w \in Workers : Complete(w) \/ Fail(w)
    PROVE  \A j \in Jobs :
             /\ Settled(j)' = Settled(j)
             /\ Settled(j) => jobs'[j] = jobs[j]
<1> DEFINE Stays(j) == Settled(j)' = Settled(j) /\ (Settled(j) => jobs'[j] = jobs[j])
<1>1. CASE UNCHANGED <<jobs, earned, spent>>
  BY <1>1 DEF Settled
<1>2. ASSUME NEW w \in Workers, Claim(w) PROVE \A j \in Jobs : Stays(j)
  <2>1. CASE UNCHANGED jobs
    BY <2>1 DEF Settled
  <2>2. ASSUME NEW i \in Jobs, ClaimNextJob(i) PROVE \A j \in Jobs : Stays(j)
    <3>1. jobs[i].status = "queued" /\ jobs'[i].status = "running"
      BY <2>2 DEF ClaimNextJob, IsNext, Queued, TypeInv, StorageTypeOK
    <3>2. \A j \in Jobs : j # i => jobs'[j] = jobs[j]
      BY <2>2 DEF ClaimNextJob, TypeInv, StorageTypeOK
    <3> QED BY <3>1, <3>2 DEF Settled
  <2> QED BY <1>2, <2>1, <2>2 DEF Claim, jobVars
<1>3. ASSUME NEW w \in Workers, NEW i \in Jobs, InsertJob(w, i)
      PROVE  \A j \in Jobs : Stays(j)
  <2>1. jobs[i].status = "absent" /\ jobs'[i].status = "queued"
    BY <1>3 DEF InsertJob, EnqueueJob, TypeInv, StorageTypeOK
  <2>2. \A j \in Jobs : j # i => jobs'[j] = jobs[j]
    BY <1>3 DEF InsertJob, EnqueueJob, TypeInv, StorageTypeOK
  <2> QED BY <2>1, <2>2 DEF Settled
<1>4. ASSUME NEW w \in Workers, NEW i \in Jobs, NEW price \in Prices, PostJob(w, i, price)
      PROVE  \A j \in Jobs : Stays(j)
  <2>1. jobs[i].status = "absent" /\ jobs'[i].status = "absent"
    BY <1>4 DEF PostJob, DrawJob, NoRow, TypeInv, StorageTypeOK
  <2>2. \A j \in Jobs : j # i => jobs'[j] = jobs[j]
    BY <1>4 DEF PostJob, DrawJob, TypeInv, StorageTypeOK
  <2> QED BY <2>1, <2>2 DEF Settled
<1> QED BY <1>1, <1>2, <1>3, <1>4, BookWriters

LEMMA QueriesStay ==
    ASSUME TypeInv, [Next]_vars, ~\E w \in Workers : Complete(w) \/ Fail(w)
    PROVE  SinceSuccess' = SinceSuccess /\ SucceededJobs' = SucceededJobs
<1>1. \A j \in Jobs :
        /\ (jobs'[j].status = "succeeded") <=> (jobs[j].status = "succeeded")
        /\ (jobs'[j].status = "failed") <=> (jobs[j].status = "failed")
        /\ jobs[j].status \in {"succeeded", "failed"} => jobs'[j].updated = jobs[j].updated
  BY SettledStay DEF Settled
<1>2. {j \in Jobs : jobs'[j].status = "succeeded"} = {j \in Jobs : jobs[j].status = "succeeded"}
  BY <1>1
<1>3. SucceededJobs' = SucceededJobs
  BY <1>2 DEF SucceededJobs
<1>4. Failed' = Failed
  BY <1>1 DEF Failed
<1>5. \A j \in Failed :
        (\E s \in Jobs : /\ jobs'[s].status = "succeeded"
                         /\ TextLess(jobs'[j].updated, jobs'[s].updated))
        <=> (\E s \in Jobs : /\ jobs[s].status = "succeeded"
                             /\ TextLess(jobs[j].updated, jobs[s].updated))
  BY <1>1 DEF Failed
<1>6. SinceSuccess' = SinceSuccess
  BY <1>4, <1>5 DEF SinceSuccess
<1> QED BY <1>3, <1>6

LEMMA StreakStays ==
    ASSUME [Next]_vars, ~\E w \in Workers : Complete(w) \/ Fail(w)
    PROVE  streak' = streak
<1> USE DEF history
<1>1. ASSUME NEW w \in Workers, Step(w) PROVE streak' = streak
  <2>1. ASSUME \/ Starting(w) \/ Loop(w)
               \/ ReadTotals(w) \/ ReadDaily(w) \/ ReadCounts(w) \/ ReadRecent(w)
               \/ Decide(w) \/ Report(w) \/ Persist(w)
        PROVE  streak' = streak
    BY <2>1 DEF Starting, Loop, ReadTotals, ReadDaily, ReadCounts, ReadRecent,
                Reads, Decide, Report, Persist
  <2>2. ASSUME \/ Claim(w) \/ Announce(w) \/ Generate(w)
               \/ Running(w) \/ Final(w) \/ WriteEnd(w) \/ Shutdown(w)
        PROVE  streak' = streak
    BY <2>2 DEF Claim, Announce, Generate, Running, Final, WriteEnd, Shutdown
  <2> QED BY <1>1, <2>1, <2>2 DEF Step
<1>2. ASSUME NEW w \in Workers, Start(w) \/ Signal(w) \/ Jam(w) \/ Crash(w) \/ Raises(w)
      PROVE  streak' = streak
  BY <1>2 DEF Start, Signal, Jam, Crash, Raises
<1>3. ASSUME NEW w \in Workers, NEW j \in Jobs,
             InsertJob(w, j) \/ \E price \in Prices : PostJob(w, j, price)
      PROVE  streak' = streak
  BY <1>3 DEF InsertJob, PostJob
<1>4. ASSUME \/ PostHalt \/ PostClearHalt \/ Midnight
             \/ \E kind \in OperatorKinds, amount \in Amounts : PostLedger(kind, amount)
      PROVE  streak' = streak
  BY <1>4 DEF PostHalt, PostClearHalt, Midnight, PostLedger
<1>5. CASE UNCHANGED vars
  BY <1>5 DEF vars
<1> QED BY <1>1, <1>2, <1>3, <1>4, <1>5 DEF Next, Environment

\* The clock only goes forward, and a process that is about to settle a job has the stamp
\* that it had, or one just read.
LEMMA StampWriters ==
    ASSUME TypeInv, [Next]_vars
    PROVE  /\ clock <= clock' /\ day <= day'
           /\ \A v \in Workers : Stamped(v)' =>
                \/ Stamped(v) /\ mem'[v].stamp = mem[v].stamp
                \/ mem'[v].stamp = Now /\ clock' = clock + 1
<1> DEFINE Forward == clock <= clock' /\ day <= day'
           Kept(v) == Stamped(v)' => \/ Stamped(v) /\ mem'[v].stamp = mem[v].stamp
                                     \/ mem'[v].stamp = Now /\ clock' = clock + 1
<1>0. clock \in Nat /\ day \in Nat
  BY DEF TypeInv, StorageTypeOK, Days
<1>a. ASSUME NEW w \in Workers,
             NEW label \in Labels \ {"complete", "fail"}, Goto(w, label),
             UNCHANGED mem \/ \E m : Keep(w, m)
      PROVE  \A v \in Workers : Kept(v)
  <2>1. \A v \in Workers : v # w => pc'[v] = pc[v] /\ mem'[v] = mem[v]
    BY <1>a, OnlyFrame DEF Only
  <2>2. ~Stamped(w)'
    BY <1>a, Arrives DEF Stamped
  <2> QED BY <2>1, <2>2 DEF Stamped
<1>b. UNCHANGED timeVars => Forward
  BY <1>0 DEF timeVars
<1>c. ReadClock => Forward
  BY <1>0 DEF ReadClock
<1>d. UNCHANGED <<pc, mem>> => \A v \in Workers : Kept(v)
  BY DEF Stamped
<1>1. ASSUME NEW w \in Workers,
             \/ Starting(w) \/ Loop(w) \/ Decide(w) \/ Report(w) \/ Persist(w)
             \/ ReadTotals(w) \/ ReadDaily(w) \/ ReadCounts(w) \/ ReadRecent(w)
             \/ Announce(w) \/ Running(w) \/ Final(w) \/ WriteEnd(w) \/ Start(w)
      PROVE  Forward /\ \A v \in Workers : Kept(v)
  <2> DEFINE after == {"starting", "loop", "totals", "daily", "counts", "recent", "decide",
                       "report", "persist", "claim", "generate", "final", "endHalted",
                       "endStopped", "shutdown"}
  <2>1. UNCHANGED timeVars
    BY <1>1 DEF Starting, Loop, Decide, Report, Persist, ReadTotals, ReadDaily, ReadCounts,
                ReadRecent, Reads, Announce, Running, Final, WriteEnd, Start, storageVars
  <2>2. \E label \in after : Goto(w, label)
    BY <1>1 DEF Starting, Loop, Decide, Report, Persist, ReadTotals, ReadDaily, ReadCounts,
                ReadRecent, Reads, Announce, Running, Final, WriteEnd, Start, Proceed
  <2>3. UNCHANGED mem \/ \E m : Keep(w, m)
    BY <1>1 DEF Starting, Loop, Decide, Report, Persist, ReadTotals, ReadDaily, ReadCounts,
                ReadRecent, Reads, Announce, Running, Final, WriteEnd, Start, Proceed
  <2>4. after \subseteq Labels \ {"complete", "fail"}
    BY DEF Labels
  <2> HIDE DEF after
  <2> QED BY <1>a, <1>b, <2>1, <2>2, <2>3, <2>4
<1>2. ASSUME NEW w \in Workers, Shutdown(w) \/ Jam(w) \/ Crash(w)
      PROVE  Forward /\ \A v \in Workers : Kept(v)
  <2>1. UNCHANGED timeVars
    BY <1>2 DEF Shutdown, Jam, Crash, storageVars
  <2>2. (\E how \in Ended \cup {"stuck"} : Goto(w, how)) /\ \E m : Keep(w, m)
    BY <1>2 DEF Shutdown, Jam, Crash, End, Ended
  <2>3. Ended \cup {"stuck"} \subseteq Labels \ {"complete", "fail"}
    BY DEF Labels, Down, Ended
  <2> QED BY <1>a, <1>b, <2>1, <2>2, <2>3
<1>3. ASSUME NEW w \in Workers, Claim(w) PROVE Forward /\ \A v \in Workers : Kept(v)
  <2>1. UNCHANGED timeVars \/ ReadClock
    BY <1>3 DEF Claim, ClaimNextJob
  <2>2. \E label \in {"loop", "announce"} : Goto(w, label)
    BY <1>3 DEF Claim, Proceed
  <2>3. UNCHANGED mem \/ \E m : Keep(w, m)
    BY <1>3 DEF Claim, Proceed
  <2>4. {"loop", "announce"} \subseteq Labels \ {"complete", "fail"}
    BY DEF Labels
  <2> QED BY <1>a, <1>b, <1>c, <2>1, <2>2, <2>3, <2>4
<1>4. ASSUME NEW w \in Workers, ReadClock, Keep(w, [mem[w] EXCEPT !.stamp = Now]),
             NEW label \in {"complete", "fail"}, Goto(w, label)
      PROVE  Forward /\ \A v \in Workers : Kept(v)
  <2>1. \A v \in Workers : v # w => pc'[v] = pc[v] /\ mem'[v] = mem[v]
    BY <1>4, OnlyFrame DEF Only, Labels
  <2>2. mem'[w].stamp = Now /\ clock' = clock + 1
    BY <1>4 DEF Keep, ReadClock, TypeInv, Control, Memory
  <2> QED BY <1>c, <1>4, <2>1, <2>2 DEF Stamped
<1>5. ASSUME NEW w \in Workers, Generate(w) PROVE Forward /\ \A v \in Workers : Kept(v)
  BY <1>4, <1>5 DEF Generate
<1>6. ASSUME NEW w \in Workers, Complete(w) \/ Fail(w)
      PROVE  Forward /\ \A v \in Workers : Kept(v)
  <2>1. "running" \in Labels \ {"complete", "fail"}
    BY DEF Labels
  <2>2. CASE Goto(w, "running") /\ (\E m : Keep(w, m)) /\ UNCHANGED timeVars
    BY <1>a, <1>b, <2>1, <2>2
  <2>3. CASE Goto(w, "fail") /\ Keep(w, [mem[w] EXCEPT !.stamp = Now]) /\ ReadClock
    BY <1>4, <2>3
  <2> QED BY <1>6, <2>2, <2>3 DEF Complete, Fail
<1>7. ASSUME NEW w \in Workers, Raises(w) PROVE Forward /\ \A v \in Workers : Kept(v)
  <2>1. CASE RaisesInJob(w)
    BY <1>4, <2>1 DEF RaisesInJob
  <2>2. CASE RaisesInHandler(w) \/ RaisesInLoop(w) \/ RaisesOutside(w)
    <3>1. UNCHANGED timeVars /\ \E m : Keep(w, m)
      BY <2>2 DEF RaisesInHandler, RaisesInLoop, RaisesOutside, End
    <3>2. \E label \in {"running", "final", "error"} : Goto(w, label)
      BY <2>2 DEF RaisesInHandler, RaisesInLoop, RaisesOutside, End
    <3>3. {"running", "final", "error"} \subseteq Labels \ {"complete", "fail"}
      BY DEF Labels, Down, Ended
    <3> QED BY <1>a, <1>b, <3>1, <3>2, <3>3
  <2> QED BY <1>7, <2>1, <2>2 DEF Raises
<1>8. ASSUME \/ \E w \in Workers : Signal(w)
             \/ \E w \in Workers, j \in Jobs : InsertJob(w, j)
             \/ \E kind \in OperatorKinds, amount \in Amounts : PostLedger(kind, amount)
             \/ PostHalt \/ PostClearHalt \/ UNCHANGED vars
      PROVE  Forward /\ \A v \in Workers : Kept(v)
  <2>1. UNCHANGED timeVars /\ UNCHANGED <<pc, mem>>
    BY <1>8 DEF Signal, InsertJob, PostLedger, PostHalt, PostClearHalt, vars, storageVars
  <2> QED BY <1>b, <1>d, <2>1
<1>9. ASSUME NEW w \in Workers, NEW j \in Jobs, NEW price \in Prices, PostJob(w, j, price)
      PROVE  Forward /\ \A v \in Workers : Kept(v)
  BY <1>c, <1>d, <1>9 DEF PostJob, DrawJob
<1>10. ASSUME Midnight PROVE Forward /\ \A v \in Workers : Kept(v)
  BY <1>0, <1>d, <1>10 DEF Midnight
<1> QED BY <1>1, <1>2, <1>3, <1>5, <1>6, <1>7, <1>8, <1>9, <1>10
        DEF Next, Step, Environment

-----------------------------------------------------------------------------
\* Sizes of finite sets.
LEMMA Smaller ==
    ASSUME NEW S, IsFiniteSet(S), NEW T \in SUBSET S
    PROVE  /\ IsFiniteSet(T)
           /\ Cardinality(T) \in Nat /\ Cardinality(S) \in Nat
           /\ Cardinality(T) <= Cardinality(S)
<1>1. IsFiniteSet(T) /\ Cardinality(T) <= Cardinality(S)
  BY FS_Subset
<1> QED BY <1>1, FS_CardinalityType

LEMMA OneLess ==
    ASSUME NEW S, IsFiniteSet(S), NEW x \in S, NEW T \in SUBSET (S \ {x})
    PROVE  /\ Cardinality(T) \in Nat /\ Cardinality(S) \in Nat
           /\ Cardinality(T) <= Cardinality(S) - 1
<1>1. IsFiniteSet(S \ {x}) /\ Cardinality(S \ {x}) = Cardinality(S) - 1
  BY FS_RemoveElement
<1>2. Cardinality(S) \in Nat
  BY FS_CardinalityType
<1>3. Cardinality(T) \in Nat /\ Cardinality(T) <= Cardinality(S \ {x})
  BY <1>1, Smaller
<1> QED BY <1>1, <1>2, <1>3

LEMMA OneMore ==
    ASSUME NEW S, IsFiniteSet(S), NEW x, NEW T \in SUBSET (S \cup {x})
    PROVE  /\ Cardinality(T) \in Nat /\ Cardinality(S) \in Nat
           /\ Cardinality(T) <= Cardinality(S) + 1
<1>1. /\ IsFiniteSet(S \cup {x})
      /\ Cardinality(S \cup {x}) = IF x \in S THEN Cardinality(S) ELSE Cardinality(S) + 1
  BY FS_AddElement
<1>2. Cardinality(S) \in Nat
  BY FS_CardinalityType
<1>3. Cardinality(T) \in Nat /\ Cardinality(T) <= Cardinality(S \cup {x})
  BY <1>1, Smaller
<1> QED BY <1>1, <1>2, <1>3

LEMMA SinceTypes ==
    /\ SinceSuccess \in SUBSET Jobs /\ SinceSuccess' \in SUBSET Jobs
    /\ IsFiniteSet(SinceSuccess) /\ IsFiniteSet(SinceSuccess')
    /\ Cardinality(SinceSuccess) \in Nat /\ Cardinality(SinceSuccess') \in Nat
    /\ ConsecutiveFailures = Cardinality(SinceSuccess)
<1>1. SinceSuccess \in SUBSET Jobs /\ SinceSuccess' \in SUBSET Jobs
  BY DEF SinceSuccess, Failed
<1>2. /\ IsFiniteSet(SinceSuccess) /\ IsFiniteSet(SinceSuccess')
      /\ Cardinality(SinceSuccess) \in Nat /\ Cardinality(SinceSuccess') \in Nat
  BY <1>1, StorageAssumption, Smaller
<1> QED BY <1>1, <1>2 DEF SinceSuccess, ConsecutiveFailures

\* The text order of stamps is the order of time, unless the earlier one is on the second.
LEMMA Divides ==
    ASSUME NEW m \in Nat \ {0}, NEW a \in Nat
    PROVE  /\ a \div m \in Nat /\ a % m \in 0 .. m - 1
           /\ a = m * (a \div m) + (a % m)
<1>1. a \div m \in Nat /\ a % m \in 0 .. m - 1
  OBVIOUS
<1>2. a = m * (a \div m) + (a % m)
  OBVIOUS
<1> QED BY <1>1, <1>2

LEMMA Quotients ==
    ASSUME NEW m \in Nat \ {0}, NEW p \in Nat, NEW q \in Nat,
           NEW r \in 0 .. m - 1, NEW s \in 0 .. m - 1,
           m * p + r < m * q + s
    PROVE  p <= q /\ (p = q => r < s)
<1>1. CASE q < p
  <2>1. PICK k \in Nat : p = q + 1 + k
    <3>1. p - (q + 1) \in Nat /\ p = q + 1 + (p - (q + 1))
      BY <1>1
    <3> QED BY <3>1
  <2>2. m * p = m * q + m + m * k
    BY <2>1
  <2>3. m * k \in Nat /\ m * q \in Nat
    OBVIOUS
  <2> QED BY <2>2, <2>3
<1> QED BY <1>1

OffTheSecond(at) == at % MicrosPerSecond # 0

LEMMA TextOrder ==
    ASSUME NEW a \in Nat, NEW b \in Nat, a < b, OffTheSecond(a)
    PROVE  TextLess(a, b) /\ ~TextLess(b, a)
<1> DEFINE m == MicrosPerSecond
           p == a \div m
           q == b \div m
           r == a % m
           s == b % m
<1>1. m \in Nat \ {0}
  BY StorageAssumption
<1>2. /\ p \in Nat /\ r \in 0 .. m - 1 /\ a = m * p + r
      /\ q \in Nat /\ s \in 0 .. m - 1 /\ b = m * q + s
  BY <1>1, Divides
<1>3. p <= q /\ (p = q => r < s)
  <2> HIDE DEF m, p, q, r, s
  <2> QED BY <1>1, <1>2, Quotients
<1>4. r # 0
  BY DEF OffTheSecond
<1>5. /\ Second(a) = p /\ Second(b) = q
      /\ Fraction(a) = r
      /\ Fraction(b) = IF s = 0 THEN m ELSE s
  BY DEF Second, Fraction, OffTheSecond
<1> HIDE DEF m, p, q, r, s
<1> QED BY <1>1, <1>2, <1>3, <1>4, <1>5 DEF TextLess

-----------------------------------------------------------------------------
\* The row of a job that complete_job or fail_job settles.
LEMMA CompleteRow ==
    ASSUME TypeInv, NEW w \in Workers, Complete(w)
    PROVE  /\ mem[w].held \in Jobs /\ Stamped(w) /\ mem[w].stamp.at \in Nat
           /\ jobs'[mem[w].held].status = "succeeded"
           /\ jobs'[mem[w].held].updated = mem[w].stamp.at
           /\ \A j \in Jobs : j # mem[w].held => jobs'[j] = jobs[j]
<1>1. mem[w].held \in Jobs /\ Stamped(w) /\ mem[w].stamp.at \in Nat
  BY HeldTypes DEF Complete, AtWork, Stamped, TypeInv, Control, Memory, Stamp
<1> QED BY <1>1 DEF Complete, CompleteJob, TypeInv, StorageTypeOK

LEMMA FailRow ==
    ASSUME TypeInv, NEW w \in Workers, Fail(w)
    PROVE  /\ mem[w].held \in Jobs /\ Stamped(w) /\ mem[w].stamp.at \in Nat
           /\ jobs'[mem[w].held].status = "failed"
           /\ jobs'[mem[w].held].updated = mem[w].stamp.at
           /\ \A j \in Jobs : j # mem[w].held => jobs'[j] = jobs[j]
<1>1. mem[w].held \in Jobs /\ Stamped(w) /\ mem[w].stamp.at \in Nat
  BY HeldTypes DEF Fail, AtWork, Stamped, TypeInv, Control, Memory, Stamp
<1> QED BY <1>1 DEF Fail, FailJob, TypeInv, StorageTypeOK

\* The job in hand is running, and where a process goes, if printing cannot fail.
LEMMA Settles ==
    ASSUME "stdout" \notin Faults, TypeInv, ClaimInv, NEW w \in Workers,
           Complete(w) \/ Fail(w)
    PROVE  /\ jobs[mem[w].held].status = "running"
           /\ pc[w] \in {"complete", "fail"} /\ pc'[w] = "running"
           /\ \A v \in Workers : v # w => pc'[v] = pc[v] /\ mem'[v] = mem[v]
<1>1. pc[w] \in AtWork /\ pc[w] \in {"complete", "fail"}
  BY DEF Complete, Fail, AtWork
<1>2. jobs[mem[w].held].status = "running"
  BY <1>1 DEF ClaimInv, Owns
<1>3. Goto(w, "running") /\ \E m : Keep(w, m)
  BY DEF Complete, Fail
<1>4. Only(w)
  BY <1>3 DEF Only, Labels
<1> QED BY <1>1, <1>2, <1>3, <1>4, OnlyFrame, Arrives

\* Nothing that has been settled or is about to be is stamped later than now.
ClockInv ==
    /\ \A j \in Jobs : Settled(j) => jobs[j].updated <= clock
    /\ \A w \in Workers : Stamped(w) => mem[w].stamp.at <= clock

LEMMA ClockInit == Init => ClockInv
BY DEF Init, StorageInit, NoRow, ClockInv, Settled, Stamped

LEMMA ClockStep == TypeInv /\ TypeInv' /\ ClockInv /\ [Next]_vars => ClockInv'
<1> SUFFICES ASSUME TypeInv, TypeInv', ClockInv, [Next]_vars PROVE ClockInv'
  OBVIOUS
<1>1. /\ clock <= clock' /\ clock \in Nat /\ clock' \in Nat
      /\ \A j \in Jobs : jobs[j].updated \in Nat
      /\ \A w \in Workers : mem[w].stamp.at \in Nat
  BY StampWriters DEF TypeInv, StorageTypeOK, Control, Memory, Stamp
<1>2. \A w \in Workers : Stamped(w)' => mem'[w].stamp.at <= clock'
  <2>1. \A w \in Workers : Stamped(w)' =>
          \/ Stamped(w) /\ mem'[w].stamp = mem[w].stamp
          \/ mem'[w].stamp = Now /\ clock' = clock + 1
    BY StampWriters
  <2>2. Now.at = clock + 1
    BY DEF Now
  <2> QED BY <1>1, <2>1, <2>2 DEF ClockInv
<1>3. CASE ~\E w \in Workers : Complete(w) \/ Fail(w)
  <2>1. \A j \in Jobs : Settled(j)' => Settled(j) /\ jobs'[j] = jobs[j]
    BY <1>3, SettledStay
  <2>2. \A j \in Jobs : Settled(j)' => jobs'[j].updated <= clock'
    BY <1>1, <2>1 DEF ClockInv
  <2> QED BY <1>2, <2>2 DEF ClockInv
<1>4. ASSUME NEW w \in Workers, Complete(w) \/ Fail(w) PROVE ClockInv'
  <2>1. /\ Stamped(w) /\ mem[w].held \in Jobs
        /\ jobs'[mem[w].held].updated = mem[w].stamp.at
        /\ \A j \in Jobs : j # mem[w].held => jobs'[j] = jobs[j]
    BY <1>4, CompleteRow, FailRow
  <2>2. jobs'[mem[w].held].updated <= clock'
    BY <1>1, <2>1 DEF ClockInv
  <2>3. \A j \in Jobs : j # mem[w].held => (Settled(j)' => jobs'[j].updated <= clock')
    BY <1>1, <2>1 DEF ClockInv, Settled
  <2> QED BY <1>2, <2>2, <2>3 DEF ClockInv
<1> QED BY <1>3, <1>4

-----------------------------------------------------------------------------
\* Why failures in a row are limited.  A process awaits its turn from the moment at which
\* it has counted fewer failures than the limit until it has settled its job; whoever
\* counted last saw room for one more, and the others are n - 1.  A process is overtaken
\* if a success is stamped later than the result it is about to book: such a failure
\* counts in the streak and not for the policy, and each of the n - 1 others can be
\* overtaken only once by the success that ended the last streak.
Awaits(w) ==
    \/ InFlight(w)
    \/ /\ pc[w] = "decide"
       /\ mem[w].busy
       /\ mem[w].view.failures < MaximumConsecutiveFailures
Awaiting == {w \in Workers : Awaits(w)}
IsOvertaken(w) ==
    /\ Stamped(w)
    /\ \E s \in Jobs : /\ jobs[s].status = "succeeded"
                       /\ TextLess(mem[w].stamp.at, jobs[s].updated)
Overtaken == {w \in Workers : IsOvertaken(w)}

LimitInv ==
    Cardinality(SinceSuccess) + Cardinality(Awaiting)
        <= MaximumConsecutiveFailures + Cardinality(Workers) - 1
HiddenInv ==
    streak + Cardinality(Overtaken)
        <= Cardinality(SinceSuccess) + Cardinality(Workers) - 1

\* Only a process that has read its count begins to wait.
LEMMA AwaitWriters ==
    ASSUME MaximumConsecutiveFailures # 0, TypeInv, [Next]_vars, NEW v \in Workers, Awaits(v)'
    PROVE  \/ Awaits(v)
           \/ ReadRecent(v) /\ ConsecutiveFailures < MaximumConsecutiveFailures
<1> DEFINE Goal == \/ Awaits(v)
                   \/ ReadRecent(v) /\ ConsecutiveFailures < MaximumConsecutiveFailures
           Idle == Labels \ (AtWork \cup {"claim", "report", "decide"})
<1>0. mem[v] \in Memory
  BY DEF TypeInv, Control
<1>1. CASE pc'[v] = pc[v] /\ mem'[v] = mem[v]
  BY <1>1 DEF Awaits, InFlight
<1>2. ASSUME NEW w \in Workers, Only(w), v # w PROVE Goal
  BY <1>1, <1>2, OnlyFrame
<1>3. ASSUME NEW w \in Workers, NEW label \in Idle, Goto(w, label),
             UNCHANGED mem \/ \E m : Keep(w, m)
      PROVE  Goal
  <2>1. Only(w)
    BY <1>3 DEF Only
  <2>2. pc'[w] = label
    BY <1>3, Arrives
  <2>3. v # w
    BY <2>2, <1>3 DEF Awaits, InFlight
  <2> QED BY <1>2, <2>1, <2>3
<1>4. ASSUME NEW w \in Workers, NEW label \in AtWork \cup {"claim"}, Goto(w, label),
             UNCHANGED mem \/ \E m : Keep(w, m), InFlight(w)
      PROVE  Goal
  <2>1. Only(w)
    BY <1>4 DEF Only, Labels, AtWork
  <2> QED BY <1>2, <1>4, <2>1 DEF Awaits
<1>5. ASSUME NEW w \in Workers,
             \/ Starting(w) \/ Loop(w) \/ Persist(w) \/ Running(w) \/ Final(w) \/ WriteEnd(w)
             \/ ReadTotals(w) \/ ReadDaily(w) \/ ReadCounts(w) \/ Start(w)
      PROVE  Goal
  <2> DEFINE after == {"starting", "loop", "totals", "daily", "counts", "recent", "final",
                       "endHalted", "endStopped", "shutdown"}
  <2>1. \E label \in after : Goto(w, label)
    BY <1>5 DEF Starting, Loop, Persist, Running, Final, WriteEnd, ReadTotals, ReadDaily,
                ReadCounts, Reads, Start, Proceed
  <2>2. UNCHANGED mem \/ \E m : Keep(w, m)
    BY <1>5 DEF Starting, Loop, Persist, Running, Final, WriteEnd, ReadTotals, ReadDaily,
                ReadCounts, Reads, Start, Proceed
  <2>3. after \subseteq Idle
    BY DEF Labels, AtWork
  <2> HIDE DEF after, Idle
  <2> QED BY <1>3, <2>1, <2>2, <2>3
<1>6. ASSUME NEW w \in Workers, Shutdown(w) \/ Jam(w) \/ Crash(w) PROVE Goal
  <2>1. (\E how \in Ended \cup {"stuck"} : Goto(w, how)) /\ \E m : Keep(w, m)
    BY <1>6 DEF Shutdown, Jam, Crash, End, Ended
  <2>2. Ended \cup {"stuck"} \subseteq Idle
    BY DEF Labels, Down, Ended, AtWork
  <2> HIDE DEF Idle
  <2> QED BY <1>3, <2>1, <2>2
<1>7. ASSUME NEW w \in Workers, ReadRecent(w) PROVE Goal
  <2>1. Only(w)
    BY <1>7 DEF ReadRecent, Reads, Only, Labels
  <2>2. CASE v = w
    <3>1. pc'[w] = "decide" /\ mem'[w].view.failures = ConsecutiveFailures
      BY <1>7 DEF ReadRecent, Reads, Goto, Keep, TypeInv, Control, Memory, Statistics
    <3> QED BY <1>7, <2>2, <3>1 DEF Awaits, InFlight, AtWork
  <2> QED BY <1>2, <2>1, <2>2
<1>8. ASSUME NEW w \in Workers, Decide(w) PROVE Goal
  <2>1. Only(w)
    BY <1>8 DEF Decide, Only, Labels
  <2>2. CASE v = w
    <3>1. /\ pc[w] = "decide" /\ pc'[w] = "report"
          /\ mem'[w].verdict = Evaluate(mem[w].view, NextCost(w), haltReason, mem[w].idle)
          /\ mem'[w].busy = mem[w].busy
      BY <1>8 DEF Decide, Goto, Keep, TypeInv, Control, Memory
    <3>2. mem'[w].verdict = Continue /\ mem[w].busy
      BY <2>2, <3>1 DEF Awaits, InFlight, AtWork
    <3>3. Objections(mem[w].view, NextCost(w), mem[w].idle) = {}
      BY <3>1, <3>2, EvaluateType
    <3>4. ~Applies("failures", mem[w].view, NextCost(w), mem[w].idle)
      BY <3>3 DEF Objections, PolicyReasons, Rank
    <3>5. mem[w].view.failures < MaximumConsecutiveFailures
      <4>1. mem[w].view.failures \in Nat
        BY DEF TypeInv, Control, Memory, Statistics
      <4> QED BY <3>4, <4>1, PolicyAssumption DEF Applies
    <3> QED BY <2>2, <3>1, <3>2, <3>5 DEF Awaits
  <2> QED BY <1>2, <2>1, <2>2
<1>9. ASSUME NEW w \in Workers, Report(w) PROVE Goal
  <2>1. UNCHANGED mem \/ \E m : Keep(w, m)
    BY <1>9 DEF Report, Proceed
  <2>2. CASE mem[w].verdict = Continue /\ mem[w].busy
    BY <1>4, <1>9, <2>1, <2>2 DEF Report, InFlight
  <2>3. CASE ~(mem[w].verdict = Continue /\ mem[w].busy)
    <3>1. Goto(w, "persist") \/ Goto(w, "loop")
      BY <1>9, <2>3 DEF Report, Proceed
    <3>2. "persist" \in Idle /\ "loop" \in Idle
      BY DEF Labels, AtWork
    <3> HIDE DEF Idle
    <3> QED BY <1>3, <2>1, <3>1, <3>2
  <2> QED BY <2>2, <2>3
<1>10. ASSUME NEW w \in Workers, Claim(w) \/ Announce(w) \/ Generate(w) PROVE Goal
  <2>1. InFlight(w) /\ (UNCHANGED mem \/ \E m : Keep(w, m))
    BY <1>10 DEF Claim, Announce, Generate, InFlight, AtWork, Proceed
  <2>2. \/ \E label \in AtWork \cup {"claim"} : Goto(w, label)
        \/ Goto(w, "loop")
    BY <1>10 DEF Claim, Announce, Generate, AtWork, Proceed
  <2>3. "loop" \in Idle
    BY DEF Labels, AtWork
  <2> HIDE DEF Idle
  <2> QED BY <1>3, <1>4, <2>1, <2>2, <2>3
<1>11. ASSUME NEW w \in Workers, Complete(w) \/ Fail(w) PROVE Goal
  <2>1. InFlight(w) /\ \E m : Keep(w, m)
    BY <1>11 DEF Complete, Fail, InFlight, AtWork
  <2>2. Goto(w, "running") \/ Goto(w, "fail")
    BY <1>11 DEF Complete, Fail
  <2>3. "running" \in Idle /\ "fail" \in AtWork
    BY DEF Labels, AtWork
  <2> HIDE DEF Idle
  <2> QED BY <1>3, <1>4, <2>1, <2>2, <2>3
<1>12. ASSUME NEW w \in Workers, Raises(w) PROVE Goal
  <2>1. \E m : Keep(w, m)
    BY <1>12 DEF Raises, RaisesInJob, RaisesInHandler, RaisesInLoop, RaisesOutside, End
  <2>2. \/ InFlight(w) /\ Goto(w, "fail")
        \/ \E label \in {"running", "final", "error"} : Goto(w, label)
    BY <1>12 DEF Raises, RaisesInJob, RaisesInHandler, RaisesInLoop, RaisesOutside, End,
                 InFlight, AtWork
  <2>3. {"running", "final", "error"} \subseteq Idle /\ "fail" \in AtWork
    BY DEF Labels, Down, Ended, AtWork
  <2> HIDE DEF Idle
  <2> QED BY <1>3, <1>4, <2>1, <2>2, <2>3
<1>13. ASSUME \/ \E w \in Workers : Signal(w)
              \/ \E w \in Workers, j \in Jobs :
                   InsertJob(w, j) \/ \E price \in Prices : PostJob(w, j, price)
              \/ \E kind \in OperatorKinds, amount \in Amounts : PostLedger(kind, amount)
              \/ PostHalt \/ PostClearHalt \/ Midnight \/ UNCHANGED vars
       PROVE  Goal
  <2>1. UNCHANGED <<pc, mem>>
    BY <1>13 DEF Signal, InsertJob, PostJob, PostLedger, PostHalt, PostClearHalt, Midnight,
                 vars
  <2> QED BY <1>1, <2>1
<1> QED BY <1>5, <1>6, <1>7, <1>8, <1>9, <1>10, <1>11, <1>12, <1>13
        DEF Next, Step, Environment

\* Several processes may run, and printing works.
Printing == IsFiniteSet(Workers) /\ Workers # {} /\ "stdout" \notin Faults

LEMMA WorkersCounted ==
    ASSUME Printing
    PROVE  /\ Cardinality(Workers) \in Nat
           /\ \A S \in SUBSET Workers :
                /\ IsFiniteSet(S)
                /\ Cardinality(S) \in Nat /\ Cardinality(S) <= Cardinality(Workers)
           /\ Awaiting \in SUBSET Workers /\ Awaiting' \in SUBSET Workers
           /\ Overtaken \in SUBSET Workers /\ Overtaken' \in SUBSET Workers
<1>1. \A S \in SUBSET Workers :
        /\ IsFiniteSet(S)
        /\ Cardinality(S) \in Nat /\ Cardinality(S) <= Cardinality(Workers)
  BY Smaller DEF Printing
<1>2. Cardinality(Workers) \in Nat
  BY <1>1
<1> QED BY <1>1, <1>2 DEF Awaiting, Overtaken

LEMMA LimitInit ==
    ASSUME Printing, MaximumConsecutiveFailures # 0 PROVE Init => LimitInv
<1> SUFFICES ASSUME Init PROVE LimitInv
  OBVIOUS
<1>1. SinceSuccess = {}
  BY DEF Init, StorageInit, NoRow, SinceSuccess, Failed
<1>2. Awaiting = {}
  BY DEF Init, Awaiting, Awaits, InFlight, AtWork
<1>3. Cardinality({}) = 0
  BY FS_EmptySet
<1>4. Cardinality(Workers) \in Nat
  BY WorkersCounted
<1> QED BY <1>1, <1>2, <1>3, <1>4, PolicyAssumption DEF LimitInv

\* A success ends the streak of some failures, and a failure adds at most itself.
LEMMA SinceCompleted ==
    ASSUME TypeInv, NEW w \in Workers, Complete(w), jobs[mem[w].held].status = "running"
    PROVE  SinceSuccess' \subseteq SinceSuccess
<1>1. /\ mem[w].held \in Jobs /\ jobs'[mem[w].held].status = "succeeded"
      /\ \A j \in Jobs : j # mem[w].held => jobs'[j] = jobs[j]
  BY CompleteRow
<1> QED BY <1>1 DEF SinceSuccess, Failed

LEMMA SinceFailed ==
    ASSUME TypeInv, NEW w \in Workers, Fail(w), jobs[mem[w].held].status = "running"
    PROVE  /\ mem[w].held \notin SinceSuccess
           /\ SinceSuccess \subseteq SinceSuccess'
           /\ SinceSuccess' \subseteq SinceSuccess \cup {mem[w].held}
           /\ ~IsOvertaken(w) => mem[w].held \in SinceSuccess'
<1>1. /\ mem[w].held \in Jobs /\ Stamped(w) /\ jobs'[mem[w].held].status = "failed"
      /\ jobs'[mem[w].held].updated = mem[w].stamp.at
      /\ \A j \in Jobs : j # mem[w].held => jobs'[j] = jobs[j]
  BY FailRow
<1>2. \A s \in Jobs : jobs'[s].status = "succeeded" =>
        jobs[s].status = "succeeded" /\ jobs'[s] = jobs[s]
  BY <1>1
<1>3. \A s \in Jobs : jobs[s].status = "succeeded" => jobs'[s] = jobs[s]
  BY <1>1
<1>4. mem[w].held \notin SinceSuccess
  BY DEF SinceSuccess, Failed
<1>5. SinceSuccess \subseteq SinceSuccess'
  BY <1>1, <1>2, <1>4 DEF SinceSuccess, Failed
<1>6. SinceSuccess' \subseteq SinceSuccess \cup {mem[w].held}
  BY <1>1, <1>3 DEF SinceSuccess, Failed
<1>7. ~IsOvertaken(w) => mem[w].held \in SinceSuccess'
  BY <1>1, <1>2 DEF SinceSuccess, Failed, IsOvertaken
<1> QED BY <1>4, <1>5, <1>6, <1>7

LEMMA LimitStep ==
    ASSUME Printing, MaximumConsecutiveFailures # 0
    PROVE  TypeInv /\ ClaimInv /\ LimitInv /\ [Next]_vars => LimitInv'
<1> SUFFICES ASSUME TypeInv, ClaimInv, LimitInv, [Next]_vars PROVE LimitInv'
  OBVIOUS
<1> DEFINE n == Cardinality(Workers)
           f == Cardinality(SinceSuccess)
           f2 == Cardinality(SinceSuccess')
           a == Cardinality(Awaiting)
           a2 == Cardinality(Awaiting')
           max == MaximumConsecutiveFailures
<1>0. /\ n \in Nat /\ f \in Nat /\ f2 \in Nat /\ a \in Nat /\ a2 \in Nat /\ max \in Nat
      /\ a2 <= n /\ f + a <= max + n - 1
  BY WorkersCounted, SinceTypes, PolicyAssumption DEF LimitInv
<1>1. f2 + a2 <= max + n - 1 => LimitInv'
  BY DEF LimitInv
<1>2. ASSUME NEW w \in Workers, Complete(w) \/ Fail(w) PROVE LimitInv'
  <2>1. /\ jobs[mem[w].held].status = "running" /\ w \in Awaiting
        /\ pc'[w] = "running"
        /\ \A v \in Workers : v # w => pc'[v] = pc[v] /\ mem'[v] = mem[v]
    BY <1>2, Settles DEF Printing, Awaiting, Awaits, InFlight, AtWork
  <2>2. Awaiting' \in SUBSET (Awaiting \ {w})
    BY <2>1 DEF Awaiting, Awaits, InFlight, AtWork
  <2>3. a2 <= a - 1
    BY <2>1, <2>2, OneLess, WorkersCounted
  <2>4. f2 <= f + 1
    <3>1. CASE Complete(w)
      <4>1. f2 <= f
        BY <2>1, <3>1, SinceCompleted, SinceTypes, Smaller
      <4> HIDE DEF f, f2
      <4> QED BY <1>0, <4>1
    <3>2. CASE Fail(w)
      BY <2>1, <3>2, SinceFailed, SinceTypes, OneMore
    <3> QED BY <1>2, <3>1, <3>2
  <2> HIDE DEF n, f, f2, a, a2, max
  <2> QED BY <1>0, <1>1, <2>3, <2>4
<1>3. ASSUME ~\E w \in Workers : Complete(w) \/ Fail(w) PROVE LimitInv'
  <2>1. f2 = f
    BY <1>3, QueriesStay
  <2>2. CASE \E v \in Workers : ReadRecent(v) /\ ConsecutiveFailures < max
    <3>1. f <= max - 1
      <4>1. f < max
        BY <2>2, SinceTypes
      <4> HIDE DEF f, max
      <4> QED BY <1>0, <4>1
    <3> HIDE DEF n, f, f2, a, a2, max
    <3> QED BY <1>0, <1>1, <2>1, <3>1
  <2>3. CASE ~\E v \in Workers : ReadRecent(v) /\ ConsecutiveFailures < max
    <3>1. Awaiting' \in SUBSET Awaiting
      BY <2>3, AwaitWriters DEF Awaiting
    <3>2. a2 <= a
      BY <3>1, Smaller, WorkersCounted
    <3> HIDE DEF n, f, f2, a, a2, max
    <3> QED BY <1>0, <1>1, <2>1, <3>2
  <2> QED BY <2>2, <2>3
<1> QED BY <1>2, <1>3

\* The clock did not show a full second when a success was booked.
SuccessesOffTheSecond ==
    \A j \in Jobs : jobs[j].status = "succeeded" => OffTheSecond(jobs[j].updated)

LEMMA HiddenInit == ASSUME Printing PROVE Init => HiddenInv
<1> SUFFICES ASSUME Init PROVE HiddenInv
  OBVIOUS
<1>1. SinceSuccess = {}
  BY DEF Init, StorageInit, NoRow, SinceSuccess, Failed
<1>2. Overtaken = {} /\ streak = 0
  BY DEF Init, Overtaken, IsOvertaken, Stamped
<1>3. Cardinality({}) = 0
  BY FS_EmptySet
<1>4. Cardinality(Workers) \in Nat \ {0}
  BY WorkersCounted, FS_EmptySet DEF Printing
<1> QED BY <1>1, <1>2, <1>3, <1>4 DEF HiddenInv

\* Whoever reads the clock now is later than every success.
LEMMA OvertakenStay ==
    ASSUME TypeInv, ClockInv, SuccessesOffTheSecond, [Next]_vars,
           ~\E w \in Workers : Complete(w) \/ Fail(w)
    PROVE  Overtaken' \subseteq Overtaken
<1> SUFFICES ASSUME NEW v \in Workers, IsOvertaken(v)' PROVE IsOvertaken(v)
  BY DEF Overtaken
<1>1. PICK s \in Jobs : /\ jobs'[s].status = "succeeded"
                        /\ TextLess(mem'[v].stamp.at, jobs'[s].updated)
  BY DEF IsOvertaken
<1>2. jobs'[s] = jobs[s] /\ jobs[s].status = "succeeded"
  BY <1>1, SettledStay DEF Settled
<1>3. CASE Stamped(v) /\ mem'[v].stamp = mem[v].stamp
  BY <1>1, <1>2, <1>3 DEF IsOvertaken
<1>4. CASE mem'[v].stamp = Now
  <2>1. /\ jobs[s].updated \in Nat /\ clock \in Nat /\ Now.at = clock + 1
        /\ jobs[s].updated <= clock /\ OffTheSecond(jobs[s].updated)
    BY <1>2 DEF TypeInv, StorageTypeOK, Now, ClockInv, Settled, SuccessesOffTheSecond
  <2>2. jobs[s].updated < clock + 1 /\ clock + 1 \in Nat
    BY <2>1
  <2>3. ~TextLess(clock + 1, jobs[s].updated)
    BY <2>1, <2>2, TextOrder
  <2> QED BY <1>1, <1>2, <1>4, <2>1, <2>3
<1> QED BY <1>3, <1>4, StampWriters DEF IsOvertaken

LEMMA HiddenStep ==
    ASSUME Printing
    PROVE  TypeInv /\ ClaimInv /\ ClockInv /\ SuccessesOffTheSecond /\ HiddenInv /\ [Next]_vars
               => HiddenInv'
<1> SUFFICES ASSUME TypeInv, ClaimInv, ClockInv, SuccessesOffTheSecond, HiddenInv, [Next]_vars
             PROVE  HiddenInv'
  OBVIOUS
<1> DEFINE n == Cardinality(Workers)
           f == Cardinality(SinceSuccess)
           f2 == Cardinality(SinceSuccess')
           o == Cardinality(Overtaken)
           o2 == Cardinality(Overtaken')
<1>0. /\ n \in Nat /\ f \in Nat /\ f2 \in Nat /\ o \in Nat /\ o2 \in Nat /\ streak \in Nat
      /\ streak + o <= f + n - 1
  BY WorkersCounted, SinceTypes DEF HiddenInv, TypeInv, Others
<1>1. streak' + o2 <= f2 + n - 1 => HiddenInv'
  BY DEF HiddenInv
<1>2. ASSUME NEW w \in Workers, Complete(w) \/ Fail(w)
      PROVE  /\ jobs[mem[w].held].status = "running"
             /\ pc'[w] = "running"
             /\ \A v \in Workers : v # w => pc'[v] = pc[v] /\ mem'[v] = mem[v]
             /\ Overtaken' \in SUBSET (Workers \ {w})
  <2>1. /\ jobs[mem[w].held].status = "running"
        /\ pc'[w] = "running"
        /\ \A v \in Workers : v # w => pc'[v] = pc[v] /\ mem'[v] = mem[v]
    BY <1>2, Settles DEF Printing
  <2> QED BY <2>1 DEF Overtaken, IsOvertaken, Stamped
<1>3. ASSUME NEW w \in Workers, Complete(w) PROVE HiddenInv'
  <2>1. streak' = 0
    BY <1>3 DEF Complete
  <2>2. o2 <= n - 1
    BY <1>2, <1>3, OneLess DEF Printing
  <2> HIDE DEF n, f, f2, o, o2
  <2> QED BY <1>0, <1>1, <2>1, <2>2
<1>4. ASSUME NEW w \in Workers, Fail(w) PROVE HiddenInv'
  <2>1. streak' = streak + 1
    BY <1>4 DEF Fail
  <2>2. Overtaken' \in SUBSET (Overtaken \ {w})
    <3>1. \A s \in Jobs : jobs'[s].status = "succeeded" => jobs'[s] = jobs[s]
      BY <1>4, FailRow
    <3> QED BY <1>2, <1>4, <3>1 DEF Overtaken, IsOvertaken, Stamped
  <2>3. CASE IsOvertaken(w)
    <3>1. w \in Overtaken
      BY <2>3 DEF Overtaken
    <3>2. o2 <= o - 1
      BY <2>2, <3>1, OneLess, WorkersCounted
    <3>3. f <= f2
      BY <1>2, <1>4, SinceFailed, SinceTypes, Smaller
    <3> HIDE DEF n, f, f2, o, o2
    <3> QED BY <1>0, <1>1, <2>1, <3>2, <3>3
  <2>4. CASE ~IsOvertaken(w)
    <3>1. o2 <= o
      BY <2>2, Smaller, WorkersCounted
    <3>2. f <= f2 - 1
      <4>1. SinceSuccess \in SUBSET (SinceSuccess' \ {mem[w].held})
        BY <1>2, <1>4, SinceFailed
      <4>2. mem[w].held \in SinceSuccess'
        BY <1>2, <1>4, <2>4, SinceFailed
      <4> QED BY <4>1, <4>2, SinceTypes, OneLess
    <3> HIDE DEF n, f, f2, o, o2
    <3> QED BY <1>0, <1>1, <2>1, <3>1, <3>2
  <2> QED BY <2>3, <2>4
<1>5. ASSUME ~\E w \in Workers : Complete(w) \/ Fail(w) PROVE HiddenInv'
  <2>1. f2 = f /\ streak' = streak
    BY <1>5, QueriesStay, StreakStays
  <2>2. o2 <= o
    BY <1>5, OvertakenStay, Smaller, WorkersCounted
  <2> HIDE DEF n, f, f2, o, o2
  <2> QED BY <1>0, <1>1, <2>1, <2>2
<1> QED BY <1>3, <1>4, <1>5

\* No more jobs in a row fail than the limit allows, plus two for each other process --
\* for every number of processes, however their evaluations, claims, bookings, crashes and
\* errors interleave with each other and with halts that operators clear -- as long as no
\* success is stamped at a full second, which the text order puts after the later failures
\* of that second (policy.evaluate, storage.stats).
THEOREM FailuresAreLimited ==
    ASSUME Printing PROVE Spec /\ []SuccessesOffTheSecond => []FailuresLimited
<1>1. CASE MaximumConsecutiveFailures = 0
  <2>1. FailuresLimited
    BY <1>1 DEF FailuresLimited
  <2> QED BY <2>1, PTL
<1>2. CASE MaximumConsecutiveFailures # 0
  <2>1. Init => TypeInv /\ ClaimInv /\ ClockInv /\ LimitInv /\ HiddenInv
    BY <1>2, TypeInit, ClaimInit, ClockInit, LimitInit, HiddenInit
  <2>2. /\ TypeInv /\ ClaimInv /\ ClockInv /\ LimitInv /\ HiddenInv
        /\ SuccessesOffTheSecond /\ [Next]_vars
        => TypeInv' /\ ClaimInv' /\ ClockInv' /\ LimitInv' /\ HiddenInv'
    BY <1>2, TypeStep, ClaimStep, ClockStep, LimitStep, HiddenStep
  <2>3. TypeInv /\ LimitInv /\ HiddenInv => FailuresLimited
    <3> SUFFICES ASSUME TypeInv, LimitInv, HiddenInv PROVE FailuresLimited
      OBVIOUS
    <3> DEFINE n == Cardinality(Workers)
               f == Cardinality(SinceSuccess)
               a == Cardinality(Awaiting)
               o == Cardinality(Overtaken)
               max == MaximumConsecutiveFailures
    <3>1. /\ n \in Nat /\ f \in Nat /\ a \in Nat /\ o \in Nat /\ max \in Nat /\ streak \in Nat
          /\ f + a <= max + n - 1 /\ streak + o <= f + n - 1
      BY WorkersCounted, SinceTypes, PolicyAssumption DEF LimitInv, HiddenInv, TypeInv, Others
    <3>2. streak <= max + 2 * (n - 1)
      <4> HIDE DEF n, f, a, o, max
      <4> QED BY <3>1
    <3> QED BY <3>2 DEF FailuresLimited
  <2> QED BY <2>1, <2>2, <2>3, PTL DEF Spec
<1> QED BY <1>1, <1>2

-----------------------------------------------------------------------------
\* Why the count is exact for one process: it stamps each result later than the ones it
\* has booked, so that a success ends the count and a failure adds one.
SettledOffTheSecond == \A j \in Jobs : Settled(j) => OffTheSecond(jobs[j].updated)
StreakInv ==
    /\ streak = Cardinality(SinceSuccess)
    /\ \A w \in Workers : Stamped(w) =>
         \A j \in Jobs : Settled(j) => jobs[j].updated < mem[w].stamp.at

LEMMA StreakInit == Init => StreakInv
<1> SUFFICES ASSUME Init PROVE StreakInv
  OBVIOUS
<1>1. SinceSuccess = {} /\ streak = 0
  BY DEF Init, StorageInit, NoRow, SinceSuccess, Failed
<1>2. \A w \in Workers : ~Stamped(w)
  BY DEF Init, Stamped
<1>3. Cardinality({}) = 0
  BY FS_EmptySet
<1> QED BY <1>1, <1>2, <1>3 DEF StreakInv

LEMMA StreakStep ==
    ASSUME Alone, "stdout" \notin Faults
    PROVE  TypeInv /\ ClaimInv /\ ClockInv /\ SettledOffTheSecond /\ StreakInv /\ [Next]_vars
               => StreakInv'
<1> SUFFICES ASSUME TypeInv, ClaimInv, ClockInv, SettledOffTheSecond, StreakInv, [Next]_vars
             PROVE  StreakInv'
  OBVIOUS
<1>1. ASSUME NEW w \in Workers, Complete(w) \/ Fail(w)
      PROVE  /\ jobs[mem[w].held].status = "running"
             /\ mem[w].stamp.at \in Nat
             /\ \A j \in Jobs : Settled(j) =>
                  /\ jobs[j].updated \in Nat /\ jobs[j].updated < mem[w].stamp.at
                  /\ OffTheSecond(jobs[j].updated)
             /\ \A v \in Workers : ~Stamped(v)'
  <2>1. jobs[mem[w].held].status = "running" /\ pc'[w] = "running"
    BY <1>1, Settles
  <2>2. Stamped(w) /\ mem[w].stamp.at \in Nat
    BY <1>1, CompleteRow, FailRow
  <2>3. \A j \in Jobs : jobs[j].updated \in Nat
    BY DEF TypeInv, StorageTypeOK
  <2>4. \A v \in Workers : ~Stamped(v)'
    BY <2>1 DEF Alone, Stamped
  <2> QED BY <2>1, <2>2, <2>3, <2>4 DEF StreakInv, SettledOffTheSecond
<1>2. ASSUME NEW w \in Workers, Complete(w) PROVE StreakInv'
  <2>1. /\ mem[w].held \in Jobs /\ jobs'[mem[w].held].status = "succeeded"
        /\ jobs'[mem[w].held].updated = mem[w].stamp.at
        /\ \A j \in Jobs : j # mem[w].held => jobs'[j] = jobs[j]
    BY <1>2, CompleteRow
  <2>2. ASSUME NEW j \in SinceSuccess' PROVE FALSE
    <3>1. j \in Jobs /\ jobs'[j].status = "failed" /\ jobs'[j] = jobs[j]
      BY <2>1, <2>2 DEF SinceSuccess, Failed
    <3>2. /\ jobs[j].updated \in Nat /\ jobs[j].updated < mem[w].stamp.at
          /\ mem[w].stamp.at \in Nat /\ OffTheSecond(jobs[j].updated)
      BY <1>1, <1>2, <3>1 DEF Settled
    <3>3. TextLess(jobs'[j].updated, jobs'[mem[w].held].updated)
      BY <2>1, <3>1, <3>2, TextOrder
    <3> QED BY <2>1, <2>2, <3>3 DEF SinceSuccess
  <2>3. Cardinality(SinceSuccess') = 0
    BY <2>2, FS_EmptySet
  <2>4. streak' = 0
    BY <1>2 DEF Complete
  <2> QED BY <1>1, <1>2, <2>3, <2>4 DEF StreakInv
<1>3. ASSUME NEW w \in Workers, Fail(w) PROVE StreakInv'
  <2>1. ~IsOvertaken(w)
    <3> SUFFICES ASSUME NEW s \in Jobs, jobs[s].status = "succeeded"
                 PROVE  ~TextLess(mem[w].stamp.at, jobs[s].updated)
      BY DEF IsOvertaken
    <3> QED BY <1>1, <1>3, TextOrder DEF Settled
  <2>2. SinceSuccess' = SinceSuccess \cup {mem[w].held} /\ mem[w].held \notin SinceSuccess
    BY <1>1, <1>3, <2>1, SinceFailed
  <2>3. Cardinality(SinceSuccess') = Cardinality(SinceSuccess) + 1
    BY <2>2, SinceTypes, FS_AddElement
  <2>4. streak' = streak + 1
    BY <1>3 DEF Fail
  <2> QED BY <1>1, <1>3, <2>3, <2>4 DEF StreakInv
<1>4. ASSUME ~\E w \in Workers : Complete(w) \/ Fail(w) PROVE StreakInv'
  <2>1. streak' = Cardinality(SinceSuccess')
    BY <1>4, QueriesStay, StreakStays DEF StreakInv
  <2>2. ASSUME NEW w \in Workers, Stamped(w)', NEW j \in Jobs, Settled(j)'
        PROVE  jobs'[j].updated < mem'[w].stamp.at
    <3>1. Settled(j) /\ jobs'[j] = jobs[j]
      BY <1>4, <2>2, SettledStay
    <3>2. CASE Stamped(w) /\ mem'[w].stamp = mem[w].stamp
      BY <3>1, <3>2 DEF StreakInv
    <3>3. CASE mem'[w].stamp = Now
      <4>1. /\ jobs[j].updated \in Nat /\ clock \in Nat /\ jobs[j].updated <= clock
            /\ mem'[w].stamp.at = clock + 1
        BY <3>1, <3>3 DEF TypeInv, StorageTypeOK, ClockInv, Now
      <4> QED BY <3>1, <4>1
    <3> QED BY <2>2, <3>2, <3>3, StampWriters
  <2> QED BY <2>1, <2>2 DEF StreakInv
<1> QED BY <1>2, <1>3, <1>4

\* What the policy counts from the stamps is the number of jobs that failed since the last
\* success was booked, over crashes, errors and restarts of one process -- as long as no
\* result is stamped at a full second (storage.stats, storage.fail_job).
THEOREM StreakIsCounted ==
    ASSUME Alone, "stdout" \notin Faults PROVE Spec /\ []SettledOffTheSecond => []StreakCounted
<1>1. Init => TypeInv /\ ClaimInv /\ ClockInv /\ StreakInv
  BY TypeInit, ClaimInit, ClockInit, StreakInit
<1>2. /\ TypeInv /\ ClaimInv /\ ClockInv /\ StreakInv /\ SettledOffTheSecond /\ [Next]_vars
      => TypeInv' /\ ClaimInv' /\ ClockInv' /\ StreakInv'
  BY TypeStep, ClaimStep, ClockStep, StreakStep
<1>3. StreakInv => StreakCounted
  BY SinceTypes DEF StreakInv, StreakCounted
<1> QED BY <1>1, <1>2, <1>3, PTL DEF Spec

-----------------------------------------------------------------------------
\* Why a claim is sound although the policy was asked some statements ago, about four
\* readings taken one after the other: while the only process reads and decides, the books
\* can only improve, and no cost is dated on a day that has yet to come.
Better(s, t) ==
    /\ s.revenue <= t.revenue
    /\ s.cost = t.cost
    /\ t.daily <= s.daily
    /\ s.succeeded = t.succeeded
    /\ s.failures = t.failures
FutureInv ==
    /\ \A w \in Workers : Stamped(w) => mem[w].stamp.day <= day
    /\ \A d \in Days : day < d => costOn[d] = 0
Cleared(w) ==
    \/ pc[w] = "claim"
    \/ pc[w] = "report" /\ mem[w].busy /\ mem[w].verdict = Continue
Reading(w) ==
    /\ pc[w] \in {"daily", "counts", "recent", "decide"} =>
         mem[w].view.revenue <= Revenue /\ mem[w].view.cost = ledger["cost"]
    /\ pc[w] \in {"counts", "recent", "decide"} => DailyCost <= mem[w].view.daily
    /\ pc[w] \in {"recent", "decide"} => mem[w].view.succeeded = SucceededJobs
    /\ pc[w] = "decide" => mem[w].view.failures = ConsecutiveFailures
    /\ Cleared(w) => Objections(Books, ProviderCostCents, 0) = {}
ReadInv == \A w \in Workers : Reading(w)

LEMMA MarginGrows ==
    ASSUME NEW r \in Nat, NEW q \in Nat, NEW c \in Nat, NEW k \in Int,
           0 < r, r <= q, k * r <= (r - c) * 100
    PROVE  k * q <= (q - c) * 100
<1> DEFINE x == 100 - k
<1>1. PICK e \in Nat : q = r + e
  <2>1. q - r \in Nat /\ q = r + (q - r)
    OBVIOUS
  <2> QED BY <2>1
<1>2. x \in Int /\ k = 100 - x
  OBVIOUS
<1>3. x * r \in Int /\ k * r = 100 * r - x * r
  <2> HIDE DEF x
  <2> QED BY <1>2
<1>4. 100 * c <= x * r
  <2>1. (r - c) * 100 = 100 * r - 100 * c
    OBVIOUS
  <2>2. 100 * r \in Nat /\ 100 * c \in Nat
    OBVIOUS
  <2> HIDE DEF x
  <2> QED BY <1>3, <2>1, <2>2
<1>5. 0 <= x
  <2> SUFFICES ASSUME x <= -1 PROVE FALSE
    <3> HIDE DEF x
    <3> QED BY <1>2
  <2>1. PICK y \in Nat : x = -1 - y
    <3>1. -1 - x \in Nat /\ x = -1 - (-1 - x)
      <4> HIDE DEF x
      <4> QED BY <1>2
    <3> QED BY <3>1
  <2>2. x * r = -r - y * r /\ y * r \in Nat
    <3> HIDE DEF x
    <3> QED BY <2>1
  <2>3. 0 <= 100 * c /\ 100 * c \in Nat
    OBVIOUS
  <2> HIDE DEF x
  <2> QED BY <1>3, <1>4, <2>2, <2>3
<1>6. x * e \in Nat
  <2> HIDE DEF x
  <2> QED BY <1>2, <1>5
<1>7. k * q = 100 * r + 100 * e - x * r - x * e
  <2>1. k * q = 100 * q - x * q
    <3> HIDE DEF x
    <3> QED BY <1>2
  <2>2. x * q = x * r + x * e
    <3> HIDE DEF x
    <3> QED BY <1>1, <1>2
  <2> HIDE DEF x
  <2> QED BY <1>1, <1>3, <1>6, <2>1, <2>2
<1>8. (q - c) * 100 = 100 * r + 100 * e - 100 * c
  BY <1>1
<1> HIDE DEF x
<1> QED BY <1>3, <1>4, <1>6, <1>7, <1>8

\* Books that have improved give the policy no new objection to a job.
LEMMA FewerObjections ==
    ASSUME NEW s \in Statistics, NEW t \in Statistics, Better(s, t),
           NEW next \in Nat, NEW idle \in Nat, Objections(s, next, idle) = {}
    PROVE  Objections(t, next, 0) = {}
<1>1. /\ s.revenue \in Nat /\ s.cost \in Nat /\ s.daily \in Nat
      /\ t.revenue \in Nat /\ t.cost \in Nat /\ t.daily \in Nat
      /\ s.succeeded \in Nat /\ s.failures \in Nat
  BY DEF Statistics
<1>2. \A reason \in PolicyReasons : ~Applies(reason, s, next, idle)
  BY DEF Objections
<1>3. PolicyReasons = {"failures", "dailycap", "nofunds", "norevenue", "margin", "idle"}
  BY DEF PolicyReasons, Rank
<1>4. ~Applies("failures", t, next, 0)
  BY <1>2, <1>3 DEF Applies, Better
<1>5. ~Applies("dailycap", t, next, 0)
  <2>1. DailyCostCapCents # 0 => s.daily + next <= DailyCostCapCents
    BY <1>1, <1>2, <1>3, PolicyAssumption DEF Applies
  <2> QED BY <1>1, <2>1, PolicyAssumption DEF Applies, Better
<1>6. ~Applies("nofunds", t, next, 0)
  <2>1. HaltOnNoFunds => next <= Available(s.revenue, s.cost)
    BY <1>1, <1>2, <1>3, PolicyAssumption DEF Applies, Available
  <2> QED BY <1>1, <2>1, PolicyAssumption DEF Applies, Better, Available
<1>7. s.succeeded >= GraceJobs => 0 < s.revenue
  BY <1>1, <1>2, <1>3 DEF Applies
<1>8. ~Applies("norevenue", t, next, 0)
  BY <1>1, <1>7 DEF Applies, Better
<1>9. ~Applies("margin", t, next, 0)
  <2> SUFFICES ASSUME t.succeeded >= GraceJobs PROVE ~MarginTooThin(t)
    BY DEF Applies
  <2>1. 0 < s.revenue /\ ~MarginTooThin(s)
    BY <1>2, <1>3, <1>7 DEF Applies, Better
  <2>2. MinimumMarginPercent * s.revenue <= (s.revenue - s.cost) * 100
    <3> DEFINE a == (s.revenue - s.cost) * 100
               b == MinimumMarginPercent * s.revenue
    <3>1. a \in Int /\ b \in Int
      BY <1>1, PolicyAssumption
    <3>2. ~(a < b)
      BY <1>1, <2>1 DEF MarginTooThin
    <3> QED
      <4> HIDE DEF a, b
      <4>1. b <= a
        BY <3>1, <3>2
      <4> QED BY <4>1 DEF a, b
  <2>3. MinimumMarginPercent * t.revenue <= (t.revenue - t.cost) * 100
    BY <1>1, <2>1, <2>2, MarginGrows, PolicyAssumption DEF Better
  <2>4. (t.revenue - t.cost) * 100 \in Int /\ MinimumMarginPercent * t.revenue \in Int
    BY <1>1, PolicyAssumption
  <2> QED BY <2>3, <2>4 DEF MarginTooThin
<1>10. ~Applies("idle", t, next, 0)
  BY PolicyAssumption DEF Applies
<1> QED BY <1>3, <1>4, <1>5, <1>6, <1>8, <1>9, <1>10 DEF Objections

LEMMA LedgerWriters ==
    ASSUME [Next]_vars, ~\E w \in Workers : Complete(w) \/ Fail(w)
    PROVE  \/ UNCHANGED <<ledger, costOn, day>>
           \/ \E kind \in OperatorKinds, amount \in Amounts : PostLedger(kind, amount)
           \/ Midnight
<1> USE DEF storageVars, ledgerVars, timeVars
<1>1. ASSUME NEW w \in Workers, Step(w) PROVE UNCHANGED <<ledger, costOn, day>>
  <2>1. ASSUME \/ Starting(w) \/ Loop(w)
               \/ ReadTotals(w) \/ ReadDaily(w) \/ ReadCounts(w) \/ ReadRecent(w)
               \/ Decide(w) \/ Report(w) \/ Persist(w)
        PROVE  UNCHANGED <<ledger, costOn, day>>
    BY <2>1 DEF Starting, Loop, ReadTotals, ReadDaily, ReadCounts, ReadRecent,
                Reads, Decide, Report, Persist
  <2>2. ASSUME \/ Claim(w) \/ Announce(w) \/ Generate(w)
               \/ Running(w) \/ Final(w) \/ WriteEnd(w) \/ Shutdown(w)
        PROVE  UNCHANGED <<ledger, costOn, day>>
    BY <2>2 DEF Claim, ClaimNextJob, ReadClock, Announce, Generate, Running, Final,
                WriteEnd, Shutdown
  <2> QED BY <1>1, <2>1, <2>2 DEF Step
<1>2. ASSUME NEW w \in Workers, Start(w) \/ Signal(w) \/ Jam(w) \/ Crash(w) \/ Raises(w)
      PROVE  UNCHANGED <<ledger, costOn, day>>
  BY <1>2 DEF Start, Signal, Jam, Crash, Raises, RaisesInJob, RaisesInHandler, RaisesInLoop,
              RaisesOutside, ReadClock
<1>3. ASSUME NEW w \in Workers, NEW j \in Jobs,
             InsertJob(w, j) \/ \E price \in Prices : PostJob(w, j, price)
      PROVE  UNCHANGED <<ledger, costOn, day>>
  BY <1>3 DEF InsertJob, PostJob, DrawJob, ReadClock
<1>4. ASSUME PostHalt \/ PostClearHalt PROVE UNCHANGED <<ledger, costOn, day>>
  BY <1>4 DEF PostHalt, PostClearHalt
<1>5. CASE UNCHANGED vars
  BY <1>5 DEF vars
<1> QED BY <1>1, <1>2, <1>3, <1>4, <1>5 DEF Next, Environment

LEMMA FutureInit == Init => FutureInv
BY DEF Init, StorageInit, FutureInv, Stamped, Days

LEMMA FutureStep ==
    ASSUME OperatorKinds \subseteq {"revenue", "credit"}
    PROVE  TypeInv /\ TypeInv' /\ FutureInv /\ [Next]_vars => FutureInv'
<1> SUFFICES ASSUME TypeInv, TypeInv', FutureInv, [Next]_vars PROVE FutureInv'
  OBVIOUS
<1>1. /\ day \in Int /\ day' \in Int /\ day <= day' /\ Days \subseteq Int
      /\ \A w \in Workers : mem[w].stamp.day \in Int
  <2>1. day <= day'
    BY StampWriters
  <2>2. \A w \in Workers : mem[w].stamp.day \in Days
    BY DEF TypeInv, Control, Memory, Stamp
  <2>3. day \in Days /\ day' \in Days
    BY DEF TypeInv, StorageTypeOK
  <2>4. Days \subseteq Int
    BY DEF Days
  <2> QED BY <2>1, <2>2, <2>3, <2>4
<1>2. \A w \in Workers : Stamped(w)' => mem'[w].stamp.day <= day'
  <2>1. \A w \in Workers : Stamped(w)' =>
          \/ Stamped(w) /\ mem'[w].stamp = mem[w].stamp
          \/ mem'[w].stamp = Now /\ clock' = clock + 1
    BY StampWriters
  <2>2. Now.day = day
    BY DEF Now
  <2>3. \A w \in Workers : Stamped(w) => mem[w].stamp.day <= day
    BY DEF FutureInv
  <2>4. ASSUME NEW w \in Workers, Stamped(w)' PROVE mem'[w].stamp.day <= day'
    <3>1. CASE Stamped(w) /\ mem'[w].stamp = mem[w].stamp
      <4>1. mem[w].stamp.day <= day
        BY <2>3, <3>1
      <4> QED BY <1>1, <3>1, <4>1
    <3>2. CASE mem'[w].stamp = Now
      BY <1>1, <2>2, <3>2
    <3> QED BY <2>1, <2>4, <3>1, <3>2
  <2> QED BY <2>4
<1>3. ASSUME NEW d \in Days, day' < d PROVE costOn'[d] = 0
  <2>1. day < d /\ costOn[d] = 0
    BY <1>1, <1>3 DEF FutureInv
  <2>2. CASE UNCHANGED costOn
    BY <2>1, <2>2
  <2>3. ASSUME NEW w \in Workers, Complete(w) \/ Fail(w) PROVE costOn'[d] = 0
    <3>1. Stamped(w) /\ mem[w].stamp.day # d
      BY <1>1, <2>1, <2>3 DEF Complete, Fail, Stamped, FutureInv
    <3>2. \E cost : costOn' = [costOn EXCEPT ![mem[w].stamp.day] = @ + cost]
      BY <2>3 DEF Complete, CompleteJob, Fail, FailJob, Book
    <3> QED BY <2>1, <3>1, <3>2 DEF TypeInv, StorageTypeOK
  <2>4. ASSUME ~\E w \in Workers : Complete(w) \/ Fail(w) PROVE UNCHANGED costOn
    BY <2>4, LedgerWriters DEF PostLedger, RecordLedger, Midnight, ledgerVars
  <2> QED BY <2>2, <2>3, <2>4
<1> QED BY <1>2, <1>3 DEF FutureInv

LEMMA BooksNow == TypeInv => Books \in Statistics
<1> SUFFICES ASSUME TypeInv PROVE Books \in Statistics
  OBVIOUS
<1>1. DailyCost \in Nat /\ ledger["cost"] \in Nat
  BY DEF TypeInv, StorageTypeOK, DailyCost, Kinds
<1>2. Revenue \in Nat /\ SucceededJobs \in Nat /\ ConsecutiveFailures \in Nat
  BY CountsAreNat, TypeInvImpliesTypeOK
<1> QED BY <1>1, <1>2 DEF Books, Statistics

LEMMA BooksType ==
    /\ TypeInv => Books \in Statistics
    /\ TypeInv' => Books' \in Statistics
<1>1. (TypeInv => Books \in Statistics)'
  BY BooksNow, PTL
<1> QED BY <1>1, BooksNow

\* While nothing is booked for a job, income can only come in and a new day begin.
LEMMA BooksImprove ==
    ASSUME OperatorKinds \subseteq {"revenue", "credit"},
           TypeInv, TypeInv', FutureInv, [Next]_vars,
           ~\E w \in Workers : Complete(w) \/ Fail(w)
    PROVE  /\ Revenue <= Revenue' /\ ledger'["cost"] = ledger["cost"]
           /\ DailyCost' <= DailyCost
           /\ SucceededJobs' = SucceededJobs /\ ConsecutiveFailures' = ConsecutiveFailures
           /\ Better(Books, Books')
<1> DEFINE Totals == Revenue <= Revenue' /\ ledger'["cost"] = ledger["cost"]
           Daily == DailyCost' <= DailyCost
<1>1. SucceededJobs' = SucceededJobs /\ ConsecutiveFailures' = ConsecutiveFailures
  BY QueriesStay, SinceTypes DEF SinceSuccess, ConsecutiveFailures
<1>2. /\ \A k \in Kinds : ledger[k] \in Nat /\ ledger'[k] \in Nat
      /\ \A d \in Days : costOn[d] \in Nat /\ costOn'[d] \in Nat
      /\ day \in Days /\ day' \in Days
  BY DEF TypeInv, StorageTypeOK
<1>3. UNCHANGED ledger => Totals
  <2>1. ledger["revenue"] \in Nat /\ ledger["credit"] \in Nat /\ ledger["refund"] \in Nat
    BY <1>2 DEF Kinds
  <2> QED BY <2>1 DEF Revenue
<1>4. CASE UNCHANGED <<ledger, costOn, day>>
  <2>1. Daily
    BY <1>2, <1>4 DEF DailyCost
  <2> QED BY <1>1, <1>3, <1>4, <2>1 DEF Better, Books
<1>5. ASSUME NEW kind \in OperatorKinds, NEW amount \in Amounts, PostLedger(kind, amount)
      PROVE  Totals /\ Daily
  <2>1. kind \in {"revenue", "credit"} /\ amount \in Nat
    BY RuntimeAssumption
  <2>2. UNCHANGED <<costOn, day>>
    BY <1>5, <2>1 DEF PostLedger, RecordLedger, timeVars
  <2>3. Daily
    BY <1>2, <2>2 DEF DailyCost
  <2>4. /\ ledger["revenue"] \in Nat /\ ledger["credit"] \in Nat /\ ledger["refund"] \in Nat
        /\ ledger'["cost"] = ledger["cost"]
        /\ ledger'["refund"] = ledger["refund"]
        /\ ledger'["revenue"] \in Nat /\ ledger["revenue"] <= ledger'["revenue"]
        /\ ledger'["credit"] \in Nat /\ ledger["credit"] <= ledger'["credit"]
    BY <1>5, <2>1 DEF PostLedger, RecordLedger, TypeInv, StorageTypeOK, Kinds
  <2>5. Totals
    BY <2>4 DEF Revenue
  <2> QED BY <2>3, <2>5
<1>6. ASSUME Midnight PROVE Totals /\ Daily
  <2>1. UNCHANGED <<ledger, costOn>> /\ day < day'
    BY <1>2, <1>6 DEF Midnight, ledgerVars, Days
  <2>2. costOn'[day'] = 0
    BY <1>2, <2>1 DEF FutureInv
  <2>3. Daily
    BY <1>2, <2>2 DEF DailyCost
  <2> QED BY <1>3, <2>1, <2>3
<1> QED BY <1>1, <1>4, <1>5, <1>6, LedgerWriters DEF Better, Books

LEMMA ReadInit == Init => ReadInv
BY DEF Init, ReadInv, Reading, Cleared

\* What a process has read stays true while it does nothing.
LEMMA ReadingStays ==
    ASSUME OperatorKinds \subseteq {"revenue", "credit"},
           TypeInv, TypeInv', FutureInv, [Next]_vars,
           ~\E w \in Workers : Complete(w) \/ Fail(w),
           NEW v \in Workers, Reading(v), UNCHANGED <<pc[v], mem[v]>>
    PROVE  Reading(v)'
<1>1. /\ mem[v].view.revenue \in Nat /\ mem[v].view.daily \in Nat
      /\ Books \in Statistics /\ Books' \in Statistics
      /\ Revenue \in Nat /\ Revenue' \in Nat /\ DailyCost \in Nat /\ DailyCost' \in Nat
  <2>1. Books \in Statistics /\ Books' \in Statistics
    BY BooksType
  <2>2. /\ Books.revenue = Revenue /\ Books'.revenue = Revenue'
        /\ Books.daily = DailyCost /\ Books'.daily = DailyCost'
    BY DEF Books
  <2> QED BY <2>1, <2>2 DEF TypeInv, Control, Memory, Statistics
<1>2. /\ Revenue <= Revenue' /\ ledger'["cost"] = ledger["cost"]
      /\ DailyCost' <= DailyCost
      /\ SucceededJobs' = SucceededJobs /\ ConsecutiveFailures' = ConsecutiveFailures
      /\ Better(Books, Books')
  BY BooksImprove
<1>3. Cleared(v)' => Objections(Books', ProviderCostCents, 0) = {}
  <2>1. Cleared(v)' => Objections(Books, ProviderCostCents, 0) = {}
    BY DEF Reading, Cleared
  <2> QED BY <1>1, <1>2, <2>1, FewerObjections, RuntimeAssumption
<1>4. pc'[v] \in {"daily", "counts", "recent", "decide"} =>
        mem'[v].view.revenue <= Revenue' /\ mem'[v].view.cost = ledger'["cost"]
  BY <1>1, <1>2 DEF Reading
<1>5. pc'[v] \in {"counts", "recent", "decide"} => DailyCost' <= mem'[v].view.daily
  BY <1>1, <1>2 DEF Reading
<1>6. /\ pc'[v] \in {"recent", "decide"} => mem'[v].view.succeeded = SucceededJobs'
      /\ pc'[v] = "decide" => mem'[v].view.failures = ConsecutiveFailures'
  BY <1>2 DEF Reading
<1> QED BY <1>3, <1>4, <1>5, <1>6 DEF Reading

\* The statements at which something is remembered of the books.
Minding == {"daily", "counts", "recent", "decide", "report", "claim"}

LEMMA ReadStep ==
    ASSUME Alone, OperatorKinds \subseteq {"revenue", "credit"}
    PROVE  TypeInv /\ TypeInv' /\ FutureInv /\ ReadInv /\ [Next]_vars => ReadInv'
<1> SUFFICES ASSUME TypeInv, TypeInv', FutureInv, ReadInv, [Next]_vars,
                    NEW v \in Workers
             PROVE  Reading(v)'
  BY DEF ReadInv
<1>0. /\ Reading(v)
      /\ \A w \in Workers : w = v
      /\ mem[v] \in Memory /\ mem[v].view \in Statistics
  BY DEF ReadInv, Alone, TypeInv, Control, Memory
<1>a. ASSUME NEW label \in Labels \ Minding, Goto(v, label) PROVE Reading(v)'
  BY <1>a, Arrives DEF Reading, Cleared, Minding
<1>b. ASSUME UNCHANGED <<pc, mem>>, ~\E w \in Workers : Complete(w) \/ Fail(w)
      PROVE  Reading(v)'
  BY <1>0, <1>b, ReadingStays
<1>1. ASSUME \/ Starting(v) \/ Loop(v) \/ Persist(v) \/ Claim(v) \/ Announce(v)
             \/ Generate(v) \/ Complete(v) \/ Fail(v) \/ Running(v) \/ Final(v)
             \/ WriteEnd(v) \/ Start(v)
      PROVE  Reading(v)'
  <2> DEFINE after == {"starting", "loop", "totals", "final", "announce", "generate",
                       "complete", "fail", "running", "endHalted", "endStopped", "shutdown"}
  <2>1. \E label \in after : Goto(v, label)
    BY <1>1 DEF Starting, Loop, Persist, Claim, Announce, Generate, Complete, Fail, Running,
                Final, WriteEnd, Start, Proceed
  <2>2. after \subseteq Labels \ Minding
    BY DEF Labels, Minding
  <2> HIDE DEF after
  <2> QED BY <1>a, <2>1, <2>2
<1>2. ASSUME Shutdown(v) \/ Jam(v) \/ Crash(v) \/ Raises(v) PROVE Reading(v)'
  <2> DEFINE after == Ended \cup {"fail", "running", "final", "stuck"}
  <2>1. \E label \in after : Goto(v, label)
    BY <1>2 DEF Shutdown, Jam, Crash, End, Ended, Raises, RaisesInJob, RaisesInHandler,
                RaisesInLoop, RaisesOutside
  <2>2. after \subseteq Labels \ Minding
    BY DEF Labels, Minding, Ended, Down
  <2> HIDE DEF after
  <2> QED BY <1>a, <2>1, <2>2
<1>3. ASSUME ReadTotals(v) PROVE Reading(v)'
  <2>1. /\ pc'[v] = "daily"
        /\ mem'[v].view.revenue = Revenue /\ mem'[v].view.cost = ledger["cost"]
    BY <1>0, <1>3 DEF ReadTotals, Reads, Goto, Keep, TypeInv, Control, Memory, Statistics
  <2>2. Revenue' = Revenue /\ ledger' = ledger /\ Revenue \in Int
    BY <1>3, CountsAreNat, TypeInvImpliesTypeOK
       DEF ReadTotals, Reads, storageVars, ledgerVars, Revenue
  <2> QED BY <2>1, <2>2 DEF Reading, Cleared
<1>4. ASSUME ReadDaily(v) PROVE Reading(v)'
  <2>1. /\ pc[v] = "daily" /\ pc'[v] = "counts"
        /\ mem'[v].view = [mem[v].view EXCEPT !.daily = DailyCost]
    BY <1>0, <1>4 DEF ReadDaily, Reads, Goto, Keep, TypeInv, Control, Memory
  <2>2. /\ mem'[v].view.revenue = mem[v].view.revenue
        /\ mem'[v].view.cost = mem[v].view.cost
        /\ mem'[v].view.daily = DailyCost
    BY <1>0, <2>1 DEF Statistics
  <2>3. /\ Revenue' = Revenue /\ ledger' = ledger /\ DailyCost' = DailyCost
        /\ DailyCost \in Int
    BY <1>4 DEF ReadDaily, Reads, storageVars, ledgerVars, timeVars, Revenue, DailyCost,
                TypeInv, StorageTypeOK
  <2> QED BY <1>0, <2>1, <2>2, <2>3 DEF Reading, Cleared
<1>5. ASSUME ReadCounts(v) PROVE Reading(v)'
  <2>1. /\ pc[v] = "counts" /\ pc'[v] = "recent"
        /\ mem'[v].view = [mem[v].view EXCEPT !.succeeded = SucceededJobs]
    BY <1>0, <1>5 DEF ReadCounts, Reads, Goto, Keep, TypeInv, Control, Memory
  <2>2. /\ mem'[v].view.revenue = mem[v].view.revenue
        /\ mem'[v].view.cost = mem[v].view.cost
        /\ mem'[v].view.daily = mem[v].view.daily
        /\ mem'[v].view.succeeded = SucceededJobs
    BY <1>0, <2>1 DEF Statistics
  <2>3. /\ Revenue' = Revenue /\ ledger' = ledger /\ DailyCost' = DailyCost
        /\ SucceededJobs' = SucceededJobs
    BY <1>5 DEF ReadCounts, Reads, storageVars, jobVars, ledgerVars, timeVars, Revenue,
                DailyCost, SucceededJobs
  <2> QED BY <1>0, <2>1, <2>2, <2>3 DEF Reading, Cleared
<1>6. ASSUME ReadRecent(v) PROVE Reading(v)'
  <2>1. /\ pc[v] = "recent" /\ pc'[v] = "decide"
        /\ mem'[v].view = [mem[v].view EXCEPT !.failures = ConsecutiveFailures]
    BY <1>0, <1>6 DEF ReadRecent, Reads, Goto, Keep, TypeInv, Control, Memory
  <2>2. /\ mem'[v].view.revenue = mem[v].view.revenue
        /\ mem'[v].view.cost = mem[v].view.cost
        /\ mem'[v].view.daily = mem[v].view.daily
        /\ mem'[v].view.succeeded = mem[v].view.succeeded
        /\ mem'[v].view.failures = ConsecutiveFailures
    BY <1>0, <2>1 DEF Statistics
  <2>3. /\ Revenue' = Revenue /\ ledger' = ledger /\ DailyCost' = DailyCost
        /\ SucceededJobs' = SucceededJobs /\ ConsecutiveFailures' = ConsecutiveFailures
    BY <1>6 DEF ReadRecent, Reads, storageVars, jobVars, ledgerVars, timeVars, Revenue,
                DailyCost, SucceededJobs, Failed, ConsecutiveFailures
  <2> QED BY <1>0, <2>1, <2>2, <2>3 DEF Reading, Cleared
<1>7. ASSUME Decide(v) PROVE Reading(v)'
  <2>1. /\ pc[v] = "decide" /\ pc'[v] = "report"
        /\ mem'[v].verdict = Evaluate(mem[v].view, NextCost(v), haltReason, mem[v].idle)
        /\ mem'[v].busy = mem[v].busy
    BY <1>0, <1>7 DEF Decide, Goto, Keep, TypeInv, Control, Memory
  <2>2. /\ mem[v].view.revenue <= Revenue /\ mem[v].view.cost = ledger["cost"]
        /\ DailyCost <= mem[v].view.daily
        /\ mem[v].view.succeeded = SucceededJobs
        /\ mem[v].view.failures = ConsecutiveFailures
    BY <1>0, <2>1 DEF Reading
  <2>3. Better(mem[v].view, Books)
    BY <2>2 DEF Better, Books
  <2>4. Books' = Books
    BY <1>7 DEF Decide, storageVars, jobVars, ledgerVars, timeVars, Books, Revenue,
                DailyCost, SucceededJobs, Failed, ConsecutiveFailures
  <2>5. Cleared(v)' => Objections(Books, ProviderCostCents, 0) = {}
    <3> SUFFICES ASSUME Cleared(v)' PROVE Objections(Books, ProviderCostCents, 0) = {}
      OBVIOUS
    <3>1. mem'[v].verdict = Continue /\ mem[v].busy
      BY <2>1 DEF Cleared
    <3>2. Objections(mem[v].view, ProviderCostCents, mem[v].idle) = {}
      BY <2>1, <3>1, EvaluateType DEF NextCost
    <3>3. mem[v].idle \in Nat /\ Books \in Statistics
      BY <1>0, BooksType DEF Memory
    <3> QED BY <1>0, <2>3, <3>2, <3>3, FewerObjections, RuntimeAssumption
  <2> QED BY <2>1, <2>4, <2>5 DEF Reading
<1>8. ASSUME Report(v) PROVE Reading(v)'
  <2>1. CASE mem[v].verdict = Continue /\ mem[v].busy
    <3>1. pc'[v] = "claim" /\ Cleared(v)
      BY <1>8, <2>1 DEF Report, Goto, TypeInv, Control, Cleared
    <3>2. Books' = Books
      BY <1>8 DEF Report, storageVars, jobVars, ledgerVars, timeVars, Books, Revenue,
                  DailyCost, SucceededJobs, Failed, ConsecutiveFailures
    <3> QED BY <1>0, <3>1, <3>2 DEF Reading
  <2>2. CASE ~(mem[v].verdict = Continue /\ mem[v].busy)
    <3>1. \E label \in {"persist", "loop"} : Goto(v, label)
      BY <1>8, <2>2 DEF Report, Proceed
    <3>2. {"persist", "loop"} \subseteq Labels \ Minding
      BY DEF Labels, Minding
    <3> QED BY <1>a, <3>1, <3>2
  <2> QED BY <2>1, <2>2
<1>9. ASSUME ~\E w \in Workers : Complete(w) \/ Fail(w),
             \/ \E w \in Workers : Signal(w)
             \/ \E w \in Workers, j \in Jobs :
                  InsertJob(w, j) \/ \E price \in Prices : PostJob(w, j, price)
             \/ \E kind \in OperatorKinds, amount \in Amounts : PostLedger(kind, amount)
             \/ PostHalt \/ PostClearHalt \/ Midnight \/ UNCHANGED vars
      PROVE  Reading(v)'
  <2>1. UNCHANGED <<pc, mem>>
    BY <1>9 DEF Signal, InsertJob, PostJob, PostLedger, PostHalt, PostClearHalt, Midnight,
                vars
  <2> QED BY <1>9, <1>b, <2>1
<1>10. ASSUME NEW w \in Workers, Step(w) \/ Start(w) \/ Jam(w) \/ Crash(w) \/ Raises(w)
       PROVE  Reading(v)'
  BY <1>0, <1>1, <1>2, <1>3, <1>4, <1>5, <1>6, <1>7, <1>8, <1>10 DEF Step
<1>11. ASSUME NEW w \in Workers, Complete(w) \/ Fail(w) PROVE Reading(v)'
  BY <1>10, <1>11 DEF Step
<1> QED BY <1>9, <1>10, <1>11 DEF Next, Environment

\* A job is only claimed at a moment at which the policy has no objection to it, for one
\* process and operators who post only income: whatever happens between the four queries,
\* the decision, the report and the claim -- jobs posted, income, midnights, halts -- can
\* only have made the books better (orchestrator.run, policy.evaluate, storage.stats).
THEOREM ClaimsAreSound ==
    ASSUME Alone, OperatorKinds \subseteq {"revenue", "credit"} PROVE Spec => ClaimIsSound
<1>1. Init => TypeInv /\ FutureInv /\ ReadInv
  BY TypeInit, FutureInit, ReadInit
<1>2. TypeInv /\ FutureInv /\ ReadInv /\ [Next]_vars => TypeInv' /\ FutureInv' /\ ReadInv'
  BY TypeStep, FutureStep, ReadStep
<1>3. ReadInv =>
        [\A w \in Workers : (pc[w] = "claim" /\ pc'[w] = "announce") =>
             Objections(Books, ProviderCostCents, 0) = {}]_vars
  BY DEF ReadInv, Reading, Cleared
<1> QED BY <1>1, <1>2, <1>3, PTL DEF Spec, ClaimIsSound
=============================================================================
