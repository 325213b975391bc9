------------------------- MODULE RuntimeBookProofs --------------------------
(* Claims are exclusive, the books agree with the jobs, what vendors have      *)
(* charged is in the books, clients see what JobBook promises, and a process   *)
(* leaves at most one job behind, for every value of the constants.            *)
EXTENDS RuntimeTypeProofs

\* Why claims are exclusive: a process at work has the row of its job out of the
\* queue, so that a claim by another finds a different job, and a job still to be
\* claimed has never been.
Owns(w) ==
    pc[w] \in AtWork =>
        \/ jobs[mem[w].held].status = "running"
        \/ /\ "stdout" \in Faults
           /\ pc[w] = "fail"
           /\ jobs[mem[w].held].status = "succeeded"
Apart(v, w) ==
    (pc[v] \in AtWork /\ pc[w] \in AtWork /\ v # w) => mem[v].held # mem[w].held
Unclaimed(j) == jobs[j].status \in {"absent", "queued"}
Attempted(j) ==
    /\ jobs[j].attempts <= 1
    /\ Unclaimed(j) => jobs[j].attempts = 0
ClaimInv ==
    /\ \A w \in Workers : Owns(w)
    /\ \A v, w \in Workers : Apart(v, w)
    /\ \A j \in Jobs : Attempted(j)

\* A step of w, and of nobody else.
Only(w) ==
    /\ \E label \in Labels : Goto(w, label)
    /\ UNCHANGED mem \/ \E m : Keep(w, m)

LEMMA OnlyFrame ==
    ASSUME TypeInv, NEW w \in Workers, Only(w)
    PROVE  \A v \in Workers : v # w => pc'[v] = pc[v] /\ mem'[v] = mem[v]
BY DEF TypeInv, Control, Only, Goto, Keep

\* The process at statement `label` after the step.
LEMMA Arrives ==
    ASSUME TypeInv, NEW w \in Workers, NEW label, Goto(w, label)
    PROVE  pc'[w] = label
BY DEF TypeInv, Control, Goto

LEMMA HeldTypes ==
    ASSUME TypeInv, NEW w \in Workers, pc[w] \in AtWork
    PROVE  mem[w].held \in Jobs
BY DEF TypeInv, Control, Fits

\* A step to a statement at which no job is held.
LEMMA WithoutJob ==
    ASSUME TypeInv, ClaimInv, NEW w \in Workers, NEW label \in Labels \ AtWork,
           Goto(w, label),
           UNCHANGED mem \/ \E m : Keep(w, m),
           UNCHANGED jobs
    PROVE  ClaimInv'
<1>1. \A v \in Workers : v # w => pc'[v] = pc[v] /\ mem'[v] = mem[v]
  BY OnlyFrame DEF Only
<1>2. pc'[w] \notin AtWork
  BY Arrives
<1> QED BY <1>1, <1>2 DEF ClaimInv, Owns, Apart, Attempted, Unclaimed, AtWork

\* A step on with the same job in hand.
LEMMA WithSameJob ==
    ASSUME TypeInv, ClaimInv, NEW w \in Workers, NEW label \in AtWork,
           pc[w] \in AtWork, pc[w] # "fail",
           Goto(w, label),
           UNCHANGED mem \/ \E m : Keep(w, m),
           mem'[w].held = mem[w].held,
           UNCHANGED jobs
    PROVE  ClaimInv'
<1>1. \A v \in Workers : v # w => pc'[v] = pc[v] /\ mem'[v] = mem[v]
  BY OnlyFrame DEF Only, AtWork, Labels
<1>2. pc'[w] = label
  BY Arrives
<1>3. jobs[mem[w].held].status = "running"
  BY DEF ClaimInv, Owns
<1> QED BY <1>1, <1>2, <1>3 DEF ClaimInv, Owns, Apart, Attempted, Unclaimed

\* A step that settles the job in hand.
LEMMA Settling ==
    ASSUME TypeInv, ClaimInv, NEW w \in Workers, NEW label \in Labels, NEW row,
           pc[w] \in AtWork,
           jobs' = [jobs EXCEPT ![mem[w].held] = row],
           row.status \in {"succeeded", "failed"},
           row.attempts = jobs[mem[w].held].attempts,
           Goto(w, label),
           UNCHANGED mem \/ \E m : Keep(w, m),
           mem'[w].held = mem[w].held,
           \/ label \notin AtWork
           \/ label = "fail" /\ "stdout" \in Faults /\ row.status = "succeeded"
    PROVE  ClaimInv'
<1>1. \A v \in Workers : v # w => pc'[v] = pc[v] /\ mem'[v] = mem[v]
  BY OnlyFrame DEF Only
<1>2. pc'[w] = label
  BY Arrives
<1>3. mem[w].held \in Jobs
  BY HeldTypes
<1>4. /\ jobs'[mem[w].held] = row
      /\ \A j \in Jobs : j # mem[w].held => jobs'[j] = jobs[j]
  BY <1>3 DEF TypeInv, StorageTypeOK
<1>5. \A v \in Workers : Owns(v)'
  <2> TAKE v \in Workers
  <2>1. CASE v = w
    BY <1>2, <1>4, <2>1 DEF Owns
  <2>2. CASE v # w
    <3> SUFFICES ASSUME pc[v] \in AtWork PROVE Owns(v)'
      BY <1>1, <2>2 DEF Owns
    <3>1. mem[v].held \in Jobs /\ mem[v].held # mem[w].held
      BY <2>2, HeldTypes DEF ClaimInv, Apart
    <3> QED BY <1>1, <1>4, <2>2, <3>1 DEF ClaimInv, Owns
  <2> QED BY <2>1, <2>2
<1>6. \A u, v \in Workers : Apart(u, v)'
  BY <1>1 DEF ClaimInv, Apart
<1>7. \A j \in Jobs : Attempted(j)'
  BY <1>4 DEF ClaimInv, Attempted, Unclaimed
<1> QED BY <1>5, <1>6, <1>7 DEF ClaimInv

\* A step that changes the row of a job nobody holds, out of a claim.
LEMMA Unowned ==
    ASSUME TypeInv, ClaimInv, NEW j \in Jobs, NEW row,
           Unclaimed(j),
           jobs' = [jobs EXCEPT ![j] = row],
           row.attempts = 0,
           UNCHANGED <<pc, mem>>
    PROVE  ClaimInv'
<1>1. /\ jobs'[j] = row
      /\ \A i \in Jobs : i # j => jobs'[i] = jobs[i]
  BY DEF TypeInv, StorageTypeOK
<1>2. \A w \in Workers : pc[w] \in AtWork => mem[w].held \in Jobs \ {j}
  BY HeldTypes DEF ClaimInv, Owns, Unclaimed
<1> QED BY <1>1, <1>2 DEF ClaimInv, Owns, Apart, Attempted, Unclaimed

LEMMA ClaimInit == Init => ClaimInv
BY DEF Init, StorageInit, NoRow, ClaimInv, Owns, Apart, Attempted, Unclaimed, AtWork

LEMMA ClaimStep == TypeInv /\ ClaimInv /\ [Next]_vars => ClaimInv'
<1> SUFFICES ASSUME TypeInv, ClaimInv, [Next]_vars PROVE ClaimInv'
  OBVIOUS
<1>1. ASSUME NEW w \in Workers, Starting(w) PROVE ClaimInv'
  <2>1. {"loop"} \subseteq Labels \ AtWork
    BY DEF Labels, AtWork
  <2>2. \E label \in {"loop"} : Goto(w, label)
    BY <1>1 DEF Starting, Proceed
  <2>3. (UNCHANGED mem \/ \E m : Keep(w, m)) /\ UNCHANGED jobs
    BY <1>1 DEF Starting, Proceed, storageVars, jobVars
  <2> QED BY <2>1, <2>2, <2>3, WithoutJob
<1>2. ASSUME NEW w \in Workers, Loop(w) PROVE ClaimInv'
  <2>1. {"final", "totals"} \subseteq Labels \ AtWork
    BY DEF Labels, AtWork
  <2>2. \E label \in {"final", "totals"} : Goto(w, label)
    BY <1>2 DEF Loop, Proceed
  <2>3. (UNCHANGED mem \/ \E m : Keep(w, m)) /\ UNCHANGED jobs
    BY <1>2 DEF Loop, Proceed, storageVars, jobVars
  <2> QED BY <2>1, <2>2, <2>3, WithoutJob
<1>3. ASSUME NEW w \in Workers, ReadTotals(w) PROVE ClaimInv'
  <2>1. {"daily"} \subseteq Labels \ AtWork
    BY DEF Labels, AtWork
  <2>2. \E label \in {"daily"} : Goto(w, label)
    BY <1>3 DEF ReadTotals, Reads, Proceed
  <2>3. (UNCHANGED mem \/ \E m : Keep(w, m)) /\ UNCHANGED jobs
    BY <1>3 DEF ReadTotals, Reads, Proceed, storageVars, jobVars
  <2> QED BY <2>1, <2>2, <2>3, WithoutJob
<1>4. ASSUME NEW w \in Workers, ReadDaily(w) PROVE ClaimInv'
  <2>1. {"counts"} \subseteq Labels \ AtWork
    BY DEF Labels, AtWork
  <2>2. \E label \in {"counts"} : Goto(w, label)
    BY <1>4 DEF ReadDaily, Reads, Proceed
  <2>3. (UNCHANGED mem \/ \E m : Keep(w, m)) /\ UNCHANGED jobs
    BY <1>4 DEF ReadDaily, Reads, Proceed, storageVars, jobVars
  <2> QED BY <2>1, <2>2, <2>3, WithoutJob
<1>5. ASSUME NEW w \in Workers, ReadCounts(w) PROVE ClaimInv'
  <2>1. {"recent"} \subseteq Labels \ AtWork
    BY DEF Labels, AtWork
  <2>2. \E label \in {"recent"} : Goto(w, label)
    BY <1>5 DEF ReadCounts, Reads, Proceed
  <2>3. (UNCHANGED mem \/ \E m : Keep(w, m)) /\ UNCHANGED jobs
    BY <1>5 DEF ReadCounts, Reads, Proceed, storageVars, jobVars
  <2> QED BY <2>1, <2>2, <2>3, WithoutJob
<1>6. ASSUME NEW w \in Workers, ReadRecent(w) PROVE ClaimInv'
  <2>1. {"decide"} \subseteq Labels \ AtWork
    BY DEF Labels, AtWork
  <2>2. \E label \in {"decide"} : Goto(w, label)
    BY <1>6 DEF ReadRecent, Reads, Proceed
  <2>3. (UNCHANGED mem \/ \E m : Keep(w, m)) /\ UNCHANGED jobs
    BY <1>6 DEF ReadRecent, Reads, Proceed, storageVars, jobVars
  <2> QED BY <2>1, <2>2, <2>3, WithoutJob
<1>7. ASSUME NEW w \in Workers, Decide(w) PROVE ClaimInv'
  <2>1. {"report"} \subseteq Labels \ AtWork
    BY DEF Labels, AtWork
  <2>2. \E label \in {"report"} : Goto(w, label)
    BY <1>7 DEF Decide, Proceed
  <2>3. (UNCHANGED mem \/ \E m : Keep(w, m)) /\ UNCHANGED jobs
    BY <1>7 DEF Decide, Proceed, storageVars, jobVars
  <2> QED BY <2>1, <2>2, <2>3, WithoutJob
<1>8. ASSUME NEW w \in Workers, Report(w) PROVE ClaimInv'
  <2>1. {"persist", "claim", "loop"} \subseteq Labels \ AtWork
    BY DEF Labels, AtWork
  <2>2. \E label \in {"persist", "claim", "loop"} : Goto(w, label)
    BY <1>8 DEF Report, Proceed
  <2>3. (UNCHANGED mem \/ \E m : Keep(w, m)) /\ UNCHANGED jobs
    BY <1>8 DEF Report, Proceed, storageVars, jobVars
  <2> QED BY <2>1, <2>2, <2>3, WithoutJob
<1>9. ASSUME NEW w \in Workers, Persist(w) PROVE ClaimInv'
  <2>1. {"final"} \subseteq Labels \ AtWork
    BY DEF Labels, AtWork
  <2>2. \E label \in {"final"} : Goto(w, label)
    BY <1>9 DEF Persist, Proceed
  <2>3. (UNCHANGED mem \/ \E m : Keep(w, m)) /\ UNCHANGED jobs
    BY <1>9 DEF Persist, Proceed, storageVars, jobVars
  <2> QED BY <2>1, <2>2, <2>3, WithoutJob
<1>10. ASSUME NEW w \in Workers, Claim(w) PROVE ClaimInv'
  <2>1. CASE Proceed(w, "loop") /\ UNCHANGED jobVars
    <3>1. "loop" \in Labels \ AtWork
      BY DEF Labels, AtWork
    <3> QED BY <2>1, <3>1, WithoutJob DEF Proceed, jobVars
  <2>2. ASSUME NEW j \in Jobs, ClaimNextJob(j), Goto(w, "announce"),
               Keep(w, [mem[w] EXCEPT !.held = j])
        PROVE  ClaimInv'
    <3>1. jobs[j].status = "queued" /\ jobs[j].attempts = 0
      BY <2>2 DEF ClaimNextJob, IsNext, Queued, ClaimInv, Attempted, Unclaimed
    <3>2. /\ jobs'[j].status = "running"
          /\ jobs'[j].attempts = 1
      BY <2>2, <3>1 DEF ClaimNextJob, TypeInv, StorageTypeOK
    <3>3. \A i \in Jobs : i # j => jobs'[i] = jobs[i]
      BY <2>2 DEF ClaimNextJob, TypeInv, StorageTypeOK
    <3>4. pc'[w] = "announce" /\ mem'[w].held = j
      BY <2>2 DEF Goto, Keep, TypeInv, Control, Memory
    <3>5. \A v \in Workers : v # w => pc'[v] = pc[v] /\ mem'[v] = mem[v]
      BY <2>2 DEF Goto, Keep, TypeInv, Control
    <3>6. \A v \in Workers : pc[v] \in AtWork => mem[v].held \in Jobs \ {j}
      BY <3>1, HeldTypes DEF ClaimInv, Owns
    <3>7. \A v \in Workers : Owns(v)'
      BY <3>2, <3>3, <3>4, <3>5, <3>6 DEF ClaimInv, Owns
    <3>8. \A u, v \in Workers : Apart(u, v)'
      BY <3>4, <3>5, <3>6 DEF ClaimInv, Apart
    <3>9. \A i \in Jobs : Attempted(i)'
      BY <3>2, <3>3 DEF ClaimInv, Attempted, Unclaimed
    <3> QED BY <3>7, <3>8, <3>9 DEF ClaimInv
  <2> QED BY <1>10, <2>1, <2>2 DEF Claim
<1>11. ASSUME NEW w \in Workers, Announce(w) PROVE ClaimInv'
  <2>1. pc[w] = "announce" /\ Goto(w, "generate") /\ UNCHANGED <<mem, jobs>>
    BY <1>11 DEF Announce, Proceed, storageVars, jobVars
  <2>2. "announce" \in AtWork /\ "generate" \in AtWork
    BY DEF AtWork
  <2> QED BY <2>1, <2>2, WithSameJob
<1>12. ASSUME NEW w \in Workers, Generate(w) PROVE ClaimInv'
  <2>1. pc[w] = "generate" /\ \E label \in {"complete", "fail"} : Goto(w, label)
    BY <1>12 DEF Generate
  <2>2. (\E m : Keep(w, m)) /\ mem'[w].held = mem[w].held /\ UNCHANGED jobs
    BY <1>12 DEF Generate, Keep, TypeInv, Control, Memory, jobVars
  <2>3. {"generate", "complete", "fail"} \subseteq AtWork
    BY DEF AtWork
  <2> QED BY <2>1, <2>2, <2>3, WithSameJob
<1>13. ASSUME NEW w \in Workers, Complete(w) PROVE ClaimInv'
  <2> DEFINE row == [jobs[mem[w].held] EXCEPT !.status = "succeeded",
                            !.cost = ProviderCostCents, !.updated = mem[w].stamp.at]
  <2>0. pc[w] \in AtWork /\ mem[w].held \in Jobs
    BY <1>13, HeldTypes DEF Complete, AtWork
  <2>1. jobs' = [jobs EXCEPT ![mem[w].held] = row]
    BY <1>13, <2>0 DEF Complete, CompleteJob, TypeInv, StorageTypeOK
  <2>2. row.status = "succeeded" /\ row.attempts = jobs[mem[w].held].attempts
    BY <2>0 DEF TypeInv, StorageTypeOK
  <2>3. (\E m : Keep(w, m)) /\ mem'[w].held = mem[w].held
    BY <1>13 DEF Complete, Keep, TypeInv, Control, Memory
  <2>4. \/ Goto(w, "running")
        \/ Goto(w, "fail") /\ "stdout" \in Faults
    BY <1>13 DEF Complete
  <2>5. "running" \in Labels \ AtWork /\ "fail" \in Labels
    BY DEF Labels, AtWork
  <2> HIDE DEF row
  <2> QED BY <2>0, <2>1, <2>2, <2>3, <2>4, <2>5, Settling
<1>14. ASSUME NEW w \in Workers, Fail(w) PROVE ClaimInv'
  <2> DEFINE row == [jobs[mem[w].held] EXCEPT !.status = "failed",
                            !.cost = FailureCostCents, !.updated = mem[w].stamp.at]
  <2>0. pc[w] \in AtWork /\ mem[w].held \in Jobs
    BY <1>14, HeldTypes DEF Fail, AtWork
  <2>1. jobs' = [jobs EXCEPT ![mem[w].held] = row]
    BY <1>14, <2>0 DEF Fail, FailJob, TypeInv, StorageTypeOK
  <2>2. row.status = "failed" /\ row.attempts = jobs[mem[w].held].attempts
    BY <2>0 DEF TypeInv, StorageTypeOK
  <2>3. (\E m : Keep(w, m)) /\ mem'[w].held = mem[w].held
    BY <1>14 DEF Fail, Keep, TypeInv, Control, Memory
  <2>4. Goto(w, "running")
    BY <1>14 DEF Fail
  <2>5. "running" \in Labels \ AtWork
    BY DEF Labels, AtWork
  <2> HIDE DEF row
  <2> QED BY <2>0, <2>1, <2>2, <2>3, <2>4, <2>5, Settling
<1>15. ASSUME NEW w \in Workers, Running(w) PROVE ClaimInv'
  <2>1. {"final", "loop"} \subseteq Labels \ AtWork
    BY DEF Labels, AtWork
  <2>2. \E label \in {"final", "loop"} : Goto(w, label)
    BY <1>15 DEF Running, Proceed
  <2>3. (UNCHANGED mem \/ \E m : Keep(w, m)) /\ UNCHANGED jobs
    BY <1>15 DEF Running, Proceed, storageVars, jobVars
  <2> QED BY <2>1, <2>2, <2>3, WithoutJob
<1>16. ASSUME NEW w \in Workers, Final(w) PROVE ClaimInv'
  <2>1. {"endHalted", "endStopped"} \subseteq Labels \ AtWork
    BY DEF Labels, AtWork
  <2>2. \E label \in {"endHalted", "endStopped"} : Goto(w, label)
    BY <1>16 DEF Final, Proceed
  <2>3. (UNCHANGED mem \/ \E m : Keep(w, m)) /\ UNCHANGED jobs
    BY <1>16 DEF Final, Proceed, storageVars, jobVars
  <2> QED BY <2>1, <2>2, <2>3, WithoutJob
<1>17. ASSUME NEW w \in Workers, WriteEnd(w) PROVE ClaimInv'
  <2>1. {"shutdown"} \subseteq Labels \ AtWork
    BY DEF Labels, AtWork
  <2>2. \E label \in {"shutdown"} : Goto(w, label)
    BY <1>17 DEF WriteEnd, Proceed
  <2>3. (UNCHANGED mem \/ \E m : Keep(w, m)) /\ UNCHANGED jobs
    BY <1>17 DEF WriteEnd, Proceed, storageVars, jobVars
  <2> QED BY <2>1, <2>2, <2>3, WithoutJob
<1>18. ASSUME NEW w \in Workers, Shutdown(w) PROVE ClaimInv'
  <2>1. Ended \subseteq Labels \ AtWork
    BY DEF Labels, Down, Ended, AtWork
  <2>2. \E how \in Ended : Goto(w, how)
    BY <1>18 DEF Shutdown, End, Ended
  <2>3. (\E m : Keep(w, m)) /\ UNCHANGED jobs
    BY <1>18 DEF Shutdown, End, storageVars, jobVars
  <2> QED BY <2>1, <2>2, <2>3, WithoutJob
<1>19. ASSUME NEW w \in Workers, Start(w) PROVE ClaimInv'
  <2>1. {"starting"} \subseteq Labels \ AtWork
    BY DEF Labels, AtWork
  <2>2. \E label \in {"starting"} : Goto(w, label)
    BY <1>19 DEF Start, Proceed
  <2>3. (UNCHANGED mem \/ \E m : Keep(w, m)) /\ UNCHANGED jobs
    BY <1>19 DEF Start, Proceed, storageVars, jobVars
  <2> QED BY <2>1, <2>2, <2>3, WithoutJob
<1>20. ASSUME NEW w \in Workers, Crash(w) PROVE ClaimInv'
  <2>1. Ended \subseteq Labels \ AtWork
    BY DEF Labels, Down, Ended, AtWork
  <2>2. \E how \in Ended : Goto(w, how)
    BY <1>20 DEF Crash, End, Ended
  <2>3. (\E m : Keep(w, m)) /\ UNCHANGED jobs
    BY <1>20 DEF Crash, End, storageVars, jobVars
  <2> QED BY <2>1, <2>2, <2>3, WithoutJob
<1>21. ASSUME NEW w \in Workers, Raises(w) PROVE ClaimInv'
  <2>1. CASE RaisesInJob(w)
    <3>1. pc[w] = "complete" /\ Goto(w, "fail")
      BY <2>1 DEF RaisesInJob
    <3>2. (\E m : Keep(w, m)) /\ mem'[w].held = mem[w].held /\ UNCHANGED jobs
      BY <1>21, <2>1 DEF RaisesInJob, Raises, Keep, TypeInv, Control, Memory, jobVars
    <3>3. {"complete", "fail"} \subseteq AtWork
      BY DEF AtWork
    <3> QED BY <3>1, <3>2, <3>3, WithSameJob
  <2>2. CASE RaisesInHandler(w) \/ RaisesInLoop(w) \/ RaisesOutside(w)
    <3>1. {"running", "final", "error"} \subseteq Labels \ AtWork
      BY DEF Labels, Down, Ended, AtWork
    <3>2. \E label \in {"running", "final", "error"} : Goto(w, label)
      BY <2>2 DEF RaisesInHandler, RaisesInLoop, RaisesOutside, End
    <3>3. (\E m : Keep(w, m)) /\ UNCHANGED jobs
      BY <1>21, <2>2
         DEF Raises, RaisesInHandler, RaisesInLoop, RaisesOutside, End, jobVars
    <3> QED BY <3>1, <3>2, <3>3, WithoutJob
  <2> QED BY <1>21, <2>1, <2>2 DEF Raises
<1>22. ASSUME NEW w \in Workers, Signal(w) PROVE ClaimInv'
  <2>1. UNCHANGED <<jobs, pc, mem>>
    BY <1>22 DEF Signal, storageVars, jobVars
  <2> QED BY <2>1 DEF ClaimInv, Owns, Apart, Attempted, Unclaimed
<1>23. ASSUME NEW w \in Workers, NEW j \in Jobs, NEW price \in Prices,
             PostJob(w, j, price)
      PROVE  ClaimInv'
  <2> DEFINE row == [jobs[j] EXCEPT !.price = price, !.created = Now.at,
                                    !.updated = Now.at]
  <2>1. Unclaimed(j) /\ row.attempts = 0
    BY <1>23 DEF Unclaimed, PostJob, DrawJob, NoRow
  <2>2. jobs' = [jobs EXCEPT ![j] = row] /\ UNCHANGED <<pc, mem>>
    BY <1>23 DEF PostJob, DrawJob
  <2> HIDE DEF row
  <2> QED BY <1>23, <2>1, <2>2, Unowned
<1>24. ASSUME NEW w \in Workers, NEW j \in Jobs, InsertJob(w, j) PROVE ClaimInv'
  <2> DEFINE row == [jobs[j] EXCEPT !.status = "queued"]
  <2>1. Unclaimed(j)
    BY <1>24 DEF Unclaimed, InsertJob, EnqueueJob
  <2>2. row.attempts = 0
    BY <2>1 DEF ClaimInv, Attempted, Unclaimed, TypeInv, StorageTypeOK
  <2>3. jobs' = [jobs EXCEPT ![j] = row] /\ UNCHANGED <<pc, mem>>
    BY <1>24 DEF InsertJob, EnqueueJob
  <2> HIDE DEF row
  <2> QED BY <1>24, <2>1, <2>2, <2>3, Unowned
<1>25. ASSUME NEW kind \in OperatorKinds, NEW amount \in Amounts,
             PostLedger(kind, amount)
      PROVE  ClaimInv'
  <2>1. UNCHANGED <<jobs, pc, mem>>
    BY <1>25 DEF PostLedger, jobVars
  <2> QED BY <2>1 DEF ClaimInv, Owns, Apart, Attempted, Unclaimed
<1>26. ASSUME PostHalt PROVE ClaimInv'
  <2>1. UNCHANGED <<jobs, pc, mem>>
    BY <1>26 DEF PostHalt, jobVars
  <2> QED BY <2>1 DEF ClaimInv, Owns, Apart, Attempted, Unclaimed
<1>27. ASSUME PostClearHalt PROVE ClaimInv'
  <2>1. UNCHANGED <<jobs, pc, mem>>
    BY <1>27 DEF PostClearHalt, jobVars
  <2> QED BY <2>1 DEF ClaimInv, Owns, Apart, Attempted, Unclaimed
<1>28. ASSUME Midnight PROVE ClaimInv'
  <2>1. UNCHANGED <<jobs, pc, mem>>
    BY <1>28 DEF Midnight, jobVars
  <2> QED BY <2>1 DEF ClaimInv, Owns, Apart, Attempted, Unclaimed
<1>29. CASE UNCHANGED vars
  <2>1. UNCHANGED <<jobs, pc, mem>>
    BY <1>29 DEF vars, storageVars, jobVars
  <2> QED BY <2>1 DEF ClaimInv, Owns, Apart, Attempted, Unclaimed
<1>30. ASSUME NEW w \in Workers, Jam(w) PROVE ClaimInv'
  <2>1. {"stuck"} \subseteq Labels \ AtWork
    BY DEF Labels, AtWork
  <2>2. \E label \in {"stuck"} : Goto(w, label)
    BY <1>30 DEF Jam
  <2>3. (\E m : Keep(w, m)) /\ UNCHANGED jobs
    BY <1>30 DEF Jam, jobVars
  <2> QED BY <2>1, <2>2, <2>3, WithoutJob
<1> QED
  BY <1>1, <1>2, <1>3, <1>4, <1>5, <1>6, <1>7, <1>8, <1>9, <1>10, <1>11,
     <1>12, <1>13, <1>14, <1>15, <1>16, <1>17, <1>18, <1>19, <1>20,
     <1>21, <1>22, <1>23, <1>24, <1>25, <1>26, <1>27, <1>28, <1>29, <1>30
     DEF Next, Step, Environment

LEMMA ClaimInvImplies == TypeInv /\ ClaimInv => ClaimsExclusive
<1> SUFFICES ASSUME TypeInv, ClaimInv PROVE ClaimsExclusive
  OBVIOUS
<1>1. \A w \in Workers : pc[w] \in AtWork => mem[w].held \in Jobs
  BY HeldTypes
<1> QED BY <1>1 DEF ClaimInv, Owns, Apart, Attempted, Unclaimed, ClaimsExclusive

\* A job is claimed at most once in its life and never worked on by two processes,
\* for any number of processes over one data directory, over kill -9, restarts and
\* errors of the database, the disk and standard output (storage.claim_next_job,
\* orchestrator.run).
THEOREM ClaimsAreExclusive == Spec => []ClaimsExclusive
<1>1. Init => TypeInv /\ ClaimInv
  BY TypeInit, ClaimInit
<1>2. TypeInv /\ ClaimInv /\ [Next]_vars => TypeInv' /\ ClaimInv'
  BY TypeStep, ClaimStep
<1>3. TypeInv /\ ClaimInv => ClaimsExclusive
  BY ClaimInvImplies
<1> QED BY <1>1, <1>2, <1>3, PTL DEF Spec

-----------------------------------------------------------------------------
\* The actions that leave alone all that BooksMatchJobs speaks of.
LEMMA BookWriters ==
    ASSUME [Next]_vars
    PROVE  \/ UNCHANGED <<jobs, earned, spent>>
           \/ \E w \in Workers : Claim(w) \/ Complete(w) \/ Fail(w)
           \/ \E w \in Workers, j \in Jobs :
                InsertJob(w, j) \/ \E price \in Prices : PostJob(w, j, price)
<1> USE DEF storageVars, jobVars, ledgerVars
<1>1. ASSUME NEW w \in Workers, Step(w)
      PROVE  \/ UNCHANGED <<jobs, earned, spent>>
             \/ Claim(w) \/ Complete(w) \/ Fail(w)
  <2>1. ASSUME \/ Starting(w) \/ Loop(w)
               \/ ReadTotals(w) \/ ReadDaily(w) \/ ReadCounts(w) \/ ReadRecent(w)
               \/ Decide(w) \/ Report(w) \/ Persist(w)
        PROVE  UNCHANGED <<jobs, earned, spent>>
    BY <2>1 DEF Starting, Loop, ReadTotals, ReadDaily, ReadCounts, ReadRecent,
                Reads, Decide, Report, Persist
  <2>2. ASSUME \/ Announce(w) \/ Generate(w)
               \/ Running(w) \/ Final(w) \/ WriteEnd(w) \/ Shutdown(w)
        PROVE  UNCHANGED <<jobs, earned, spent>>
    BY <2>2 DEF Announce, Generate, Running, Final, WriteEnd, Shutdown
  <2> QED BY <1>1, <2>1, <2>2 DEF Step
<1>2. ASSUME NEW w \in Workers, Start(w) \/ Signal(w) \/ Jam(w) \/ Crash(w) \/ Raises(w)
      PROVE  UNCHANGED <<jobs, earned, spent>>
  BY <1>2 DEF Start, Signal, Jam, Crash, Raises
<1>3. ASSUME \/ PostHalt \/ PostClearHalt \/ Midnight
             \/ \E kind \in OperatorKinds, amount \in Amounts : PostLedger(kind, amount)
      PROVE  UNCHANGED <<jobs, earned, spent>>
  BY <1>3 DEF PostHalt, PostClearHalt, Midnight, PostLedger, RecordLedger
<1>4. CASE UNCHANGED vars
  BY <1>4 DEF vars
<1> QED BY <1>1, <1>2, <1>3, <1>4 DEF Next, Environment

\* Why the books match: a settlement finds the job running, and a running job has
\* neither revenue nor cost yet, so what is added is all there is.
Balanced(j) ==
    /\ earned[j] = IF jobs[j].status = "succeeded" THEN jobs[j].price ELSE 0
    /\ spent[j] = jobs[j].cost
    /\ jobs[j].status \in {"absent", "queued", "running"} => jobs[j].cost = 0
BookInv == \A j \in Jobs : Balanced(j)

LEMMA BookInit == Init => BookInv
BY DEF Init, StorageInit, NoRow, BookInv, Balanced

\* A change to the row of a job that is not settled, before or after.
LEMMA UnsettledRow ==
    ASSUME TypeInv, BookInv, NEW j \in Jobs, NEW row,
           Unclaimed(j),
           jobs' = [jobs EXCEPT ![j] = row],
           row.status \in {"absent", "queued", "running"},
           row.cost = jobs[j].cost,
           UNCHANGED <<earned, spent>>
    PROVE  BookInv'
<1>1. /\ jobs'[j] = row
      /\ \A i \in Jobs : i # j => jobs'[i] = jobs[i]
  BY DEF TypeInv, StorageTypeOK
<1>2. ASSUME NEW i \in Jobs, i # j PROVE Balanced(i)'
  BY <1>1, <1>2 DEF BookInv, Balanced
<1>3. Balanced(j)'
  BY <1>1 DEF BookInv, Balanced, Unclaimed
<1> QED BY <1>2, <1>3 DEF BookInv

\* A settlement of a running job, with the rows that Book adds.
LEMMA SettledRow ==
    ASSUME TypeInv, BookInv, NEW j \in Jobs, NEW row,
           NEW cost \in Nat, NEW revenue \in Nat, NEW stamp,
           jobs[j].status = "running",
           jobs' = [jobs EXCEPT ![j] = row],
           row.cost = cost,
           \/ row.status = "succeeded" /\ revenue = row.price
           \/ row.status = "failed" /\ revenue = 0,
           Book(j, cost, revenue, stamp)
    PROVE  BookInv'
<1>1. /\ jobs'[j] = row
      /\ \A i \in Jobs : i # j => jobs'[i] = jobs[i]
  BY DEF TypeInv, StorageTypeOK
<1>2. earned[j] = 0 /\ spent[j] = 0
  BY DEF BookInv, Balanced
<1>3. /\ earned'[j] = earned[j] + revenue
      /\ \A i \in Jobs : i # j => earned'[i] = earned[i]
  BY DEF Book, TypeInv, StorageTypeOK
<1>4. /\ spent'[j] = spent[j] + cost
      /\ \A i \in Jobs : i # j => spent'[i] = spent[i]
  BY DEF Book, TypeInv, StorageTypeOK
<1>5. earned'[j] = revenue /\ spent'[j] = cost
  BY <1>2, <1>3, <1>4
<1>6. ASSUME NEW i \in Jobs, i # j PROVE Balanced(i)'
  BY <1>1, <1>3, <1>4, <1>6 DEF BookInv, Balanced
<1>7. Balanced(j)'
  BY <1>1, <1>5 DEF Balanced
<1> QED BY <1>6, <1>7 DEF BookInv

LEMMA BookStep ==
    ASSUME "stdout" \notin Faults
    PROVE  TypeInv /\ ClaimInv /\ BookInv /\ [Next]_vars => BookInv'
<1> SUFFICES ASSUME TypeInv, ClaimInv, BookInv, [Next]_vars PROVE BookInv'
  OBVIOUS
<1>1. CASE UNCHANGED <<jobs, earned, spent>>
  BY <1>1 DEF BookInv, Balanced
<1>2. ASSUME NEW w \in Workers, Claim(w) PROVE BookInv'
  <2>1. UNCHANGED <<earned, spent>>
    BY <1>2 DEF Claim, ledgerVars
  <2>2. CASE UNCHANGED jobs
    BY <2>1, <2>2 DEF BookInv, Balanced
  <2>3. ASSUME NEW j \in Jobs, ClaimNextJob(j) PROVE BookInv'
    <3> DEFINE row == [jobs[j] EXCEPT !.status = "running", !.updated = Now.at,
                                      !.attempts = @ + 1]
    <3>1. Unclaimed(j)
      BY <2>3 DEF Unclaimed, ClaimNextJob, IsNext, Queued
    <3>2. jobs' = [jobs EXCEPT ![j] = row]
      BY <2>3 DEF ClaimNextJob, TypeInv, StorageTypeOK
    <3>3. /\ row.status \in {"absent", "queued", "running"}
          /\ row.cost = jobs[j].cost
      BY DEF TypeInv, StorageTypeOK
    <3> HIDE DEF row
    <3> QED BY <2>1, <2>3, <3>1, <3>2, <3>3, UnsettledRow
  <2> QED BY <1>2, <2>2, <2>3 DEF Claim, jobVars
<1>3. ASSUME NEW w \in Workers, Complete(w) PROVE BookInv'
  <2> DEFINE j == mem[w].held
             row == [jobs[j] EXCEPT !.status = "succeeded",
                         !.cost = ProviderCostCents, !.updated = mem[w].stamp.at]
  <2>1. pc[w] \in AtWork /\ j \in Jobs
    BY <1>3, HeldTypes DEF Complete, AtWork
  <2>2. jobs[j].status = "running"
    BY <2>1 DEF ClaimInv, Owns
  <2>3. jobs' = [jobs EXCEPT ![j] = row]
    BY <1>3, <2>1 DEF Complete, CompleteJob, TypeInv, StorageTypeOK
  <2>4. Book(j, ProviderCostCents, jobs[j].price, mem[w].stamp)
    BY <1>3 DEF Complete, CompleteJob
  <2>5. /\ row.cost = ProviderCostCents /\ ProviderCostCents \in Nat
        /\ row.status = "succeeded" /\ row.price = jobs[j].price
        /\ row.price \in Nat
    BY <2>1, RuntimeAssumption DEF TypeInv, StorageTypeOK
  <2> HIDE DEF row, j
  <2> QED BY <2>1, <2>2, <2>3, <2>4, <2>5, SettledRow
<1>4. ASSUME NEW w \in Workers, Fail(w) PROVE BookInv'
  <2> DEFINE j == mem[w].held
             row == [jobs[j] EXCEPT !.status = "failed",
                         !.cost = FailureCostCents, !.updated = mem[w].stamp.at]
  <2>1. pc[w] \in AtWork /\ j \in Jobs
    BY <1>4, HeldTypes DEF Fail, AtWork
  <2>2. jobs[j].status = "running"
    BY <2>1 DEF ClaimInv, Owns
  <2>3. jobs' = [jobs EXCEPT ![j] = row]
    BY <1>4, <2>1 DEF Fail, FailJob, TypeInv, StorageTypeOK
  <2>4. Book(j, FailureCostCents, 0, mem[w].stamp)
    BY <1>4 DEF Fail, FailJob
  <2>5. /\ row.cost = FailureCostCents /\ FailureCostCents \in Nat
        /\ row.status = "failed"
    BY <2>1, RuntimeAssumption DEF TypeInv, StorageTypeOK
  <2> HIDE DEF row, j
  <2> QED BY <2>1, <2>2, <2>3, <2>4, <2>5, SettledRow
<1>5. ASSUME NEW w \in Workers, NEW j \in Jobs, InsertJob(w, j) PROVE BookInv'
  <2> DEFINE row == [jobs[j] EXCEPT !.status = "queued"]
  <2>1. Unclaimed(j) /\ jobs' = [jobs EXCEPT ![j] = row]
    BY <1>5 DEF Unclaimed, InsertJob, EnqueueJob
  <2>2. row.status \in {"absent", "queued", "running"} /\ row.cost = jobs[j].cost
    BY DEF TypeInv, StorageTypeOK
  <2>3. UNCHANGED <<earned, spent>>
    BY <1>5 DEF InsertJob, ledgerVars
  <2> HIDE DEF row
  <2> QED BY <1>5, <2>1, <2>2, <2>3, UnsettledRow
<1>6. ASSUME NEW w \in Workers, NEW j \in Jobs, NEW price \in Prices,
             PostJob(w, j, price)
      PROVE  BookInv'
  <2> DEFINE row == [jobs[j] EXCEPT !.price = price, !.created = Now.at,
                                    !.updated = Now.at]
  <2>0. jobs[j] = NoRow /\ jobs' = [jobs EXCEPT ![j] = row]
    BY <1>6 DEF PostJob, DrawJob
  <2>1. jobs' = [jobs EXCEPT ![j] = row]
    BY <2>0
  <2>2. /\ Unclaimed(j)
        /\ row.status \in {"absent", "queued", "running"}
        /\ row.cost = jobs[j].cost
    BY <2>0 DEF NoRow, Unclaimed
  <2>3. UNCHANGED <<earned, spent>>
    BY <1>6 DEF PostJob, ledgerVars
  <2> HIDE DEF row
  <2> QED BY <1>6, <2>1, <2>2, <2>3, UnsettledRow
<1> QED BY <1>1, <1>2, <1>3, <1>4, <1>5, <1>6, BookWriters

\* The ledger and the jobs table agree on every job after any number of jobs,
\* processes, crashes and errors, unless printing can fail: a print that raises
\* after the commit of a success makes fail_job book the job a second time
\* (storage.complete_job, storage.fail_job, orchestrator.run).
THEOREM BooksAreMatched ==
    ASSUME "stdout" \notin Faults
    PROVE  Spec => []BooksMatchJobs
<1>1. Init => TypeInv /\ ClaimInv /\ BookInv
  BY TypeInit, ClaimInit, BookInit
<1>2. TypeInv /\ ClaimInv /\ BookInv /\ [Next]_vars => TypeInv' /\ ClaimInv' /\ BookInv'
  BY TypeStep, ClaimStep, BookStep
<1>3. BookInv => BooksMatchJobs
  BY DEF BookInv, Balanced, BooksMatchJobs
<1> QED BY <1>1, <1>2, <1>3, PTL DEF Spec

-----------------------------------------------------------------------------
\* Why what vendors charge is booked: a process that is about to call has a job for
\* which nothing has been charged, so that a job is charged for one request only, and
\* whoever settles the job books the cost of a call with it.
Calls(w) == pc[w] \in {"announce", "generate"}
Covers(j) ==
    /\ billed[j] <= MaxBills
    /\ Unclaimed(j) => billed[j] = 0
    /\ jobs[j].status \in {"succeeded", "failed"} => ProviderCostCents <= spent[j]
BillInv ==
    /\ \A j \in Jobs : Covers(j)
    /\ \A w \in Workers : Calls(w) => billed[mem[w].held] = 0

LEMMA BillTypes ==
    /\ MaxBills \in {1, 2}
    /\ \A primary, fallback : Call(primary, fallback).bills \in 0 .. MaxBills
BY DEF MaxBills, Call, Bill

\* A step to a statement that is followed by no call before the next claim.
LEMMA NoNewCaller ==
    ASSUME TypeInv, NEW w \in Workers, NEW label \in Labels \ {"announce", "generate"},
           Goto(w, label),
           UNCHANGED mem \/ \E m : Keep(w, m)
    PROVE  \A v \in Workers : Calls(v)' => Calls(v) /\ mem'[v].held = mem[v].held
<1>1. \A v \in Workers : v # w => pc'[v] = pc[v] /\ mem'[v] = mem[v]
  BY OnlyFrame DEF Only
<1>2. pc'[w] = label
  BY Arrives
<1> QED BY <1>1, <1>2 DEF Calls

\* The actions that leave alone all that BillsCovered speaks of.
LEMMA BillWriters ==
    ASSUME TypeInv, [Next]_vars
    PROVE  \/ /\ UNCHANGED <<jobs, spent, billed>>
              /\ \A v \in Workers : Calls(v)' => Calls(v) /\ mem'[v].held = mem[v].held
           \/ \E w \in Workers : Claim(w) \/ Generate(w) \/ Complete(w) \/ Fail(w)
           \/ \E w \in Workers, j \in Jobs :
                InsertJob(w, j) \/ \E price \in Prices : PostJob(w, j, price)
<1> DEFINE Same == UNCHANGED <<jobs, spent, billed>>
           Callers == \A v \in Workers : Calls(v)' => Calls(v) /\ mem'[v].held = mem[v].held
           Silent == Labels \ {"announce", "generate"}
<1>0. {"loop", "totals", "daily", "counts", "recent", "decide", "report", "persist", "claim",
       "fail", "running", "final", "endHalted", "endStopped", "shutdown", "starting",
       "error", "stuck"} \cup Ended \subseteq Silent
  BY DEF Labels, Down, Ended
<1>1. ASSUME NEW w \in Workers,
             Starting(w) \/ Loop(w) \/ Decide(w) \/ Report(w) \/ Persist(w)
      PROVE  Same /\ Callers
  <2>1. Same
    BY <1>1 DEF Starting, Loop, Decide, Report, Persist, storageVars, jobVars, ledgerVars,
                history
  <2>2. \E label \in Silent : Goto(w, label)
    BY <1>0, <1>1 DEF Starting, Loop, Decide, Report, Persist, Proceed
  <2>3. UNCHANGED mem \/ \E m : Keep(w, m)
    BY <1>1 DEF Starting, Loop, Decide, Report, Persist, Proceed
  <2> QED BY <2>1, <2>2, <2>3, NoNewCaller
<1>2. ASSUME NEW w \in Workers,
             ReadTotals(w) \/ ReadDaily(w) \/ ReadCounts(w) \/ ReadRecent(w)
      PROVE  Same /\ Callers
  <2>1. Same
    BY <1>2 DEF ReadTotals, ReadDaily, ReadCounts, ReadRecent, Reads, storageVars, jobVars,
                ledgerVars, history
  <2>2. \E label \in Silent : Goto(w, label)
    BY <1>0, <1>2 DEF ReadTotals, ReadDaily, ReadCounts, ReadRecent, Reads
  <2>3. \E m : Keep(w, m)
    BY <1>2 DEF ReadTotals, ReadDaily, ReadCounts, ReadRecent, Reads
  <2> QED BY <2>1, <2>2, <2>3, NoNewCaller
<1>3. ASSUME NEW w \in Workers, Announce(w) PROVE Same /\ Callers
  <2>1. Same /\ UNCHANGED mem /\ pc[w] = "announce"
    BY <1>3 DEF Announce, Proceed, storageVars, jobVars, ledgerVars, history
  <2>2. \A v \in Workers : v # w => pc'[v] = pc[v]
    BY <1>3 DEF Announce, Proceed, Goto, TypeInv, Control
  <2> QED BY <2>1, <2>2 DEF Calls
<1>4. ASSUME NEW w \in Workers, Running(w) \/ Final(w) \/ WriteEnd(w) \/ Shutdown(w)
      PROVE  Same /\ Callers
  <2>1. Same
    BY <1>4 DEF Running, Final, WriteEnd, Shutdown, storageVars, jobVars, ledgerVars, history
  <2>2. \E label \in Silent : Goto(w, label)
    BY <1>0, <1>4 DEF Running, Final, WriteEnd, Shutdown, End, Proceed, Ended
  <2>3. UNCHANGED mem \/ \E m : Keep(w, m)
    BY <1>4 DEF Running, Final, WriteEnd, Shutdown, End, Proceed
  <2> QED BY <2>1, <2>2, <2>3, NoNewCaller
<1>5. ASSUME NEW w \in Workers, Start(w) \/ Jam(w) \/ Crash(w) PROVE Same /\ Callers
  <2>1. Same
    BY <1>5 DEF Start, Jam, Crash, storageVars, jobVars, ledgerVars, history
  <2>2. \E label \in Silent : Goto(w, label)
    BY <1>0, <1>5 DEF Start, Jam, Crash, End, Proceed, Ended
  <2>3. UNCHANGED mem \/ \E m : Keep(w, m)
    BY <1>5 DEF Start, Jam, Crash, End, Proceed
  <2> QED BY <2>1, <2>2, <2>3, NoNewCaller
<1>6. ASSUME NEW w \in Workers, Raises(w) PROVE Same /\ Callers
  <2>1. Same
    BY <1>6 DEF Raises, jobVars, ledgerVars, history
  <2>2. \E label \in Silent : Goto(w, label)
    BY <1>0, <1>6 DEF Raises, RaisesInJob, RaisesInHandler, RaisesInLoop, RaisesOutside, End
  <2>3. \E m : Keep(w, m)
    BY <1>6 DEF Raises, RaisesInJob, RaisesInHandler, RaisesInLoop, RaisesOutside, End
  <2> QED BY <2>1, <2>2, <2>3, NoNewCaller
<1>7. ASSUME \/ \E w \in Workers : Signal(w)
             \/ PostHalt \/ PostClearHalt \/ Midnight
             \/ \E kind \in OperatorKinds, amount \in Amounts : PostLedger(kind, amount)
      PROVE  Same /\ Callers
  <2>1. Same /\ UNCHANGED <<pc, mem>>
    BY <1>7 DEF Signal, PostHalt, PostClearHalt, Midnight, PostLedger, RecordLedger,
                storageVars, jobVars, ledgerVars, history
  <2> QED BY <2>1 DEF Calls
<1>8. CASE UNCHANGED vars
  BY <1>8 DEF vars, storageVars, jobVars, ledgerVars, history, Calls
<1> QED BY <1>1, <1>2, <1>3, <1>4, <1>5, <1>6, <1>7, <1>8 DEF Next, Step, Environment

LEMMA BillInit == Init => BillInv
BY BillTypes DEF Init, StorageInit, NoRow, BillInv, Covers, Calls

\* The row of a job leaves the queue, or comes nearer to it.
LEMMA UnsettledBill ==
    ASSUME TypeInv, BillInv, NEW j \in Jobs, NEW row,
           Unclaimed(j),
           jobs' = [jobs EXCEPT ![j] = row],
           row.status \in {"absent", "queued", "running"},
           UNCHANGED <<spent, billed>>
    PROVE  \A i \in Jobs : Covers(i)'
<1>1. jobs'[j] = row /\ \A i \in Jobs : i # j => jobs'[i] = jobs[i]
  BY DEF TypeInv, StorageTypeOK
<1> QED BY <1>1 DEF BillInv, Covers, Unclaimed

\* A job is settled, and what it is booked at covers a call.
LEMMA SettledBill ==
    ASSUME TypeInv, BillInv, NEW w \in Workers, NEW j \in Jobs, NEW row, NEW cost \in Nat,
           ProviderCostCents <= cost,
           jobs' = [jobs EXCEPT ![j] = row],
           row.status \in {"succeeded", "failed"},
           spent' = [spent EXCEPT ![j] = @ + cost],
           UNCHANGED billed,
           \E label \in Labels \ {"announce", "generate"} : Goto(w, label),
           \E m : Keep(w, m)
    PROVE  BillInv'
<1>1. jobs'[j] = row /\ \A i \in Jobs : i # j => jobs'[i] = jobs[i]
  BY DEF TypeInv, StorageTypeOK
<1>2. /\ spent[j] \in Nat /\ spent'[j] = spent[j] + cost
      /\ \A i \in Jobs : i # j => spent'[i] = spent[i]
  BY DEF TypeInv, StorageTypeOK
<1>3. ProviderCostCents <= spent'[j]
  BY <1>2, RuntimeAssumption
<1>4. \A i \in Jobs : Covers(i)'
  BY <1>1, <1>2, <1>3 DEF BillInv, Covers, Unclaimed
<1>5. \A v \in Workers : Calls(v)' => Calls(v) /\ mem'[v].held = mem[v].held
  BY NoNewCaller
<1> QED BY <1>4, <1>5 DEF BillInv

LEMMA BillStep ==
    ASSUME ProviderCostCents <= FailureCostCents
    PROVE  TypeInv /\ ClaimInv /\ BillInv /\ [Next]_vars => BillInv'
<1> SUFFICES ASSUME TypeInv, ClaimInv, BillInv, [Next]_vars PROVE BillInv'
  OBVIOUS
<1>1. CASE /\ UNCHANGED <<jobs, spent, billed>>
           /\ \A v \in Workers : Calls(v)' => Calls(v) /\ mem'[v].held = mem[v].held
  BY <1>1 DEF BillInv, Covers, Unclaimed
<1>2. ASSUME NEW w \in Workers, Claim(w) PROVE BillInv'
  <2>1. UNCHANGED <<spent, billed>>
    BY <1>2 DEF Claim, ledgerVars
  <2>2. CASE Proceed(w, "loop") /\ UNCHANGED jobs
    <3>1. "loop" \in Labels \ {"announce", "generate"}
      BY DEF Labels
    <3>2. \A v \in Workers : Calls(v)' => Calls(v) /\ mem'[v].held = mem[v].held
      BY <2>2, <3>1, NoNewCaller DEF Proceed
    <3> QED BY <2>1, <2>2, <3>2 DEF BillInv, Covers, Unclaimed
  <2>3. ASSUME NEW j \in Jobs, ClaimNextJob(j), Goto(w, "announce"),
               Keep(w, [mem[w] EXCEPT !.held = j])
        PROVE  BillInv'
    <3> DEFINE row == [jobs[j] EXCEPT !.status = "running", !.updated = Now.at,
                                      !.attempts = @ + 1]
    <3>1. Unclaimed(j)
      BY <2>3 DEF Unclaimed, ClaimNextJob, IsNext, Queued
    <3>2. jobs' = [jobs EXCEPT ![j] = row]
      BY <2>3 DEF ClaimNextJob, TypeInv, StorageTypeOK
    <3>3. row.status \in {"absent", "queued", "running"}
      BY DEF TypeInv, StorageTypeOK
    <3>4. \A i \in Jobs : Covers(i)'
      <4> HIDE DEF row
      <4> QED BY <2>1, <3>1, <3>2, <3>3, UnsettledBill
    <3>5. billed'[j] = 0
      BY <2>1, <3>1 DEF BillInv, Covers
    <3>6. mem'[w].held = j
      BY <2>3 DEF Keep, TypeInv, Control, Memory
    <3>7. \A v \in Workers : v # w => pc'[v] = pc[v] /\ mem'[v] = mem[v]
      BY <2>3 DEF Goto, Keep, TypeInv, Control
    <3> QED BY <2>1, <3>4, <3>5, <3>6, <3>7 DEF BillInv, Calls
  <2> QED BY <1>2, <2>2, <2>3 DEF Claim, jobVars
<1>3. ASSUME NEW w \in Workers, Generate(w) PROVE BillInv'
  <2> DEFINE j == mem[w].held
  <2>1. pc[w] = "generate" /\ j \in Jobs /\ UNCHANGED <<jobs, spent>>
    BY <1>3, HeldTypes DEF Generate, AtWork, jobVars, ledgerVars
  <2>2. jobs[j].status = "running" /\ billed[j] = 0
    BY <2>1 DEF ClaimInv, Owns, AtWork, BillInv, Calls
  <2>3. PICK bills \in 0 .. MaxBills : billed' = [billed EXCEPT ![j] = @ + bills]
    BY <1>3, BillTypes DEF Generate
  <2>4. billed'[j] <= MaxBills /\ \A i \in Jobs : i # j => billed'[i] = billed[i]
    BY <2>1, <2>2, <2>3, BillTypes DEF TypeInv, Others
  <2>5. \A i \in Jobs : Covers(i)'
    BY <2>1, <2>2, <2>4 DEF BillInv, Covers, Unclaimed
  <2>6. \E label \in {"complete", "fail"} : Goto(w, label)
    BY <1>3 DEF Generate
  <2>7. {"complete", "fail"} \subseteq Labels \ {"announce", "generate"}
    BY DEF Labels
  <2>8. \A v \in Workers : Calls(v)' => Calls(v) /\ mem'[v].held = mem[v].held
    BY <1>3, <2>6, <2>7, NoNewCaller DEF Generate
  <2>9. ~Calls(w)'
    BY <2>6, Arrives DEF Calls
  <2>10. ASSUME NEW v \in Workers, Calls(v)' PROVE billed'[mem'[v].held] = 0
    <3>1. v # w /\ Calls(v) /\ mem'[v].held = mem[v].held
      BY <2>8, <2>9, <2>10
    <3>2. mem[v].held \in Jobs /\ mem[v].held # j
      BY <2>1, <3>1, HeldTypes DEF Calls, AtWork, ClaimInv, Apart
    <3> QED BY <2>4, <3>1, <3>2 DEF BillInv
  <2> QED BY <2>5, <2>10 DEF BillInv
<1>4. ASSUME NEW w \in Workers, Complete(w) PROVE BillInv'
  <2> DEFINE j == mem[w].held
             row == [jobs[j] EXCEPT !.status = "succeeded",
                         !.cost = ProviderCostCents, !.updated = mem[w].stamp.at]
  <2>1. j \in Jobs
    BY <1>4, HeldTypes DEF Complete, AtWork
  <2>2. jobs' = [jobs EXCEPT ![j] = row]
    BY <1>4, <2>1 DEF Complete, CompleteJob, TypeInv, StorageTypeOK
  <2>3. row.status \in {"succeeded", "failed"}
    BY <2>1 DEF TypeInv, StorageTypeOK
  <2>4. spent' = [spent EXCEPT ![j] = @ + ProviderCostCents] /\ UNCHANGED billed
    BY <1>4 DEF Complete, CompleteJob, Book
  <2>5. \E label \in {"running", "fail"} : Goto(w, label)
    BY <1>4 DEF Complete
  <2>6. {"running", "fail"} \subseteq Labels \ {"announce", "generate"}
    BY DEF Labels
  <2>7. \E m : Keep(w, m)
    BY <1>4 DEF Complete
  <2>8. ProviderCostCents \in Nat /\ ProviderCostCents <= ProviderCostCents
    BY RuntimeAssumption
  <2> HIDE DEF row, j
  <2> QED BY <2>1, <2>2, <2>3, <2>4, <2>5, <2>6, <2>7, <2>8, SettledBill
<1>5. ASSUME NEW w \in Workers, Fail(w) PROVE BillInv'
  <2> DEFINE j == mem[w].held
             row == [jobs[j] EXCEPT !.status = "failed",
                         !.cost = FailureCostCents, !.updated = mem[w].stamp.at]
  <2>1. j \in Jobs
    BY <1>5, HeldTypes DEF Fail, AtWork
  <2>2. jobs' = [jobs EXCEPT ![j] = row]
    BY <1>5, <2>1 DEF Fail, FailJob, TypeInv, StorageTypeOK
  <2>3. row.status \in {"succeeded", "failed"}
    BY <2>1 DEF TypeInv, StorageTypeOK
  <2>4. spent' = [spent EXCEPT ![j] = @ + FailureCostCents] /\ UNCHANGED billed
    BY <1>5 DEF Fail, FailJob, Book
  <2>5. Goto(w, "running") /\ "running" \in Labels \ {"announce", "generate"}
    BY <1>5 DEF Fail, Labels
  <2>6. \E m : Keep(w, m)
    BY <1>5 DEF Fail
  <2>7. FailureCostCents \in Nat
    BY RuntimeAssumption
  <2> HIDE DEF row, j
  <2> QED BY <2>1, <2>2, <2>3, <2>4, <2>5, <2>6, <2>7, SettledBill
<1>6. ASSUME NEW w \in Workers, NEW j \in Jobs,
             InsertJob(w, j) \/ \E price \in Prices : PostJob(w, j, price)
      PROVE  BillInv'
  <2>1. UNCHANGED <<pc, mem, spent, billed>>
    BY <1>6 DEF InsertJob, PostJob, ledgerVars, history
  <2>2. Unclaimed(j)
    <3>1. CASE InsertJob(w, j)
      BY <3>1 DEF InsertJob, EnqueueJob, Unclaimed
    <3>2. CASE \E price \in Prices : PostJob(w, j, price)
      <4>1. jobs[j] = NoRow
        BY <3>2 DEF PostJob, DrawJob
      <4> QED BY <4>1 DEF NoRow, Unclaimed
    <3> QED BY <1>6, <3>1, <3>2
  <2>3. PICK row : /\ jobs' = [jobs EXCEPT ![j] = row]
                   /\ row.status \in {"absent", "queued"}
    <3>1. CASE InsertJob(w, j)
      <4> DEFINE row == [jobs[j] EXCEPT !.status = "queued"]
      <4>1. jobs' = [jobs EXCEPT ![j] = row]
        BY <3>1 DEF InsertJob, EnqueueJob
      <4>2. row.status = "queued"
        BY DEF TypeInv, StorageTypeOK
      <4> QED BY <4>1, <4>2
    <3>2. ASSUME NEW price \in Prices, PostJob(w, j, price)
          PROVE  \E row : /\ jobs' = [jobs EXCEPT ![j] = row]
                          /\ row.status \in {"absent", "queued"}
      <4> DEFINE row == [jobs[j] EXCEPT !.price = price, !.created = Now.at,
                                        !.updated = Now.at]
      <4>1. jobs[j] = NoRow /\ jobs' = [jobs EXCEPT ![j] = row]
        BY <3>2 DEF PostJob, DrawJob
      <4>2. row.status = "absent"
        BY <4>1 DEF NoRow
      <4> QED BY <4>1, <4>2
    <3> QED BY <1>6, <3>1, <3>2
  <2>4. \A i \in Jobs : Covers(i)'
    BY <2>1, <2>2, <2>3, UnsettledBill
  <2> QED BY <2>1, <2>4 DEF BillInv, Calls
<1> QED BY <1>1, <1>2, <1>3, <1>4, <1>5, <1>6, BillWriters

LEMMA BillInvImplies ==
    ASSUME TypeInv, BillInv, NEW j \in Jobs
    PROVE  billed[j] * ProviderCostCents <=
               spent[j] + ProviderCostCents *
                   (IF jobs[j].status = "running" THEN MaxBills ELSE MaxBills - 1)
<1> DEFINE c == ProviderCostCents
           b == billed[j]
           s == spent[j]
<1>1. /\ b \in Nat /\ s \in Nat /\ c \in Nat
      /\ jobs[j].status \in JobStatus
  BY RuntimeAssumption DEF TypeInv, StorageTypeOK, Others
<1>2. b <= MaxBills /\ MaxBills \in {1, 2}
  BY BillTypes DEF BillInv, Covers
<1>3. b \in {0, 1, 2}
  BY <1>1, <1>2
<1>4. CASE jobs[j].status = "running"
  <2>1. b * c <= s + c * MaxBills
    <3> HIDE DEF b, c, s
    <3> QED BY <1>1, <1>2, <1>3
  <2> QED BY <1>4, <2>1
<1>5. CASE jobs[j].status \in {"succeeded", "failed"}
  <2>1. c <= s
    BY <1>5 DEF BillInv, Covers
  <2>2. b * c <= s + c * (MaxBills - 1)
    <3> HIDE DEF b, c, s
    <3> QED BY <1>1, <1>2, <1>3, <2>1
  <2> QED BY <1>5, <2>2
<1>6. CASE Unclaimed(j)
  <2>1. b = 0
    BY <1>6 DEF BillInv, Covers
  <2>2. b * c <= s + c * (MaxBills - 1)
    <3> HIDE DEF b, c, s
    <3> QED BY <1>1, <1>2, <2>1
  <2> QED BY <1>6, <2>2 DEF Unclaimed
<1> QED BY <1>1, <1>4, <1>5, <1>6 DEF JobStatus, Unclaimed

\* What vendors have charged for a settled job is booked, except for the first of two
\* calls when a fallback stood in: no crash, error or second process makes the vendor
\* charge for a job twice (orchestrator.run, providers.FallbackProvider.generate).
THEOREM BillsAreCovered == Spec => []BillsCovered
<1>1. CASE ProviderCostCents <= FailureCostCents
  <2>1. Init => TypeInv /\ ClaimInv /\ BillInv
    BY TypeInit, ClaimInit, BillInit
  <2>2. TypeInv /\ ClaimInv /\ BillInv /\ [Next]_vars => TypeInv' /\ ClaimInv' /\ BillInv'
    BY <1>1, TypeStep, ClaimStep, BillStep
  <2>3. TypeInv /\ BillInv => BillsCovered
    BY BillInvImplies DEF BillsCovered
  <2> QED BY <2>1, <2>2, <2>3, PTL DEF Spec
<1>2. CASE ~(ProviderCostCents <= FailureCostCents)
  <2>1. BillsCovered
    BY <1>2, RuntimeAssumption DEF BillsCovered
  <2> QED BY <2>1, PTL
<1> QED BY <1>1, <1>2

-----------------------------------------------------------------------------
\* What the database shows of JobBook's variables, which is the substitution of
\* Promise; the credit is `earned` itself.
Status == [j \in Jobs |-> jobs[j].status]
Offers == [j \in Jobs |-> IF jobs[j].status = "absent" THEN 0 ELSE jobs[j].price]

\* A job about to be inserted has the price that its client offered.
OfferInv == \A w \in Workers : \A j \in posting[w] : jobs[j].price \in Prices

LEMMA OfferInit == Init => OfferInv
BY DEF Init, OfferInv

\* Prices are only written when a job is drawn.
LEMMA PricesStay ==
    ASSUME TypeInv, [Next]_vars,
           ~\E w \in Workers, j \in Jobs, price \in Prices : PostJob(w, j, price)
    PROVE  \A j \in Jobs : jobs'[j].price = jobs[j].price
<1>1. CASE UNCHANGED <<jobs, earned, spent>>
  BY <1>1
<1>2. ASSUME NEW w \in Workers, Claim(w) PROVE \A j \in Jobs : jobs'[j].price = jobs[j].price
  <2>1. CASE UNCHANGED jobs
    BY <2>1
  <2>2. ASSUME NEW i \in Jobs, ClaimNextJob(i)
        PROVE  \A j \in Jobs : jobs'[j].price = jobs[j].price
    BY <2>2 DEF ClaimNextJob, TypeInv, StorageTypeOK
  <2> QED BY <1>2, <2>1, <2>2 DEF Claim, jobVars
<1>3. ASSUME NEW w \in Workers, Complete(w)
      PROVE  \A j \in Jobs : jobs'[j].price = jobs[j].price
  BY <1>3 DEF Complete, CompleteJob, TypeInv, StorageTypeOK
<1>4. ASSUME NEW w \in Workers, Fail(w) PROVE \A j \in Jobs : jobs'[j].price = jobs[j].price
  BY <1>4 DEF Fail, FailJob, TypeInv, StorageTypeOK
<1>5. ASSUME NEW w \in Workers, NEW i \in Jobs, InsertJob(w, i)
      PROVE  \A j \in Jobs : jobs'[j].price = jobs[j].price
  BY <1>5 DEF InsertJob, EnqueueJob, TypeInv, StorageTypeOK
<1> QED BY <1>1, <1>2, <1>3, <1>4, <1>5, BookWriters

\* Jobs are only added to posting when they are drawn.
LEMMA PostingShrinks ==
    ASSUME TypeInv, [Next]_vars,
           ~\E w \in Workers, j \in Jobs, price \in Prices : PostJob(w, j, price)
    PROVE  \A w \in Workers : posting'[w] \subseteq posting[w]
<1>0. posting \in [Workers -> SUBSET Jobs]
  BY DEF TypeInv, Others
<1>1. ASSUME NEW w \in Workers, NEW how, End(w, how)
      PROVE  \A v \in Workers : posting'[v] \subseteq posting[v]
  BY <1>0, <1>1 DEF End
<1>2. ASSUME NEW w \in Workers, Step(w)
      PROVE  \A v \in Workers : posting'[v] \subseteq posting[v]
  <2>1. CASE Shutdown(w)
    BY <1>1, <2>1 DEF Shutdown
  <2>2. CASE \/ Starting(w) \/ Loop(w)
             \/ ReadTotals(w) \/ ReadDaily(w) \/ ReadCounts(w) \/ ReadRecent(w)
             \/ Decide(w) \/ Report(w) \/ Persist(w)
    <3>1. UNCHANGED posting
      BY <2>2 DEF Starting, Loop, ReadTotals, ReadDaily, ReadCounts, ReadRecent,
                  Reads, Decide, Report, Persist
    <3> QED BY <3>1
  <2>3. CASE \/ Claim(w) \/ Announce(w) \/ Generate(w) \/ Complete(w) \/ Fail(w)
             \/ Running(w) \/ Final(w) \/ WriteEnd(w)
    <3>1. UNCHANGED posting
      BY <2>3 DEF Claim, Announce, Generate, Complete, Fail, Running, Final, WriteEnd
    <3> QED BY <3>1
  <2> QED BY <1>2, <2>1, <2>2, <2>3 DEF Step
<1>3. ASSUME NEW w \in Workers, Crash(w)
      PROVE  \A v \in Workers : posting'[v] \subseteq posting[v]
  BY <1>1, <1>3 DEF Crash
<1>4. ASSUME NEW w \in Workers, Raises(w)
      PROVE  \A v \in Workers : posting'[v] \subseteq posting[v]
  BY <1>1, <1>4 DEF Raises, RaisesInJob, RaisesInHandler, RaisesInLoop, RaisesOutside
<1>5. ASSUME NEW w \in Workers, NEW j \in Jobs, InsertJob(w, j)
      PROVE  \A v \in Workers : posting'[v] \subseteq posting[v]
  BY <1>0, <1>5 DEF InsertJob
<1>6. ASSUME \/ \E w \in Workers : Start(w) \/ Signal(w) \/ Jam(w)
             \/ \E kind \in OperatorKinds, amount \in Amounts : PostLedger(kind, amount)
             \/ PostHalt \/ PostClearHalt \/ Midnight \/ UNCHANGED vars
      PROVE  UNCHANGED posting
  BY <1>6 DEF Start, Signal, Jam, PostLedger, PostHalt, PostClearHalt, Midnight, vars
<1> QED BY <1>2, <1>3, <1>4, <1>5, <1>6 DEF Next, Environment

LEMMA OfferStep == TypeInv /\ OfferInv /\ [Next]_vars => OfferInv'
<1> SUFFICES ASSUME TypeInv, OfferInv, [Next]_vars PROVE OfferInv'
  OBVIOUS
<1>0. posting \in [Workers -> SUBSET Jobs]
  BY DEF TypeInv, Others
<1>1. ASSUME NEW w \in Workers, NEW j \in Jobs, NEW price \in Prices,
             PostJob(w, j, price)
      PROVE  OfferInv'
  <2>1. jobs'[j].price \in Prices /\ \A i \in Jobs : i # j => jobs'[i] = jobs[i]
    BY <1>1 DEF PostJob, DrawJob, TypeInv, StorageTypeOK
  <2>2. \A v \in Workers : posting'[v] \subseteq posting[v] \cup {j}
    BY <1>0, <1>1 DEF PostJob
  <2> QED BY <1>0, <2>1, <2>2 DEF OfferInv
<1>2. CASE ~\E w \in Workers, j \in Jobs, price \in Prices : PostJob(w, j, price)
  <2>1. \A j \in Jobs : jobs'[j].price = jobs[j].price
    BY <1>2, PricesStay
  <2>2. \A w \in Workers : posting'[w] \subseteq posting[w]
    BY <1>2, PostingShrinks
  <2> QED BY <1>0, <2>1, <2>2 DEF OfferInv
<1> QED BY <1>1, <1>2

-----------------------------------------------------------------------------
\* A function that differs from another in one place.
LEMMA ExceptAt ==
    ASSUME NEW S, NEW f, NEW g, NEW x \in S, NEW v,
           f = [i \in S |-> f[i]],
           g = [i \in S |-> g[i]],
           g[x] = v,
           \A i \in S : i # x => g[i] = f[i]
    PROVE  g = [f EXCEPT ![x] = v]
OBVIOUS

\* How a change of one row looks to JobBook.
LEMMA StatusShown ==
    ASSUME TypeInv, NEW j \in Jobs, NEW row, jobs' = [jobs EXCEPT ![j] = row],
           NEW status, row.status = status
    PROVE  Status' = [Status EXCEPT ![j] = status]
<1>1. /\ jobs'[j] = row
      /\ \A i \in Jobs : i # j => jobs'[i] = jobs[i]
  BY DEF TypeInv, StorageTypeOK
<1>2. /\ Status = [i \in Jobs |-> Status[i]]
      /\ Status' = [i \in Jobs |-> Status'[i]]
  BY DEF Status
<1>3. Status'[j] = status /\ \A i \in Jobs : i # j => Status'[i] = Status[i]
  BY <1>1 DEF Status
<1> QED BY <1>2, <1>3, ExceptAt

LEMMA OfferShown ==
    ASSUME TypeInv, NEW j \in Jobs, NEW row, jobs' = [jobs EXCEPT ![j] = row],
           row.status # "absent", NEW offer, row.price = offer
    PROVE  Offers' = [Offers EXCEPT ![j] = offer]
<1>1. /\ jobs'[j] = row
      /\ \A i \in Jobs : i # j => jobs'[i] = jobs[i]
  BY DEF TypeInv, StorageTypeOK
<1>2. /\ Offers = [i \in Jobs |-> Offers[i]]
      /\ Offers' = [i \in Jobs |-> Offers'[i]]
  BY DEF Offers
<1>3. Offers'[j] = offer /\ \A i \in Jobs : i # j => Offers'[i] = Offers[i]
  BY <1>1 DEF Offers
<1> QED BY <1>2, <1>3, ExceptAt

LEMMA OffersStay ==
    ASSUME TypeInv, NEW j \in Jobs, NEW row, jobs' = [jobs EXCEPT ![j] = row],
           jobs[j].status # "absent", row.status # "absent",
           row.price = jobs[j].price
    PROVE  Offers' = Offers
<1>1. /\ jobs'[j] = row
      /\ \A i \in Jobs : i # j => jobs'[i] = jobs[i]
  BY DEF TypeInv, StorageTypeOK
<1> QED BY <1>1 DEF Offers

\* What a running job is credited is all it ever is: nothing has been credited before it is
\* settled, and a failure credits nothing, even one that follows a success.
Uncredited(j) == jobs[j].status \in {"absent", "queued", "running"} => earned[j] = 0
CreditInv == \A j \in Jobs : Uncredited(j)

LEMMA CreditInit == Init => CreditInv
BY DEF Init, StorageInit, CreditInv, Uncredited

LEMMA CreditStep == TypeInv /\ ClaimInv /\ CreditInv /\ [Next]_vars => CreditInv'
<1> SUFFICES ASSUME TypeInv, ClaimInv, CreditInv, [Next]_vars PROVE CreditInv'
  OBVIOUS
<1>1. CASE UNCHANGED <<jobs, earned, spent>>
  BY <1>1 DEF CreditInv, Uncredited
<1>2. ASSUME NEW j \in Jobs, NEW row, jobs' = [jobs EXCEPT ![j] = row],
             \/ Unclaimed(j) /\ UNCHANGED earned
             \/ /\ row.status \in {"succeeded", "failed"}
                /\ \E cost \in Nat, revenue \in Nat : \E stamp : Book(j, cost, revenue, stamp)
      PROVE  CreditInv'
  <2>1. jobs'[j] = row /\ \A i \in Jobs : i # j => jobs'[i] = jobs[i]
    BY <1>2 DEF TypeInv, StorageTypeOK
  <2>2. \A i \in Jobs : i # j => earned'[i] = earned[i]
    BY <1>2 DEF Book, TypeInv, StorageTypeOK
  <2>3. \A i \in Jobs : i # j => Uncredited(i)'
    BY <2>1, <2>2 DEF CreditInv, Uncredited
  <2>4. Uncredited(j)'
    BY <1>2, <2>1 DEF CreditInv, Uncredited, Unclaimed
  <2> QED BY <2>3, <2>4 DEF CreditInv
<1>3. ASSUME NEW w \in Workers, Claim(w) PROVE CreditInv'
  <2>1. UNCHANGED earned
    BY <1>3 DEF Claim, ledgerVars
  <2>2. CASE UNCHANGED jobs
    BY <2>1, <2>2 DEF CreditInv, Uncredited
  <2>3. ASSUME NEW j \in Jobs, ClaimNextJob(j) PROVE CreditInv'
    <3>1. Unclaimed(j)
      BY <2>3 DEF Unclaimed, ClaimNextJob, IsNext, Queued
    <3>2. \E row : jobs' = [jobs EXCEPT ![j] = row]
      BY <2>3 DEF ClaimNextJob, TypeInv, StorageTypeOK
    <3> QED BY <1>2, <2>1, <2>3, <3>1, <3>2
  <2> QED BY <1>3, <2>2, <2>3 DEF Claim, jobVars
<1>4. ASSUME NEW w \in Workers, Complete(w) PROVE CreditInv'
  <2> DEFINE row == [jobs[mem[w].held] EXCEPT !.status = "succeeded",
                         !.cost = ProviderCostCents, !.updated = mem[w].stamp.at]
  <2>1. mem[w].held \in Jobs
    BY <1>4, HeldTypes DEF Complete, AtWork
  <2>2. jobs' = [jobs EXCEPT ![mem[w].held] = row] /\ row.status = "succeeded"
    BY <1>4, <2>1 DEF Complete, CompleteJob, TypeInv, StorageTypeOK
  <2>3. /\ Book(mem[w].held, ProviderCostCents, jobs[mem[w].held].price, mem[w].stamp)
        /\ ProviderCostCents \in Nat /\ jobs[mem[w].held].price \in Nat
    BY <1>4, <2>1, RuntimeAssumption DEF Complete, CompleteJob, TypeInv, StorageTypeOK
  <2> HIDE DEF row
  <2> QED BY <1>2, <2>1, <2>2, <2>3
<1>5. ASSUME NEW w \in Workers, Fail(w) PROVE CreditInv'
  <2> DEFINE row == [jobs[mem[w].held] EXCEPT !.status = "failed",
                         !.cost = FailureCostCents, !.updated = mem[w].stamp.at]
  <2>1. mem[w].held \in Jobs
    BY <1>5, HeldTypes DEF Fail, AtWork
  <2>2. jobs' = [jobs EXCEPT ![mem[w].held] = row] /\ row.status = "failed"
    BY <1>5, <2>1 DEF Fail, FailJob, TypeInv, StorageTypeOK
  <2>3. /\ Book(mem[w].held, FailureCostCents, 0, mem[w].stamp)
        /\ FailureCostCents \in Nat /\ 0 \in Nat
    BY <1>5, <2>1, RuntimeAssumption DEF Fail, FailJob
  <2> HIDE DEF row
  <2> QED BY <1>2, <2>1, <2>2, <2>3
<1>6. ASSUME NEW w \in Workers, NEW j \in Jobs, InsertJob(w, j) PROVE CreditInv'
  <2>1. Unclaimed(j) /\ UNCHANGED earned /\ \E row : jobs' = [jobs EXCEPT ![j] = row]
    BY <1>6 DEF Unclaimed, InsertJob, EnqueueJob, ledgerVars
  <2> QED BY <1>2, <1>6, <2>1
<1>7. ASSUME NEW w \in Workers, NEW j \in Jobs, NEW price \in Prices, PostJob(w, j, price)
      PROVE  CreditInv'
  <2> DEFINE row == [jobs[j] EXCEPT !.price = price, !.created = Now.at, !.updated = Now.at]
  <2>1. jobs[j] = NoRow /\ jobs' = [jobs EXCEPT ![j] = row] /\ UNCHANGED earned
    BY <1>7 DEF PostJob, DrawJob, ledgerVars
  <2>2. Unclaimed(j)
    BY <2>1 DEF NoRow, Unclaimed
  <2> HIDE DEF row
  <2> QED BY <1>2, <1>7, <2>1, <2>2
<1> QED BY <1>1, <1>3, <1>4, <1>5, <1>6, <1>7, BookWriters

LEMMA PromiseInit == Init => Promise!BookInit
BY DEF Init, StorageInit, NoRow, Promise!BookInit

\* Every step of Runtime is a step of JobBook, or changes nothing it shows.
LEMMA PromiseStep ==
    TypeInv /\ ClaimInv /\ CreditInv /\ OfferInv /\ [Next]_vars
        => [Promise!BookNext]_(Promise!bookVars)
<1> SUFFICES ASSUME TypeInv, ClaimInv, CreditInv, OfferInv, [Next]_vars
             PROVE  Promise!BookNext \/ UNCHANGED <<Status, Offers, earned>>
  BY DEF Promise!bookVars, Status, Offers
<1>1. CASE UNCHANGED <<jobs, earned, spent>>
  BY <1>1 DEF Status, Offers
<1>2. ASSUME NEW w \in Workers, Claim(w)
      PROVE  Promise!BookNext \/ UNCHANGED <<Status, Offers, earned>>
  <2>1. UNCHANGED earned
    BY <1>2 DEF Claim, ledgerVars
  <2>2. CASE UNCHANGED jobs
    BY <2>1, <2>2 DEF Status, Offers
  <2>3. ASSUME NEW j \in Jobs, ClaimNextJob(j) PROVE Promise!Take(j)
    <3> DEFINE row == [jobs[j] EXCEPT !.status = "running", !.updated = Now.at,
                                      !.attempts = @ + 1]
    <3>1. jobs[j].status = "queued"
      BY <2>3 DEF ClaimNextJob, IsNext, Queued
    <3>2. jobs' = [jobs EXCEPT ![j] = row]
      BY <2>3 DEF ClaimNextJob, TypeInv, StorageTypeOK
    <3>3. row.status = "running" /\ row.price = jobs[j].price
      BY <2>3 DEF TypeInv, StorageTypeOK
    <3> HIDE DEF row
    <3>4. Status' = [Status EXCEPT ![j] = "running"]
      BY <2>3, <3>2, <3>3, StatusShown
    <3>5. Offers' = Offers
      BY <2>3, <3>1, <3>2, <3>3, OffersStay
    <3> QED BY <2>1, <2>3, <3>1, <3>4, <3>5 DEF Promise!Take, Status, Offers
  <2> QED BY <1>2, <2>2, <2>3 DEF Claim, jobVars, Promise!BookNext
<1>3. ASSUME NEW w \in Workers, Complete(w), NEW j \in Jobs, j = mem[w].held
      PROVE  Promise!BookNext
  <2> DEFINE row == [jobs[j] EXCEPT !.status = "succeeded",
                         !.cost = ProviderCostCents, !.updated = mem[w].stamp.at]
  <2>1. pc[w] \in AtWork /\ j \in Jobs
    BY <1>3 DEF Complete, AtWork
  <2>2. jobs[j].status = "running"
    BY <1>3, <2>1 DEF ClaimInv, Owns, Complete
  <2>3. jobs' = [jobs EXCEPT ![j] = row]
    BY <1>3, <2>1 DEF Complete, CompleteJob, TypeInv, StorageTypeOK
  <2>4. row.status = "succeeded" /\ row.price = jobs[j].price
    BY <1>3, <2>1 DEF TypeInv, StorageTypeOK
  <2>5. earned' = [earned EXCEPT ![j] = jobs[j].price]
    <3>1. earned' = [earned EXCEPT ![j] = @ + jobs[j].price]
      BY <1>3 DEF Complete, CompleteJob, Book
    <3>2. earned[j] = 0 /\ jobs[j].price \in Nat /\ earned \in [Jobs -> Nat]
      BY <1>3, <2>1, <2>2 DEF CreditInv, Uncredited, TypeInv, StorageTypeOK
    <3> HIDE DEF row
    <3>3. /\ earned'[j] = jobs[j].price
          /\ \A i \in Jobs : i # j => earned'[i] = earned[i]
      BY <1>3, <2>1, <3>1, <3>2
    <3>4. earned = [i \in Jobs |-> earned[i]] /\ earned' = [i \in Jobs |-> earned'[i]]
      BY <3>1, <3>2
    <3> QED BY <1>3, <2>1, <3>3, <3>4, ExceptAt
  <2> HIDE DEF row
  <2>6. Status' = [Status EXCEPT ![j] = "succeeded"]
    BY <2>1, <2>3, <2>4, StatusShown
  <2>7. Offers' = Offers
    BY <2>1, <2>2, <2>3, <2>4, OffersStay
  <2>8. Promise!Succeed(j)
    BY <1>3, <2>1, <2>2, <2>5, <2>6, <2>7 DEF Promise!Succeed, Status, Offers
  <2> QED BY <1>3, <2>1, <2>8 DEF Promise!BookNext
<1>4. ASSUME NEW w \in Workers, Fail(w), NEW j \in Jobs, j = mem[w].held
      PROVE  Promise!BookNext
  <2> DEFINE row == [jobs[j] EXCEPT !.status = "failed",
                         !.cost = FailureCostCents, !.updated = mem[w].stamp.at]
  <2>1. pc[w] \in AtWork /\ j \in Jobs
    BY <1>4 DEF Fail, AtWork
  <2>2. \/ jobs[j].status = "running"
        \/ jobs[j].status = "succeeded" /\ "stdout" \in Faults
    BY <1>4, <2>1 DEF ClaimInv, Owns
  <2>3. jobs' = [jobs EXCEPT ![j] = row]
    BY <1>4, <2>1 DEF Fail, FailJob, TypeInv, StorageTypeOK
  <2>4. row.status = "failed" /\ row.price = jobs[j].price
    BY <1>4, <2>1 DEF TypeInv, StorageTypeOK
  <2>5. UNCHANGED earned
    <3>1. earned' = [earned EXCEPT ![j] = @ + 0]
      BY <1>4 DEF Fail, FailJob, Book
    <3>2. earned \in [Jobs -> Nat]
      BY DEF TypeInv, StorageTypeOK
    <3> QED BY <1>4, <2>1, <3>1, <3>2
  <2> HIDE DEF row
  <2>6. Status' = [Status EXCEPT ![j] = "failed"]
    BY <2>1, <2>3, <2>4, StatusShown
  <2>7. Offers' = Offers
    BY <2>1, <2>2, <2>3, <2>4, OffersStay
  <2>8. Promise!GiveUp(j)
    BY <1>4, <2>1, <2>2, <2>5, <2>6, <2>7 DEF Promise!GiveUp, Status, Offers
  <2> QED BY <1>4, <2>1, <2>8 DEF Promise!BookNext
<1>5. ASSUME NEW w \in Workers, NEW j \in Jobs, NEW price \in Prices,
             jobs[j].price = price, InsertJob(w, j)
      PROVE  Promise!BookNext
  <2> DEFINE row == [jobs[j] EXCEPT !.status = "queued"]
  <2>1. jobs[j].status = "absent"
    BY <1>5 DEF InsertJob, EnqueueJob
  <2>2. j \in Jobs /\ jobs' = [jobs EXCEPT ![j] = row]
    BY <1>5 DEF InsertJob, EnqueueJob
  <2>3. row.status = "queued" /\ row.price = price
    BY <1>5 DEF TypeInv, StorageTypeOK
  <2>4. UNCHANGED earned
    BY <1>5 DEF InsertJob, ledgerVars
  <2> HIDE DEF row
  <2>5. Status' = [Status EXCEPT ![j] = "queued"]
    BY <2>2, <2>3, StatusShown
  <2>6. Offers' = [Offers EXCEPT ![j] = price]
    BY <2>2, <2>3, OfferShown
  <2>7. Promise!Submit(j, price)
    BY <1>5, <2>1, <2>4, <2>5, <2>6 DEF Promise!Submit, Status, Offers
  <2> QED BY <1>5, <2>7 DEF Promise!BookNext
<1>6. ASSUME NEW w \in Workers, NEW j \in Jobs, NEW price \in Prices,
             PostJob(w, j, price)
      PROVE  UNCHANGED <<Status, Offers, earned>>
  <2> DEFINE row == [jobs[j] EXCEPT !.price = price, !.created = Now.at,
                                    !.updated = Now.at]
  <2>1. jobs[j] = NoRow /\ jobs' = [jobs EXCEPT ![j] = row]
    BY <1>6 DEF PostJob, DrawJob
  <2>2. jobs[j].status = "absent" /\ row.status = "absent"
    BY <2>1 DEF NoRow
  <2>3. UNCHANGED earned
    BY <1>6 DEF PostJob, ledgerVars
  <2> HIDE DEF row
  <2>4. jobs'[j] = row /\ \A i \in Jobs : i # j => jobs'[i] = jobs[i]
    BY <1>6, <2>1 DEF TypeInv, StorageTypeOK
  <2>5. Status' = Status /\ Offers' = Offers
    BY <2>2, <2>4 DEF Status, Offers
  <2> QED BY <2>3, <2>5
<1>7. ASSUME NEW w \in Workers, Complete(w) \/ Fail(w) PROVE mem[w].held \in Jobs
  BY <1>7, HeldTypes DEF Complete, Fail, AtWork
<1>8. ASSUME NEW w \in Workers, NEW j \in Jobs, InsertJob(w, j)
      PROVE  jobs[j].price \in Prices
  BY <1>8 DEF InsertJob, OfferInv
<1> QED BY <1>1, <1>2, <1>3, <1>4, <1>5, <1>6, <1>7, <1>8, BookWriters

\* Clients of any number of processes see of every job the life that JobBook promises:
\* over crashes and errors a job is taken at most once, success and credit come in one step,
\* and a settled job never changes, except that a success whose print fails becomes a failure
\* and keeps its credit (storage.enqueue_job, claim_next_job, complete_job, fail_job).
THEOREM JobBookImplemented == Spec => JobBookKept
<1> DEFINE AllInv == TypeInv /\ ClaimInv /\ CreditInv /\ OfferInv
<1>1. Init => AllInv /\ Promise!BookInit
  BY TypeInit, ClaimInit, CreditInit, OfferInit, PromiseInit
<1>2. AllInv /\ [Next]_vars => AllInv'
  BY TypeStep, ClaimStep, CreditStep, OfferStep
<1>3. AllInv /\ [Next]_vars => [Promise!BookNext]_(Promise!bookVars)
  BY PromiseStep
<1> HIDE DEF AllInv
<1> QED BY <1>1, <1>2, <1>3, PTL DEF Spec, JobBookKept, Promise!BookSpec

-----------------------------------------------------------------------------
\* Why a process leaves at most one job behind: it drops a job only when it dies or when
\* an exception has left the loop, and from there no statement leads back to a claim.
Leaving == {"running", "final", "endHalted", "endStopped", "shutdown"}
LossInv ==
    /\ IsFiniteSet(Sound)
    /\ Cardinality(Lost) + Cardinality(Sound) <= starts
    /\ \A w \in Workers : mem[w].raised => pc[w] \in Leaving

LEMMA LossTypes ==
    /\ \A S \in SUBSET Jobs : IsFiniteSet(S) /\ Cardinality(S) \in Nat
    /\ Lost \in SUBSET Jobs /\ Lost' \in SUBSET Jobs
    /\ IsFiniteSet(Sound) => Cardinality(Sound) \in Nat
    /\ TypeInv => starts \in Nat
<1>1. \A S \in SUBSET Jobs : IsFiniteSet(S) /\ Cardinality(S) \in Nat
  BY StorageAssumption, FS_Subset, FS_CardinalityType
<1> QED BY <1>1, FS_CardinalityType DEF Lost, TypeInv, Others

\* A step of w after which no job is lost that was not before.
LEMMA LossKept ==
    ASSUME TypeInv, LossInv, NEW w \in Workers,
           \A v \in Workers : v # w => pc'[v] = pc[v] /\ mem'[v] = mem[v],
           \A j \in Jobs : jobs'[j].status = "running" =>
               \/ jobs[j].status = "running"
               \/ pc'[w] \in AtWork /\ mem'[w].held = j,
           pc[w] \in AtWork =>
               \/ jobs'[mem[w].held].status # "running"
               \/ pc'[w] \in AtWork /\ mem'[w].held = mem[w].held,
           w \in Sound' => w \in Sound,
           mem'[w].raised => pc'[w] \in Leaving,
           starts' = starts
    PROVE  LossInv'
<1>1. Lost' \subseteq Lost
  BY DEF Lost
<1>2. Sound' \subseteq Sound
  BY DEF Sound, Up
<1>3. IsFiniteSet(Sound') /\ Cardinality(Sound') <= Cardinality(Sound)
  BY <1>2, FS_Subset DEF LossInv
<1>4. Cardinality(Lost') <= Cardinality(Lost)
  BY <1>1, LossTypes, FS_Subset
<1>5. /\ Cardinality(Sound') \in Nat /\ Cardinality(Sound) \in Nat
      /\ Cardinality(Lost') \in Nat /\ Cardinality(Lost) \in Nat /\ starts \in Nat
  BY <1>3, LossTypes, FS_CardinalityType DEF LossInv
<1>6. Cardinality(Lost') + Cardinality(Sound') <= starts'
  BY <1>3, <1>4, <1>5 DEF LossInv
<1>7. \A v \in Workers : mem'[v].raised => pc'[v] \in Leaving
  BY DEF LossInv
<1> QED BY <1>3, <1>6, <1>7 DEF LossInv

\* A step of w that leaves the job in hand behind, and w with it.
LEMMA LossGrows ==
    ASSUME TypeInv, LossInv, NEW w \in Workers,
           \A v \in Workers : v # w => pc'[v] = pc[v] /\ mem'[v] = mem[v],
           UNCHANGED <<jobs, starts>>,
           pc[w] \in AtWork,
           w \notin Sound',
           mem'[w].raised => pc'[w] \in Leaving
    PROVE  LossInv'
<1> DEFINE j == mem[w].held
<1>1. j \in Jobs
  BY HeldTypes
<1>2. Lost' \subseteq Lost \cup {j}
  BY DEF Lost
<1>3. w \in Sound
  BY DEF LossInv, Sound, Up, Down, Ended, AtWork, Leaving
<1>4. Sound' \subseteq Sound \ {w}
  BY DEF Sound, Up
<1>5. /\ IsFiniteSet(Sound \ {w})
      /\ Cardinality(Sound \ {w}) = Cardinality(Sound) - 1
  BY <1>3, FS_RemoveElement DEF LossInv
<1>6. IsFiniteSet(Sound') /\ Cardinality(Sound') <= Cardinality(Sound) - 1
  BY <1>4, <1>5, FS_Subset
<1>7. IsFiniteSet(Lost) /\ IsFiniteSet(Lost \cup {j})
  BY <1>1, LossTypes
<1>8. Cardinality(Lost \cup {j}) <= Cardinality(Lost) + 1
  <2>1. Cardinality(Lost) \in Nat
    BY LossTypes
  <2>2. Cardinality(Lost \cup {j}) =
          IF j \in Lost THEN Cardinality(Lost) ELSE Cardinality(Lost) + 1
    BY <1>7, FS_AddElement
  <2> QED BY <2>1, <2>2
<1>9. Cardinality(Lost') <= Cardinality(Lost \cup {j})
  BY <1>2, <1>7, FS_Subset
<1>10. /\ Cardinality(Sound') \in Nat /\ Cardinality(Sound) \in Nat
       /\ Cardinality(Lost') \in Nat /\ Cardinality(Lost) \in Nat /\ starts \in Nat
       /\ Cardinality(Lost \cup {j}) \in Nat
  BY <1>6, <1>7, LossTypes, FS_CardinalityType DEF LossInv
<1>11. Cardinality(Lost') + Cardinality(Sound') <= starts'
  BY <1>6, <1>8, <1>9, <1>10 DEF LossInv
<1>12. \A v \in Workers : mem'[v].raised => pc'[v] \in Leaving
  BY DEF LossInv
<1> QED BY <1>6, <1>11, <1>12 DEF LossInv

\* A step of w away from any job, on its way or out.
LEMMA LossMoving ==
    ASSUME TypeInv, LossInv, NEW w \in Workers, pc[w] \notin AtWork,
           Only(w), UNCHANGED <<jobs, starts>>,
           w \in Sound' => w \in Sound,
           mem'[w].raised => pc'[w] \in Leaving
    PROVE  LossInv'
<1>1. \A v \in Workers : v # w => pc'[v] = pc[v] /\ mem'[v] = mem[v]
  BY OnlyFrame
<1> QED BY <1>1, LossKept

LEMMA LossInit == Init => LossInv
<1> SUFFICES ASSUME Init PROVE LossInv
  OBVIOUS
<1>1. Lost = {} /\ Sound = {}
  BY DEF Init, StorageInit, NoRow, Lost, Sound, Up, Down
<1>2. \A w \in Workers : ~mem[w].raised
  BY DEF Init, NoMemory
<1> QED BY <1>1, <1>2, FS_EmptySet DEF Init, LossInv

LEMMA LossStep == TypeInv /\ ClaimInv /\ LossInv /\ [Next]_vars => LossInv'
<1> SUFFICES ASSUME TypeInv, ClaimInv, LossInv, [Next]_vars PROVE LossInv'
  OBVIOUS
<1>0. \A w \in Workers : mem[w] \in Memory /\ pc[w] \in Labels
  BY DEF TypeInv, Control
<1>1. ASSUME NEW w \in Workers,
             \/ Starting(w) \/ Loop(w) \/ Decide(w) \/ Report(w) \/ Persist(w)
             \/ ReadTotals(w) \/ ReadDaily(w) \/ ReadCounts(w) \/ ReadRecent(w)
      PROVE  LossInv'
  <2> DEFINE before == {"starting", "loop", "totals", "daily", "counts", "recent",
                        "decide", "report", "persist"}
             after == {"loop", "totals", "daily", "counts", "recent", "decide", "report",
                       "persist", "claim", "final"}
  <2>1. pc[w] \in before /\ UNCHANGED <<jobs, starts>>
    BY <1>1 DEF Starting, Loop, Decide, Report, Persist, ReadTotals, ReadDaily, ReadCounts,
                ReadRecent, Reads, storageVars, jobVars, outside
  <2>2. \E label \in after : Goto(w, label)
    BY <1>1 DEF Starting, Loop, Decide, Report, Persist, Proceed, ReadTotals, ReadDaily,
                ReadCounts, ReadRecent, Reads
  <2>3. mem'[w].raised = mem[w].raised /\ (UNCHANGED mem \/ \E m : Keep(w, m))
    <3>1. CASE Starting(w)
      BY <3>1 DEF Starting, Proceed
    <3>2. CASE Loop(w)
      BY ZenonT(60), <1>0, <3>2 DEF Loop, Proceed, Keep, Memory, TypeInv, Control
    <3>3. CASE Decide(w)
      BY <1>0, <3>3 DEF Decide, Keep, Memory, TypeInv, Control
    <3>4. CASE Report(w)
      BY <1>0, <3>4 DEF Report, Proceed, Keep, Memory, TypeInv, Control
    <3>5. CASE Persist(w)
      BY <1>0, <3>5 DEF Persist, Keep, Memory, TypeInv, Control
    <3>6. CASE ReadTotals(w) \/ ReadDaily(w) \/ ReadCounts(w) \/ ReadRecent(w)
      BY <1>0, <3>6 DEF ReadTotals, ReadDaily, ReadCounts, ReadRecent, Reads, Keep, Memory,
                        TypeInv, Control
    <3> QED BY <1>1, <3>1, <3>2, <3>3, <3>4, <3>5, <3>6
  <2>4. pc'[w] \in after
    BY <2>2, Arrives
  <2>5. /\ before \cap (AtWork \cup Down \cup Leaving \cup {"stuck"}) = {}
        /\ after \cap Down = {}
        /\ after \subseteq Labels
    BY DEF AtWork, Down, Ended, Leaving, Labels
  <2> HIDE DEF before, after
  <2>6. ~mem[w].raised /\ Up(w) /\ pc[w] # "stuck" /\ pc[w] \notin AtWork
    BY <2>1, <2>5 DEF LossInv, Up
  <2>7. Only(w)
    BY <2>2, <2>3, <2>5 DEF Only
  <2>8. w \in Sound /\ ~mem'[w].raised
    BY <2>3, <2>6 DEF Sound
  <2> QED BY <2>1, <2>6, <2>7, <2>8, LossMoving
<1>2. ASSUME NEW w \in Workers, Running(w) \/ Final(w) \/ WriteEnd(w) PROVE LossInv'
  <2>1. /\ pc[w] \in {"running", "final", "endHalted", "endStopped"}
        /\ UNCHANGED <<jobs, starts>>
        /\ mem'[w].raised = mem[w].raised
        /\ UNCHANGED mem \/ \E m : Keep(w, m)
    BY <1>0, <1>2 DEF Running, Final, WriteEnd, Proceed, Keep, Memory, TypeInv, Control,
                      storageVars, jobVars, outside
  <2>2. \E label \in {"final", "loop", "endHalted", "endStopped", "shutdown"} :
          Goto(w, label) /\ (mem[w].raised => label # "loop")
    BY <1>2 DEF Running, Final, WriteEnd, Proceed
  <2>3. /\ pc'[w] \in {"final", "loop", "endHalted", "endStopped", "shutdown"}
        /\ mem[w].raised => pc'[w] \in Leaving
    BY <2>2, Arrives DEF Leaving
  <2>4. {"final", "loop", "endHalted", "endStopped", "shutdown"} \subseteq Labels
    BY DEF Labels
  <2>5. pc[w] \notin AtWork /\ Up(w)
    BY <2>1 DEF AtWork, Up, Down, Ended
  <2>6. Only(w)
    BY <2>1, <2>2, <2>4 DEF Only
  <2>7. w \in Sound' => w \in Sound
    BY <2>1, <2>5 DEF Sound
  <2> QED BY <2>1, <2>3, <2>5, <2>6, <2>7, LossMoving
<1>3. ASSUME NEW w \in Workers, NEW how \in Ended \cup {"stuck"}, Up(w),
             Goto(w, how), Keep(w, NoMemory), UNCHANGED <<jobs, starts>>
      PROVE  LossInv'
  <2>1. Goto(w, how) /\ Keep(w, NoMemory) /\ how \in Labels
    BY <1>3 DEF Labels, Down
  <2>2. pc'[w] = how /\ mem'[w] = NoMemory
    BY <2>1 DEF Goto, Keep, TypeInv, Control
  <2>3. ~mem'[w].raised /\ w \notin Sound'
    BY <2>2 DEF NoMemory, Sound, Up, Down
  <2>4. Only(w)
    BY <2>1 DEF Only
  <2>5. CASE pc[w] \in AtWork
    <3>1. \A v \in Workers : v # w => pc'[v] = pc[v] /\ mem'[v] = mem[v]
      BY <2>4, OnlyFrame
    <3> QED BY <1>3, <2>3, <2>5, <3>1, LossGrows
  <2>6. CASE pc[w] \notin AtWork
    BY <1>3, <2>3, <2>4, <2>6, LossMoving
  <2> QED BY <2>5, <2>6
<1>4. ASSUME NEW w \in Workers, Shutdown(w) \/ Crash(w) \/ Jam(w) PROVE LossInv'
  <2>1. Up(w) /\ UNCHANGED <<jobs, starts>>
    BY <1>4 DEF Shutdown, Crash, Jam, Up, Down, Ended, storageVars, jobVars, outside
  <2>2. \E how \in Ended \cup {"stuck"} : Goto(w, how) /\ Keep(w, NoMemory)
    BY <1>4 DEF Shutdown, Crash, Jam, End, Ended
  <2> QED BY <1>3, <2>1, <2>2
<1>5. ASSUME NEW w \in Workers, Raises(w) PROVE LossInv'
  <2>1. UNCHANGED <<jobs, starts>>
    BY <1>5 DEF Raises, jobVars, outside
  <2>2. CASE RaisesInJob(w)
    <3>1. /\ pc[w] = "complete" /\ Goto(w, "fail")
          /\ mem'[w].held = mem[w].held /\ mem'[w].raised = mem[w].raised
          /\ \E m : Keep(w, m)
      BY <1>0, <2>2 DEF RaisesInJob, Keep, Memory, TypeInv, Control
    <3>2. pc'[w] = "fail" /\ "fail" \in Labels
      BY <3>1, Arrives DEF Labels
    <3>3. \A v \in Workers : v # w => pc'[v] = pc[v] /\ mem'[v] = mem[v]
      BY <3>1, <3>2, OnlyFrame DEF Only
    <3>4. w \in Sound /\ ~mem'[w].raised
      BY <3>1 DEF LossInv, Leaving, Sound, Up, Down, Ended
    <3> QED BY <2>1, <3>1, <3>2, <3>3, <3>4, LossKept DEF AtWork
  <2>3. CASE RaisesInHandler(w) \/ RaisesInLoop(w)
    <3>1. /\ \E label \in {"running", "final"} : Goto(w, label)
          /\ mem'[w].raised
          /\ \E m : Keep(w, m)
      BY ZenonT(60), <1>0, <2>3 DEF RaisesInHandler, RaisesInLoop, Keep, Memory, TypeInv, Control
    <3>2. pc'[w] \in {"running", "final"} /\ {"running", "final"} \subseteq Labels
      BY <3>1, Arrives DEF Labels
    <3>3. Only(w) /\ Up(w)
      BY <1>5, <2>3, <3>1, <3>2
         DEF Only, Up, RaisesInHandler, RaisesInLoop, Queries, WritesState, Down, Ended
    <3>4. w \notin Sound' /\ pc'[w] \in Leaving
      BY <3>1, <3>2 DEF Sound, Leaving
    <3>5. CASE pc[w] \in AtWork
      <4>1. \A v \in Workers : v # w => pc'[v] = pc[v] /\ mem'[v] = mem[v]
        BY <3>3, OnlyFrame
      <4> QED BY <2>1, <3>4, <3>5, <4>1, LossGrows
    <3>6. CASE pc[w] \notin AtWork
      BY <2>1, <3>1, <3>3, <3>4, <3>6, LossMoving
    <3> QED BY <3>5, <3>6
  <2>4. CASE RaisesOutside(w)
    <3>1. Goto(w, "error") /\ Keep(w, NoMemory) /\ Up(w) /\ "error" \in Ended
      BY <2>4 DEF RaisesOutside, End, Up, Down, Ended
    <3> QED BY <1>3, <2>1, <3>1
  <2> QED BY <1>5, <2>2, <2>3, <2>4 DEF Raises
<1>6. ASSUME NEW w \in Workers, Claim(w) PROVE LossInv'
  <2>1. pc[w] = "claim" /\ UNCHANGED starts
    BY <1>6 DEF Claim, outside
  <2>2. w \in Sound /\ ~mem[w].raised /\ pc[w] \notin AtWork
    BY <2>1 DEF LossInv, Leaving, Sound, Up, Down, Ended, AtWork
  <2>3. CASE Proceed(w, "loop") /\ UNCHANGED jobs
    <3>1. Only(w) /\ UNCHANGED mem
      BY <2>3 DEF Only, Proceed, Labels
    <3> QED BY <2>1, <2>2, <2>3, <3>1, LossMoving
  <2>4. ASSUME NEW j \in Jobs, ClaimNextJob(j), Goto(w, "announce"),
               Keep(w, [mem[w] EXCEPT !.held = j])
        PROVE  LossInv'
    <3>1. \A i \in Jobs : i # j => jobs'[i] = jobs[i]
      BY <2>4 DEF ClaimNextJob, TypeInv, StorageTypeOK
    <3>2. mem'[w].held = j /\ mem'[w].raised = mem[w].raised
      BY <1>0, <2>4 DEF Keep, Memory, TypeInv, Control
    <3>3. pc'[w] \in AtWork /\ Only(w)
      BY <2>4, Arrives DEF AtWork, Only, Labels
    <3>4. \A v \in Workers : v # w => pc'[v] = pc[v] /\ mem'[v] = mem[v]
      BY <3>3, OnlyFrame
    <3> QED BY <2>1, <2>2, <3>1, <3>2, <3>3, <3>4, LossKept
  <2> QED BY <1>6, <2>3, <2>4 DEF Claim, jobVars
<1>7. ASSUME NEW w \in Workers, Announce(w) \/ Generate(w) PROVE LossInv'
  <2>1. /\ pc[w] \in {"announce", "generate"} /\ UNCHANGED <<jobs, starts>>
        /\ \E label \in {"generate", "complete", "fail"} : Goto(w, label)
    BY <1>7 DEF Announce, Generate, Proceed, storageVars, jobVars, outside
  <2>2. /\ mem'[w].held = mem[w].held /\ mem'[w].raised = mem[w].raised
        /\ UNCHANGED mem \/ \E m : Keep(w, m)
    BY <1>0, <1>7 DEF Announce, Generate, Proceed, Keep, Memory, TypeInv, Control
  <2>3. pc[w] \in AtWork /\ pc'[w] \in AtWork /\ Only(w)
    BY <2>1, <2>2, Arrives DEF AtWork, Only, Labels
  <2>4. w \in Sound /\ ~mem[w].raised
    BY <2>1 DEF LossInv, Leaving, Sound, Up, Down, Ended
  <2>5. \A v \in Workers : v # w => pc'[v] = pc[v] /\ mem'[v] = mem[v]
    BY <2>3, OnlyFrame
  <2> QED BY <2>1, <2>2, <2>3, <2>4, <2>5, LossKept
<1>8. ASSUME NEW w \in Workers, Complete(w) \/ Fail(w) PROVE LossInv'
  <2>1. pc[w] \in {"complete", "fail"} /\ mem[w].held \in Jobs /\ UNCHANGED starts
    BY <1>8, HeldTypes DEF Complete, Fail, AtWork, outside
  <2>2. /\ jobs'[mem[w].held].status \in {"succeeded", "failed"}
        /\ \A j \in Jobs : j # mem[w].held => jobs'[j] = jobs[j]
    <3>1. CASE Complete(w)
      BY <2>1, <3>1 DEF Complete, CompleteJob, TypeInv, StorageTypeOK
    <3>2. CASE Fail(w)
      BY <2>1, <3>2 DEF Fail, FailJob, TypeInv, StorageTypeOK
    <3> QED BY <1>8, <3>1, <3>2
  <2>3. w \in Sound
    BY <2>1 DEF LossInv, Leaving, Sound, Up, Down, Ended
  <2>4. /\ \E label \in {"running", "fail"} : Goto(w, label)
        /\ \E m : Keep(w, m)
        /\ Goto(w, "running") \/ mem'[w].raised = mem[w].raised
    <3>1. CASE Complete(w)
      BY <1>0, <3>1 DEF Complete, Keep, Memory, TypeInv, Control
    <3>2. CASE Fail(w)
      BY <3>2 DEF Fail
    <3> QED BY <1>8, <3>1, <3>2
  <2>5. Only(w) /\ (mem'[w].raised => pc'[w] \in Leaving)
    BY <2>3, <2>4, Arrives DEF Only, Labels, Leaving, Sound
  <2>6. \A v \in Workers : v # w => pc'[v] = pc[v] /\ mem'[v] = mem[v]
    BY <2>5, OnlyFrame
  <2> QED BY <2>1, <2>2, <2>3, <2>5, <2>6, LossKept
<1>9. ASSUME NEW w \in Workers, Start(w) PROVE LossInv'
  <2>1. UNCHANGED <<mem, jobs>> /\ starts' = starts + 1 /\ pc[w] \in Down
    BY <1>9 DEF Start, Proceed, Up, storageVars, jobVars
  <2>2. pc'[w] = "starting" /\ \A v \in Workers : v # w => pc'[v] = pc[v]
    BY <1>9 DEF Start, Proceed, Goto, TypeInv, Control
  <2>3. Lost' \subseteq Lost
    BY <2>1, <2>2 DEF Lost, Down, Ended, AtWork
  <2>4. Sound' \subseteq Sound \cup {w}
    BY <2>1, <2>2 DEF Sound, Up
  <2>5. IsFiniteSet(Sound) /\ IsFiniteSet(Sound \cup {w})
    BY FS_AddElement DEF LossInv
  <2>6. Cardinality(Sound) \in Nat /\ Cardinality(Sound \cup {w}) \in Nat
    BY <2>5, FS_CardinalityType
  <2>7. Cardinality(Sound \cup {w}) <= Cardinality(Sound) + 1
    <3>1. Cardinality(Sound \cup {w}) =
            IF w \in Sound THEN Cardinality(Sound) ELSE Cardinality(Sound) + 1
      BY <2>5, FS_AddElement
    <3> QED BY <2>6, <3>1
  <2>8. /\ IsFiniteSet(Sound') /\ Cardinality(Sound') \in Nat
        /\ Cardinality(Sound') <= Cardinality(Sound \cup {w})
    BY <2>4, <2>5, FS_Subset, FS_CardinalityType
  <2>9. /\ Cardinality(Lost') <= Cardinality(Lost)
        /\ Cardinality(Lost') \in Nat /\ Cardinality(Lost) \in Nat /\ starts \in Nat
    BY <2>3, LossTypes, FS_Subset
  <2>10. Cardinality(Lost') + Cardinality(Sound') <= starts'
    BY <2>1, <2>6, <2>7, <2>8, <2>9 DEF LossInv
  <2>11. ~mem[w].raised
    BY <2>1 DEF LossInv, Down, Ended, Leaving
  <2> QED BY <2>1, <2>2, <2>8, <2>10, <2>11 DEF LossInv
<1>10. CASE /\ UNCHANGED <<pc, mem, starts>>
            /\ \A j \in Jobs : jobs'[j].status = "running" => jobs[j].status = "running"
  <2>1. Lost' \subseteq Lost /\ Sound' = Sound
    BY <1>10 DEF Lost, Sound, Up
  <2>2. /\ Cardinality(Lost') <= Cardinality(Lost)
        /\ Cardinality(Lost') \in Nat /\ Cardinality(Lost) \in Nat
        /\ Cardinality(Sound) \in Nat /\ starts \in Nat
    BY <2>1, LossTypes, FS_Subset DEF LossInv
  <2>3. Cardinality(Lost') + Cardinality(Sound') <= starts'
    BY <1>10, <2>1, <2>2 DEF LossInv
  <2> QED BY <1>10, <2>1, <2>3 DEF LossInv
<1>11. ASSUME NEW w \in Workers, NEW j \in Jobs,
              InsertJob(w, j) \/ \E price \in Prices : PostJob(w, j, price)
       PROVE  LossInv'
  <2>1. UNCHANGED <<pc, mem, starts>>
    BY <1>11 DEF InsertJob, PostJob, outside
  <2>2. /\ jobs'[j].status # "running"
        /\ \A i \in Jobs : i # j => jobs'[i] = jobs[i]
    <3>1. CASE InsertJob(w, j)
      BY <3>1 DEF InsertJob, EnqueueJob, TypeInv, StorageTypeOK
    <3>2. ASSUME NEW price \in Prices, PostJob(w, j, price)
          PROVE  /\ jobs'[j].status # "running"
                 /\ \A i \in Jobs : i # j => jobs'[i] = jobs[i]
      BY <3>2 DEF PostJob, DrawJob, NoRow, TypeInv, StorageTypeOK
    <3> QED BY <1>11, <3>1, <3>2
  <2> QED BY <1>10, <2>1, <2>2
<1>12. ASSUME \/ \E w \in Workers : Signal(w)
              \/ \E kind \in OperatorKinds, amount \in Amounts : PostLedger(kind, amount)
              \/ PostHalt \/ PostClearHalt \/ Midnight \/ UNCHANGED vars
       PROVE  LossInv'
  <2>1. UNCHANGED <<pc, mem, starts, jobs>>
    BY <1>12 DEF Signal, PostLedger, PostHalt, PostClearHalt, Midnight, vars, storageVars,
                 jobVars, outside
  <2> QED BY <1>10, <2>1
<1> QED BY <1>1, <1>2, <1>4, <1>5, <1>6, <1>7, <1>8, <1>9, <1>11, <1>12
        DEF Next, Step, Environment

\* A process that is started leaves at most one job running that nobody works on, however
\* it ends and whatever raises on the way: the next claim of the same life is out of its
\* reach once it has dropped a job (storage.claim_next_job, orchestrator.run).
THEOREM LossIsBounded == Spec => []LossBounded
<1>1. Init => TypeInv /\ ClaimInv /\ LossInv
  BY TypeInit, ClaimInit, LossInit
<1>2. TypeInv /\ ClaimInv /\ LossInv /\ [Next]_vars => TypeInv' /\ ClaimInv' /\ LossInv'
  BY TypeStep, ClaimStep, LossStep
<1>3. TypeInv /\ LossInv => LossBounded
  <2> SUFFICES ASSUME TypeInv, LossInv PROVE LossBounded
    OBVIOUS
  <2>1. Cardinality(Lost) \in Nat /\ Cardinality(Sound) \in Nat /\ starts \in Nat
    BY LossTypes DEF LossInv
  <2> QED BY <2>1 DEF LossInv, LossBounded
<1> QED BY <1>1, <1>2, <1>3, PTL DEF Spec
=============================================================================
