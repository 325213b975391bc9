------------------------- MODULE RuntimeTypeProofs --------------------------
(* Type correctness of Runtime, for every value of its constants.             *)
EXTENDS RuntimeProperties, FiniteSetTheorems, TLAPS

\* The policy answers with Continue or with a reason, and with Continue only
\* if it has no objection; a set halt flag is answered with itself.
LEMMA EvaluateType ==
    ASSUME NEW s, NEW next, NEW flag, NEW idle
    PROVE  /\ Evaluate(s, next, flag, idle) \in Reasons \cup {Continue}
           /\ Evaluate(s, next, flag, idle) = Continue =>
                  flag \notin Reasons /\ Objections(s, next, idle) = {}
<1> DEFINE objections == Objections(s, next, idle)
<1>1. objections \subseteq PolicyReasons
  BY DEF Objections
<1>2. ASSUME objections # {}
      PROVE  \E reason \in objections :
                 \A other \in objections : Rank[reason] <= Rank[other]
  <2> DEFINE T == {"failures", "dailycap", "nofunds", "norevenue", "margin", "idle"}
  <2>1. objections \subseteq T
    BY <1>1 DEF PolicyReasons, Rank
  <2>2. /\ Rank["failures"] = 1 /\ Rank["dailycap"] = 2 /\ Rank["nofunds"] = 3
        /\ Rank["norevenue"] = 4 /\ Rank["margin"] = 5 /\ Rank["idle"] = 6
    BY DEF Rank
  <2> HIDE DEF objections
  <2>3. CASE "failures" \in objections
    BY <2>1, <2>2, <2>3
  <2>4. CASE "failures" \notin objections /\ "dailycap" \in objections
    BY <2>1, <2>2, <2>4
  <2>5. CASE /\ {"failures", "dailycap"} \cap objections = {}
             /\ "nofunds" \in objections
    BY <2>1, <2>2, <2>5
  <2>6. CASE /\ {"failures", "dailycap", "nofunds"} \cap objections = {}
             /\ "norevenue" \in objections
    BY <2>1, <2>2, <2>6
  <2>7. CASE /\ {"failures", "dailycap", "nofunds", "norevenue"} \cap objections = {}
             /\ "margin" \in objections
    BY <2>1, <2>2, <2>7
  <2>8. CASE objections = {"idle"}
    BY <2>2, <2>8
  <2> QED BY <1>2, <2>1, <2>3, <2>4, <2>5, <2>6, <2>7, <2>8
<1>3. Continue \notin Reasons
  BY DEF Continue, Reasons, PolicyReasons, Rank, Operator
<1> HIDE DEF objections
<1>4. Evaluate(s, next, flag, idle) =
        IF flag \in Reasons THEN flag
        ELSE IF objections = {} THEN Continue
        ELSE CHOOSE reason \in objections :
                 \A other \in objections : Rank[reason] <= Rank[other]
  BY DEF Evaluate, objections
<1>5. PolicyReasons \subseteq Reasons
  BY DEF Reasons
<1> QED BY <1>1, <1>2, <1>3, <1>4, <1>5 DEF objections

\* The counts that stats() returns are numbers.
LEMMA CountsAreNat ==
    ASSUME TypeOK
    PROVE  /\ Revenue \in Nat
           /\ QueuedJobs \in Nat
           /\ SucceededJobs \in Nat
           /\ ConsecutiveFailures \in Nat
<1>1. \A S \in SUBSET Jobs : Cardinality(S) \in Nat
  BY StorageAssumption, FS_Subset, FS_CardinalityType
<1>2. Revenue \in Nat
  BY DEF TypeOK, StorageTypeOK, Revenue, Kinds
<1>3. QueuedJobs \in Nat
  BY <1>1 DEF QueuedJobs, Queued
<1>4. SucceededJobs \in Nat
  BY <1>1 DEF SucceededJobs
<1>5. ConsecutiveFailures \in Nat
  <2> DEFINE S == {j \in Failed :
        ~\E s \in Jobs : /\ jobs[s].status = "succeeded"
                         /\ TextLess(jobs[j].updated, jobs[s].updated)}
  <2>1. S \in SUBSET Jobs
    BY DEF Failed
  <2> QED BY <1>1, <2>1 DEF ConsecutiveFailures
<1> QED BY <1>2, <1>3, <1>4, <1>5

-----------------------------------------------------------------------------
\* What a process has in its memory at a statement: at work its job, and past
\* the policy a decision.  The type invariant is inductive together with it: what
\* complete_job books is a number only because the job it is given is one.
Fits(label, m) ==
    /\ label \in AtWork => m.held \in Jobs
    /\ label = "report" => m.verdict # NoVerdict
    /\ label = "persist" => m.verdict \in Reasons
Plain == Labels \ (AtWork \cup {"report", "persist"})

Control ==
    /\ pc \in [Workers -> Labels]
    /\ mem \in [Workers -> Memory]
    /\ \A w \in Workers : Fits(pc[w], mem[w])
Others ==
    /\ haltReason \in Reasons \cup {NoFlag}
    /\ stopping \in [Workers -> BOOLEAN]
    /\ posting \in [Workers -> SUBSET Jobs]
    /\ stateFile \in StateFiles
    /\ posts \in Nat
    /\ starts \in Nat
    /\ operatorWord \in {"none", "halt", "clear"}
    /\ barred \subseteq Workers
    /\ streak \in Nat
    /\ billed \in [Jobs -> Nat]
TypeInv == StorageTypeOK /\ Control /\ Others

LEMMA TypeInvImpliesTypeOK == TypeInv => TypeOK
BY DEF TypeInv, Control, Others, TypeOK

LEMMA TypeInit == Init => TypeInv
<1> SUFFICES ASSUME Init PROVE TypeInv
  OBVIOUS
<1>1. StorageTypeOK
  BY StorageAssumption DEF Init, StorageInit, NoRow, StorageTypeOK, JobStatus, Days
<1>2. Control
  <2>1. NoMemory \in Memory
    BY StorageAssumption
       DEF NoMemory, NoView, NoStamp, Memory, Statistics, Stamp, Days
  <2> QED BY <2>1 DEF Init, Control, Fits, AtWork, Labels, Down, Ended
<1>3. Others
  BY DEF Init, StorageInit, Others, StateFiles, NoFlag
<1> QED BY <1>1, <1>2, <1>3 DEF TypeInv

LEMMA PlainFits == \A label \in Plain : \A m : Fits(label, m)
BY DEF Plain, Fits

LEMMA StampTypes == NoStamp \in Stamp /\ (StorageTypeOK => Now \in Stamp)
BY StorageAssumption DEF NoStamp, Now, Stamp, Days, StorageTypeOK

\* A step that only moves a process keeps Control.
LEMMA Moving ==
    ASSUME Control, NEW w \in Workers, NEW label \in Labels, NEW m \in Memory,
           label \in Plain \/ Fits(label, m),
           Goto(w, label), Keep(w, m)
    PROVE  Control'
<1>1. Fits(label, m)
  BY PlainFits
<1> QED BY <1>1 DEF Control, Goto, Keep

LEMMA Proceeding ==
    ASSUME Control, NEW w \in Workers, NEW label \in Labels,
           label \in Plain \/ Fits(label, mem[w]),
           Proceed(w, label)
    PROVE  Control'
<1>1. Fits(label, mem[w])
  BY PlainFits
<1> QED BY <1>1 DEF Control, Goto, Proceed

\* The end of a process keeps Control.
LEMMA Ending ==
    ASSUME TypeInv, NEW w \in Workers, NEW how \in Ended, End(w, how)
    PROVE  /\ Control'
           /\ stopping' \in [Workers -> BOOLEAN]
           /\ posting' \in [Workers -> SUBSET Jobs]
<1>1. NoMemory \in Memory
  BY StorageAssumption
     DEF NoMemory, NoView, NoStamp, Memory, Statistics, Stamp, Days
<1>2. how \in Plain
  BY DEF Ended, Labels, Down, AtWork, Plain
<1>3. Control'
  BY <1>1, <1>2, Moving DEF End, TypeInv, Plain
<1> QED BY <1>3 DEF End, TypeInv, Others

LEMMA StorageStays == StorageTypeOK /\ UNCHANGED storageVars => StorageTypeOK'
BY DEF StorageTypeOK, storageVars, jobVars, ledgerVars, timeVars

LEMMA OthersStay ==
    Others /\ UNCHANGED <<haltReason, stopping, posting, stateFile, outside, history>>
        => Others'
BY DEF Others, outside, history

\* Adding to one entry of a table of numbers leaves a table of numbers.
LEMMA Bump ==
    ASSUME NEW S, NEW f \in [S -> Nat], NEW x \in S, NEW n \in Nat
    PROVE  [f EXCEPT ![x] = @ + n] \in [S -> Nat]
<1>1. f[x] + n \in Nat
  OBVIOUS
<1> QED BY <1>1

\* What a settled job adds to the ledger keeps the type of every sum.
LEMMA BookTypes ==
    ASSUME StorageTypeOK, NEW j \in Jobs, NEW cost \in Nat, NEW revenue \in Nat,
           NEW stamp \in Stamp, Book(j, cost, revenue, stamp)
    PROVE  /\ ledger' \in [Kinds -> Nat]
           /\ costOn' \in [Days -> Nat]
           /\ earned' \in [Jobs -> Nat]
           /\ spent' \in [Jobs -> Nat]
<1>1. stamp.day \in Days /\ "cost" \in Kinds /\ "revenue" \in Kinds
  BY DEF Stamp, Kinds
<1>2. ledger' \in [Kinds -> Nat]
  <2> DEFINE once == [ledger EXCEPT !["cost"] = @ + cost]
  <2>1. ledger \in [Kinds -> Nat]
    BY DEF StorageTypeOK
  <2>2. once \in [Kinds -> Nat]
    BY <1>1, <2>1, Bump
  <2>3. ledger' = [once EXCEPT !["revenue"] = @ + revenue]
    BY DEF Book
  <2> HIDE DEF once
  <2>4. [once EXCEPT !["revenue"] = @ + revenue] \in [Kinds -> Nat]
    BY <1>1, <2>2, Bump
  <2> QED BY <2>3, <2>4
<1>3. costOn' \in [Days -> Nat]
  <2>1. costOn \in [Days -> Nat] /\ costOn' = [costOn EXCEPT ![stamp.day] = @ + cost]
    BY DEF StorageTypeOK, Book
  <2> QED BY <1>1, <2>1, Bump
<1>4. earned' \in [Jobs -> Nat]
  <2>1. earned \in [Jobs -> Nat] /\ earned' = [earned EXCEPT ![j] = @ + revenue]
    BY DEF StorageTypeOK, Book
  <2> QED BY <2>1, Bump
<1>5. spent' \in [Jobs -> Nat]
  <2>1. spent \in [Jobs -> Nat] /\ spent' = [spent EXCEPT ![j] = @ + cost]
    BY DEF StorageTypeOK, Book
  <2> QED BY <2>1, Bump
<1> QED BY <1>2, <1>3, <1>4, <1>5

\* A signal that gets a process stuck takes it to a statement of its own, and may come after
\* its halt has been made persistent.
LEMMA JamEffect ==
    ASSUME TypeInv, NEW w \in Workers, Jam(w)
    PROVE  /\ pc'[w] = "stuck" /\ mem'[w] = NoMemory
           /\ \A v \in Workers \ {w} : pc'[v] = pc[v] /\ mem'[v] = mem[v]
           /\ haltReason' = haltReason \/ (haltReason' \in Reasons /\ haltReason' # NoFlag)
<1>1. pc[w] = "persist" => mem[w].verdict \in Reasons
  BY DEF TypeInv, Control, Fits
<1>2. NoFlag \notin Reasons
  BY DEF NoFlag, Reasons, PolicyReasons, Rank, Operator
<1> QED BY <1>1, <1>2 DEF Jam, RequestHalt, Goto, Keep, TypeInv, Control

LEMMA TypeStep == TypeInv /\ [Next]_vars => TypeInv'
<1> SUFFICES ASSUME TypeInv, [Next]_vars PROVE TypeInv'
  OBVIOUS
<1> USE DEF TypeInv
<1>1. ASSUME NEW w \in Workers, Starting(w) PROVE TypeInv'
  <2>1. StorageTypeOK'
    BY <1>1, StorageStays DEF Starting
  <2>2. Control'
    <3>1. "loop" \in Plain /\ "loop" \in Labels
      BY DEF Labels, AtWork, Plain
    <3> QED BY <1>1, <3>1, Proceeding DEF Starting
  <2>3. Others'
    BY <1>1 DEF Starting, Others, StateFiles, outside, history, storageVars
  <2> QED BY <2>1, <2>2, <2>3 DEF TypeInv
<1>2. ASSUME NEW w \in Workers, Loop(w) PROVE TypeInv'
  <2>1. StorageTypeOK'
    BY <1>2, StorageStays DEF Loop
  <2>2. Control'
    <3> DEFINE m(b, i) == [mem[w] EXCEPT !.busy = b, !.idle = i]
    <3>1. \A b \in BOOLEAN, i \in Nat : m(b, i) \in Memory
      BY DEF Memory, Control
    <3>2. \A label \in {"final", "totals"} : label \in Plain \cap Labels
      BY DEF Labels, AtWork, Plain
    <3>3. mem[w].idle \in Nat /\ mem[w].idle + 1 \in Nat
      BY DEF Memory, Control
    <3>4. \/ Proceed(w, "final")
          \/ Goto(w, "totals") /\ \E b \in BOOLEAN, i \in Nat : Keep(w, m(b, i))
      BY <1>2, <3>3 DEF Loop
    <3>5. CASE Proceed(w, "final")
      BY <3>2, <3>5, Proceeding
    <3>6. CASE Goto(w, "totals") /\ \E b \in BOOLEAN, i \in Nat : Keep(w, m(b, i))
      <4> HIDE DEF m
      <4> QED BY <3>1, <3>2, <3>6, Moving
    <3> QED BY <3>4, <3>5, <3>6
  <2>3. Others'
    BY <1>2, OthersStay DEF Loop, storageVars
  <2> QED BY <2>1, <2>2, <2>3 DEF TypeInv
<1>3. ASSUME NEW w \in Workers, ReadTotals(w) PROVE TypeInv'
  <2>1. StorageTypeOK'
    BY <1>3, StorageStays DEF ReadTotals, Reads
  <2>2. Control'
    <3> DEFINE v == [mem[w].view EXCEPT !.revenue = Revenue, !.cost = ledger["cost"]]
               m == [mem[w] EXCEPT !.view = v]
    <3>1. "daily" \in Plain /\ "daily" \in Labels
      BY DEF Labels, AtWork, Plain
    <3>2. mem[w].view \in Statistics
      BY DEF Memory, Control
    <3>3. v \in Statistics
      BY <3>2, TypeInvImpliesTypeOK, CountsAreNat DEF Statistics, StorageTypeOK, Kinds
    <3>4. m \in Memory
      BY <3>3 DEF Memory, Control
    <3>5. Goto(w, "daily") /\ Keep(w, m)
      BY <1>3 DEF ReadTotals, Reads
    <3> HIDE DEF m
    <3> QED BY <3>1, <3>4, <3>5, Moving
  <2>3. Others'
    BY <1>3, OthersStay DEF ReadTotals, Reads, storageVars
  <2> QED BY <2>1, <2>2, <2>3 DEF TypeInv
<1>4. ASSUME NEW w \in Workers, ReadDaily(w) PROVE TypeInv'
  <2>1. StorageTypeOK'
    BY <1>4, StorageStays DEF ReadDaily, Reads
  <2>2. Control'
    <3> DEFINE v == [mem[w].view EXCEPT !.daily = DailyCost]
               m == [mem[w] EXCEPT !.view = v]
    <3>1. "counts" \in Plain /\ "counts" \in Labels
      BY DEF Labels, AtWork, Plain
    <3>2. mem[w].view \in Statistics
      BY DEF Memory, Control
    <3>3. v \in Statistics
      BY <3>2, TypeInvImpliesTypeOK DEF Statistics, StorageTypeOK, DailyCost
    <3>4. m \in Memory
      BY <3>3 DEF Memory, Control
    <3>5. Goto(w, "counts") /\ Keep(w, m)
      BY <1>4 DEF ReadDaily, Reads
    <3> HIDE DEF m
    <3> QED BY <3>1, <3>4, <3>5, Moving
  <2>3. Others'
    BY <1>4, OthersStay DEF ReadDaily, Reads, storageVars
  <2> QED BY <2>1, <2>2, <2>3 DEF TypeInv
<1>5. ASSUME NEW w \in Workers, ReadCounts(w) PROVE TypeInv'
  <2>1. StorageTypeOK'
    BY <1>5, StorageStays DEF ReadCounts, Reads
  <2>2. Control'
    <3> DEFINE v == [mem[w].view EXCEPT !.succeeded = SucceededJobs]
               m == [mem[w] EXCEPT !.view = v]
    <3>1. "recent" \in Plain /\ "recent" \in Labels
      BY DEF Labels, AtWork, Plain
    <3>2. mem[w].view \in Statistics
      BY DEF Memory, Control
    <3>3. v \in Statistics
      BY <3>2, TypeInvImpliesTypeOK, CountsAreNat DEF Statistics
    <3>4. m \in Memory
      BY <3>3 DEF Memory, Control
    <3>5. Goto(w, "recent") /\ Keep(w, m)
      BY <1>5 DEF ReadCounts, Reads
    <3> HIDE DEF m
    <3> QED BY <3>1, <3>4, <3>5, Moving
  <2>3. Others'
    BY <1>5, OthersStay DEF ReadCounts, Reads, storageVars
  <2> QED BY <2>1, <2>2, <2>3 DEF TypeInv
<1>6. ASSUME NEW w \in Workers, ReadRecent(w) PROVE TypeInv'
  <2>1. StorageTypeOK'
    BY <1>6, StorageStays DEF ReadRecent, Reads
  <2>2. Control'
    <3> DEFINE v == [mem[w].view EXCEPT !.failures = ConsecutiveFailures]
               m == [mem[w] EXCEPT !.view = v]
    <3>1. "decide" \in Plain /\ "decide" \in Labels
      BY DEF Labels, AtWork, Plain
    <3>2. mem[w].view \in Statistics
      BY DEF Memory, Control
    <3>3. v \in Statistics
      BY <3>2, TypeInvImpliesTypeOK, CountsAreNat DEF Statistics
    <3>4. m \in Memory
      BY <3>3 DEF Memory, Control
    <3>5. Goto(w, "decide") /\ Keep(w, m)
      BY <1>6 DEF ReadRecent, Reads
    <3> HIDE DEF m
    <3> QED BY <3>1, <3>4, <3>5, Moving
  <2>3. Others'
    BY <1>6, OthersStay DEF ReadRecent, Reads, storageVars
  <2> QED BY <2>1, <2>2, <2>3 DEF TypeInv
<1>7. ASSUME NEW w \in Workers, Decide(w) PROVE TypeInv'
  <2>1. StorageTypeOK'
    BY <1>7, StorageStays DEF Decide
  <2>2. Control'
    <3> DEFINE m == [mem[w] EXCEPT !.view = NoView,
                     !.verdict = Evaluate(mem[w].view, NextCost(w), haltReason, mem[w].idle)]
    <3>1. "report" \in Labels
      BY DEF Labels
    <3>2. m \in Memory
      BY EvaluateType DEF Memory, Control, NoView, Statistics
    <3>3. "report" \in Plain \/ Fits("report", m)
      BY EvaluateType DEF Fits, AtWork, Memory, Control, Reasons, PolicyReasons, Rank, Operator, Continue, NoVerdict
    <3>4. Goto(w, "report") /\ Keep(w, m)
      BY <1>7 DEF Decide
    <3> HIDE DEF m
    <3> QED BY <3>1, <3>2, <3>3, <3>4, Moving
  <2>3. Others'
    BY <1>7, OthersStay DEF Decide, storageVars
  <2> QED BY <2>1, <2>2, <2>3 DEF TypeInv
<1>8. ASSUME NEW w \in Workers, Report(w) PROVE TypeInv'
  <2>1. StorageTypeOK'
    BY <1>8, StorageStays DEF Report
  <2>2. Control'
    <3> DEFINE m == [mem[w] EXCEPT !.verdict = NoVerdict]
    <3>1. \A label \in {"claim", "loop"} : label \in Plain \cap Labels
      BY DEF Labels, AtWork, Plain
    <3>2. m \in Memory
      BY DEF Memory, Control
    <3>3. \/ Proceed(w, "persist") /\ mem[w].verdict # Continue
          \/ \E label \in {"claim", "loop"} : Goto(w, label) /\ Keep(w, m)
      BY <1>8 DEF Report
    <3> HIDE DEF m
    <3>4. CASE Proceed(w, "persist") /\ mem[w].verdict # Continue
      <4>1. mem[w].verdict \in Reasons
        BY <1>8, <3>4 DEF Report, Control, Fits, Memory
      <4>2. Fits("persist", mem[w]) /\ "persist" \in Labels
        BY <4>1 DEF Fits, AtWork, Labels
      <4> QED BY <3>4, <4>2, Proceeding
    <3>5. CASE \E label \in {"claim", "loop"} : Goto(w, label) /\ Keep(w, m)
      BY <3>1, <3>2, <3>5, Moving
    <3> QED BY <3>3, <3>4, <3>5
  <2>3. Others'
    BY <1>8 DEF Report, Others, StateFiles, outside, history, storageVars
  <2> QED BY <2>1, <2>2, <2>3 DEF TypeInv
<1>9. ASSUME NEW w \in Workers, Persist(w) PROVE TypeInv'
  <2>1. StorageTypeOK'
    BY <1>9 DEF Persist, RequestHalt, StorageTypeOK, jobVars, ledgerVars, timeVars, storageVars
  <2>2. Control'
    <3> DEFINE m == [mem[w] EXCEPT !.policyHalted = TRUE, !.verdict = NoVerdict]
    <3>1. "final" \in Labels
      BY DEF Labels
    <3>2. m \in Memory
      BY DEF Memory, Control
    <3>3. "final" \in Plain \/ Fits("final", m)
      BY DEF Plain, Labels, AtWork
    <3>4. Goto(w, "final") /\ Keep(w, m)
      BY <1>9 DEF Persist
    <3> HIDE DEF m
    <3> QED BY <3>1, <3>2, <3>3, <3>4, Moving
  <2>3. Others'
    <3>1. mem[w].verdict \in Reasons
      BY <1>9 DEF Persist, Control, Fits
    <3> QED BY <1>9, <3>1 DEF Persist, RequestHalt, Others, outside, history
  <2> QED BY <2>1, <2>2, <2>3 DEF TypeInv
<1>10. ASSUME NEW w \in Workers, Claim(w) PROVE TypeInv'
  <2>1. StorageTypeOK'
    <3>1. CASE UNCHANGED <<jobVars, timeVars>>
      BY <1>10, <3>1 DEF Claim, StorageTypeOK, jobVars, ledgerVars, timeVars
    <3>2. ASSUME NEW j \in Jobs, ClaimNextJob(j) PROVE StorageTypeOK'
      <4>1. jobs' \in [Jobs -> [status : JobStatus, price : Nat, cost : Nat,
                                attempts : Nat, created : Nat, updated : Nat]]
        BY <3>2 DEF ClaimNextJob, Now, StorageTypeOK, JobStatus
      <4>2. clock' \in Nat /\ day' \in Days
        BY <3>2 DEF ClaimNextJob, ReadClock, StorageTypeOK
      <4> QED BY <1>10, <4>1, <4>2 DEF Claim, StorageTypeOK, ledgerVars
    <3> QED BY <1>10, <3>1, <3>2 DEF Claim
  <2>2. Control'
    <3>1. \A label \in {"loop", "announce"} : label \in Labels
      BY DEF Labels
    <3>2. CASE Proceed(w, "loop")
      BY <3>1, <3>2, Proceeding DEF Plain, AtWork
    <3>3. ASSUME NEW j \in Jobs, Goto(w, "announce"),
                 Keep(w, [mem[w] EXCEPT !.held = j])
          PROVE  Control'
      <4> DEFINE m == [mem[w] EXCEPT !.held = j]
      <4>1. m \in Memory /\ m.held \in Jobs
        BY DEF Memory, Control
      <4>2. Keep(w, m)
        BY <3>3
      <4>3. Fits("announce", m)
        BY <4>1 DEF Fits
      <4> HIDE DEF m
      <4> QED BY <3>1, <3>3, <4>1, <4>2, <4>3, Moving
    <3> QED BY <1>10, <3>2, <3>3 DEF Claim
  <2>3. Others'
    BY <1>10 DEF Claim, Bar, Others, outside, history
  <2> QED BY <2>1, <2>2, <2>3 DEF TypeInv
<1>11. ASSUME NEW w \in Workers, Announce(w) PROVE TypeInv'
  <2>1. StorageTypeOK'
    BY <1>11, StorageStays DEF Announce
  <2>2. Control'
    <3>1. "generate" \in Labels
      BY DEF Labels
    <3>2. Fits("generate", mem[w]) /\ Proceed(w, "generate")
      BY <1>11 DEF Announce, Control, Fits, AtWork
    <3> QED BY <3>1, <3>2, Proceeding
  <2>3. Others'
    BY <1>11 DEF Announce, Others, StateFiles, outside, history, storageVars
  <2> QED BY <2>1, <2>2, <2>3 DEF TypeInv
<1>12. ASSUME NEW w \in Workers, Generate(w) PROVE TypeInv'
  <2>1. StorageTypeOK'
    BY <1>12 DEF Generate, ReadClock, StorageTypeOK, jobVars, ledgerVars, timeVars, storageVars
  <2>2. Control'
    <3>0. Now \in Stamp /\ NoStamp \in Stamp
      BY StampTypes
    <3> DEFINE m == [mem[w] EXCEPT !.stamp = Now]
    <3>1. \A label \in {"complete", "fail"} : label \in Labels
      BY DEF Labels
    <3>2. m \in Memory
      BY <3>0 DEF Memory, Control
    <3>3. m.held \in Jobs
      BY <1>12 DEF Generate, Control, Fits, AtWork, Memory
    <3>4. Keep(w, m) /\ \E label \in {"complete", "fail"} : Goto(w, label)
      BY <1>12 DEF Generate
    <3>5. \A label \in {"complete", "fail"} : Fits(label, m)
      BY <3>3 DEF Fits
    <3> HIDE DEF m
    <3> QED BY <3>1, <3>2, <3>4, <3>5, Moving
  <2>3. Others'
    <3>1. \A primary, fallback \in Answers : Call(primary, fallback).bills \in Nat
      BY DEF Call, Bill
    <3>2. PICK bills \in Nat : billed' = [billed EXCEPT ![mem[w].held] = @ + bills]
      BY <1>12, <3>1 DEF Generate
    <3>3. billed' \in [Jobs -> Nat]
      <4>1. billed \in [Jobs -> Nat]
        BY DEF Others
      <4>2. \A j \in Jobs : billed[j] + bills \in Nat
        BY <4>1
      <4> QED BY <3>2, <4>1, <4>2
    <3> QED BY <1>12, <3>3 DEF Generate, Others, outside, history
  <2> QED BY <2>1, <2>2, <2>3 DEF TypeInv
<1>13. ASSUME NEW w \in Workers, Complete(w) PROVE TypeInv'
  <2>1. StorageTypeOK'
    <3>1. /\ mem[w].held \in Jobs
          /\ mem[w].stamp \in Stamp
      BY <1>13 DEF Complete, Control, Fits, AtWork, Memory
    <3>2. jobs' \in [Jobs -> [status : JobStatus, price : Nat, cost : Nat,
                              attempts : Nat, created : Nat, updated : Nat]]
      <4> DEFINE row == [jobs[mem[w].held] EXCEPT !.status = "succeeded",
                            !.cost = ProviderCostCents, !.updated = mem[w].stamp.at]
      <4>1. jobs' = [jobs EXCEPT ![mem[w].held] = row]
        BY <1>13 DEF Complete, CompleteJob
      <4>2. row \in [status : JobStatus, price : Nat, cost : Nat,
                     attempts : Nat, created : Nat, updated : Nat]
        <5>1. /\ jobs[mem[w].held] \in [status : JobStatus, price : Nat, cost : Nat,
                                     attempts : Nat, created : Nat, updated : Nat]
              /\ mem[w].stamp.at \in Nat
          BY <3>1 DEF StorageTypeOK, Stamp
        <5>2. "succeeded" \in JobStatus
          BY DEF JobStatus
        <5> QED BY <5>1, <5>2, RuntimeAssumption
      <4> HIDE DEF row
      <4> QED BY <4>1, <4>2 DEF StorageTypeOK
    <3>3. \E revenue \in Nat : Book(mem[w].held, ProviderCostCents, revenue, mem[w].stamp)
      BY <1>13, <3>1 DEF Complete, CompleteJob, StorageTypeOK
    <3>4. /\ ledger' \in [Kinds -> Nat]
          /\ costOn' \in [Days -> Nat]
          /\ earned' \in [Jobs -> Nat]
          /\ spent' \in [Jobs -> Nat]
      <4>1. PICK revenue \in Nat : Book(mem[w].held, ProviderCostCents, revenue, mem[w].stamp)
        BY <3>3
      <4>2. ProviderCostCents \in Nat
        BY RuntimeAssumption
      <4> QED BY <3>1, <4>1, <4>2, BookTypes
    <3>5. clock' \in Nat /\ day' \in Days
      BY <1>13 DEF Complete, ReadClock, timeVars, StorageTypeOK
    <3> QED BY <3>2, <3>4, <3>5 DEF StorageTypeOK
  <2>2. Control'
    <3>0. Now \in Stamp /\ NoStamp \in Stamp
      BY StampTypes
    <3> DEFINE m(stamp) == [mem[w] EXCEPT !.stamp = stamp]
    <3>1. \A label \in {"running", "fail"} : label \in Labels
      BY DEF Labels
    <3>2. NoStamp \in Stamp
      BY StampTypes
    <3>3. \A stamp \in Stamp : m(stamp) \in Memory
      BY DEF Memory, Control
    <3>4. \A stamp \in Stamp : m(stamp).held \in Jobs
      BY <1>13 DEF Complete, Control, Fits, AtWork, Memory
    <3>5. \E label \in {"running", "fail"}, stamp \in Stamp :
             Goto(w, label) /\ Keep(w, m(stamp))
      BY <1>13, <3>0, <3>2 DEF Complete
    <3>6. \A label \in {"running", "fail"}, stamp \in Stamp : Fits(label, m(stamp))
      BY <3>4 DEF Fits
    <3> HIDE DEF m
    <3> QED BY <3>1, <3>3, <3>5, <3>6, Moving
  <2>3. Others'
    BY <1>13 DEF Complete, Others, outside
  <2> QED BY <2>1, <2>2, <2>3 DEF TypeInv
<1>14. ASSUME NEW w \in Workers, Fail(w) PROVE TypeInv'
  <2>1. StorageTypeOK'
    <3>1. /\ mem[w].held \in Jobs
          /\ mem[w].stamp \in Stamp
      BY <1>14 DEF Fail, Control, Fits, AtWork, Memory
    <3>2. jobs' \in [Jobs -> [status : JobStatus, price : Nat, cost : Nat,
                              attempts : Nat, created : Nat, updated : Nat]]
      <4> DEFINE row == [jobs[mem[w].held] EXCEPT !.status = "failed",
                            !.cost = FailureCostCents, !.updated = mem[w].stamp.at]
      <4>1. jobs' = [jobs EXCEPT ![mem[w].held] = row]
        BY <1>14 DEF Fail, FailJob
      <4>2. row \in [status : JobStatus, price : Nat, cost : Nat,
                     attempts : Nat, created : Nat, updated : Nat]
        <5>1. /\ jobs[mem[w].held] \in [status : JobStatus, price : Nat, cost : Nat,
                                     attempts : Nat, created : Nat, updated : Nat]
              /\ mem[w].stamp.at \in Nat
          BY <3>1 DEF StorageTypeOK, Stamp
        <5>2. "failed" \in JobStatus
          BY DEF JobStatus
        <5> QED BY <5>1, <5>2, RuntimeAssumption
      <4> HIDE DEF row
      <4> QED BY <4>1, <4>2 DEF StorageTypeOK
    <3>3. \E revenue \in Nat : Book(mem[w].held, FailureCostCents, revenue, mem[w].stamp)
      BY <1>14, <3>1 DEF Fail, FailJob, StorageTypeOK
    <3>4. /\ ledger' \in [Kinds -> Nat]
          /\ costOn' \in [Days -> Nat]
          /\ earned' \in [Jobs -> Nat]
          /\ spent' \in [Jobs -> Nat]
      <4>1. PICK revenue \in Nat : Book(mem[w].held, FailureCostCents, revenue, mem[w].stamp)
        BY <3>3
      <4>2. FailureCostCents \in Nat
        BY RuntimeAssumption
      <4> QED BY <3>1, <4>1, <4>2, BookTypes
    <3>5. clock' \in Nat /\ day' \in Days
      BY <1>14 DEF Fail, ReadClock, timeVars, StorageTypeOK
    <3> QED BY <3>2, <3>4, <3>5 DEF StorageTypeOK
  <2>2. Control'
    <3> DEFINE quiet == [mem[w] EXCEPT !.stamp = NoStamp]
               loud == [mem[w] EXCEPT !.stamp = NoStamp, !.raised = TRUE]
    <3>1. "running" \in Plain /\ "running" \in Labels
      BY DEF Labels, AtWork, Plain
    <3>2. quiet \in Memory /\ loud \in Memory
      BY StampTypes DEF Memory, Control
    <3>3. Goto(w, "running") /\ (Keep(w, quiet) \/ Keep(w, loud))
      BY <1>14 DEF Fail
    <3> HIDE DEF quiet, loud
    <3> QED BY <3>1, <3>2, <3>3, Moving
  <2>3. Others'
    BY <1>14 DEF Fail, Others, outside
  <2> QED BY <2>1, <2>2, <2>3 DEF TypeInv
<1>15. ASSUME NEW w \in Workers, Running(w) PROVE TypeInv'
  <2>1. StorageTypeOK'
    BY <1>15, StorageStays DEF Running
  <2>2. Control'
    <3> DEFINE m == [mem[w] EXCEPT !.held = NoJob]
    <3>1. \A label \in {"final", "loop"} : label \in Plain \cap Labels
      BY DEF Labels, AtWork, Plain
    <3>2. m \in Memory
      BY DEF Memory, Control
    <3>3. Keep(w, m) /\ \E label \in {"final", "loop"} : Goto(w, label)
      BY <1>15 DEF Running
    <3> HIDE DEF m
    <3> QED BY <3>1, <3>2, <3>3, Moving
  <2>3. Others'
    BY <1>15 DEF Running, Others, StateFiles, outside, history, storageVars
  <2> QED BY <2>1, <2>2, <2>3 DEF TypeInv
<1>16. ASSUME NEW w \in Workers, Final(w) PROVE TypeInv'
  <2>1. StorageTypeOK'
    BY <1>16, StorageStays DEF Final
  <2>2. Control'
    <3>1. \A label \in {"endHalted", "endStopped"} : label \in Plain \cap Labels
      BY DEF Labels, AtWork, Plain
    <3>2. \E label \in {"endHalted", "endStopped"} : Proceed(w, label)
      BY <1>16 DEF Final
    <3> QED BY <3>1, <3>2, Proceeding
  <2>3. Others'
    BY <1>16, OthersStay DEF Final, storageVars
  <2> QED BY <2>1, <2>2, <2>3 DEF TypeInv
<1>17. ASSUME NEW w \in Workers, WriteEnd(w) PROVE TypeInv'
  <2>1. StorageTypeOK'
    BY <1>17, StorageStays DEF WriteEnd
  <2>2. Control'
    <3>1. \A label \in {"shutdown"} : label \in Plain \cap Labels
      BY DEF Labels, AtWork, Plain
    <3>2. \E label \in {"shutdown"} : Proceed(w, label)
      BY <1>17 DEF WriteEnd
    <3> QED BY <3>1, <3>2, Proceeding
  <2>3. Others'
    BY <1>17 DEF WriteEnd, Others, StateFiles, outside, history, storageVars
  <2> QED BY <2>1, <2>2, <2>3 DEF TypeInv
<1>18. ASSUME NEW w \in Workers, Shutdown(w) PROVE TypeInv'
  <2>1. StorageTypeOK'
    BY <1>18, StorageStays DEF Shutdown
  <2>2. Control'
    <3>1. \E how \in Ended : End(w, how)
      BY <1>18 DEF Shutdown, Ended
    <3> QED BY <3>1, Ending
  <2>3. Others'
    <3>1. \E how \in Ended : End(w, how)
      BY <1>18 DEF Shutdown, Ended
    <3> QED BY <1>18, <3>1, Ending DEF Shutdown, Others, outside, history, storageVars
  <2> QED BY <2>1, <2>2, <2>3 DEF TypeInv
<1>19. ASSUME NEW w \in Workers, Start(w) PROVE TypeInv'
  <2>1. StorageTypeOK'
    BY <1>19, StorageStays DEF Start
  <2>2. Control'
    <3>1. "starting" \in Plain /\ "starting" \in Labels
      BY DEF Labels, AtWork, Plain
    <3> QED BY <1>19, <3>1, Proceeding DEF Start
  <2>3. Others'
    BY <1>19 DEF Start, Bar, Others, storageVars
  <2> QED BY <2>1, <2>2, <2>3 DEF TypeInv
<1>20. ASSUME NEW w \in Workers, Signal(w) PROVE TypeInv'
  <2>1. StorageTypeOK'
    BY <1>20, StorageStays DEF Signal
  <2>2. Control'
    BY <1>20 DEF Signal, Control, Fits
  <2>3. Others'
    BY <1>20 DEF Signal, Others, outside, history, storageVars
  <2> QED BY <2>1, <2>2, <2>3 DEF TypeInv
<1>21. ASSUME NEW w \in Workers, Crash(w) PROVE TypeInv'
  <2>1. StorageTypeOK'
    BY <1>21, StorageStays DEF Crash
  <2>2. Control'
    <3>1. \E how \in Ended : End(w, how)
      BY <1>21 DEF Crash, Ended
    <3> QED BY <3>1, Ending
  <2>3. Others'
    <3>1. \E how \in Ended : End(w, how)
      BY <1>21 DEF Crash, Ended
    <3> QED BY <1>21, <3>1, Ending DEF Crash, Others, outside, history, storageVars
  <2> QED BY <2>1, <2>2, <2>3 DEF TypeInv
<1>22. ASSUME NEW w \in Workers, Raises(w) PROVE TypeInv'
  <2>1. StorageTypeOK'
    BY <1>22 DEF Raises, RaisesInJob, RaisesInHandler, RaisesInLoop, RaisesOutside,
                  ReadClock, StorageTypeOK, jobVars, ledgerVars, timeVars
  <2>2. Control'
    <3>1. CASE RaisesInJob(w)
      <4>0. Now \in Stamp /\ NoStamp \in Stamp
        BY StampTypes
      <4> DEFINE m == [mem[w] EXCEPT !.stamp = Now]
      <4>1. "fail" \in Labels
        BY DEF Labels
      <4>2. m \in Memory
        BY <4>0 DEF Memory, Control
      <4>3. m.held \in Jobs
        BY <3>1 DEF RaisesInJob, Control, Fits, AtWork, Memory
      <4>4. Goto(w, "fail") /\ Keep(w, m)
        BY <3>1 DEF RaisesInJob
      <4>5. Fits("fail", m)
        BY <4>3 DEF Fits
      <4> HIDE DEF m
      <4> QED BY <4>1, <4>2, <4>4, <4>5, Moving
    <3>2. CASE RaisesInHandler(w)
      <4> DEFINE m == [mem[w] EXCEPT !.stamp = NoStamp, !.raised = TRUE]
      <4>1. "running" \in Plain /\ "running" \in Labels
        BY DEF Labels, AtWork, Plain
      <4>2. m \in Memory
        BY StampTypes DEF Memory, Control
      <4>3. Goto(w, "running") /\ Keep(w, m)
        BY <3>2 DEF RaisesInHandler
      <4> HIDE DEF m
      <4> QED BY <4>1, <4>2, <4>3, Moving
    <3>3. CASE RaisesInLoop(w)
      <4> DEFINE m(job, b) ==
             [mem[w] EXCEPT !.view = NoView, !.verdict = NoVerdict, !.held = job,
                            !.policyHalted = b, !.raised = TRUE]
      <4>1. "final" \in Plain /\ "final" \in Labels
        BY DEF Labels, AtWork, Plain
      <4>2. \A job \in Jobs \cup {NoJob}, b \in BOOLEAN : m(job, b) \in Memory
        BY ZenonT(60) DEF Memory, Control, NoView, Statistics
      <4>3. mem[w].held \in Jobs \cup {NoJob}
        BY DEF Memory, Control
      <4>4. /\ Goto(w, "final")
            /\ \E job \in Jobs \cup {NoJob}, b \in BOOLEAN : Keep(w, m(job, b))
        BY <3>3, <4>3 DEF RaisesInLoop
      <4> HIDE DEF m
      <4> QED BY <4>1, <4>2, <4>4, Moving
    <3>4. CASE RaisesOutside(w)
      BY <3>4, Ending DEF RaisesOutside, Ended
    <3> QED BY <1>22, <3>1, <3>2, <3>3, <3>4 DEF Raises
  <2>3. Others'
    <3>1. /\ stopping' \in [Workers -> BOOLEAN]
          /\ posting' \in [Workers -> SUBSET Jobs]
      BY <1>22, Ending
         DEF Raises, RaisesInJob, RaisesInHandler, RaisesInLoop, RaisesOutside, Ended,
             Others
    <3> QED BY <1>22, <3>1 DEF Raises, Others, outside, history
  <2> QED BY <2>1, <2>2, <2>3 DEF TypeInv
<1>23. ASSUME NEW w \in Workers, NEW j \in Jobs, NEW price \in Prices,
             PostJob(w, j, price)
      PROVE TypeInv'
  <2>1. StorageTypeOK'
    <3>1. jobs' \in [Jobs -> [status : JobStatus, price : Nat, cost : Nat,
                              attempts : Nat, created : Nat, updated : Nat]]
      <4>1. price \in Nat /\ Now.at \in Nat
        BY RuntimeAssumption DEF Now, StorageTypeOK
      <4>2. jobs' = [jobs EXCEPT ![j].price = price, ![j].created = Now.at,
                                 ![j].updated = Now.at]
        BY <1>23 DEF PostJob, DrawJob
      <4> QED BY ZenonT(60), <4>1, <4>2 DEF StorageTypeOK
    <3>2. clock' \in Nat /\ day' \in Days
      BY <1>23 DEF PostJob, DrawJob, ReadClock, StorageTypeOK
    <3> QED BY <1>23, <3>1, <3>2 DEF PostJob, StorageTypeOK, ledgerVars
  <2>2. Control'
    BY <1>23 DEF PostJob, Control, Fits
  <2>3. Others'
    BY <1>23 DEF PostJob, Others, outside, history
  <2> QED BY <2>1, <2>2, <2>3 DEF TypeInv
<1>24. ASSUME NEW w \in Workers, NEW j \in Jobs, InsertJob(w, j) PROVE TypeInv'
  <2>1. StorageTypeOK'
    BY <1>24 DEF InsertJob, EnqueueJob, StorageTypeOK, JobStatus, ledgerVars, timeVars
  <2>2. Control'
    BY <1>24 DEF InsertJob, Control, Fits
  <2>3. Others'
    BY <1>24 DEF InsertJob, Others, outside, history
  <2> QED BY <2>1, <2>2, <2>3 DEF TypeInv
<1>25. ASSUME NEW kind \in OperatorKinds, NEW amount \in Amounts,
             PostLedger(kind, amount)
      PROVE TypeInv'
  <2>1. StorageTypeOK'
    <3>1. kind \in Kinds /\ amount \in Nat
      BY RuntimeAssumption
    <3>2. ledger \in [Kinds -> Nat] /\ costOn \in [Days -> Nat] /\ day \in Days
      BY DEF StorageTypeOK
    <3>3. /\ [ledger EXCEPT ![kind] = @ + amount] \in [Kinds -> Nat]
          /\ [costOn EXCEPT ![day] = @ + amount] \in [Days -> Nat]
      BY <3>1, <3>2, Bump
    <3>4. ledger' \in [Kinds -> Nat] /\ costOn' \in [Days -> Nat]
      BY <1>25, <3>2, <3>3 DEF PostLedger, RecordLedger
    <3> QED BY <1>25, <3>4
              DEF PostLedger, RecordLedger, StorageTypeOK, jobVars, timeVars
  <2>2. Control'
    BY <1>25 DEF PostLedger, Control, Fits
  <2>3. Others'
    BY <1>25 DEF PostLedger, Others, history
  <2> QED BY <2>1, <2>2, <2>3 DEF TypeInv
<1>26. ASSUME PostHalt PROVE TypeInv'
  <2>1. StorageTypeOK'
    BY <1>26 DEF PostHalt, RequestHalt, StorageTypeOK, jobVars, ledgerVars, timeVars, storageVars
  <2>2. Control'
    BY <1>26 DEF PostHalt, Control, Fits
  <2>3. Others'
    BY <1>26 DEF PostHalt, RequestHalt, Reasons, Others, outside
  <2> QED BY <2>1, <2>2, <2>3 DEF TypeInv
<1>27. ASSUME PostClearHalt PROVE TypeInv'
  <2>1. StorageTypeOK'
    BY <1>27 DEF PostClearHalt, ClearHalt, StorageTypeOK, jobVars, ledgerVars, timeVars, storageVars
  <2>2. Control'
    BY <1>27 DEF PostClearHalt, Control, Fits
  <2>3. Others'
    BY <1>27 DEF PostClearHalt, ClearHalt, Others, outside
  <2> QED BY <2>1, <2>2, <2>3 DEF TypeInv
<1>28. ASSUME Midnight PROVE TypeInv'
  <2>1. StorageTypeOK'
    BY <1>28, StorageAssumption
       DEF Midnight, StorageTypeOK, Days, jobVars, ledgerVars
  <2>2. Control'
    BY <1>28 DEF Midnight, Control, Fits
  <2>3. Others'
    BY <1>28 DEF Midnight, Others, outside, history
  <2> QED BY <2>1, <2>2, <2>3 DEF TypeInv
<1>29. CASE UNCHANGED vars
  <2>1. StorageTypeOK'
    BY <1>29, StorageStays DEF vars
  <2>2. Control' /\ Others'
    BY <1>29 DEF vars, Control, Fits, Others, outside, history, storageVars
  <2> QED BY <2>1, <2>2
<1>30. ASSUME NEW w \in Workers, Jam(w) PROVE TypeInv'
  <2>1. StorageTypeOK'
    BY <1>30 DEF Jam, StorageTypeOK, jobVars, ledgerVars, timeVars
  <2>2. Control'
    <3>1. "stuck" \in Plain /\ "stuck" \in Labels
      BY DEF Labels, AtWork, Plain
    <3>2. NoMemory \in Memory
      BY StorageAssumption
         DEF NoMemory, NoView, NoStamp, Memory, Statistics, Stamp, Days
    <3> QED BY <1>30, <3>1, <3>2, Moving DEF Jam
  <2>3. Others'
    <3>1. pc[w] = "persist" => mem[w].verdict \in Reasons
      BY DEF Control, Fits
    <3> QED BY <1>30, <3>1 DEF Jam, RequestHalt, Others, outside, history
  <2> QED BY <2>1, <2>2, <2>3 DEF TypeInv
<1> QED
  BY <1>1, <1>2, <1>3, <1>4, <1>5, <1>6, <1>7, <1>8, <1>9, <1>10, <1>11,
     <1>12, <1>13, <1>14, <1>15, <1>16, <1>17, <1>18, <1>19, <1>20, <1>21, <1>22,
     <1>23, <1>24, <1>25, <1>26, <1>27, <1>28, <1>29, <1>30
     DEF Next, Step, Environment

\* The state of every process and of the database keeps its type: orchestrator.py,
\* storage.py and the POST handlers of service.py never produce a negative sum, a
\* status outside the table's CHECK, or work without a job.
THEOREM TypeCorrect == Spec => []TypeOK
<1>1. Init => TypeInv
  BY TypeInit
<1>2. TypeInv /\ [Next]_vars => TypeInv'
  BY TypeStep
<1>3. TypeInv => TypeOK
  BY TypeInvImpliesTypeOK
<1> QED BY <1>1, <1>2, <1>3, PTL DEF Spec
=============================================================================
