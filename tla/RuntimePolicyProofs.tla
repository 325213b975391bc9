------------------------ MODULE RuntimePolicyProofs -------------------------
(* What the economic policy guarantees although its answers are acted on later  *)
(* than they are computed: nothing is claimed twice under a standing halt flag, *)
(* and the budgets are kept up to the calls in flight.  For every value of the  *)
(* constants that a theorem does not restrict by name.                          *)
EXTENDS RuntimeTypeProofs

\* Why no process claims twice under a standing flag: one that has claimed or
\* started under it is on its way to an evaluation that reads the flag, and is
\* past no evaluation that has not.
Heeds(w) ==
    /\ pc[w] # "claim"
    /\ pc[w] = "report" => mem[w].verdict # Continue
BarInv ==
    /\ haltReason = NoFlag => barred = {}
    /\ \A w \in barred : Heeds(w)

\* Statements other than the report of a decision and the claim need no care.
Calm == Labels \ {"claim", "report"}

LEMMA BarMoving ==
    ASSUME TypeInv, BarInv, NEW w \in Workers, NEW label \in Calm,
           Goto(w, label),
           UNCHANGED mem \/ \E m : Keep(w, m),
           UNCHANGED <<haltReason, barred>>
    PROVE  BarInv'
<1>1. pc'[w] = label /\ label # "claim" /\ label # "report"
  BY DEF TypeInv, Control, Goto, Calm
<1>2. \A v \in Workers \ {w} : pc'[v] = pc[v] /\ mem'[v] = mem[v]
  BY DEF TypeInv, Control, Goto, Keep
<1>3. barred \subseteq Workers
  BY DEF TypeInv, Others
<1> QED BY <1>1, <1>2, <1>3 DEF BarInv, Heeds

\* The step of a process that has just been barred, if the flag stands.
LEMMA BarAdding ==
    ASSUME TypeInv, BarInv, NEW w \in Workers, NEW label \in Calm,
           Goto(w, label),
           UNCHANGED mem \/ \E m : Keep(w, m),
           Bar(w), UNCHANGED haltReason
    PROVE  BarInv'
<1>1. pc'[w] = label /\ label # "claim" /\ label # "report"
  BY DEF TypeInv, Control, Goto, Calm
<1>2. \A v \in Workers \ {w} : pc'[v] = pc[v] /\ mem'[v] = mem[v]
  BY DEF TypeInv, Control, Goto, Keep
<1>3. barred \subseteq Workers
  BY DEF TypeInv, Others
<1> QED BY <1>1, <1>2, <1>3 DEF BarInv, Heeds, Bar

LEMMA BarInit == Init => BarInv
BY DEF Init, BarInv

LEMMA BarStep == TypeInv /\ BarInv /\ [Next]_vars => BarInv'
<1> SUFFICES ASSUME TypeInv, BarInv, [Next]_vars PROVE BarInv'
  OBVIOUS
<1>1. ASSUME NEW w \in Workers, Starting(w) PROVE BarInv'
  <2>1. \A label \in {"loop"} : label \in Calm
    BY DEF Calm, Labels
  <2>2. \E label \in {"loop"} : Goto(w, label)
    BY <1>1 DEF Starting, Proceed
  <2>3. UNCHANGED mem \/ \E m : Keep(w, m)
    BY <1>1 DEF Starting, Proceed
  <2>4. UNCHANGED <<haltReason, barred>>
    BY <1>1 DEF Starting, storageVars, history
  <2> QED BY <2>1, <2>2, <2>3, <2>4, BarMoving
<1>2. ASSUME NEW w \in Workers, Loop(w) PROVE BarInv'
  <2>1. \A label \in {"final", "totals"} : label \in Calm
    BY DEF Calm, Labels
  <2>2. \E label \in {"final", "totals"} : Goto(w, label)
    BY <1>2 DEF Loop, Proceed
  <2>3. UNCHANGED mem \/ \E m : Keep(w, m)
    BY <1>2 DEF Loop, Proceed
  <2>4. UNCHANGED <<haltReason, barred>>
    BY <1>2 DEF Loop, storageVars, history
  <2> QED BY <2>1, <2>2, <2>3, <2>4, BarMoving
<1>3. ASSUME NEW w \in Workers, ReadTotals(w) PROVE BarInv'
  <2>1. \A label \in {"daily"} : label \in Calm
    BY DEF Calm, Labels
  <2>2. \E label \in {"daily"} : Goto(w, label)
    BY <1>3 DEF ReadTotals, Reads, Proceed
  <2>3. UNCHANGED mem \/ \E m : Keep(w, m)
    BY <1>3 DEF ReadTotals, Reads, Proceed
  <2>4. UNCHANGED <<haltReason, barred>>
    BY <1>3 DEF ReadTotals, Reads, storageVars, history
  <2> QED BY <2>1, <2>2, <2>3, <2>4, BarMoving
<1>4. ASSUME NEW w \in Workers, ReadDaily(w) PROVE BarInv'
  <2>1. \A label \in {"counts"} : label \in Calm
    BY DEF Calm, Labels
  <2>2. \E label \in {"counts"} : Goto(w, label)
    BY <1>4 DEF ReadDaily, Reads, Proceed
  <2>3. UNCHANGED mem \/ \E m : Keep(w, m)
    BY <1>4 DEF ReadDaily, Reads, Proceed
  <2>4. UNCHANGED <<haltReason, barred>>
    BY <1>4 DEF ReadDaily, Reads, storageVars, history
  <2> QED BY <2>1, <2>2, <2>3, <2>4, BarMoving
<1>5. ASSUME NEW w \in Workers, ReadCounts(w) PROVE BarInv'
  <2>1. \A label \in {"recent"} : label \in Calm
    BY DEF Calm, Labels
  <2>2. \E label \in {"recent"} : Goto(w, label)
    BY <1>5 DEF ReadCounts, Reads, Proceed
  <2>3. UNCHANGED mem \/ \E m : Keep(w, m)
    BY <1>5 DEF ReadCounts, Reads, Proceed
  <2>4. UNCHANGED <<haltReason, barred>>
    BY <1>5 DEF ReadCounts, Reads, storageVars, history
  <2> QED BY <2>1, <2>2, <2>3, <2>4, BarMoving
<1>6. ASSUME NEW w \in Workers, ReadRecent(w) PROVE BarInv'
  <2>1. \A label \in {"decide"} : label \in Calm
    BY DEF Calm, Labels
  <2>2. \E label \in {"decide"} : Goto(w, label)
    BY <1>6 DEF ReadRecent, Reads, Proceed
  <2>3. UNCHANGED mem \/ \E m : Keep(w, m)
    BY <1>6 DEF ReadRecent, Reads, Proceed
  <2>4. UNCHANGED <<haltReason, barred>>
    BY <1>6 DEF ReadRecent, Reads, storageVars, history
  <2> QED BY <2>1, <2>2, <2>3, <2>4, BarMoving
<1>7. ASSUME NEW w \in Workers, Decide(w) PROVE BarInv'
  <2>1. UNCHANGED <<haltReason, barred>> /\ barred \subseteq Workers
    BY <1>7 DEF Decide, storageVars, history, TypeInv, Others
  <2>2. \A v \in Workers \ {w} : pc'[v] = pc[v] /\ mem'[v] = mem[v]
    BY <1>7 DEF Decide, Goto, Keep, TypeInv, Control
  <2>3. pc'[w] = "report"
    BY <1>7 DEF Decide, Goto, TypeInv, Control
  <2>4. mem'[w].verdict =
           Evaluate(mem[w].view, NextCost(w), haltReason, mem[w].idle)
    BY <1>7 DEF Decide, Keep, TypeInv, Control, Memory
  <2>5. haltReason \in Reasons => mem'[w].verdict # Continue
    BY <2>4, EvaluateType
  <2>6. w \in barred => haltReason \in Reasons
    BY DEF BarInv, TypeInv, Others
  <2> QED BY <2>1, <2>2, <2>3, <2>5, <2>6 DEF BarInv, Heeds
<1>8. ASSUME NEW w \in Workers, Report(w) PROVE BarInv'
  <2>1. UNCHANGED <<haltReason, barred>> /\ barred \subseteq Workers
    BY <1>8 DEF Report, storageVars, history, TypeInv, Others
  <2>2. CASE mem[w].verdict # Continue
    <3>1. "persist" \in Calm
      BY DEF Calm, Labels
    <3>2. Goto(w, "persist") /\ UNCHANGED mem
      BY <1>8, <2>2 DEF Report, Proceed
    <3> QED BY <2>1, <3>1, <3>2, BarMoving
  <2>3. CASE mem[w].verdict = Continue
    <3>1. w \notin barred
      BY <1>8, <2>3 DEF Report, BarInv, Heeds
    <3>2. \A v \in Workers \ {w} : pc'[v] = pc[v] /\ mem'[v] = mem[v]
      BY <1>8 DEF Report, Proceed, Goto, Keep, TypeInv, Control
    <3> QED BY <2>1, <3>1, <3>2 DEF BarInv, Heeds
  <2> QED BY <2>2, <2>3
<1>9. ASSUME NEW w \in Workers, Persist(w) PROVE BarInv'
  <2>1. barred' = barred /\ barred \subseteq Workers
    BY <1>9 DEF Persist, history, TypeInv, Others
  <2>2. \A v \in Workers \ {w} : pc'[v] = pc[v] /\ mem'[v] = mem[v]
    BY <1>9 DEF Persist, Goto, Keep, TypeInv, Control
  <2>3. pc'[w] = "final"
    BY <1>9 DEF Persist, Goto, TypeInv, Control
  <2>4. haltReason' \in Reasons
    BY <1>9 DEF Persist, RequestHalt, TypeInv, Control, Fits
  <2>5. NoFlag \notin Reasons
    BY DEF NoFlag, Reasons, PolicyReasons, Rank, Operator
  <2> QED BY <2>1, <2>2, <2>3, <2>4, <2>5 DEF BarInv, Heeds
<1>10. ASSUME NEW w \in Workers, Claim(w) PROVE BarInv'
  <2>1. "loop" \in Calm /\ "announce" \in Calm
    BY DEF Calm, Labels
  <2>2. UNCHANGED haltReason
    BY <1>10 DEF Claim
  <2>3. CASE Proceed(w, "loop") /\ UNCHANGED barred
    BY <2>1, <2>2, <2>3, BarMoving DEF Proceed
  <2>4. CASE Goto(w, "announce") /\ (\E m : Keep(w, m)) /\ Bar(w)
    BY <2>1, <2>2, <2>4, BarAdding
  <2> QED BY <1>10, <2>3, <2>4 DEF Claim
<1>11. ASSUME NEW w \in Workers, Announce(w) PROVE BarInv'
  <2>1. \A label \in {"generate"} : label \in Calm
    BY DEF Calm, Labels
  <2>2. \E label \in {"generate"} : Goto(w, label)
    BY <1>11 DEF Announce, Proceed
  <2>3. UNCHANGED mem \/ \E m : Keep(w, m)
    BY <1>11 DEF Announce, Proceed
  <2>4. UNCHANGED <<haltReason, barred>>
    BY <1>11 DEF Announce, storageVars, history
  <2> QED BY <2>1, <2>2, <2>3, <2>4, BarMoving
<1>12. ASSUME NEW w \in Workers, Generate(w) PROVE BarInv'
  <2>1. \A label \in {"complete", "fail"} : label \in Calm
    BY DEF Calm, Labels
  <2>2. \E label \in {"complete", "fail"} : Goto(w, label)
    BY <1>12 DEF Generate, Proceed
  <2>3. UNCHANGED mem \/ \E m : Keep(w, m)
    BY <1>12 DEF Generate, Proceed
  <2>4. UNCHANGED <<haltReason, barred>>
    BY <1>12 DEF Generate, storageVars, history
  <2> QED BY <2>1, <2>2, <2>3, <2>4, BarMoving
<1>13. ASSUME NEW w \in Workers, Complete(w) PROVE BarInv'
  <2>1. \A label \in {"running", "fail"} : label \in Calm
    BY DEF Calm, Labels
  <2>2. \E label \in {"running", "fail"} : Goto(w, label)
    BY <1>13 DEF Complete, Proceed
  <2>3. UNCHANGED mem \/ \E m : Keep(w, m)
    BY <1>13 DEF Complete, Proceed
  <2>4. UNCHANGED <<haltReason, barred>>
    BY <1>13 DEF Complete, storageVars, history
  <2> QED BY <2>1, <2>2, <2>3, <2>4, BarMoving
<1>14. ASSUME NEW w \in Workers, Fail(w) PROVE BarInv'
  <2>1. \A label \in {"running"} : label \in Calm
    BY DEF Calm, Labels
  <2>2. \E label \in {"running"} : Goto(w, label)
    BY <1>14 DEF Fail, Proceed
  <2>3. UNCHANGED mem \/ \E m : Keep(w, m)
    BY <1>14 DEF Fail, Proceed
  <2>4. UNCHANGED <<haltReason, barred>>
    BY <1>14 DEF Fail, storageVars, history
  <2> QED BY <2>1, <2>2, <2>3, <2>4, BarMoving
<1>15. ASSUME NEW w \in Workers, Running(w) PROVE BarInv'
  <2>1. \A label \in {"final", "loop"} : label \in Calm
    BY DEF Calm, Labels
  <2>2. \E label \in {"final", "loop"} : Goto(w, label)
    BY <1>15 DEF Running, Proceed
  <2>3. UNCHANGED mem \/ \E m : Keep(w, m)
    BY <1>15 DEF Running, Proceed
  <2>4. UNCHANGED <<haltReason, barred>>
    BY <1>15 DEF Running, storageVars, history
  <2> QED BY <2>1, <2>2, <2>3, <2>4, BarMoving
<1>16. ASSUME NEW w \in Workers, Final(w) PROVE BarInv'
  <2>1. \A label \in {"endHalted", "endStopped"} : label \in Calm
    BY DEF Calm, Labels
  <2>2. \E label \in {"endHalted", "endStopped"} : Goto(w, label)
    BY <1>16 DEF Final, Proceed
  <2>3. UNCHANGED mem \/ \E m : Keep(w, m)
    BY <1>16 DEF Final, Proceed
  <2>4. UNCHANGED <<haltReason, barred>>
    BY <1>16 DEF Final, storageVars, history
  <2> QED BY <2>1, <2>2, <2>3, <2>4, BarMoving
<1>17. ASSUME NEW w \in Workers, WriteEnd(w) PROVE BarInv'
  <2>1. \A label \in {"shutdown"} : label \in Calm
    BY DEF Calm, Labels
  <2>2. \E label \in {"shutdown"} : Goto(w, label)
    BY <1>17 DEF WriteEnd, Proceed
  <2>3. UNCHANGED mem \/ \E m : Keep(w, m)
    BY <1>17 DEF WriteEnd, Proceed
  <2>4. UNCHANGED <<haltReason, barred>>
    BY <1>17 DEF WriteEnd, storageVars, history
  <2> QED BY <2>1, <2>2, <2>3, <2>4, BarMoving
<1>18. ASSUME NEW w \in Workers, Shutdown(w) PROVE BarInv'
  <2>1. \A label \in Ended : label \in Calm
    BY DEF Calm, Labels, Down, Ended
  <2>2. \E how \in Ended : Goto(w, how)
    BY <1>18 DEF Shutdown, End, Ended
  <2>3. \E m : Keep(w, m)
    BY <1>18 DEF Shutdown, End
  <2>4. UNCHANGED <<haltReason, barred>>
    BY <1>18 DEF Shutdown, storageVars, history
  <2> QED BY <2>1, <2>2, <2>3, <2>4, BarMoving
<1>19. ASSUME NEW w \in Workers, Start(w) PROVE BarInv'
  <2>1. "starting" \in Calm
    BY DEF Calm, Labels
  <2>2. Goto(w, "starting") /\ UNCHANGED mem /\ Bar(w) /\ UNCHANGED haltReason
    BY <1>19 DEF Start, Proceed, storageVars
  <2> QED BY <2>1, <2>2, BarAdding
<1>20. ASSUME NEW w \in Workers, Crash(w) PROVE BarInv'
  <2>1. \A label \in Ended : label \in Calm
    BY DEF Calm, Labels, Down, Ended
  <2>2. \E how \in Ended : Goto(w, how)
    BY <1>20 DEF Crash, End, Ended
  <2>3. \E m : Keep(w, m)
    BY <1>20 DEF Crash, End
  <2>4. UNCHANGED <<haltReason, barred>>
    BY <1>20 DEF Crash, storageVars, history
  <2> QED BY <2>1, <2>2, <2>3, <2>4, BarMoving
<1>21. ASSUME NEW w \in Workers, Raises(w) PROVE BarInv'
  <2>1. \A label \in {"fail", "running", "final", "error"} : label \in Calm
    BY DEF Calm, Labels, Down, Ended
  <2>2. \E label \in {"fail", "running", "final", "error"} : Goto(w, label)
    BY <1>21 DEF Raises, RaisesInJob, RaisesInHandler, RaisesInLoop, RaisesOutside, End
  <2>3. \E m : Keep(w, m)
    BY <1>21 DEF Raises, RaisesInJob, RaisesInHandler, RaisesInLoop, RaisesOutside, End
  <2>4. UNCHANGED <<haltReason, barred>>
    BY <1>21 DEF Raises, history
  <2> QED BY <2>1, <2>2, <2>3, <2>4, BarMoving
<1>22. ASSUME NEW w \in Workers, Signal(w) PROVE BarInv'
  BY <1>22 DEF Signal, storageVars, history, BarInv, Heeds
<1>23. ASSUME NEW w \in Workers, NEW j \in Jobs, NEW price \in Prices,
             PostJob(w, j, price)
      PROVE  BarInv'
  BY <1>23 DEF PostJob, history, BarInv, Heeds
<1>24. ASSUME NEW w \in Workers, NEW j \in Jobs, InsertJob(w, j) PROVE BarInv'
  BY <1>24 DEF InsertJob, history, BarInv, Heeds
<1>25. ASSUME NEW kind \in OperatorKinds, NEW amount \in Amounts,
             PostLedger(kind, amount)
      PROVE  BarInv'
  BY <1>25 DEF PostLedger, history, BarInv, Heeds
<1>26. ASSUME PostHalt PROVE BarInv'
  <2>1. haltReason' = Operator /\ Operator # NoFlag
    BY <1>26 DEF PostHalt, RequestHalt, Operator, NoFlag
  <2> QED BY <1>26, <2>1 DEF PostHalt, BarInv, Heeds
<1>27. ASSUME PostClearHalt PROVE BarInv'
  BY <1>27 DEF PostClearHalt, BarInv, Heeds
<1>28. ASSUME Midnight PROVE BarInv'
  BY <1>28 DEF Midnight, history, BarInv, Heeds
<1>29. CASE UNCHANGED vars
  BY <1>29 DEF vars, storageVars, history, BarInv, Heeds
<1>30. ASSUME NEW w \in Workers, Jam(w) PROVE BarInv'
  <2>1. UNCHANGED barred
    BY <1>30 DEF Jam, history
  <2>2. barred \subseteq Workers
    BY DEF TypeInv, Others
  <2>3. haltReason' = NoFlag => haltReason = NoFlag
    BY <1>30, JamEffect
  <2>4. \A v \in barred : Heeds(v)'
    <3> TAKE v \in barred
    <3>1. CASE v = w
      BY <1>30, <3>1, JamEffect DEF Heeds
    <3>2. CASE v # w
      BY <1>30, <2>2, <3>2, JamEffect DEF BarInv, Heeds
    <3> QED BY <3>1, <3>2
  <2> QED BY <2>1, <2>3, <2>4 DEF BarInv
<1> QED
  BY <1>1, <1>2, <1>3, <1>4, <1>5, <1>6, <1>7, <1>8, <1>9, <1>10, <1>11,
     <1>12, <1>13, <1>14, <1>15, <1>16, <1>17, <1>18, <1>19, <1>20,
     <1>21, <1>22, <1>23, <1>24, <1>25, <1>26, <1>27, <1>28, <1>29, <1>30
     DEF Next, Step, Environment

\* While a halt flag stands, no process claims a second job, and one started under
\* the flag claims none: for every number of processes, however their statements,
\* operators, signals, crashes and errors interleave (orchestrator.run,
\* storage.halt_reason).
THEOREM HaltHeeded == Spec => OneClaimAfterHalt
<1>1. Init => TypeInv /\ BarInv
  BY TypeInit, BarInit
<1>2. TypeInv /\ BarInv /\ [Next]_vars => TypeInv' /\ BarInv'
  BY TypeStep, BarStep
<1>3. TypeInv /\ BarInv /\ [Next]_vars =>
        [\A w \in barred : haltReason # NoFlag =>
             ~(pc[w] = "claim" /\ pc'[w] = "announce")]_vars
  BY DEF BarInv, Heeds
<1> QED BY <1>1, <1>2, <1>3, PTL DEF Spec, OneClaimAfterHalt

-----------------------------------------------------------------------------
\* Why exit code 20 is recorded: a process that leaves the loop by a decision of the
\* policy has set the flag, which nobody but the operator takes away, and goes through
\* endHalted, after which a process that is alone is the last to write the state file.
HaltInv ==
    \A w \in Workers :
        /\ (mem[w].policyHalted /\ ~mem[w].raised) \/ pc[w] = "halted" =>
               (haltReason = NoFlag => operatorWord = "clear")
        /\ pc[w] = "endStopped" => ~mem[w].policyHalted
        /\ (pc[w] = "shutdown" /\ mem[w].policyHalted) \/ pc[w] = "halted" =>
               stateFile = "halted"
Alone == \A v, w \in Workers : v = w

LEMMA HaltInit == Init => HaltInv
BY DEF Init, NoMemory, HaltInv

\* A step that starts, ends or raises nothing and stays clear of the last statements.
LEMMA HaltMoving ==
    ASSUME Alone, TypeInv, HaltInv, NEW w \in Workers, NEW label,
           label \notin {"halted", "endStopped", "shutdown"},
           Goto(w, label),
           mem'[w].policyHalted = mem[w].policyHalted,
           mem[w].raised => mem'[w].raised,
           UNCHANGED <<haltReason, operatorWord>>
    PROVE  HaltInv'
<1>1. pc'[w] = label
  BY DEF Goto, TypeInv, Control
<1>2. \A v \in Workers : v = w
  BY DEF Alone
<1> QED BY <1>1, <1>2 DEF HaltInv

LEMMA HaltStep == ASSUME Alone PROVE TypeInv /\ HaltInv /\ [Next]_vars => HaltInv'
<1> SUFFICES ASSUME Alone, TypeInv, HaltInv, [Next]_vars PROVE HaltInv'
  OBVIOUS
<1>0. \A w \in Workers : mem[w] \in Memory
  BY DEF TypeInv, Control
<1>1. ASSUME NEW w \in Workers,
             \/ Starting(w) \/ Loop(w) \/ Report(w) \/ Announce(w) \/ Generate(w)
             \/ ReadTotals(w) \/ ReadDaily(w) \/ ReadCounts(w) \/ ReadRecent(w)
      PROVE  HaltInv'
  <2>1. \E label : /\ label \notin {"halted", "endStopped", "shutdown"}
                   /\ Goto(w, label)
    BY <1>1 DEF Starting, Loop, Report, Announce, Generate, Proceed,
                ReadTotals, ReadDaily, ReadCounts, ReadRecent, Reads
  <2>2. /\ mem'[w].policyHalted = mem[w].policyHalted
        /\ mem[w].raised => mem'[w].raised
    <3>1. CASE Starting(w) \/ Announce(w)
      BY <3>1 DEF Proceed, Starting, Announce
    <3>2. CASE Loop(w)
      BY ZenonT(60), <1>0, <3>2 DEF Memory, Keep, TypeInv, Control, Proceed, Loop
    <3>3. CASE Report(w) \/ Generate(w)
      BY <1>0, <3>3 DEF Memory, Keep, TypeInv, Control, Proceed, Report, Generate
    <3>4. CASE ReadTotals(w) \/ ReadDaily(w) \/ ReadCounts(w) \/ ReadRecent(w)
      BY <1>0, <3>4 DEF Memory, Keep, TypeInv, Control,
                        ReadTotals, ReadDaily, ReadCounts, ReadRecent, Reads
    <3> QED BY <1>1, <3>1, <3>2, <3>3, <3>4
  <2>3. UNCHANGED <<haltReason, operatorWord>>
    BY <1>1 DEF Starting, Loop, Report, Announce, Generate, storageVars, history,
                ReadTotals, ReadDaily, ReadCounts, ReadRecent, Reads
  <2> QED BY <2>1, <2>2, <2>3, HaltMoving
<1>2. ASSUME NEW w \in Workers,
             Decide(w) \/ Claim(w) \/ Complete(w) \/ Fail(w) \/ Running(w)
      PROVE  HaltInv'
  <2>1. \E label : /\ label \notin {"halted", "endStopped", "shutdown"}
                   /\ Goto(w, label)
    BY <1>2 DEF Decide, Claim, Complete, Fail, Running, Proceed
  <2>2. /\ mem'[w].policyHalted = mem[w].policyHalted
        /\ mem[w].raised => mem'[w].raised
    <3>1. CASE Decide(w) \/ Claim(w) \/ Running(w)
      BY ZenonT(60), <1>0, <3>1 DEF Memory, Keep, TypeInv, Control, Proceed, Decide, Claim, Running
    <3>2. CASE Complete(w)
      BY <1>0, <3>2 DEF Memory, Keep, TypeInv, Control, Complete
    <3>3. CASE Fail(w)
      BY ZenonT(60), <1>0, <3>3 DEF Memory, Keep, TypeInv, Control, Fail
    <3> QED BY <1>2, <3>1, <3>2, <3>3
  <2>3. UNCHANGED <<haltReason, operatorWord>>
    BY <1>2 DEF Decide, Claim, Complete, Fail, Running, storageVars, history
  <2> QED BY <2>1, <2>2, <2>3, HaltMoving
<1>3. ASSUME NEW w \in Workers, Persist(w) PROVE HaltInv'
  <2>1. haltReason' \in Reasons
    BY <1>3 DEF Persist, RequestHalt, TypeInv, Control, Fits
  <2>2. haltReason' # NoFlag
    BY <2>1 DEF NoFlag, Reasons, PolicyReasons, Rank, Operator
  <2>3. pc'[w] = "final"
    BY <1>3 DEF Persist, Goto, TypeInv, Control
  <2>4. \A v \in Workers : v = w
    BY DEF Alone
  <2> QED BY <2>2, <2>3, <2>4 DEF HaltInv
<1>4. ASSUME NEW w \in Workers, Final(w) PROVE HaltInv'
  <2>1. /\ UNCHANGED <<mem, haltReason, operatorWord>>
        /\ pc'[w] = "endHalted" \/ (pc'[w] = "endStopped" /\ ~mem[w].policyHalted)
    BY <1>4 DEF Final, Proceed, Goto, TypeInv, Control, storageVars, history
  <2>2. \A v \in Workers : v = w
    BY DEF Alone
  <2> QED BY <2>1, <2>2 DEF HaltInv
<1>5. ASSUME NEW w \in Workers, WriteEnd(w) PROVE HaltInv'
  <2>1. /\ UNCHANGED <<mem, haltReason, operatorWord>>
        /\ pc'[w] = "shutdown"
        /\ stateFile' = "halted" \/ pc[w] = "endStopped"
    BY <1>5 DEF WriteEnd, Proceed, Goto, TypeInv, Control, storageVars, history
  <2>2. \A v \in Workers : v = w
    BY DEF Alone
  <2> QED BY <2>1, <2>2 DEF HaltInv
<1>6. ASSUME NEW w \in Workers, Shutdown(w) PROVE HaltInv'
  <2>1. /\ UNCHANGED <<haltReason, operatorWord, stateFile>>
        /\ pc[w] = "shutdown" /\ mem'[w] = NoMemory
        /\ \/ pc'[w] = "halted" /\ mem[w].policyHalted /\ ~mem[w].raised
           \/ pc'[w] \in {"error", "stopped"}
    BY <1>6 DEF Shutdown, End, Goto, Keep, TypeInv, Control, storageVars, history
  <2>2. \A v \in Workers : v = w
    BY DEF Alone
  <2> QED BY <2>1, <2>2 DEF HaltInv, NoMemory
<1>7. ASSUME NEW w \in Workers, Start(w) PROVE HaltInv'
  <2>1. Goto(w, "starting") /\ UNCHANGED <<mem, haltReason, operatorWord>>
    BY <1>7 DEF Start, Proceed, storageVars
  <2> QED BY <2>1, HaltMoving
<1>8. ASSUME NEW w \in Workers, Crash(w) \/ (Raises(w) /\ RaisesOutside(w))
      PROVE  HaltInv'
  <2>1. /\ pc'[w] \in {"killed", "error"} /\ mem'[w] = NoMemory
    BY <1>8 DEF Crash, RaisesOutside, End, Goto, Keep, TypeInv, Control
  <2>2. \A v \in Workers : v = w
    BY DEF Alone
  <2> QED BY <2>1, <2>2 DEF HaltInv, NoMemory
<1>9. ASSUME NEW w \in Workers, Raises(w),
             RaisesInJob(w) \/ RaisesInHandler(w) \/ RaisesInLoop(w)
      PROVE  HaltInv'
  <2>1. pc'[w] \in {"fail", "running", "final"}
    BY <1>9 DEF RaisesInJob, RaisesInHandler, RaisesInLoop, Goto, TypeInv, Control
  <2>2. \/ mem'[w].raised
        \/ /\ mem'[w].policyHalted = mem[w].policyHalted
           /\ mem'[w].raised = mem[w].raised
    BY ZenonT(60), <1>0, <1>9
       DEF RaisesInJob, RaisesInHandler, RaisesInLoop, Keep, TypeInv, Control, Memory
  <2>3. UNCHANGED <<haltReason, operatorWord>>
    BY <1>9 DEF Raises, history
  <2>4. \A v \in Workers : v = w
    BY DEF Alone
  <2> QED BY <2>1, <2>2, <2>3, <2>4 DEF HaltInv
<1>10. ASSUME \/ \E w \in Workers : Signal(w)
              \/ \E w \in Workers, j \in Jobs :
                   InsertJob(w, j) \/ \E price \in Prices : PostJob(w, j, price)
              \/ \E kind \in OperatorKinds, amount \in Amounts : PostLedger(kind, amount)
              \/ Midnight
       PROVE  HaltInv'
  <2>1. UNCHANGED <<pc, mem, stateFile, haltReason, operatorWord>>
    BY <1>10 DEF Signal, InsertJob, PostJob, PostLedger, Midnight, storageVars, history
  <2> QED BY <2>1 DEF HaltInv
<1>11. ASSUME PostHalt PROVE HaltInv'
  <2>1. haltReason' # NoFlag /\ UNCHANGED <<pc, mem, stateFile>>
    BY <1>11 DEF PostHalt, RequestHalt, Operator, NoFlag
  <2> QED BY <2>1 DEF HaltInv
<1>12. ASSUME PostClearHalt PROVE HaltInv'
  BY <1>12 DEF PostClearHalt, HaltInv
<1>13. CASE UNCHANGED vars
  BY <1>13 DEF vars, storageVars, history, HaltInv
<1>14. ASSUME NEW w \in Workers, Jam(w) PROVE HaltInv'
  <2>1. pc'[w] = "stuck" /\ mem'[w] = NoMemory
    BY <1>14, JamEffect
  <2>2. \A v \in Workers : v = w
    BY DEF Alone
  <2> QED BY <2>1, <2>2 DEF HaltInv, NoMemory
<1> QED
  BY <1>1, <1>2, <1>3, <1>4, <1>5, <1>6, <1>7, <1>8, <1>9, <1>10, <1>11, <1>12, <1>13, <1>14
     DEF Next, Step, Environment, Raises

\* A process that is alone and exits with code 20 has left "halted" in the state file and
\* the flag in the database, for the operator to find and to clear, whatever else has
\* raised, signalled or restarted on the way (orchestrator.run).
THEOREM HaltsAreRecorded == ASSUME Alone PROVE Spec => []HaltIsRecorded
<1>1. Init => TypeInv /\ HaltInv
  BY TypeInit, HaltInit
<1>2. TypeInv /\ HaltInv /\ [Next]_vars => TypeInv' /\ HaltInv'
  BY TypeStep, HaltStep
<1>3. HaltInv => HaltIsRecorded
  BY DEF HaltInv, HaltIsRecorded
<1> QED BY <1>1, <1>2, <1>3, PTL DEF Spec

-----------------------------------------------------------------------------
\* Why n processes overspend by at most n - 1 calls.  A process is cleared from the moment at
\* which it has read books that leave room for its call until it has booked the call.
\* Whoever is cleared last has seen the room for its own call, and the others are n - 1.
InFlight(w) ==
    \/ pc[w] \in AtWork \cup {"claim"}
    \/ pc[w] = "report" /\ mem[w].busy /\ mem[w].verdict = Continue
ReadFunds(w) ==
    /\ pc[w] \in {"daily", "counts", "recent", "decide"}
    /\ mem[w].busy
    /\ ProviderCostCents <= Available(mem[w].view.revenue, mem[w].view.cost)
ReadDay(w) ==
    /\ pc[w] \in {"counts", "recent", "decide"}
    /\ mem[w].busy
    /\ mem[w].view.daily + ProviderCostCents <= DailyCostCapCents
FundsCleared(w) == InFlight(w) \/ ReadFunds(w)
DayCleared(w) == InFlight(w) \/ ReadDay(w)

\* The first day on which a cleared process may book.
Stamped(w) == pc[w] \in {"complete", "fail"}
Due(w) == IF Stamped(w) THEN mem[w].stamp.day ELSE day

FundsPending == {w \in Workers : FundsCleared(w)}
DayPending(d) == {w \in Workers : DayCleared(w) /\ Due(w) <= d}

Covered(room, pending) ==
    ProviderCostCents * Cardinality(pending)
        <= room + (Cardinality(Workers) - 1) * ProviderCostCents

FundsInv ==
    HaltOnNoFunds => Covered(Available(Revenue, ledger["cost"]), FundsPending)
DayInv ==
    /\ \A w \in Workers : Stamped(w) => mem[w].stamp.day <= day
    /\ DailyCostCapCents # 0 =>
         /\ \A d \in Days : Covered(DailyCostCapCents - costOn[d], DayPending(d))
         /\ \A d \in Days : d > day => costOn[d] = 0
         /\ (\E w \in Workers : DayCleared(w)) => ProviderCostCents <= DailyCostCapCents

LEMMA Times ==
    ASSUME NEW c \in Nat, NEW a \in Nat, NEW b \in Nat, a <= b
    PROVE  c * a \in Int /\ c * b \in Int /\ c * a <= c * b
<1>1. PICK k \in Nat : b = a + k
  <2>1. b - a \in Nat /\ b = a + (b - a)
    OBVIOUS
  <2> QED BY <2>1
<1>2. c * k \in Nat
  OBVIOUS
<1>3. c * b = c * a + c * k
  BY <1>1
<1> QED BY <1>2, <1>3

\* The numbers that Covered is about.
LEMMA Counting ==
    ASSUME IsFiniteSet(Workers), NEW P \in SUBSET Workers
    PROVE  /\ IsFiniteSet(P)
           /\ Cardinality(P) \in Nat
           /\ Cardinality(Workers) \in Nat
           /\ Cardinality(P) <= Cardinality(Workers)
           /\ ProviderCostCents \in Nat
           /\ (Cardinality(Workers) - 1) * ProviderCostCents
                  = ProviderCostCents * Cardinality(Workers) - ProviderCostCents
<1>1. IsFiniteSet(P) /\ Cardinality(P) <= Cardinality(Workers)
  BY FS_Subset
<1>2. Cardinality(P) \in Nat /\ Cardinality(Workers) \in Nat
  BY <1>1, FS_CardinalityType
<1>3. ProviderCostCents \in Nat
  BY RuntimeAssumption
<1>4. \A n, c \in Nat : (n - 1) * c = c * n - c
  OBVIOUS
<1> QED BY <1>1, <1>2, <1>3, <1>4

\* Room that grows, for fewer processes.
LEMMA CoveredKept ==
    ASSUME IsFiniteSet(Workers), NEW P \in SUBSET Workers, NEW Q \in SUBSET P,
           NEW room \in Int, NEW larger \in Int, room <= larger, Covered(room, P)
    PROVE  Covered(larger, Q)
<1>1. IsFiniteSet(P) /\ Cardinality(P) \in Nat /\ Cardinality(Q) \in Nat
  BY Counting
<1>2. Cardinality(Q) <= Cardinality(P)
  BY <1>1, FS_Subset
<1>3. ProviderCostCents * Cardinality(Q) <= ProviderCostCents * Cardinality(P)
  BY <1>1, <1>2, Counting, Times
<1> DEFINE q == ProviderCostCents * Cardinality(Q)
           p == ProviderCostCents * Cardinality(P)
           n == (Cardinality(Workers) - 1) * ProviderCostCents
<1>4. q \in Int /\ p \in Int /\ n \in Int
  BY <1>1, Counting
<1>5. q <= p /\ p <= room + n
  BY <1>3 DEF Covered
<1>6. q <= larger + n
  <2> HIDE DEF q, p, n
  <2> QED BY <1>4, <1>5
<1> QED BY <1>6 DEF Covered

\* Room for a call, whoever is cleared.
LEMMA CoveredAnew ==
    ASSUME IsFiniteSet(Workers), NEW Q \in SUBSET Workers,
           NEW room \in Int, ProviderCostCents <= room
    PROVE  Covered(room, Q)
<1>1. ProviderCostCents * Cardinality(Q) <= ProviderCostCents * Cardinality(Workers)
  BY Counting, Times
<1> DEFINE q == ProviderCostCents * Cardinality(Q)
           n == ProviderCostCents * Cardinality(Workers)
<1>2. q \in Int /\ n \in Int /\ ProviderCostCents \in Nat /\ q <= n
  BY <1>1, Counting, Times
<1>3. q <= room + (n - ProviderCostCents)
  <2> HIDE DEF q, n
  <2> QED BY <1>2
<1> QED BY <1>3, Counting DEF Covered

\* A call that is booked by a process that was cleared for it.
LEMMA CoveredSpent ==
    ASSUME IsFiniteSet(Workers), NEW P \in SUBSET Workers, NEW w \in P,
           NEW Q \in SUBSET (P \ {w}), NEW room \in Int, NEW left \in Int,
           room - ProviderCostCents <= left, Covered(room, P)
    PROVE  Covered(left, Q)
<1>1. IsFiniteSet(P) /\ Cardinality(P) \in Nat /\ ProviderCostCents \in Nat
  BY Counting
<1>2. /\ IsFiniteSet(P \ {w})
      /\ Cardinality(P \ {w}) = Cardinality(P) - 1
  BY <1>1, FS_RemoveElement
<1>3. Cardinality(P \ {w}) \in Nat
  BY <1>2, FS_CardinalityType
<1>4. \A k, c \in Nat : k - 1 \in Nat => c * (k - 1) = c * k - c
  OBVIOUS
<1>5. ProviderCostCents * Cardinality(P \ {w})
        = ProviderCostCents * Cardinality(P) - ProviderCostCents
  BY <1>1, <1>2, <1>3, <1>4
<1> DEFINE p == ProviderCostCents * Cardinality(P)
           r == ProviderCostCents * Cardinality(P \ {w})
           n == (Cardinality(Workers) - 1) * ProviderCostCents
<1>6. p \in Int /\ r \in Int /\ n \in Int
  BY <1>1, <1>3, Counting
<1>7. r <= (room - ProviderCostCents) + n
  <2>1. p <= room + n /\ r = p - ProviderCostCents
    BY <1>5 DEF Covered
  <2> HIDE DEF p, r, n
  <2> QED BY <2>1, <1>1, <1>6
<1>8. Covered(room - ProviderCostCents, P \ {w})
  BY <1>7 DEF Covered
<1> QED BY <1>1, <1>8, CoveredKept

\* What Covered says when all are done.
LEMMA CoveredBounds ==
    ASSUME IsFiniteSet(Workers), NEW P \in SUBSET Workers, NEW room \in Int,
           Covered(room, P)
    PROVE  0 <= room + (Cardinality(Workers) - 1) * ProviderCostCents
<1>1. {} \in SUBSET P /\ Cardinality({}) = 0
  BY FS_EmptySet
<1>2. Covered(room, {})
  BY <1>1, CoveredKept
<1> QED BY <1>1, <1>2, Counting DEF Covered

\* Under which configurations the budgets are kept: a failure costs at most what was
\* evaluated, operators take no money away, and no success is booked twice.
Budgeted ==
    /\ IsFiniteSet(Workers)
    /\ Workers # {}
    /\ FailureCostCents <= ProviderCostCents
    /\ OperatorKinds \subseteq {"revenue", "credit"}
    /\ "stdout" \notin Faults

BudgetInv == FundsInv /\ DayInv
Room == Available(Revenue, ledger["cost"])

LEMMA RoomType ==
    /\ TypeInv => Room \in Int
    /\ TypeInv' => Room' \in Int
BY PolicyAssumption
   DEF TypeInv, StorageTypeOK, Room, Available, Revenue, Kinds

LEMMA BudgetInit == ASSUME Budgeted, Init PROVE BudgetInv
<1>1. /\ FundsPending = {}
      /\ \A d \in Days : DayPending(d) = {}
      /\ \A w \in Workers : ~Stamped(w) /\ ~DayCleared(w)
  BY DEF Init, FundsPending, DayPending, FundsCleared, DayCleared, Stamped, InFlight,
         ReadFunds, ReadDay, AtWork
<1>2. \A room \in Nat : Covered(room, {})
  <2>1. Cardinality({}) = 0 /\ Cardinality(Workers) \in Nat /\ Cardinality(Workers) # 0
    BY FS_EmptySet, FS_CardinalityType DEF Budgeted
  <2>2. Cardinality(Workers) - 1 \in Nat /\ ProviderCostCents \in Nat
    BY <2>1, RuntimeAssumption
  <2>3. \A m, c \in Nat : m * c \in Nat /\ c * 0 = 0
    OBVIOUS
  <2>4. (Cardinality(Workers) - 1) * ProviderCostCents \in Nat
    BY <2>2, <2>3
  <2>5. ProviderCostCents * Cardinality({}) = 0
    BY <2>1, <2>2, <2>3
  <2> QED BY <2>4, <2>5 DEF Covered
<1>3. Room \in Nat
  BY PolicyAssumption DEF Init, StorageInit, Room, Available, Revenue, Kinds
<1>4. /\ \A d \in Days : costOn[d] = 0
      /\ DailyCostCapCents - 0 \in Nat
  BY PolicyAssumption DEF Init, StorageInit
<1> QED BY <1>1, <1>2, <1>3, <1>4 DEF BudgetInv, FundsInv, DayInv, Room

LEMMA FundsKept ==
    ASSUME Budgeted, TypeInv, TypeInv', FundsInv,
           HaltOnNoFunds => FundsPending' \subseteq FundsPending,
           Room <= Room'
    PROVE  FundsInv'
<1> SUFFICES ASSUME HaltOnNoFunds PROVE Covered(Room', FundsPending')
  BY DEF FundsInv, Covered, Room
<1>1. Covered(Room, FundsPending)
  BY DEF FundsInv, Room
<1>2. Room \in Int /\ Room' \in Int
  BY RoomType
<1> HIDE DEF Room
<1> QED BY <1>1, <1>2, CoveredKept DEF Budgeted, FundsPending

LEMMA DayKept ==
    ASSUME Budgeted, TypeInv, TypeInv', DayInv, UNCHANGED costOn, day <= day',
           \A w \in Workers : Stamped(w)' => mem'[w].stamp.day <= day',
           DailyCostCapCents # 0 => \A w \in Workers :
               DayCleared(w)' => DayCleared(w) /\ Due(w) <= Due(w)'
    PROVE  DayInv'
<1> SUFFICES ASSUME DailyCostCapCents # 0
             PROVE  /\ \A d \in Days : Covered(DailyCostCapCents - costOn'[d], DayPending(d)')
                    /\ \A d \in Days : d > day' => costOn'[d] = 0
                    /\ (\E w \in Workers : DayCleared(w)') =>
                           ProviderCostCents <= DailyCostCapCents
  BY DEF DayInv, Covered
<1>1. \A d \in Days : costOn[d] \in Int
  BY DEF TypeInv, StorageTypeOK
<1>2. /\ \A d \in Days : d \in Int
      /\ day \in Int /\ day' \in Int
      /\ DailyCostCapCents \in Int
  BY PolicyAssumption DEF TypeInv, StorageTypeOK, Days
<1>3. \A w \in Workers : Stamped(w) => mem[w].stamp.day \in Int
  BY DEF TypeInv, Control, Memory, Stamp, Days
<1>4. \A w \in Workers : Stamped(w)' => mem'[w].stamp.day \in Int
  BY DEF TypeInv, Control, Memory, Stamp, Days
<1>5. \A w \in Workers : Due(w) \in Int /\ Due(w)' \in Int
  BY <1>2, <1>3, <1>4 DEF Due
<1>6. ASSUME NEW d \in Days
      PROVE  Covered(DailyCostCapCents - costOn'[d], DayPending(d)')
  <2>1. DayPending(d)' \subseteq DayPending(d)
    <3> SUFFICES ASSUME NEW w \in Workers, DayCleared(w)', Due(w)' <= d
                 PROVE  DayCleared(w) /\ Due(w) <= d
      BY DEF DayPending
    <3>1. DayCleared(w) /\ Due(w) <= Due(w)'
      OBVIOUS
    <3> QED BY <1>2, <1>5, <3>1
  <2>2. Covered(DailyCostCapCents - costOn[d], DayPending(d))
    BY DEF DayInv
  <2>3. DailyCostCapCents - costOn[d] \in Int
    BY <1>1, <1>2
  <2> QED BY <2>1, <2>2, <2>3, CoveredKept DEF Budgeted, DayPending
<1>7. \A d \in Days : d > day' => costOn'[d] = 0
  BY <1>2 DEF DayInv
<1> QED BY <1>6, <1>7 DEF DayInv

\* A step of one process that books nothing.
LEMMA BudgetMoved ==
    ASSUME Budgeted, TypeInv, TypeInv', BudgetInv, NEW w \in Workers,
           \A v \in Workers : v # w => pc'[v] = pc[v] /\ mem'[v] = mem[v],
           UNCHANGED <<ledger, costOn, day>>,
           HaltOnNoFunds /\ FundsCleared(w)' => FundsCleared(w),
           DailyCostCapCents # 0 /\ DayCleared(w)' => DayCleared(w) /\ Due(w) <= Due(w)',
           Stamped(w)' => mem'[w].stamp.day <= day
    PROVE  BudgetInv'
<1>1. \A v \in Workers : v # w =>
        /\ FundsCleared(v)' = FundsCleared(v)
        /\ DayCleared(v)' = DayCleared(v)
        /\ Stamped(v)' = Stamped(v)
        /\ Due(v)' = Due(v)
  BY DEF FundsCleared, DayCleared, InFlight, ReadFunds, ReadDay, Stamped, Due
<1>2. \A v \in Workers : Due(v) \in Int
  BY DEF TypeInv, StorageTypeOK, Control, Memory, Stamp, Days, Due
<1>3. HaltOnNoFunds => FundsPending' \subseteq FundsPending
  BY <1>1 DEF FundsPending
<1>4. Room' = Room /\ Room \in Int
  BY RoomType DEF Room, Revenue
<1>5. FundsInv'
  BY <1>3, <1>4, FundsKept DEF BudgetInv
<1>6. \A v \in Workers : Stamped(v)' => mem'[v].stamp.day <= day'
  BY <1>1 DEF BudgetInv, DayInv
<1>7. DailyCostCapCents # 0 => \A v \in Workers :
        DayCleared(v)' => DayCleared(v) /\ Due(v) <= Due(v)'
  BY <1>1, <1>2
<1>8. day <= day'
  BY DEF TypeInv, StorageTypeOK, Days
<1> QED BY <1>5, <1>6, <1>7, <1>8, DayKept DEF BudgetInv

LEMMA BudgetStill ==
    ASSUME Budgeted, TypeInv, TypeInv', BudgetInv, UNCHANGED <<pc, mem, ledger, costOn, day>>
    PROVE  BudgetInv'
<1> PICK w \in Workers : TRUE
  BY DEF Budgeted
<1>1. Due(w) \in Int
  BY DEF TypeInv, StorageTypeOK, Control, Memory, Stamp, Days, Due
<1>2. /\ FundsCleared(w)' = FundsCleared(w)
      /\ DayCleared(w)' = DayCleared(w)
      /\ Stamped(w)' = Stamped(w)
      /\ Due(w)' = Due(w)
  BY DEF FundsCleared, DayCleared, InFlight, ReadFunds, ReadDay, Stamped, Due
<1> QED BY <1>1, <1>2, BudgetMoved DEF BudgetInv, DayInv

\* Statements at which no process is cleared.
Away == {"starting", "loop", "totals", "persist", "running", "final", "endHalted",
         "endStopped", "shutdown", "stuck"} \cup Down

LEMMA BudgetAway ==
    ASSUME Budgeted, TypeInv, TypeInv', BudgetInv, NEW w \in Workers, NEW label \in Away,
           Goto(w, label),
           UNCHANGED mem \/ \E m : Keep(w, m),
           UNCHANGED <<ledger, costOn, day>>
    PROVE  BudgetInv'
<1>1. pc'[w] = label
  BY DEF TypeInv, Control, Goto
<1>2. \A v \in Workers : v # w => pc'[v] = pc[v] /\ mem'[v] = mem[v]
  BY DEF TypeInv, Control, Goto, Keep
<1>3. ~FundsCleared(w)' /\ ~DayCleared(w)' /\ ~Stamped(w)'
  BY <1>1 DEF Away, Down, Ended, FundsCleared, DayCleared, InFlight, ReadFunds, ReadDay,
              Stamped, AtWork
<1> QED BY <1>2, <1>3, BudgetMoved

\* A cleared process goes on.
LEMMA BudgetCarried ==
    ASSUME Budgeted, TypeInv, TypeInv', BudgetInv, NEW w \in Workers,
           NEW label \in AtWork \cup {"claim"},
           Goto(w, label),
           UNCHANGED mem \/ \E m : Keep(w, m),
           UNCHANGED <<ledger, costOn, day>>,
           InFlight(w),
           Stamped(w) \/ Stamped(w)' => mem'[w].stamp.day = day
    PROVE  BudgetInv'
<1>1. pc'[w] = label
  BY DEF TypeInv, Control, Goto
<1>2. \A v \in Workers : v # w => pc'[v] = pc[v] /\ mem'[v] = mem[v]
  BY DEF TypeInv, Control, Goto, Keep
<1>3. FundsCleared(w) /\ DayCleared(w)
  BY DEF FundsCleared, DayCleared
<1>4. Stamped(w) => mem[w].stamp.day <= day
  BY DEF BudgetInv, DayInv
<1>5. day \in Int
  BY DEF TypeInv, StorageTypeOK, Days
<1>6. Due(w) <= Due(w)'
  BY <1>4, <1>5 DEF Due
<1>7. Stamped(w)' => mem'[w].stamp.day <= day
  BY <1>5
<1> QED BY <1>2, <1>3, <1>6, <1>7, BudgetMoved

\* A process that reads its day's costs may be cleared for the day from now on.
LEMMA BudgetDayRead ==
    ASSUME Budgeted, TypeInv, TypeInv', BudgetInv, NEW w \in Workers, ReadDaily(w)
    PROVE  BudgetInv'
<1>1. \A v \in Workers : v # w => pc'[v] = pc[v] /\ mem'[v] = mem[v]
  BY DEF TypeInv, Control, ReadDaily, Reads, Goto, Keep
<1>2. UNCHANGED <<ledger, costOn, day>>
  BY DEF ReadDaily, Reads, storageVars, ledgerVars, timeVars
<1>3. pc[w] = "daily" /\ pc'[w] = "counts"
  BY DEF ReadDaily, Reads, Goto, TypeInv, Control
<1>4. /\ mem'[w].busy = mem[w].busy
      /\ mem'[w].view.revenue = mem[w].view.revenue
      /\ mem'[w].view.cost = mem[w].view.cost
      /\ mem'[w].view.daily = costOn[day]
  BY DEF ReadDaily, Reads, Keep, DailyCost, TypeInv, Control, Memory, Statistics
<1>5. FundsCleared(w)' => FundsCleared(w)
  BY <1>3, <1>4 DEF FundsCleared, InFlight, ReadFunds, AtWork
<1>6. ~Stamped(w)' /\ Due(w)' = day
  BY <1>2, <1>3 DEF Stamped, Due
<1>7. CASE DailyCostCapCents # 0 => ~DayCleared(w)'
  BY <1>1, <1>2, <1>5, <1>6, <1>7, BudgetMoved
<1>8. CASE DailyCostCapCents # 0 /\ DayCleared(w)'
  <2>1. costOn[day] + ProviderCostCents <= DailyCostCapCents
    BY <1>2, <1>3, <1>4, <1>8 DEF DayCleared, InFlight, ReadDay, AtWork
  <2>2. \A v \in Workers : v # w =>
          /\ FundsCleared(v)' = FundsCleared(v)
          /\ DayCleared(v)' = DayCleared(v)
          /\ Stamped(v)' = Stamped(v)
          /\ Due(v)' = Due(v)
    BY <1>1, <1>2
       DEF FundsCleared, DayCleared, InFlight, ReadFunds, ReadDay, Stamped, Due
  <2>3. FundsInv'
    <3>1. FundsPending' \subseteq FundsPending
      BY <1>5, <2>2 DEF FundsPending
    <3>2. Room <= Room'
      BY <1>2, RoomType DEF Room, Revenue
    <3> QED BY <3>1, <3>2, FundsKept DEF BudgetInv
  <2>4. /\ \A d \in Days : d \in Int /\ costOn[d] \in Nat
        /\ day \in Days
        /\ DailyCostCapCents \in Int /\ ProviderCostCents \in Nat
    <3>1. \A d \in Days : d \in Int
      BY DEF Days
    <3> QED BY <3>1, PolicyAssumption, RuntimeAssumption DEF TypeInv, StorageTypeOK
  <2>5. ASSUME NEW d \in Days
        PROVE  Covered(DailyCostCapCents - costOn[d], DayPending(d)')
    <3>1. DailyCostCapCents - costOn[d] \in Int /\ DayPending(d)' \subseteq Workers
      BY <2>4 DEF DayPending
    <3>2. CASE d = day
      <4>1. ProviderCostCents <= DailyCostCapCents - costOn[d]
        BY <2>1, <2>4, <3>2
      <4> QED BY <3>1, <4>1, CoveredAnew DEF Budgeted
    <3>3. CASE d > day
      <4>1. costOn[d] = 0
        BY <1>8, <3>3 DEF BudgetInv, DayInv
      <4>2. ProviderCostCents <= DailyCostCapCents - costOn[d]
        BY <2>1, <2>4, <4>1
      <4> QED BY <3>1, <4>2, CoveredAnew DEF Budgeted
    <3>4. CASE d < day
      <4>1. w \notin DayPending(d)'
        BY <1>6, <2>4, <3>4 DEF DayPending
      <4>2. DayPending(d)' \subseteq DayPending(d)
        BY <2>2, <4>1 DEF DayPending
      <4>3. Covered(DailyCostCapCents - costOn[d], DayPending(d))
        BY <1>8 DEF BudgetInv, DayInv
      <4> QED BY <2>4, <3>1, <4>2, <4>3, CoveredKept DEF Budgeted, DayPending
    <3> QED BY <2>4, <3>2, <3>3, <3>4
  <2>6. ProviderCostCents <= DailyCostCapCents
    BY <2>1, <2>4
  <2>7. \A v \in Workers : Stamped(v)' => mem'[v].stamp.day <= day'
    BY <1>1, <1>2, <1>6, <2>2 DEF BudgetInv, DayInv
  <2>8. \A d \in Days : d > day' => costOn'[d] = 0
    BY <1>2, <1>8 DEF BudgetInv, DayInv
  <2>9. \A d \in Days : Covered(DailyCostCapCents - costOn'[d], DayPending(d)')
    BY <1>2, <2>5
  <2> QED BY <2>3, <2>6, <2>7, <2>8, <2>9 DEF BudgetInv, DayInv, Covered
<1> QED BY <1>7, <1>8

\* A process that reads the totals may be cleared for the funds from now on.
LEMMA BudgetTotalsRead ==
    ASSUME Budgeted, TypeInv, TypeInv', BudgetInv, NEW w \in Workers, ReadTotals(w)
    PROVE  BudgetInv'
<1>1. \A v \in Workers : v # w => pc'[v] = pc[v] /\ mem'[v] = mem[v]
  BY DEF TypeInv, Control, ReadTotals, Reads, Goto, Keep
<1>2. UNCHANGED <<ledger, costOn, day>>
  BY DEF ReadTotals, Reads, storageVars, ledgerVars, timeVars
<1>3. pc[w] = "totals" /\ pc'[w] = "daily"
  BY DEF ReadTotals, Reads, Goto, TypeInv, Control
<1>4. /\ mem'[w].view.revenue = Revenue
      /\ mem'[w].view.cost = ledger["cost"]
  BY DEF ReadTotals, Reads, Keep, TypeInv, Control, Memory, Statistics
<1>5. ~DayCleared(w)' /\ ~Stamped(w)'
  BY <1>3 DEF DayCleared, InFlight, ReadDay, Stamped, AtWork
<1>6. Room' = Room /\ Room \in Int
  BY <1>2, RoomType DEF Room, Revenue
<1>7. CASE ~FundsCleared(w)'
  BY <1>1, <1>2, <1>5, <1>7, BudgetMoved
<1>8. CASE FundsCleared(w)'
  <2>1. ProviderCostCents <= Room
    BY <1>3, <1>4, <1>8 DEF FundsCleared, InFlight, ReadFunds, AtWork, Room
  <2>2. FundsPending' \subseteq Workers
    BY DEF FundsPending
  <2>3. Covered(Room, FundsPending')
    BY <1>6, <2>1, <2>2, CoveredAnew DEF Budgeted
  <2>4. Covered(Room', FundsPending')
    BY <1>6, <2>3
  <2>5. FundsInv'
    BY <2>4 DEF FundsInv, Room, Covered
  <2>6. \A v \in Workers : v # w =>
          /\ DayCleared(v)' = DayCleared(v)
          /\ Stamped(v)' = Stamped(v)
          /\ Due(v)' = Due(v)
    BY <1>1, <1>2 DEF DayCleared, InFlight, ReadDay, Stamped, Due
  <2>7. \A v \in Workers : Due(v) \in Int
    BY DEF TypeInv, StorageTypeOK, Control, Memory, Stamp, Days, Due
  <2>8. \A v \in Workers : Stamped(v)' => mem'[v].stamp.day <= day'
    BY <1>1, <1>2, <1>5, <2>6 DEF BudgetInv, DayInv
  <2>9. \A v \in Workers : DayCleared(v)' => DayCleared(v) /\ Due(v) <= Due(v)'
    BY <1>5, <2>6, <2>7
  <2>10. day <= day'
    BY <1>2 DEF TypeInv, StorageTypeOK, Days
  <2>11. DayInv'
    BY <1>2, <2>8, <2>9, <2>10, DayKept DEF BudgetInv
  <2> QED BY <2>5, <2>11 DEF BudgetInv
<1> QED BY <1>7, <1>8

\* The decision of a cleared process: only one that was cleared goes on to claim.
LEMMA BudgetDecided ==
    ASSUME Budgeted, TypeInv, TypeInv', BudgetInv, NEW w \in Workers, Decide(w)
    PROVE  BudgetInv'
<1>1. \A v \in Workers : v # w => pc'[v] = pc[v] /\ mem'[v] = mem[v]
  BY DEF TypeInv, Control, Decide, Goto, Keep
<1>2. UNCHANGED <<ledger, costOn, day>>
  BY DEF Decide, storageVars, ledgerVars, timeVars
<1>3. pc[w] = "decide" /\ pc'[w] = "report" /\ mem'[w].busy = mem[w].busy
  BY DEF Decide, Goto, Keep, TypeInv, Control, Memory
<1>4. mem'[w].verdict = Evaluate(mem[w].view, NextCost(w), haltReason, mem[w].idle)
  BY DEF Decide, Keep, TypeInv, Control, Memory
<1>5. ~Stamped(w) /\ ~Stamped(w)'
  BY <1>3 DEF Stamped
<1>6. Due(w) <= Due(w)'
  BY <1>2, <1>5 DEF Due, TypeInv, StorageTypeOK, Days
<1>7. ASSUME FundsCleared(w)' \/ DayCleared(w)'
      PROVE  /\ HaltOnNoFunds => FundsCleared(w)
             /\ DailyCostCapCents # 0 => DayCleared(w)
  <2>1. mem[w].busy /\ mem'[w].verdict = Continue
    BY <1>3, <1>7
       DEF FundsCleared, DayCleared, InFlight, ReadFunds, ReadDay, AtWork
  <2>2. Objections(mem[w].view, ProviderCostCents, mem[w].idle) = {}
    BY <1>4, <2>1, EvaluateType DEF NextCost
  <2>3. "nofunds" \in PolicyReasons /\ "dailycap" \in PolicyReasons
    BY DEF PolicyReasons, Rank
  <2>4. /\ ~Applies("nofunds", mem[w].view, ProviderCostCents, mem[w].idle)
        /\ ~Applies("dailycap", mem[w].view, ProviderCostCents, mem[w].idle)
    BY <2>2, <2>3 DEF Objections
  <2>5. /\ mem[w].view.revenue \in Nat /\ mem[w].view.cost \in Nat
        /\ mem[w].view.daily \in Nat
        /\ StartingCreditCents \in Nat /\ ProviderCostCents \in Nat
        /\ DailyCostCapCents \in Nat
    BY PolicyAssumption, RuntimeAssumption DEF TypeInv, Control, Memory, Statistics
  <2>6. HaltOnNoFunds =>
          ProviderCostCents <= Available(mem[w].view.revenue, mem[w].view.cost)
    BY <2>4, <2>5 DEF Applies, Available
  <2>7. DailyCostCapCents # 0 =>
          mem[w].view.daily + ProviderCostCents <= DailyCostCapCents
    BY <2>4, <2>5 DEF Applies
  <2> QED BY <1>3, <2>1, <2>6, <2>7 DEF FundsCleared, DayCleared, ReadFunds, ReadDay
<1> QED BY <1>1, <1>2, <1>5, <1>6, <1>7, BudgetMoved

\* A job that is settled: its cost is booked, by a process that was cleared for it.
LEMMA BudgetBooked ==
    ASSUME Budgeted, TypeInv, TypeInv', BudgetInv, NEW w \in Workers, Stamped(w),
           NEW j \in Jobs, NEW cost \in Nat, cost <= ProviderCostCents,
           NEW revenue \in Nat, Book(j, cost, revenue, mem[w].stamp),
           Goto(w, "running"), \E m : Keep(w, m), UNCHANGED day
    PROVE  BudgetInv'
<1> DEFINE s == mem[w].stamp.day
<1>1. \A v \in Workers : v # w => pc'[v] = pc[v] /\ mem'[v] = mem[v]
  BY DEF TypeInv, Control, Goto, Keep
<1>2. pc'[w] = "running"
  BY DEF Goto, TypeInv, Control
<1>3. ~FundsCleared(w)' /\ ~DayCleared(w)' /\ ~Stamped(w)'
  BY <1>2 DEF FundsCleared, DayCleared, InFlight, ReadFunds, ReadDay, Stamped, AtWork
<1>4. FundsCleared(w) /\ DayCleared(w)
  BY DEF FundsCleared, DayCleared, InFlight, Stamped, AtWork
<1>5. \A v \in Workers : v # w =>
        /\ FundsCleared(v)' = FundsCleared(v)
        /\ DayCleared(v)' = DayCleared(v)
        /\ Stamped(v)' = Stamped(v)
        /\ Due(v)' = Due(v)
  BY <1>1 DEF FundsCleared, DayCleared, InFlight, ReadFunds, ReadDay, Stamped, Due
<1>6. /\ s \in Days
      /\ \A d \in Days : d \in Int /\ costOn[d] \in Nat
      /\ day \in Days /\ DailyCostCapCents \in Int /\ ProviderCostCents \in Nat
      /\ s <= day
  <2>1. \A d \in Days : d \in Int
    BY DEF Days
  <2>2. mem[w].stamp \in Stamp
    BY DEF TypeInv, Control, Memory
  <2>3. s \in Days
    BY <2>2 DEF Stamp
  <2>4. s <= day
    BY DEF BudgetInv, DayInv
  <2>5. (\A d \in Days : costOn[d] \in Nat) /\ day \in Days
    BY DEF TypeInv, StorageTypeOK
  <2> QED BY <2>1, <2>3, <2>4, <2>5, PolicyAssumption, RuntimeAssumption
<1>7. FundsInv'
  <2>1. FundsPending' \subseteq FundsPending \ {w} /\ w \in FundsPending
    BY <1>3, <1>4, <1>5 DEF FundsPending
  <2>2. Room - ProviderCostCents <= Room'
    <3>1. /\ ledger["cost"] \in Nat /\ ledger["revenue"] \in Nat
          /\ ledger["credit"] \in Nat /\ ledger["refund"] \in Nat
      BY DEF TypeInv, StorageTypeOK, Kinds
    <3>2. /\ ledger'["cost"] = ledger["cost"] + cost
          /\ ledger'["revenue"] = ledger["revenue"] + revenue
          /\ ledger'["credit"] = ledger["credit"]
          /\ ledger'["refund"] = ledger["refund"]
      BY DEF Book, TypeInv, StorageTypeOK, Kinds
    <3> QED BY <1>6, <3>1, <3>2, PolicyAssumption DEF Room, Available, Revenue
  <2>3. Room \in Int /\ Room' \in Int
    BY RoomType
  <2>4. HaltOnNoFunds => Covered(Room, FundsPending)
    BY DEF BudgetInv, FundsInv, Room
  <2>5. FundsPending \subseteq Workers
    BY DEF FundsPending
  <2>6. HaltOnNoFunds => Covered(Room', FundsPending')
    <3> HIDE DEF Room, FundsPending
    <3> QED BY <2>1, <2>2, <2>3, <2>4, <2>5, CoveredSpent DEF Budgeted
  <2> QED BY <2>6 DEF FundsInv, Room, Covered
<1>8. ASSUME NEW d \in Days, DailyCostCapCents # 0
      PROVE  Covered(DailyCostCapCents - costOn'[d], DayPending(d)')
  <2>1. costOn' = [costOn EXCEPT ![s] = @ + cost] /\ costOn \in [Days -> Nat]
    BY DEF Book, TypeInv, StorageTypeOK
  <2>2. Covered(DailyCostCapCents - costOn[d], DayPending(d))
    BY <1>8 DEF BudgetInv, DayInv
  <2>3. DayPending(d)' \subseteq DayPending(d) \ {w} /\ DayPending(d) \subseteq Workers
    BY <1>3, <1>5 DEF DayPending
  <2>4. CASE d = s
    <3>1. w \in DayPending(d)
      BY <1>4, <1>6, <2>4 DEF DayPending, Due
    <3>2. costOn'[d] = costOn[d] + cost
      BY <1>6, <2>1, <2>4
    <3>3. /\ DailyCostCapCents - costOn[d] \in Int
          /\ DailyCostCapCents - costOn'[d] \in Int
          /\ (DailyCostCapCents - costOn[d]) - ProviderCostCents
                 <= DailyCostCapCents - costOn'[d]
      BY <1>6, <3>2
    <3> QED BY <2>2, <2>3, <3>1, <3>3, CoveredSpent DEF Budgeted
  <2>5. CASE d # s
    <3>1. costOn'[d] = costOn[d]
      BY <2>1, <2>5
    <3>2. DailyCostCapCents - costOn[d] \in Int
      BY <1>6
    <3> QED BY <2>2, <2>3, <3>1, <3>2, CoveredKept DEF Budgeted
  <2> QED BY <2>4, <2>5
<1>9. DailyCostCapCents # 0 => \A d \in Days : d > day' => costOn'[d] = 0
  <2>1. costOn' = [costOn EXCEPT ![s] = @ + cost] /\ costOn \in [Days -> Nat]
    BY DEF Book, TypeInv, StorageTypeOK
  <2>2. \A d \in Days : d > day => d # s
    BY <1>6
  <2>3. DailyCostCapCents # 0 => \A d \in Days : d > day => costOn[d] = 0
    BY DEF BudgetInv, DayInv
  <2> QED BY <2>1, <2>2, <2>3
<1>10. DailyCostCapCents # 0 /\ (\E v \in Workers : DayCleared(v)')
         => ProviderCostCents <= DailyCostCapCents
  BY <1>4 DEF BudgetInv, DayInv
<1>11. \A v \in Workers : Stamped(v)' => mem'[v].stamp.day <= day'
  BY <1>1, <1>3, <1>5 DEF BudgetInv, DayInv
<1> QED BY <1>7, <1>8, <1>9, <1>10, <1>11 DEF BudgetInv, DayInv, Covered

\* Every step of the system keeps the budgets.
LEMMA BudgetStep ==
    ASSUME Budgeted PROVE TypeInv /\ TypeInv' /\ BudgetInv /\ [Next]_vars => BudgetInv'
<1> SUFFICES ASSUME Budgeted, TypeInv, TypeInv', BudgetInv, [Next]_vars PROVE BudgetInv'
  OBVIOUS
<1> DEFINE Quiet == UNCHANGED <<ledger, costOn, day>>
<1>0. \A label \in Ended : label \in Away
  BY DEF Away, Down
<1>1. ASSUME NEW w \in Workers, Starting(w) PROVE BudgetInv'
  <2>1. "loop" \in Away /\ Goto(w, "loop") /\ UNCHANGED mem /\ Quiet
    BY <1>1 DEF Away, Starting, Proceed, storageVars, ledgerVars, timeVars
  <2> QED BY <2>1, BudgetAway
<1>2. ASSUME NEW w \in Workers, Loop(w) PROVE BudgetInv'
  <2>1. "final" \in Away /\ "totals" \in Away
    BY DEF Away
  <2>2. Goto(w, "final") \/ Goto(w, "totals")
    BY <1>2 DEF Loop, Proceed
  <2>3. UNCHANGED mem \/ \E m : Keep(w, m)
    BY <1>2 DEF Loop, Proceed
  <2>4. Quiet
    BY <1>2 DEF Loop, storageVars, ledgerVars, timeVars
  <2> QED BY <2>1, <2>2, <2>3, <2>4, BudgetAway
<1>3. ASSUME NEW w \in Workers, ReadTotals(w) PROVE BudgetInv'
  BY <1>3, BudgetTotalsRead
<1>4. ASSUME NEW w \in Workers, ReadDaily(w) PROVE BudgetInv'
  BY <1>4, BudgetDayRead
<1>5. ASSUME NEW w \in Workers, ReadCounts(w) \/ ReadRecent(w) PROVE BudgetInv'
  <2>1. \A v \in Workers : v # w => pc'[v] = pc[v] /\ mem'[v] = mem[v]
    BY <1>5 DEF TypeInv, Control, ReadCounts, ReadRecent, Reads, Goto, Keep
  <2>2. Quiet
    BY <1>5 DEF ReadCounts, ReadRecent, Reads, storageVars, ledgerVars, timeVars
  <2>3. pc[w] \in {"counts", "recent"} /\ pc'[w] \in {"recent", "decide"}
    BY <1>5 DEF ReadCounts, ReadRecent, Reads, Goto, TypeInv, Control
  <2>4. /\ mem'[w].busy = mem[w].busy
        /\ mem'[w].view.revenue = mem[w].view.revenue
        /\ mem'[w].view.cost = mem[w].view.cost
        /\ mem'[w].view.daily = mem[w].view.daily
    BY <1>5
       DEF ReadCounts, ReadRecent, Reads, Keep, TypeInv, Control, Memory, Statistics
  <2>5. ~Stamped(w) /\ ~Stamped(w)'
    BY <2>3 DEF Stamped
  <2>6. Due(w) <= Due(w)'
    BY <2>2, <2>5 DEF Due, TypeInv, StorageTypeOK, Days
  <2>7. (FundsCleared(w)' => FundsCleared(w)) /\ (DayCleared(w)' => DayCleared(w))
    BY <2>3, <2>4 DEF FundsCleared, DayCleared, InFlight, ReadFunds, ReadDay, AtWork
  <2> QED BY <2>1, <2>2, <2>5, <2>6, <2>7, BudgetMoved
<1>6. ASSUME NEW w \in Workers, Decide(w) PROVE BudgetInv'
  BY <1>6, BudgetDecided
<1>7. ASSUME NEW w \in Workers, Report(w) PROVE BudgetInv'
  <2>1. Quiet
    BY <1>7 DEF Report, storageVars, ledgerVars, timeVars
  <2>2. UNCHANGED mem \/ \E m : Keep(w, m)
    BY <1>7 DEF Report, Proceed
  <2>3. "persist" \in Away /\ "loop" \in Away
    BY DEF Away
  <2>4. CASE mem[w].verdict = Continue /\ mem[w].busy
    <3>1. Goto(w, "claim") /\ pc'[w] = "claim" /\ InFlight(w)
      BY <1>7, <2>4 DEF Report, Goto, InFlight, TypeInv, Control
    <3>2. ~Stamped(w) /\ ~Stamped(w)'
      BY <1>7, <3>1 DEF Report, Stamped
    <3> QED BY <2>1, <2>2, <3>1, <3>2, BudgetCarried
  <2>5. CASE ~(mem[w].verdict = Continue /\ mem[w].busy)
    <3>1. Goto(w, "persist") \/ Goto(w, "loop")
      BY <1>7, <2>5 DEF Report, Proceed
    <3> QED BY <2>1, <2>2, <2>3, <3>1, BudgetAway
  <2> QED BY <2>4, <2>5
<1>8. ASSUME NEW w \in Workers, Persist(w) PROVE BudgetInv'
  <2>1. "final" \in Away /\ Goto(w, "final") /\ (\E m : Keep(w, m)) /\ Quiet
    BY <1>8 DEF Away, Persist, ledgerVars, timeVars
  <2> QED BY <2>1, BudgetAway
<1>9. ASSUME NEW w \in Workers, Claim(w) PROVE BudgetInv'
  <2>1. Quiet
    BY <1>9 DEF Claim, ClaimNextJob, ReadClock, ledgerVars, timeVars
  <2>2. pc[w] = "claim" /\ InFlight(w)
    BY <1>9 DEF Claim, InFlight
  <2>3. CASE Proceed(w, "loop")
    <3>1. "loop" \in Away
      BY DEF Away
    <3> QED BY <2>1, <2>3, <3>1, BudgetAway DEF Proceed
  <2>4. CASE Goto(w, "announce") /\ \E m : Keep(w, m)
    <3>1. pc'[w] = "announce" /\ "announce" \in AtWork
      BY <2>4 DEF Goto, TypeInv, Control, AtWork
    <3>2. ~Stamped(w) /\ ~Stamped(w)'
      BY <2>2, <3>1 DEF Stamped
    <3> QED BY <2>1, <2>2, <2>4, <3>1, <3>2, BudgetCarried
  <2> QED BY <1>9, <2>3, <2>4 DEF Claim
<1>10. ASSUME NEW w \in Workers, Announce(w) PROVE BudgetInv'
  <2>1. Goto(w, "generate") /\ UNCHANGED mem /\ Quiet
    BY <1>10 DEF Announce, Proceed, storageVars, ledgerVars, timeVars
  <2>2. pc[w] = "announce" /\ pc'[w] = "generate" /\ InFlight(w)
    BY <1>10 DEF Announce, Proceed, Goto, TypeInv, Control, InFlight, AtWork
  <2>3. "generate" \in AtWork /\ ~Stamped(w) /\ ~Stamped(w)'
    BY <2>2 DEF AtWork, Stamped
  <2> QED BY <2>1, <2>2, <2>3, BudgetCarried
<1>11. ASSUME NEW w \in Workers, Generate(w) PROVE BudgetInv'
  <2>1. Quiet /\ Keep(w, [mem[w] EXCEPT !.stamp = Now])
    BY <1>11 DEF Generate, ReadClock, ledgerVars
  <2>2. (Goto(w, "complete") \/ Goto(w, "fail")) /\ InFlight(w)
    BY <1>11 DEF Generate, InFlight, AtWork
  <2>3. mem'[w].stamp.day = day
    BY <2>1 DEF Keep, Now, TypeInv, Control, Memory
  <2>4. "complete" \in AtWork /\ "fail" \in AtWork
    BY DEF AtWork
  <2> QED BY <2>1, <2>2, <2>3, <2>4, BudgetCarried
<1>12. ASSUME NEW w \in Workers, Complete(w) PROVE BudgetInv'
  <2>1. /\ Goto(w, "running") /\ (\E m : Keep(w, m))
        /\ UNCHANGED day /\ Stamped(w) /\ mem[w].held \in Jobs
    BY <1>12 DEF Complete, Stamped, Budgeted, timeVars, TypeInv, Control, Fits, AtWork
  <2>2. jobs[mem[w].held].price \in Nat
    BY <2>1 DEF TypeInv, StorageTypeOK
  <2>3. Book(mem[w].held, ProviderCostCents, jobs[mem[w].held].price, mem[w].stamp)
    BY <1>12 DEF Complete, CompleteJob
  <2>4. ProviderCostCents \in Nat /\ ProviderCostCents <= ProviderCostCents
    BY RuntimeAssumption
  <2> QED BY <2>1, <2>2, <2>3, <2>4, BudgetBooked
<1>13. ASSUME NEW w \in Workers, Fail(w) PROVE BudgetInv'
  <2>1. /\ Goto(w, "running") /\ (\E m : Keep(w, m))
        /\ UNCHANGED day /\ Stamped(w) /\ mem[w].held \in Jobs
    BY <1>13 DEF Fail, Stamped, timeVars, TypeInv, Control, Fits, AtWork
  <2>2. Book(mem[w].held, FailureCostCents, 0, mem[w].stamp)
    BY <1>13 DEF Fail, FailJob
  <2>3. FailureCostCents \in Nat /\ FailureCostCents <= ProviderCostCents /\ 0 \in Nat
    BY RuntimeAssumption DEF Budgeted
  <2> QED BY <2>1, <2>2, <2>3, BudgetBooked
<1>14. ASSUME NEW w \in Workers, Running(w) \/ Final(w) \/ WriteEnd(w) PROVE BudgetInv'
  <2>1. \A label \in {"final", "loop", "endHalted", "endStopped", "shutdown"} : label \in Away
    BY DEF Away
  <2>2. \E label \in {"final", "loop", "endHalted", "endStopped", "shutdown"} : Goto(w, label)
    BY <1>14 DEF Running, Final, WriteEnd, Proceed
  <2>3. UNCHANGED mem \/ \E m : Keep(w, m)
    BY <1>14 DEF Running, Final, WriteEnd, Proceed
  <2>4. Quiet
    BY <1>14 DEF Running, Final, WriteEnd, storageVars, ledgerVars, timeVars
  <2> QED BY <2>1, <2>2, <2>3, <2>4, BudgetAway
<1>15. ASSUME NEW w \in Workers, Shutdown(w) \/ Crash(w) PROVE BudgetInv'
  <2>1. (\E how \in Ended : Goto(w, how)) /\ \E m : Keep(w, m)
    BY <1>15 DEF Shutdown, Crash, End, Ended
  <2>2. Quiet
    BY <1>15 DEF Shutdown, Crash, storageVars, ledgerVars, timeVars
  <2> QED BY <1>0, <2>1, <2>2, BudgetAway
<1>16. ASSUME NEW w \in Workers, Start(w) PROVE BudgetInv'
  <2>1. "starting" \in Away /\ Goto(w, "starting") /\ UNCHANGED mem /\ Quiet
    BY <1>16 DEF Away, Start, Proceed, storageVars, ledgerVars, timeVars
  <2> QED BY <2>1, BudgetAway
<1>17. ASSUME NEW w \in Workers, Raises(w) PROVE BudgetInv'
  <2>1. Quiet
    BY <1>17 DEF Raises, RaisesInJob, RaisesInHandler, RaisesInLoop, RaisesOutside,
                 ReadClock, ledgerVars, timeVars
  <2>2. CASE RaisesInJob(w)
    <3>1. Goto(w, "fail") /\ Keep(w, [mem[w] EXCEPT !.stamp = Now])
      BY <2>2 DEF RaisesInJob
    <3>2. InFlight(w) /\ "fail" \in AtWork
      BY <2>2 DEF RaisesInJob, InFlight, AtWork
    <3>3. mem'[w].stamp.day = day
      BY <3>1 DEF Keep, Now, TypeInv, Control, Memory
    <3> QED BY <2>1, <3>1, <3>2, <3>3, BudgetCarried
  <2>3. CASE RaisesInHandler(w) \/ RaisesInLoop(w) \/ RaisesOutside(w)
    <3>1. \A label \in {"running", "final", "error"} : label \in Away
      BY DEF Away, Down, Ended
    <3>2. \E label \in {"running", "final", "error"} : Goto(w, label)
      BY <2>3 DEF RaisesInHandler, RaisesInLoop, RaisesOutside, End
    <3>3. \E m : Keep(w, m)
      BY <2>3 DEF RaisesInHandler, RaisesInLoop, RaisesOutside, End
    <3> QED BY <2>1, <3>1, <3>2, <3>3, BudgetAway
  <2> QED BY <1>17, <2>2, <2>3 DEF Raises
<1>18. ASSUME NEW w \in Workers, Signal(w) PROVE BudgetInv'
  BY <1>18, BudgetStill DEF Signal, storageVars, ledgerVars, timeVars
<1>19. ASSUME NEW w \in Workers, NEW j \in Jobs, NEW price \in Prices, PostJob(w, j, price)
       PROVE  BudgetInv'
  BY <1>19, BudgetStill DEF PostJob, DrawJob, ReadClock, ledgerVars
<1>20. ASSUME NEW w \in Workers, NEW j \in Jobs, InsertJob(w, j) PROVE BudgetInv'
  BY <1>20, BudgetStill DEF InsertJob, ledgerVars, timeVars
<1>21. ASSUME NEW kind \in OperatorKinds, NEW amount \in Amounts, PostLedger(kind, amount)
       PROVE  BudgetInv'
  <2>1. UNCHANGED <<pc, mem, day>>
    BY <1>21 DEF PostLedger, timeVars
  <2>2. kind \in {"revenue", "credit"} /\ amount \in Nat
    BY RuntimeAssumption DEF Budgeted
  <2>3. UNCHANGED costOn
    BY <1>21, <2>2 DEF PostLedger, RecordLedger
  <2>4. Room <= Room'
    <3>1. /\ ledger["cost"] \in Nat /\ ledger["revenue"] \in Nat
          /\ ledger["credit"] \in Nat /\ ledger["refund"] \in Nat
      BY DEF TypeInv, StorageTypeOK, Kinds
    <3>2. /\ ledger'["cost"] = ledger["cost"]
          /\ ledger["revenue"] <= ledger'["revenue"]
          /\ ledger["credit"] <= ledger'["credit"]
          /\ ledger'["refund"] = ledger["refund"]
      BY <1>21, <2>2, <3>1 DEF PostLedger, RecordLedger, TypeInv, StorageTypeOK, Kinds
    <3>3. /\ ledger'["revenue"] \in Nat /\ ledger'["credit"] \in Nat
      BY DEF TypeInv, StorageTypeOK, Kinds
    <3> QED BY <3>1, <3>2, <3>3, PolicyAssumption DEF Room, Available, Revenue
  <2>5. \A v \in Workers :
          /\ FundsCleared(v)' = FundsCleared(v)
          /\ DayCleared(v)' = DayCleared(v)
          /\ Stamped(v)' = Stamped(v)
          /\ Due(v)' = Due(v)
          /\ Due(v) \in Int
    BY <2>1 DEF FundsCleared, DayCleared, InFlight, ReadFunds, ReadDay, Stamped, Due,
                TypeInv, StorageTypeOK, Control, Memory, Stamp, Days
  <2>6. FundsInv'
    BY <2>4, <2>5, FundsKept DEF FundsPending, BudgetInv
  <2>7. day <= day'
    BY <2>1 DEF TypeInv, StorageTypeOK, Days
  <2>8. \A v \in Workers : Stamped(v)' => mem'[v].stamp.day <= day'
    BY <2>1, <2>5 DEF BudgetInv, DayInv
  <2>9. \A v \in Workers : DayCleared(v)' => DayCleared(v) /\ Due(v) <= Due(v)'
    BY <2>5
  <2>10. DayInv'
    BY <2>3, <2>7, <2>8, <2>9, DayKept DEF BudgetInv
  <2> QED BY <2>6, <2>10 DEF BudgetInv
<1>22. ASSUME PostHalt \/ PostClearHalt PROVE BudgetInv'
  BY <1>22, BudgetStill DEF PostHalt, PostClearHalt, ledgerVars, timeVars
<1>23. ASSUME Midnight PROVE BudgetInv'
  <2>1. UNCHANGED <<pc, mem, ledger, costOn>> /\ day \in Int /\ day' = day + 1
    BY <1>23 DEF Midnight, ledgerVars, TypeInv, StorageTypeOK, Days
  <2>2. \A v \in Workers :
          /\ FundsCleared(v)' = FundsCleared(v)
          /\ DayCleared(v)' = DayCleared(v)
          /\ Stamped(v)' = Stamped(v)
    BY <2>1 DEF FundsCleared, DayCleared, InFlight, ReadFunds, ReadDay, Stamped
  <2>3. \A v \in Workers : Stamped(v) => mem[v].stamp.day \in Int
    BY DEF TypeInv, Control, Memory, Stamp, Days
  <2>4. \A v \in Workers : Due(v) <= Due(v)'
    BY <2>1, <2>2, <2>3 DEF Due
  <2>5. Room <= Room'
    BY <2>1, RoomType DEF Room, Revenue
  <2>6. FundsInv'
    BY <2>2, <2>5, FundsKept DEF FundsPending, BudgetInv
  <2>7. day <= day'
    BY <2>1
  <2>8. \A v \in Workers : Stamped(v)' => mem'[v].stamp.day <= day'
    BY <2>1, <2>2, <2>3 DEF BudgetInv, DayInv
  <2>9. \A v \in Workers : DayCleared(v)' => DayCleared(v) /\ Due(v) <= Due(v)'
    BY <2>2, <2>4
  <2>10. DayInv'
    BY <2>1, <2>7, <2>8, <2>9, DayKept DEF BudgetInv
  <2> QED BY <2>6, <2>10 DEF BudgetInv
<1>24. CASE UNCHANGED vars
  BY <1>24, BudgetStill DEF vars, storageVars, ledgerVars, timeVars
<1>25. ASSUME NEW w \in Workers, Jam(w) PROVE BudgetInv'
  <2>1. "stuck" \in Away /\ Goto(w, "stuck") /\ Keep(w, NoMemory) /\ Quiet
    BY <1>25 DEF Away, Jam, ledgerVars, timeVars
  <2> QED BY <2>1, BudgetAway
<1> QED
  BY <1>1, <1>2, <1>3, <1>4, <1>5, <1>6, <1>7, <1>8, <1>9, <1>10, <1>11, <1>12,
     <1>13, <1>14, <1>15, <1>16, <1>17, <1>18, <1>19, <1>20, <1>21, <1>22, <1>23, <1>24,
     <1>25
     DEF Next, Step, Environment

\* The two bounds are read off the invariant.
LEMMA BudgetBounds ==
    ASSUME Budgeted PROVE TypeInv /\ BudgetInv => OverdraftBounded /\ DailyCapKept
<1> SUFFICES ASSUME Budgeted, TypeInv, BudgetInv PROVE OverdraftBounded /\ DailyCapKept
  OBVIOUS
<1> DEFINE n == (Cardinality(Workers) - 1) * ProviderCostCents
<1>1. {} \in SUBSET Workers /\ n \in Int
  BY Counting DEF Budgeted
<1>2. OverdraftBounded
  <2>1. Room \in Int /\ FundsPending \in SUBSET Workers
    BY RoomType DEF FundsPending
  <2>2. HaltOnNoFunds => 0 <= Room + n
    BY <2>1, CoveredBounds DEF Budgeted, BudgetInv, FundsInv, Room
  <2>3. HaltOnNoFunds => Room >= -n
    <3> HIDE DEF Room, n
    <3> QED BY <1>1, <2>1, <2>2
  <2> QED BY <2>3 DEF OverdraftBounded, Room
<1>3. DailyCapKept
  <2> SUFFICES ASSUME DailyCostCapCents # 0, NEW d \in Days
               PROVE  costOn[d] <= DailyCostCapCents + n
    BY DEF DailyCapKept
  <2>1. DailyCostCapCents \in Int /\ costOn[d] \in Int
    BY PolicyAssumption DEF TypeInv, StorageTypeOK
  <2>2. DayPending(d) \in SUBSET Workers /\ DailyCostCapCents - costOn[d] \in Int
    BY <2>1 DEF DayPending
  <2>3. 0 <= DailyCostCapCents - costOn[d] + n
    BY <2>2, CoveredBounds DEF Budgeted, BudgetInv, DayInv
  <2> HIDE DEF n
  <2> QED BY <1>1, <2>1, <2>3
<1> QED BY <1>2, <1>3

\* n processes overdraw the credit by at most the n - 1 calls that the others had in
\* flight, and one process never does, however their evaluations, claims and bookings
\* interleave with each other, with operators' income, crashes and errors (run,
\* policy.evaluate).
THEOREM OverdraftIsBounded == ASSUME Budgeted PROVE Spec => []OverdraftBounded
<1>1. Init => TypeInv /\ BudgetInv
  BY TypeInit, BudgetInit
<1>2. TypeInv /\ BudgetInv /\ [Next]_vars => TypeInv' /\ BudgetInv'
  BY TypeStep, BudgetStep
<1>3. TypeInv /\ BudgetInv => OverdraftBounded
  BY BudgetBounds
<1> QED BY <1>1, <1>2, <1>3, PTL DEF Spec

\* On no day do the booked costs exceed the cap by more than the calls of the other
\* n - 1 processes, although each call is booked on the day on which it ended and not
\* on the one on which it was evaluated (run, policy.evaluate, storage.stats).
THEOREM DailyCapIsKept == ASSUME Budgeted PROVE Spec => []DailyCapKept
<1>1. Init => TypeInv /\ BudgetInv
  BY TypeInit, BudgetInit
<1>2. TypeInv /\ BudgetInv /\ [Next]_vars => TypeInv' /\ BudgetInv'
  BY TypeStep, BudgetStep
<1>3. TypeInv /\ BudgetInv => DailyCapKept
  BY BudgetBounds
<1> QED BY <1>1, <1>2, <1>3, PTL DEF Spec
=============================================================================
