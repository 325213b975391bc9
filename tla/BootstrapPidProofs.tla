------------------------- MODULE BootstrapPidProofs -------------------------
(***************************************************************************)
(* What holds when executions do not overlap: the PID file keeps them to   *)
(* one background process and that process to one release, and an          *)
(* execution that nothing disturbs starts the newest manifest.             *)
(***************************************************************************)
EXTENDS BootstrapTypeProofs

Guarded == excuses \cap {"overlap", "unrecorded"} = {}
InBackground == {s \in Seeds : ~mode[s].foreground}
Living == {s \in InBackground : proc[s] \in Alive}
Checked == {"look", "move", "copying", "unlink", "symlink", "launch"}

\* While nobody overlaps, a living process is in the PID file or about to be put there,
\* and an execution that has checked the file is alone with the child it may have.
PidInv ==
    /\ \A s \in Seeds : pc[s] = "writepid" => s \in InBackground
    /\ Guarded =>
        /\ \A s, t \in AtWork : s = t
        /\ \A s \in Living : pidFile = s \/ pc[s] = "writepid"
        /\ \A s \in InBackground : pc[s] \in Checked => Living = {}
        /\ \A s \in InBackground : pc[s] = "writepid" => Living \subseteq {s}

\* A living process has imported from what `current` still names.
ImportInv ==
    /\ \A s \in Seeds : loaded[s] # {} => proc[s] \in Alive
    /\ Guarded /\ InBackground = Seeds =>
        \A s \in Seeds : \A e \in loaded[s] : e[1] = current

PidsInv == TypeInv /\ PidInv /\ ImportInv

\* A step that starts no process, leaves the PID file and takes no seed past the check.
LEMMA PidFrame ==
    ASSUME PidsInv, TypeInv', NEW s \in Seeds, mode' = mode, pidFile' = pidFile,
           \A t \in Seeds \ {s} : pc'[t] = pc[t],
           Living' \subseteq Living,
           Guarded' => Guarded,
           s \in AtWork' => s \in AtWork \/ ~Guarded' \/ AtWork = {},
           s \in InBackground /\ pc'[s] \in Checked => pc[s] \in Checked,
           pc'[s] = "writepid" => pc[s] = "writepid",
           pc[s] = "writepid" => pc'[s] = "writepid" \/ ~Guarded'
    PROVE  PidInv'
<1>1. InBackground' = InBackground
  BY DEF InBackground
<1>2. \A t \in Seeds : pc'[t] = "writepid" => t \in InBackground'
  BY <1>1 DEF PidsInv, PidInv
<1>3. ASSUME Guarded' PROVE \A t, u \in AtWork' : t = u
  BY <1>3 DEF PidsInv, PidInv, AtWork
<1>4. ASSUME Guarded' PROVE \A t \in Living' : pidFile' = t \/ pc'[t] = "writepid"
  BY <1>4 DEF PidsInv, PidInv, Living, InBackground
<1>5. ASSUME Guarded' PROVE \A t \in InBackground' : pc'[t] \in Checked => Living' = {}
  BY <1>1, <1>5 DEF PidsInv, PidInv, InBackground
<1>6. ASSUME Guarded' PROVE \A t \in InBackground' : pc'[t] = "writepid" => Living' \subseteq {t}
  BY <1>1, <1>6 DEF PidsInv, PidInv, InBackground
<1> QED BY <1>2, <1>3, <1>4, <1>5, <1>6 DEF PidInv

\* A step that changes neither `current` nor what is imported, and starts nobody.
LEMMA ImportFrame ==
    ASSUME PidsInv, mode' = mode, current' = current, Guarded' => Guarded,
           \A t \in Seeds : loaded'[t] = loaded[t],
           \A t \in Seeds : proc[t] \in Alive => proc'[t] \in Alive
    PROVE  ImportInv'
BY DEF PidsInv, ImportInv, InBackground

\* History only ever adds these two excuses.
LEMMA StaysGuarded ==
    ASSUME TypeInv, [Next]_vars
    PROVE  Guarded' => Guarded
<1>1. excuses \cap {"overlap", "unrecorded"} \subseteq excuses'
  BY DEF Next, vars, Shell, Install, Launch, Publish, Begin, Resolve, Fetch, Fetched, Verify, CheckPid,
         Extract, TakeAsItIs, Passes, Rename, CopyBegin, CopyEnd, Unlink, Symlink, RemoveSelf,
         Exec, Spawn, WritePid, GiveUp, Fail, Kill, Import, Die, Gateway, Excused
<1> QED BY <1>1 DEF Guarded

LEMMA PidInit == Init => PidsInv
<1> SUFFICES ASSUME Init PROVE PidsInv
  OBVIOUS
<1>1. TypeInv
  BY TypeInit
<1>2. AtWork = {} /\ Living = {}
  BY DEF Init, AtWork, Idle, Living, InBackground, Alive
<1>3. PidInv
  BY <1>2 DEF Init, PidInv, Checked
<1>4. ImportInv
  BY DEF Init, ImportInv
<1> QED BY <1>1, <1>3, <1>4 DEF PidsInv

-----------------------------------------------------------------------------
\* Steps that are about neither places nor processes nor the link.
LEMMA PidStill ==
    ASSUME PidsInv, TypeInv', Guarded' => Guarded,
           UNCHANGED <<pc, mode, pidFile, proc, loaded, current>>
    PROVE  PidsInv'
<1>1. AtWork' = AtWork /\ InBackground' = InBackground /\ Living' = Living
  BY DEF AtWork, InBackground, Living
<1>2. PidInv'
  BY <1>1 DEF PidsInv, PidInv
<1>3. ImportInv'
  BY <1>1 DEF PidsInv, ImportInv
<1> QED BY <1>2, <1>3 DEF PidsInv

\* The steps up to the check of the PID file and from there to the link.
LEMMA PidWalks ==
    ASSUME PidsInv, TypeInv', Guarded' => Guarded, NEW s \in Seeds,
           \/ Begin(s) \/ Fetched(s) \/ Verify(s) \/ Extract(s) \/ TakeAsItIs(s)
           \/ Rename(s) \/ CopyBegin(s) \/ CopyEnd(s)
           \/ \E reached \in SUBSET Addresses : Resolve(s, reached)
    PROVE  PidsInv'
<1>1. pc \in [Seeds -> {"idle", "resolve", "fetch", "verify", "checkpid", "look", "move", "copying",
                        "unlink", "symlink", "launch", "writepid", "ended", "killed"}]
  BY DEF PidsInv, TypeInv, TypeOK
<1>2. UNCHANGED <<mode, pidFile, proc, loaded, current>>
  BY DEF Begin, Fetched, Verify, Extract, TakeAsItIs, Rename, CopyBegin, CopyEnd, Resolve, Passes,
         files, processes
<1>3. \E to \in Checked \cup {"resolve", "fetch", "verify", "checkpid"} : Goes(s, to)
  BY DEF Begin, Fetched, Verify, Extract, TakeAsItIs, Rename, CopyBegin, CopyEnd, Resolve, Passes,
         Checked
<1>4. /\ \A t \in Seeds \ {s} : pc'[t] = pc[t]
      /\ pc'[s] # "writepid"
  BY <1>1, <1>3 DEF Goes, Checked
<1>5. Living' \subseteq Living
  BY <1>2 DEF Living, InBackground
<1>6. s \in AtWork' => s \in AtWork \/ ~Guarded' \/ AtWork = {}
  BY DEF AtWork, Idle, Guarded, Begin, Fetched, Verify, Extract, TakeAsItIs, Rename, CopyBegin, CopyEnd,
         Resolve
<1>7. s \in InBackground /\ pc'[s] \in Checked => pc[s] \in Checked
  BY <1>1 DEF InBackground, Checked, Begin, Fetched, Verify, Extract, TakeAsItIs, Rename, CopyBegin,
              CopyEnd, Resolve, Passes, Goes
<1>8. pc[s] # "writepid"
  BY DEF Begin, Fetched, Verify, Extract, TakeAsItIs, Rename, CopyBegin, CopyEnd, Resolve
<1>9. PidInv'
  BY <1>2, <1>4, <1>5, <1>6, <1>7, <1>8, PidFrame
<1>10. ImportInv'
  BY <1>2, ImportFrame
<1> QED BY <1>9, <1>10 DEF PidsInv

\* The steps that end an execution without a record of its child.
LEMMA PidEnds ==
    ASSUME PidsInv, TypeInv', Guarded' => Guarded, NEW s \in Seeds,
           GiveUp(s) \/ Fail(s) \/ Kill(s) \/ Exec(s)
    PROVE  PidsInv'
<1>1. pc \in [Seeds -> {"idle", "resolve", "fetch", "verify", "checkpid", "look", "move", "copying",
                        "unlink", "symlink", "launch", "writepid", "ended", "killed"}]
  BY DEF PidsInv, TypeInv, TypeOK
<1>2. UNCHANGED <<mode, pidFile, loaded, current>>
  BY DEF GiveUp, Fail, Kill, Exec, Started, files, processes
<1>3. Goes(s, "ended") \/ Goes(s, "killed")
  BY DEF GiveUp, Fail, Kill, Exec, Exit
<1>4. /\ \A t \in Seeds \ {s} : pc'[t] = pc[t]
      /\ pc'[s] \in {"ended", "killed"}
  BY <1>1, <1>3 DEF Goes
<1>5. Living' \subseteq Living
  <2>1. CASE Exec(s)
    BY <1>2, <2>1 DEF Exec, Started, Living, InBackground, PidsInv, TypeInv, TypeOK
  <2>2. CASE GiveUp(s) \/ Fail(s) \/ Kill(s)
    BY <1>2, <2>2 DEF GiveUp, Fail, Kill, Living, InBackground, processes
  <2> QED BY <2>1, <2>2
<1>6. s \notin AtWork'
  BY <1>4 DEF AtWork, Idle
<1>7. pc[s] = "writepid" => ~Guarded'
  BY DEF GiveUp, Refused, Fail, Kill, Exec, Excused, Unrecorded, Guarded
<1>8. PidInv'
  BY <1>2, <1>4, <1>5, <1>6, <1>7, PidFrame DEF Checked
<1>9. \A t \in Seeds : proc[t] \in Alive => proc'[t] \in Alive
  BY DEF GiveUp, Fail, Kill, Exec, Started, processes, Alive, PidsInv, TypeInv, TypeOK
<1>10. ImportInv'
  BY <1>2, <1>9, ImportFrame
<1> QED BY <1>8, <1>10 DEF PidsInv

\* Nobody lives when the check of the PID file lets a seed pass: whoever did would be in
\* the file, or its parent would be at work too.
LEMMA PidCheck ==
    ASSUME PidsInv, TypeInv', Guarded' => Guarded, NEW s \in Seeds, CheckPid(s)
    PROVE  PidsInv'
<1>1. pc \in [Seeds -> {"idle", "resolve", "fetch", "verify", "checkpid", "look", "move", "copying",
                        "unlink", "symlink", "launch", "writepid", "ended", "killed"}]
  BY DEF PidsInv, TypeInv, TypeOK
<1>2. UNCHANGED <<mode, pidFile, proc, loaded, current, excuses>>
  BY DEF CheckPid, Passes, files, processes
<1>3. pc[s] = "checkpid" /\ pc' = [pc EXCEPT ![s] = "look"]
  BY DEF CheckPid, Passes, Goes
<1>4. InBackground' = InBackground /\ Living' = Living /\ Guarded' = Guarded
  BY <1>2 DEF InBackground, Living, Guarded
<1>5. AtWork' = AtWork /\ s \in AtWork
  BY <1>1, <1>3 DEF AtWork, Idle
<1>6. ASSUME Guarded PROVE Living = {}
  <2> SUFFICES ASSUME NEW t \in Living PROVE FALSE
    OBVIOUS
  <2>1. pidFile = t \/ pc[t] = "writepid"
    BY <1>6 DEF PidsInv, PidInv
  <2>2. pidFile # t
    BY BootstrapAssumption DEF CheckPid, IsRunning, Living, InBackground
  <2>3. t \in AtWork /\ t # s
    BY <1>3, <2>1, <2>2 DEF AtWork, Idle, Living, InBackground
  <2> QED BY <1>5, <1>6, <2>3 DEF PidsInv, PidInv
<1>7. PidInv'
  BY <1>1, <1>2, <1>3, <1>4, <1>5, <1>6 DEF PidsInv, PidInv
<1>8. ImportInv'
  BY <1>2, ImportFrame
<1> QED BY <1>7, <1>8 DEF PidsInv

\* The link changes only while no background process lives.
LEMMA PidLinks ==
    ASSUME PidsInv, TypeInv', Guarded' => Guarded, NEW s \in Seeds, Unlink(s) \/ Symlink(s)
    PROVE  PidsInv'
<1>1. pc \in [Seeds -> {"idle", "resolve", "fetch", "verify", "checkpid", "look", "move", "copying",
                        "unlink", "symlink", "launch", "writepid", "ended", "killed"}]
  BY DEF PidsInv, TypeInv, TypeOK
<1>2. UNCHANGED <<mode, pidFile, proc, loaded, excuses>>
  BY DEF Unlink, Symlink, processes
<1>3. pc[s] \in {"unlink", "symlink"} /\ \E to \in {"symlink", "launch"} : Goes(s, to)
  BY DEF Unlink, Symlink
<1>4. /\ \A t \in Seeds \ {s} : pc'[t] = pc[t]
      /\ pc'[s] \in {"symlink", "launch"}
  BY <1>1, <1>3 DEF Goes
<1>5. Living' = Living /\ InBackground' = InBackground /\ Guarded' = Guarded
  BY <1>2 DEF Living, InBackground, Guarded
<1>6. s \in AtWork
  BY <1>3 DEF AtWork, Idle
<1>7. PidInv'
  BY <1>2, <1>3, <1>4, <1>5, <1>6, PidFrame DEF Checked
<1>8. ASSUME Guarded, InBackground = Seeds PROVE \A t \in Seeds : loaded[t] = {}
  <2>1. Living = {}
    BY <1>3, <1>8 DEF PidsInv, PidInv, Checked
  <2> QED BY <1>8, <2>1 DEF PidsInv, ImportInv, Living
<1>9. ImportInv'
  BY <1>2, <1>5, <1>8 DEF PidsInv, ImportInv
<1> QED BY <1>7, <1>9 DEF PidsInv

LEMMA PidSpawn ==
    ASSUME PidsInv, TypeInv', Guarded' => Guarded, NEW s \in Seeds, Spawn(s)
    PROVE  PidsInv'
<1>1. /\ pc \in [Seeds -> {"idle", "resolve", "fetch", "verify", "checkpid", "look", "move", "copying",
                            "unlink", "symlink", "launch", "writepid", "ended", "killed"}]
      /\ proc \in [Seeds -> Alive \cup {"none", "dead"}]
  BY DEF PidsInv, TypeInv, TypeOK
<1>2. UNCHANGED <<mode, pidFile, loaded, current, excuses>>
  BY DEF Spawn, Started, files
<1>3. /\ pc[s] = "launch" /\ pc' = [pc EXCEPT ![s] = "writepid"]
      /\ proc' = [proc EXCEPT ![s] = "starting"]
      /\ s \in InBackground
  BY DEF Spawn, Goes, Started, InBackground
<1>4. InBackground' = InBackground /\ Guarded' = Guarded
  BY <1>2 DEF InBackground, Guarded
<1>5. AtWork' = AtWork
  BY <1>1, <1>3 DEF AtWork, Idle
<1>6. Living' \subseteq Living \cup {s}
  BY <1>1, <1>3, <1>4 DEF Living
<1>7. Guarded => Living = {}
  BY <1>3 DEF PidsInv, PidInv, Checked
<1>8. ASSUME Guarded PROVE \A t \in Seeds : t # s => t \notin AtWork
  BY <1>3, <1>8 DEF PidsInv, PidInv, AtWork, Idle
<1>9. \A t \in Seeds : pc'[t] = "writepid" => t \in InBackground'
  BY <1>1, <1>3, <1>4 DEF PidsInv, PidInv
<1>10. ASSUME Guarded'
       PROVE  /\ \A t \in Living' : pidFile' = t \/ pc'[t] = "writepid"
              /\ \A t \in InBackground' : pc'[t] \in Checked => Living' = {}
              /\ \A t \in InBackground' : pc'[t] = "writepid" => Living' \subseteq {t}
  <2>1. Living' \subseteq {s}
    BY <1>4, <1>6, <1>7, <1>10
  <2>2. \A t \in Seeds : pc'[t] \in Checked \cup {"writepid"} => t = s
    BY <1>1, <1>3, <1>4, <1>8, <1>10 DEF AtWork, Idle, Checked
  <2> QED BY <1>1, <1>3, <2>1, <2>2 DEF InBackground, Checked
<1>11. PidInv'
  BY <1>4, <1>5, <1>9, <1>10 DEF PidsInv, PidInv
<1>12. \A t \in Seeds : proc[t] \in Alive => proc'[t] \in Alive
  BY <1>1, <1>3 DEF Alive
<1>13. ImportInv'
  BY <1>2, <1>12, ImportFrame
<1> QED BY <1>11, <1>13 DEF PidsInv

LEMMA PidWrite ==
    ASSUME PidsInv, TypeInv', Guarded' => Guarded, NEW s \in Seeds, WritePid(s)
    PROVE  PidsInv'
<1>1. pc \in [Seeds -> {"idle", "resolve", "fetch", "verify", "checkpid", "look", "move", "copying",
                        "unlink", "symlink", "launch", "writepid", "ended", "killed"}]
  BY DEF PidsInv, TypeInv, TypeOK
<1>2. /\ UNCHANGED <<mode, proc, loaded, current, excuses>>
      /\ pidFile' = s
      /\ pc[s] = "writepid" /\ pc' = [pc EXCEPT ![s] = "ended"]
  BY DEF WritePid, Exit, Goes, processes
<1>3. InBackground' = InBackground /\ Guarded' = Guarded /\ Living' = Living
  BY <1>2 DEF InBackground, Guarded, Living
<1>4. s \in InBackground /\ (Guarded => Living \subseteq {s})
  BY <1>2 DEF PidsInv, PidInv
<1>5. AtWork' \subseteq AtWork /\ s \in AtWork /\ s \notin AtWork'
  BY <1>1, <1>2 DEF AtWork, Idle
<1>6. ASSUME Guarded PROVE \A t \in Seeds : pc'[t] \notin Checked \cup {"writepid"}
  <2>1. AtWork' = {}
    BY <1>5, <1>6 DEF PidsInv, PidInv
  <2> QED BY <2>1 DEF AtWork, Idle, Checked
<1>7. \A t \in Seeds : pc'[t] = "writepid" => t \in InBackground'
  BY <1>1, <1>2, <1>3 DEF PidsInv, PidInv
<1>8. PidInv'
  BY <1>2, <1>3, <1>4, <1>5, <1>6, <1>7 DEF PidsInv, PidInv, InBackground
<1>9. ImportInv'
  BY <1>2, ImportFrame
<1> QED BY <1>8, <1>9 DEF PidsInv

LEMMA PidProcess ==
    ASSUME PidsInv, TypeInv', Guarded' => Guarded, NEW s \in Seeds, Import(s) \/ Die(s)
    PROVE  PidsInv'
<1>1. /\ proc \in [Seeds -> Alive \cup {"none", "dead"}]
      /\ loaded \in [Seeds -> SUBSET (Dirs \X {"absent", "partial", "whole"})]
  BY DEF PidsInv, TypeInv, TypeOK
<1>2. UNCHANGED <<pc, mode, pidFile, current, excuses>>
  BY DEF Import, Die, files
<1>3. \A t \in Seeds : proc'[t] \in Alive => proc[t] \in Alive
  BY <1>1 DEF Import, Die, Alive
<1>4. InBackground' = InBackground /\ Guarded' = Guarded /\ AtWork' = AtWork
  BY <1>2 DEF InBackground, Guarded, AtWork
<1>5. Living' \subseteq Living
  BY <1>3, <1>4 DEF Living, InBackground
<1>6. PidInv'
  BY <1>2, <1>4, <1>5 DEF PidsInv, PidInv
<1>7. \A t \in Seeds : \A e \in loaded'[t] : e \in loaded[t] \/ e[1] = current
  BY <1>1 DEF Import, Die
<1>8. \A t \in Seeds : loaded'[t] # {} => proc'[t] \in Alive
  BY <1>1 DEF PidsInv, ImportInv, Import, Die, Alive
<1>9. ImportInv'
  BY <1>2, <1>4, <1>7, <1>8 DEF PidsInv, ImportInv
<1> QED BY <1>6, <1>9 DEF PidsInv

LEMMA PidNext == PidsInv /\ [Next]_vars => PidsInv'
<1> SUFFICES ASSUME PidsInv, [Next]_vars PROVE PidsInv'
  OBVIOUS
<1>1. TypeInv' /\ (Guarded' => Guarded)
  BY TypeNext, StaysGuarded DEF PidsInv
<1>2. CASE UNCHANGED vars
  BY <1>1, <1>2, PidStill DEF vars, files, processes
<1>3. ASSUME NEW p \in Posts, Publish(p) PROVE PidsInv'
  BY <1>1, <1>3, PidStill DEF Publish, files, processes
<1>4. ASSUME NEW s \in Seeds, RemoveSelf(s) \/ Fetch(s) \/ \E got \in Received : Gateway(s, got)
      PROVE  PidsInv'
  BY <1>1, <1>4, PidStill DEF RemoveSelf, Fetch, Gateway, files, processes
<1>5. CASE Next
  BY <1>1, <1>3, <1>4, <1>5, PidWalks, PidEnds, PidCheck, PidLinks, PidSpawn, PidWrite, PidProcess
     DEF Next, Shell, Install, Launch
<1> QED BY <1>2, <1>5

LEMMA PidInvariant == Spec => []PidsInv
BY PidInit, PidNext, PTL DEF Spec

\* Executions that do not overlap and record their children leave one background process
\* at most, for any number of them and whatever else fails (bootstrap.sh:95-100 and 129).
THEOREM OneRuntimeHolds == Spec => []OneRuntime
<1>1. PidsInv => OneRuntime
  <2> SUFFICES ASSUME PidsInv, Guarded, NEW s \in Living, NEW t \in Living PROVE s = t
    BY DEF OneRuntime, Guarded, Living, InBackground
  <2> QED BY DEF PidsInv, PidInv, Living, InBackground
<1> QED BY <1>1, PidInvariant, PTL

\* If the executions do not overlap, record their children and are all in the background,
\* the same check keeps the link still under the imports of a living process
\* (bootstrap.sh:95-112).
THEOREM OneReleaseHolds == Spec => []OneRelease
<1>1. PidsInv => OneRelease
  <2> SUFFICES ASSUME PidsInv, Guarded, InBackground = Seeds,
                      NEW s \in Seeds, NEW e \in loaded[s], NEW f \in loaded[s]
               PROVE  e[1] = f[1]
    BY DEF OneRelease, Guarded, InBackground
  <2> QED BY DEF PidsInv, ImportInv
<1> QED BY <1>1, PidInvariant, PTL

-----------------------------------------------------------------------------
Undisturbed == excuses \cap {"overlap", "miss", "late"} = {}

NewestMark(s) ==
    \A k \in DOMAIN chain : k > mark[s] => chain[k].input \notin Manifests

FreshInv ==
    Undisturbed =>
        /\ \A s, t \in AtWork : s = t
        /\ \A s \in Seeds : pc[s] \in Knowing => NewestMark(s)
        /\ \A s \in Seeds : pc[s] \in {"launch", "writepid"} => current = Release(s)

\* The one seed at work goes from one statement to a later one, by itself.
LEMMA FreshWalks ==
    ASSUME TypeInv, FreshInv, NEW s \in Seeds, s \in AtWork,
           UNCHANGED chain, Undisturbed' => Undisturbed,
           \A t \in Seeds \ {s} : pc'[t] = pc[t],
           Undisturbed' /\ pc'[s] \in Knowing => NewestMark(s)',
           Undisturbed' /\ pc'[s] \in {"launch", "writepid"} => current' = Release(s)'
    PROVE  FreshInv'
<1> SUFFICES ASSUME Undisturbed' PROVE FreshInv'
  BY DEF FreshInv
<1>1. \A t \in Seeds \ {s} : t \notin AtWork
  BY DEF FreshInv
<1>2. \A t \in Seeds \ {s} : pc'[t] \notin Knowing /\ t \notin AtWork'
  BY <1>1 DEF AtWork, Idle, Knowing
<1>3. \A t, u \in AtWork' : t = u
  BY <1>2 DEF AtWork
<1> QED BY <1>2, <1>3 DEF FreshInv, Knowing

LEMMA FreshResolve ==
    ASSUME TypeInv, FreshInv, NEW s \in Seeds,
           NEW reached \in SUBSET Addresses, Resolve(s, reached)
    PROVE  FreshInv'
<1>1. pc \in [Seeds -> {"idle", "resolve", "fetch", "verify", "checkpid", "look", "move", "copying",
                        "unlink", "symlink", "launch", "writepid", "ended", "killed"}]
      /\ mark \in [Seeds -> 0 .. Len(chain)] /\ chain \in Seq(Posts)
  BY DEF TypeInv, TypeOK
<1>2. s \in AtWork /\ pc' = [pc EXCEPT ![s] = "fetch"] /\ chain' = chain
  BY DEF Resolve, Goes, AtWork, Idle
<1>3. excuses \subseteq excuses' /\ (reached = Addresses \/ "miss" \in excuses')
  BY DEF Resolve, Excused
<1>4. PICK i \in DOMAIN chain : Resolves(i, chain, reached) /\ mark' = [mark EXCEPT ![s] = i]
  BY DEF Resolve
<1>5. ASSUME Undisturbed' PROVE NewestMark(s)'
  <2>1. reached = Addresses
    BY <1>3, <1>5 DEF Undisturbed
  <2>2. \A k \in DOMAIN chain : chain[k].to \in Addresses
    BY <1>1 DEF Addresses
  <2>3. \A k \in DOMAIN chain : chain[k].input # Noise => k <= i
    BY <1>4, <2>1, <2>2 DEF Resolves, IsNewest, Candidates
  <2>4. \A k \in DOMAIN chain : k > i => chain[k].input \notin Manifests
    BY <1>1, <2>3, InputAssumption
  <2>5. mark'[s] = i
    BY <1>1, <1>4
  <2> QED BY <1>2, <2>4, <2>5 DEF NewestMark
<1> QED BY <1>1, <1>2, <1>3, <1>5, FreshWalks DEF Undisturbed

\* The steps from the resolver to the launch.
LEMMA FreshSteps ==
    ASSUME TypeInv, FreshInv, NEW s \in Seeds,
           \/ Fetched(s) \/ Verify(s) \/ CheckPid(s) \/ Install(s) \/ Unlink(s) \/ Symlink(s)
           \/ Spawn(s)
    PROVE  FreshInv'
<1>1. pc \in [Seeds -> {"idle", "resolve", "fetch", "verify", "checkpid", "look", "move", "copying",
                        "unlink", "symlink", "launch", "writepid", "ended", "killed"}]
  BY DEF TypeInv, TypeOK
<1>2. UNCHANGED <<chain, mark, excuses>> /\ pc[s] \in Knowing
  BY DEF Fetched, Verify, CheckPid, Install, Extract, TakeAsItIs, Rename, CopyBegin, CopyEnd, Unlink,
         Symlink, Spawn, Passes, Knowing
<1>3. \E to \in Knowing : Goes(s, to)
  BY DEF Fetched, Verify, CheckPid, Install, Extract, TakeAsItIs, Rename, CopyBegin, CopyEnd, Unlink,
         Symlink, Spawn, Passes, Knowing
<1>4. \A t \in Seeds \ {s} : pc'[t] = pc[t]
  BY <1>1, <1>3 DEF Goes
<1>5. s \in AtWork
  BY <1>2 DEF AtWork, Idle, Knowing
<1>6. Undisturbed' => Undisturbed /\ NewestMark(s) /\ NewestMark(s)'
  BY <1>2 DEF FreshInv, Undisturbed, NewestMark
<1>7. Release(s)' = Release(s)
  BY <1>2 DEF Release, Manifest, Dir
<1>8. ASSUME Undisturbed', pc'[s] \in {"launch", "writepid"} PROVE current' = Release(s)
  <2>1. CASE Symlink(s)
    BY <2>1 DEF Symlink
  <2>2. CASE Spawn(s)
    BY <1>6, <1>8, <2>2 DEF Spawn, FreshInv, files
  <2>3. CASE Fetched(s) \/ Verify(s) \/ CheckPid(s) \/ Install(s) \/ Unlink(s)
    BY <1>1, <1>8, <2>3 DEF Fetched, Verify, CheckPid, Install, Extract, TakeAsItIs, Rename, CopyBegin,
                            CopyEnd, Unlink, Passes, Goes
  <2> QED BY <2>1, <2>2, <2>3
<1> QED BY <1>2, <1>4, <1>5, <1>6, <1>7, <1>8, FreshWalks

LEMMA FreshEnds ==
    ASSUME TypeInv, FreshInv, NEW s \in Seeds,
           GiveUp(s) \/ Fail(s) \/ Kill(s) \/ Exec(s) \/ WritePid(s)
    PROVE  FreshInv'
<1>1. pc \in [Seeds -> {"idle", "resolve", "fetch", "verify", "checkpid", "look", "move", "copying",
                        "unlink", "symlink", "launch", "writepid", "ended", "killed"}]
  BY DEF TypeInv, TypeOK
<1>2. chain' = chain /\ s \in AtWork /\ excuses \subseteq excuses'
  BY DEF GiveUp, Refused, Fail, Kill, Exec, WritePid, Excused, AtWork, Idle
<1>3. Goes(s, "ended") \/ Goes(s, "killed")
  BY DEF GiveUp, Fail, Kill, Exec, WritePid, Exit
<1>4. pc'[s] \notin Knowing /\ \A t \in Seeds \ {s} : pc'[t] = pc[t]
  BY <1>1, <1>3 DEF Goes, Knowing
<1>5. pc'[s] \notin {"launch", "writepid"} /\ (Undisturbed' => Undisturbed)
  BY <1>2, <1>4 DEF Knowing, Undisturbed
<1> QED BY <1>2, <1>4, <1>5, FreshWalks

\* When an execution begins, the disturbances of earlier ones are over.
LEMMA FreshBegin ==
    ASSUME TypeInv, FreshInv, NEW s \in Seeds, Begin(s)
    PROVE  FreshInv'
<1> SUFFICES ASSUME Undisturbed' PROVE FreshInv'
  BY DEF FreshInv
<1>1. pc \in [Seeds -> {"idle", "resolve", "fetch", "verify", "checkpid", "look", "move", "copying",
                        "unlink", "symlink", "launch", "writepid", "ended", "killed"}]
  BY DEF TypeInv, TypeOK
<1>2. AtWork = {}
  BY DEF Begin, Undisturbed
<1>3. \A t \in Seeds : t # s => pc'[t] \in Idle
  BY <1>1, <1>2 DEF Begin, Goes, AtWork
<1>4. pc'[s] = "resolve"
  BY <1>1 DEF Begin, Goes
<1> QED BY <1>3, <1>4 DEF FreshInv, AtWork, Idle, Knowing

\* Everybody else's steps, and a publication while nobody is at work.
LEMMA FreshElse ==
    ASSUME TypeInv, FreshInv,
           \/ UNCHANGED vars
           \/ \E p \in Posts : Publish(p)
           \/ \E s \in Seeds : RemoveSelf(s) \/ Fetch(s) \/ Import(s) \/ Die(s)
           \/ \E s \in Seeds : \E got \in Received : Gateway(s, got)
    PROVE  FreshInv'
<1>1. UNCHANGED <<pc, mark, current>>
  BY DEF vars, Publish, RemoveSelf, Fetch, Import, Die, Gateway, files
<1>2. AtWork' = AtWork
  BY <1>1 DEF AtWork
<1>3. CASE AtWork = {}
  BY <1>1, <1>2, <1>3 DEF FreshInv, AtWork, Idle, Knowing
<1>4. CASE AtWork # {} /\ \E p \in Posts : Publish(p)
  <2>1. ~Undisturbed'
    BY <1>4 DEF Publish, Excused, Undisturbed
  <2> QED BY <2>1 DEF FreshInv
<1>5. CASE UNCHANGED <<chain, excuses>>
  <2>1. \A s \in Seeds : Release(s)' = Release(s) /\ (NewestMark(s) => NewestMark(s)')
    BY <1>1, <1>5 DEF Release, Manifest, Dir, NewestMark
  <2>2. Undisturbed' = Undisturbed
    BY <1>5 DEF Undisturbed
  <2> QED BY <1>1, <1>2, <2>1, <2>2 DEF FreshInv
<1>6. UNCHANGED <<chain, excuses>> \/ \E p \in Posts : Publish(p)
  BY DEF vars, RemoveSelf, Fetch, Import, Die, Gateway
<1> QED BY <1>3, <1>4, <1>5, <1>6

LEMMA FreshNext == TypeInv /\ FreshInv /\ [Next]_vars => FreshInv'
<1> SUFFICES ASSUME TypeInv, FreshInv, [Next]_vars PROVE FreshInv'
  OBVIOUS
<1>1. CASE UNCHANGED vars
  BY <1>1, FreshElse
<1>2. CASE Next
  BY <1>2, FreshResolve, FreshSteps, FreshEnds, FreshBegin, FreshElse DEF Next, Shell, Launch
<1> QED BY <1>1, <1>2

\* An undisturbed execution starts the newest manifest there is, whatever the length of the
\* chain and whatever earlier executions have left (resolve_pointer.py:85).
THEOREM UpToDateHolds == Spec => []UpToDate
<1>1. Init => TypeInv /\ FreshInv
  <2> SUFFICES ASSUME Init PROVE FreshInv
    BY TypeInit
  <2> QED BY DEF Init, FreshInv, AtWork, Idle, Knowing
<1>2. TypeInv /\ FreshInv /\ [Next]_vars => TypeInv' /\ FreshInv'
  BY TypeNext, FreshNext
<1>3. TypeInv /\ FreshInv => UpToDate
  <2> SUFFICES ASSUME TypeInv, FreshInv, Undisturbed,
                      NEW s \in Seeds, pc[s] \in {"launch", "writepid"}
               PROVE  /\ mark[s] \in DOMAIN chain /\ chain[mark[s]].input \in Manifests
                      /\ current = Dir(chain[mark[s]].input)
                      /\ \A k \in DOMAIN chain : k > mark[s] => chain[k].input \notin Manifests
    BY DEF UpToDate, Undisturbed
  <2>1. mark[s] \in 1 .. Len(chain) /\ chain[mark[s]].input \in Manifests /\ chain \in Seq(Posts)
    BY DEF TypeInv, TypeOK, MarkOK, Knowing
  <2>2. current = Release(s) /\ NewestMark(s)
    BY DEF FreshInv, Knowing
  <2> QED BY <2>1, <2>2 DEF Release, Manifest, NewestMark
<1> QED BY <1>1, <1>2, <1>3, PTL DEF Spec
=============================================================================
