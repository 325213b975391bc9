------------------------ MODULE BootstrapTypeProofs ------------------------
(***************************************************************************)
(* Type correctness of Bootstrap, and that a seed past the resolver knows  *)
(* which manifest it installs.                                             *)
(***************************************************************************)
EXTENDS BootstrapProperties, TLAPS

\* The statements that need a manifest.
Knowing == {"fetch", "verify", "checkpid", "look", "move", "copying", "unlink", "symlink",
            "launch", "writepid"}

MarkOK ==
    \A s \in Seeds : pc[s] \in Knowing =>
        mark[s] \in 1 .. Len(chain) /\ chain[mark[s]].input \in Manifests

TypeInv == TypeOK /\ MarkOK

\* What every step but those of the race leaves to be shown of the race.
LEMMA RaceTypeUnchanged ==
    ASSUME RaceTypeOK, UNCHANGED raceVars
    PROVE  RaceTypeOK'
BY DEF RaceTypeOK, raceVars

LEMMA RaceTypeGone ==
    ASSUME RaceTypeOK, NEW s \in Seeds, Gone(s)
    PROVE  RaceTypeOK'
BY DEF RaceTypeOK, Gone, EndRace, Move

LEMMA RaceTypeStart ==
    ASSUME RaceTypeOK, NEW s \in Seeds, StartRace(s)
    PROVE  RaceTypeOK'
BY DEF RaceTypeOK, StartRace, Move

\* The queue keeps its type when a result is put and when one is taken.
LEMMA PutOK ==
    ASSUME NEW queue \in Seq(Gateways \X BOOLEAN), NEW g \in Gateways, NEW good \in BOOLEAN
    PROVE  Append(queue, <<g, good>>) \in Seq(Gateways \X BOOLEAN)
OBVIOUS

LEMMA TakeOK ==
    ASSUME NEW queue \in Seq(Gateways \X BOOLEAN), queue # << >>
    PROVE  /\ Tail(queue) \in Seq(Gateways \X BOOLEAN)
           /\ Head(queue)[1] \in Gateways
           /\ Head(queue)[2] \in BOOLEAN
<1>1. Head(queue) \in Gateways \X BOOLEAN
  OBVIOUS
<1> QED BY <1>1

LEMMA RaceTypeMain ==
    ASSUME RaceTypeOK, NEW s \in Seeds, MainThread(s)
    PROVE  RaceTypeOK'
<1>1. CASE Accept(s)
  <2>1. results[s] \in Seq(Gateways \X BOOLEAN) /\ results[s] # << >>
    BY <1>1 DEF RaceTypeOK, Accept
  <2>2. Head(results[s])[1] \in Gateways /\ Tail(results[s]) \in Seq(Gateways \X BOOLEAN)
    BY <2>1, TakeOK
  <2> QED BY <1>1, <2>2 DEF RaceTypeOK, Accept, At, Move
<1>2. CASE Skip(s)
  <2>1. results[s] \in Seq(Gateways \X BOOLEAN) /\ results[s] # << >>
    BY <1>2 DEF RaceTypeOK, Skip
  <2>2. Tail(results[s]) \in Seq(Gateways \X BOOLEAN)
    BY <2>1, TakeOK
  <2> QED BY <1>2, <2>2 DEF RaceTypeOK, Skip, At, Move
<1>3. CASE TimeOut(s)
  BY <1>3 DEF RaceTypeOK, TimeOut, At, Move
<1>4. CASE Tidy(s)
  BY <1>4 DEF RaceTypeOK, Tidy, At, Move
<1> QED BY <1>1, <1>2, <1>3, <1>4 DEF MainThread

LEMMA RaceTypeDownload ==
    ASSUME RaceTypeOK, NEW s \in Seeds, NEW got \in Received, Download(s, got)
    PROVE  RaceTypeOK'
<1> PICK g \in Gateways : Respond(s, g) \/ Finish(s, g, got) \/ Report(s, g) \/ GiveUpOn(s, g)
  BY DEF Download
<1>0. \A good \in BOOLEAN : Append(results[s], <<g, good>>) \in Seq(Gateways \X BOOLEAN)
  BY PutOK DEF RaceTypeOK
<1>1. CASE Respond(s, g)
  BY <1>1 DEF RaceTypeOK, Respond, WorkerTo
<1>2. CASE Finish(s, g, got)
  BY <1>2 DEF RaceTypeOK, Finish, WorkerTo
<1>3. CASE Report(s, g)
  BY <1>0, <1>3 DEF RaceTypeOK, Report, WorkerTo
<1>4. CASE GiveUpOn(s, g)
  BY <1>0, <1>4 DEF RaceTypeOK, GiveUpOn, WorkerTo
<1> QED BY <1>1, <1>2, <1>3, <1>4

-----------------------------------------------------------------------------
LEMMA TypeInit == Init => TypeInv
<1> SUFFICES ASSUME Init PROVE TypeInv
  OBVIOUS
<1>1. RaceTypeOK
  BY DEF Init, RaceInit, RaceTypeOK
<1>2. chain \in Seq(Posts) /\ Len(chain) = 0 /\ mark \in [Seeds -> 0 .. Len(chain)]
  BY DEF Init
<1>3. removed \in BOOLEAN /\ workDir \in [Seeds -> BOOLEAN]
  BY DEF Init
<1>4. TypeOK
  BY <1>1, <1>2, <1>3 DEF Init, TypeOK
<1>5. MarkOK
  BY DEF Init, MarkOK, Knowing
<1> QED BY <1>4, <1>5 DEF TypeInv

\* What a seed that knows its manifest installs is one of the directories.
LEMMA ReleaseIsDir ==
    ASSUME TypeInv, NEW s \in Seeds, pc[s] \in Knowing
    PROVE  Release(s) \in Dirs
BY DEF TypeInv, MarkOK, Release, Manifest, Dirs

LEMMA TypePublish ==
    ASSUME TypeInv, NEW p \in Posts, Publish(p)
    PROVE  TypeInv'
<1>1. RaceTypeOK'
  BY RaceTypeUnchanged DEF TypeInv, TypeOK, Publish
<1>2. /\ chain' \in Seq(Posts)
      /\ Len(chain') = Len(chain) + 1
      /\ \A i \in 1 .. Len(chain) : chain'[i] = chain[i]
  BY DEF TypeInv, TypeOK, Publish
<1>3. TypeOK'
  BY <1>1, <1>2 DEF TypeInv, TypeOK, Publish, Excused, files, processes
<1>4. MarkOK'
  BY <1>2 DEF TypeInv, TypeOK, MarkOK, Publish
<1> QED BY <1>3, <1>4 DEF TypeInv

LEMMA TypeResolve ==
    ASSUME TypeInv, NEW s \in Seeds, NEW reached \in SUBSET Addresses, Resolve(s, reached)
    PROVE  TypeInv'
<1>1. PICK i \in DOMAIN chain :
        Resolves(i, chain, reached) /\ mark' = [mark EXCEPT ![s] = i]
  BY DEF Resolve
<1>2. i \in 1 .. Len(chain) /\ chain[i].input \in Manifests
  BY <1>1 DEF TypeInv, TypeOK, Resolves
<1>3. RaceTypeOK'
  BY RaceTypeUnchanged DEF TypeInv, TypeOK, Resolve
<1>4. TypeOK'
  BY <1>1, <1>2, <1>3 DEF TypeInv, TypeOK, Resolve, Goes, Excused, files, processes
<1>5. MarkOK'
  BY <1>1, <1>2 DEF TypeInv, TypeOK, MarkOK, Resolve, Goes, Knowing
<1> QED BY <1>4, <1>5 DEF TypeInv

\* The steps that change nothing but where the seed is, and stay within Knowing.
LEMMA TypePasses ==
    ASSUME TypeInv, NEW s \in Seeds, pc[s] \in Knowing, NEW to \in Knowing, Passes(s, to)
    PROVE  TypeInv'
<1>1. RaceTypeOK'
  BY RaceTypeUnchanged DEF TypeInv, TypeOK, Passes
<1>2. TypeOK'
  BY <1>1 DEF TypeInv, TypeOK, Passes, Goes, files, processes, Knowing
<1>3. MarkOK'
  BY DEF TypeInv, TypeOK, MarkOK, Passes, Goes
<1> QED BY <1>2, <1>3 DEF TypeInv

LEMMA TypeBegin ==
    ASSUME TypeInv, NEW s \in Seeds, Begin(s)
    PROVE  TypeInv'
<1>1. RaceTypeOK'
  BY RaceTypeUnchanged DEF TypeInv, TypeOK, Begin
<1>2. TypeOK'
  BY <1>1 DEF TypeInv, TypeOK, Begin, Goes, files, processes
<1>3. MarkOK'
  BY DEF TypeInv, TypeOK, MarkOK, Begin, Goes, Knowing
<1> QED BY <1>2, <1>3 DEF TypeInv

LEMMA TypeFetch ==
    ASSUME TypeInv, NEW s \in Seeds,
           Fetch(s) \/ \E got \in Received : Gateway(s, got)
    PROVE  TypeInv'
<1>1. RaceTypeOK'
  BY RaceTypeStart, RaceTypeMain, RaceTypeDownload DEF TypeInv, TypeOK, Fetch, Gateway
<1>2. UNCHANGED <<chain, pc, mode, mark, workDir, files, processes, layout, excuses>>
  BY DEF Fetch, Gateway
<1>3. TypeOK'
  BY <1>1, <1>2 DEF TypeInv, TypeOK, files, processes
<1>4. MarkOK'
  BY <1>2 DEF TypeInv, MarkOK
<1> QED BY <1>3, <1>4 DEF TypeInv

LEMMA TypeFetched ==
    ASSUME TypeInv, NEW s \in Seeds, Fetched(s)
    PROVE  TypeInv'
<1>1. RaceTypeOK'
  BY DEF TypeInv, TypeOK, RaceTypeOK, Fetched, EndRace, Move
<1>2. TypeOK'
  BY <1>1 DEF TypeInv, TypeOK, Fetched, Goes, files, processes
<1>3. MarkOK'
  BY DEF TypeInv, TypeOK, MarkOK, Fetched, Goes, Knowing
<1> QED BY <1>2, <1>3 DEF TypeInv

LEMMA TypeChecks ==
    ASSUME TypeInv, NEW s \in Seeds,
           Verify(s) \/ CheckPid(s) \/ Extract(s) \/ TakeAsItIs(s)
    PROVE  TypeInv'
<1>1. pc[s] \in Knowing /\ \E to \in Knowing : Passes(s, to)
  BY DEF Verify, CheckPid, Extract, TakeAsItIs, Knowing
<1> QED BY <1>1, TypePasses

LEMMA TypeMoves ==
    ASSUME TypeInv, NEW s \in Seeds, Rename(s) \/ CopyBegin(s) \/ CopyEnd(s)
    PROVE  TypeInv'
<1>1. RaceTypeOK'
  BY RaceTypeUnchanged DEF TypeInv, TypeOK, Rename, CopyBegin, CopyEnd
<1>2. dirs' \in [Dirs -> {"absent", "partial", "whole"}]
  BY DEF TypeInv, TypeOK, Rename, CopyBegin, CopyEnd
<1>3. pc[s] \in Knowing /\ \E to \in Knowing : Goes(s, to)
  BY DEF Rename, CopyBegin, CopyEnd, Knowing
<1>4. UNCHANGED <<chain, mode, mark, workDir, current, pidFile, removed, processes, layout, excuses>>
  BY DEF Rename, CopyBegin, CopyEnd
<1>5. TypeOK'
  BY <1>1, <1>2, <1>3, <1>4 DEF TypeInv, TypeOK, Goes, processes, Knowing
<1>6. MarkOK'
  BY <1>3, <1>4 DEF TypeInv, TypeOK, MarkOK, Goes
<1> QED BY <1>5, <1>6 DEF TypeInv

LEMMA TypeLinks ==
    ASSUME TypeInv, NEW s \in Seeds, Unlink(s) \/ Symlink(s)
    PROVE  TypeInv'
<1>1. RaceTypeOK'
  BY RaceTypeUnchanged DEF TypeInv, TypeOK, Unlink, Symlink
<1>2. pc[s] \in Knowing /\ \E to \in Knowing : Goes(s, to)
  BY DEF Unlink, Symlink, Knowing
<1>3. current' \in Dirs \cup {NoDir}
  BY <1>2, ReleaseIsDir DEF Unlink, Symlink
<1>4. UNCHANGED <<chain, mode, mark, workDir, dirs, pidFile, removed, processes, layout, excuses>>
  BY DEF Unlink, Symlink
<1>5. TypeOK'
  BY <1>1, <1>2, <1>3, <1>4 DEF TypeInv, TypeOK, Goes, processes, Knowing
<1>6. MarkOK'
  BY <1>2, <1>4 DEF TypeInv, TypeOK, MarkOK, Goes
<1> QED BY <1>5, <1>6 DEF TypeInv

LEMMA TypeRemoveSelf ==
    ASSUME TypeInv, NEW s \in Seeds, RemoveSelf(s)
    PROVE  TypeInv'
<1>1. RaceTypeOK'
  BY RaceTypeUnchanged DEF TypeInv, TypeOK, RemoveSelf
<1>2. TypeOK'
  BY <1>1 DEF TypeInv, TypeOK, RemoveSelf, processes
<1>3. MarkOK'
  BY DEF TypeInv, MarkOK, RemoveSelf
<1> QED BY <1>2, <1>3 DEF TypeInv

\* The steps after which the seed is gone.
LEMMA TypeGone ==
    ASSUME TypeInv, NEW s \in Seeds, Gone(s),
           Goes(s, "ended") \/ Goes(s, "killed"),
           workDir' \in [Seeds -> BOOLEAN],
           pidFile' \in Seeds \cup {NoPid},
           proc' \in [Seeds -> Alive \cup {"none", "dead"}],
           excuses' \subseteq {"overlap", "unrecorded", "miss", "late"},
           UNCHANGED <<chain, mode, dirs, current, removed, loaded, layout>>
    PROVE  TypeInv'
<1>1. RaceTypeOK'
  BY RaceTypeGone DEF TypeInv, TypeOK
<1>2. chain \in Seq(Posts) /\ Len(chain) \in Nat
  BY DEF TypeInv, TypeOK
<1>3. mark' \in [Seeds -> 0 .. Len(chain')]
  BY <1>2 DEF TypeInv, TypeOK, Gone
<1>4. pc' \in [Seeds -> {"idle", "resolve", "fetch", "verify", "checkpid", "look", "move", "copying",
                         "unlink", "symlink", "launch", "writepid", "ended", "killed"}]
  BY DEF TypeInv, TypeOK, Goes
<1>5. TypeOK'
  BY <1>1, <1>3, <1>4 DEF TypeInv, TypeOK
<1>6. MarkOK'
  BY DEF TypeInv, TypeOK, MarkOK, Goes, Gone, Knowing
<1> QED BY <1>5, <1>6 DEF TypeInv

LEMMA TypeEnds ==
    ASSUME TypeInv, NEW s \in Seeds,
           Exec(s) \/ WritePid(s) \/ GiveUp(s) \/ Fail(s) \/ Kill(s)
    PROVE  TypeInv'
<1>1. Gone(s) /\ (Goes(s, "ended") \/ Goes(s, "killed"))
  BY DEF Exec, WritePid, GiveUp, Fail, Kill, Exit
<1>2. workDir' \in [Seeds -> BOOLEAN]
  BY DEF TypeInv, TypeOK, Exec, WritePid, GiveUp, Fail, Kill, Exit
<1>3. /\ pidFile' \in Seeds \cup {NoPid}
      /\ proc' \in [Seeds -> Alive \cup {"none", "dead"}]
  BY DEF TypeInv, TypeOK, Exec, WritePid, GiveUp, Fail, Kill, Started, Alive, files, processes
<1>4. excuses' \subseteq {"overlap", "unrecorded", "miss", "late"}
  BY DEF TypeInv, TypeOK, Exec, WritePid, GiveUp, Fail, Kill, Excused, Unrecorded
<1>5. UNCHANGED <<chain, mode, dirs, current, removed, loaded, layout>>
  BY DEF Exec, WritePid, GiveUp, Fail, Kill, Started, files, processes
<1> QED BY <1>1, <1>2, <1>3, <1>4, <1>5, TypeGone

LEMMA TypeSpawn ==
    ASSUME TypeInv, NEW s \in Seeds, Spawn(s)
    PROVE  TypeInv'
<1>1. RaceTypeOK'
  BY RaceTypeUnchanged DEF TypeInv, TypeOK, Spawn
<1>2. TypeOK'
  BY <1>1 DEF TypeInv, TypeOK, Spawn, Goes, Started, Alive, files
<1>3. MarkOK'
  BY DEF TypeInv, TypeOK, MarkOK, Spawn, Goes, Knowing
<1> QED BY <1>2, <1>3 DEF TypeInv

LEMMA TypeProcess ==
    ASSUME TypeInv, NEW s \in Seeds, Import(s) \/ Die(s)
    PROVE  TypeInv'
<1>1. RaceTypeOK'
  BY RaceTypeUnchanged DEF TypeInv, TypeOK, Import, Die
<1>2. loaded' \in [Seeds -> SUBSET (Dirs \X {"absent", "partial", "whole"})]
  BY DEF TypeInv, TypeOK, Import, Die
<1>3. proc' \in [Seeds -> Alive \cup {"none", "dead"}]
  BY DEF TypeInv, TypeOK, Import, Die, Alive
<1>4. UNCHANGED <<chain, pc, mode, mark, workDir, files, layout, excuses>>
  BY DEF Import, Die
<1>5. TypeOK'
  BY <1>1, <1>2, <1>3, <1>4 DEF TypeInv, TypeOK, files
<1>6. MarkOK'
  BY <1>4 DEF TypeInv, MarkOK
<1> QED BY <1>5, <1>6 DEF TypeInv

LEMMA TypeNext == TypeInv /\ [Next]_vars => TypeInv'
<1> SUFFICES ASSUME TypeInv, [Next]_vars PROVE TypeInv'
  OBVIOUS
<1>1. CASE UNCHANGED vars
  <2>1. RaceTypeOK'
    BY <1>1, RaceTypeUnchanged DEF TypeInv, TypeOK, vars
  <2> QED BY <1>1, <2>1 DEF TypeInv, TypeOK, MarkOK, vars, files, processes
<1>2. CASE Next
  BY <1>2, TypePublish, TypeResolve, TypeBegin, TypeFetch, TypeFetched, TypeChecks, TypeMoves,
     TypeLinks, TypeRemoveSelf, TypeEnds, TypeSpawn, TypeProcess
     DEF Next, Shell, Install, Launch
<1> QED BY <1>1, <1>2

LEMMA TypeInvariant == Spec => []TypeInv
BY TypeInit, TypeNext, PTL DEF Spec

\* Every variable of the bootstrap keeps its type.
THEOREM BootstrapTypeCorrect == Spec => []TypeOK
<1>1. TypeInv => TypeOK
  BY DEF TypeInv
<1> QED BY <1>1, TypeInvariant, PTL

\* No way of ending leaves the work directory: besides the steps that end a seed, none
\* ends it and none but Begin makes a directory.
LEMMA LitterStep == TypeInv /\ NoLitter /\ [Next]_vars => NoLitter'
<1> SUFFICES ASSUME TypeInv, NoLitter, [Next]_vars, NEW t \in Seeds, pc'[t] = "ended"
             PROVE  ~workDir'[t]
  BY DEF NoLitter
<1>1. CASE UNCHANGED <<pc, workDir>>
  BY <1>1 DEF NoLitter
<1>2. ASSUME NEW s \in Seeds, Exit(s) PROVE ~workDir'[t]
  BY <1>2 DEF Exit, Goes, NoLitter, TypeInv, TypeOK
<1>3. ASSUME NEW s \in Seeds, NEW to, to # "ended", Goes(s, to), UNCHANGED workDir
      PROVE  ~workDir'[t]
  BY <1>3 DEF Goes, NoLitter, TypeInv, TypeOK
<1>4. ASSUME NEW s \in Seeds, Begin(s) \/ Fetched(s) \/ Spawn(s) \/ Kill(s) PROVE ~workDir'[t]
  <2>1. CASE Begin(s)
    BY <2>1 DEF Begin, Goes, NoLitter, TypeInv, TypeOK
  <2>2. CASE Fetched(s) \/ Spawn(s) \/ Kill(s)
    <3>1. PICK to \in {"verify", "writepid", "killed"} : Goes(s, to) /\ UNCHANGED workDir
      BY <2>2 DEF Fetched, Spawn, Kill
    <3> QED BY <1>3, <3>1
  <2> QED BY <1>4, <2>1, <2>2
<1>5. ASSUME NEW s \in Seeds, NEW reached \in SUBSET Addresses, Resolve(s, reached)
      PROVE  ~workDir'[t]
  <2>1. Goes(s, "fetch") /\ UNCHANGED workDir
    BY <1>5 DEF Resolve
  <2> QED BY <1>3, <2>1
<1>6. ASSUME NEW s \in Seeds, Verify(s) \/ CheckPid(s) PROVE ~workDir'[t]
  <2>1. PICK to \in {"look", "checkpid"} : Goes(s, to) /\ UNCHANGED workDir
    BY <1>6 DEF Verify, CheckPid, Passes
  <2> QED BY <1>3, <2>1
<1>7. ASSUME NEW s \in Seeds, Install(s) PROVE ~workDir'[t]
  <2>1. PICK to \in {"move", "unlink", "copying"} : Goes(s, to) /\ UNCHANGED workDir
    BY <1>7 DEF Install, Extract, TakeAsItIs, Rename, CopyBegin, CopyEnd, Passes
  <2> QED BY <1>3, <2>1
<1>8. ASSUME NEW s \in Seeds, Unlink(s) \/ Symlink(s) PROVE ~workDir'[t]
  <2>1. PICK to \in {"symlink", "launch"} : Goes(s, to) /\ UNCHANGED workDir
    BY <1>8 DEF Unlink, Symlink
  <2> QED BY <1>3, <2>1
<1>9. ASSUME NEW s \in Seeds, Exec(s) \/ WritePid(s) \/ GiveUp(s) \/ Fail(s)
      PROVE  ~workDir'[t]
  BY <1>2, <1>9 DEF Exec, WritePid, GiveUp, Fail
<1>10. ASSUME NEW s \in Seeds, \/ Fetch(s) \/ RemoveSelf(s) \/ Import(s) \/ Die(s)
                               \/ \E got \in Received : Gateway(s, got)
       PROVE  ~workDir'[t]
  BY <1>1, <1>10 DEF Fetch, RemoveSelf, Import, Die, Gateway
<1>11. ASSUME NEW p \in Posts, Publish(p) PROVE ~workDir'[t]
  BY <1>1, <1>11 DEF Publish
<1>12. CASE UNCHANGED vars
  BY <1>1, <1>12 DEF vars
<1> QED
  BY <1>4, <1>5, <1>6, <1>7, <1>8, <1>9, <1>10, <1>11, <1>12
     DEF Next, Shell, Launch

\* A script that has ended and was not killed has removed its work directory, whichever
\* statement ended it: the trap, a failed check, an error or the exec that keeps the trap
\* from running (bootstrap.sh:15-20 and 121).
THEOREM NoLitterHolds == Spec => []NoLitter
<1>1. Init => NoLitter
  BY DEF Init, NoLitter
<1> QED BY <1>1, LitterStep, TypeInvariant, PTL DEF Spec
=============================================================================
