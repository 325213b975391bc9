----------------------- MODULE BootstrapInstallProofs -----------------------
(***************************************************************************)
(* What is fetched, installed and imported; and that the install root, on  *)
(* one file system, implements ReleaseShelf.                               *)
(***************************************************************************)
EXTENDS BootstrapTypeProofs

\* While the main thread waits, what a thread has written or reported is
\* a response, as far as its connection lasted, that nobody writes any more.
RaceInv ==
    \A s \in Seeds :
        /\ race[s] = "racing" =>
            /\ \A g \in Gateways : worker[s][g] = "writing" => temp[s][g] # NoFile
            /\ \A g \in Gateways : worker[s][g] = "written" => temp[s][g] \in Received
            /\ \A i \in 1 .. Len(results[s]) : results[s][i][2] =>
                /\ worker[s][results[s][i][1]] = "done"
                /\ temp[s][results[s][i][1]] \in Received
        /\ race[s] \in {"won", "fetched"} => output[s] \in Received

\* A step that leaves every race alone, or ends it.
LEMMA RaceStill ==
    ASSUME TypeInv, RaceInv, NEW s \in Seeds,
           UNCHANGED raceVars \/ Gone(s) \/ (EndRace(s) /\ UNCHANGED <<temp, output>>)
    PROVE  RaceInv'
<1>1. CASE UNCHANGED raceVars
  BY <1>1 DEF RaceInv, raceVars
<1>2. CASE Gone(s) \/ (EndRace(s) /\ UNCHANGED <<temp, output>>)
  <2>1. race'[s] = "off"
    BY <1>2 DEF Gone, EndRace, Move, TypeInv, TypeOK, RaceTypeOK
  <2>2. \A t \in Seeds \ {s} : /\ race'[t] = race[t] /\ worker'[t] = worker[t] /\ temp'[t] = temp[t]
                               /\ results'[t] = results[t] /\ output'[t] = output[t]
    BY <1>2 DEF Gone, EndRace, Move, TypeInv, TypeOK, RaceTypeOK
  <2> QED BY <2>1, <2>2 DEF RaceInv
<1> QED BY <1>1, <1>2

\* What is in the queue after a result has been put, and after one has been taken.
LEMMA PutAdds ==
    ASSUME NEW queue \in Seq(Gateways \X BOOLEAN), NEW g \in Gateways, NEW good \in BOOLEAN,
           NEW i \in 1 .. Len(Append(queue, <<g, good>>))
    PROVE  \/ i \in 1 .. Len(queue) /\ Append(queue, <<g, good>>)[i] = queue[i]
           \/ Append(queue, <<g, good>>)[i] = <<g, good>>
OBVIOUS

LEMMA RaceMain ==
    ASSUME TypeInv, RaceInv, NEW s \in Seeds, StartRace(s) \/ MainThread(s)
    PROVE  RaceInv'
<1>0. \A t \in Seeds \ {s} : /\ race'[t] = race[t] /\ worker'[t] = worker[t] /\ temp'[t] = temp[t]
                             /\ results'[t] = results[t] /\ output'[t] = output[t]
  BY DEF StartRace, MainThread, Accept, Skip, TimeOut, Tidy, Move, TypeInv, TypeOK, RaceTypeOK
<1>1. CASE StartRace(s)
  <2>1. /\ race'[s] = "racing" /\ results'[s] = << >>
        /\ \A g \in Gateways : worker'[s][g] = "asking"
    BY <1>1 DEF StartRace, Move, TypeInv, TypeOK, RaceTypeOK
  <2> QED BY <1>0, <2>1 DEF RaceInv
<1>2. CASE Accept(s)
  <2>1. results[s] \in Seq(Gateways \X BOOLEAN) /\ results[s] # << >> /\ race[s] = "racing"
    BY <1>2 DEF Accept, At, TypeInv, TypeOK, RaceTypeOK
  <2>2. Head(results[s]) = results[s][1] /\ 1 \in 1 .. Len(results[s])
    BY <2>1
  <2>3. temp[s][Head(results[s])[1]] \in Received
    BY <1>2, <2>1, <2>2 DEF Accept, RaceInv
  <2>4. race'[s] = "won" /\ output'[s] \in Received
    BY <1>2, <2>3 DEF Accept, Move, TypeInv, TypeOK, RaceTypeOK
  <2> QED BY <1>0, <2>4 DEF RaceInv
<1>3. CASE Skip(s)
  <2>1. results[s] \in Seq(Gateways \X BOOLEAN) /\ results[s] # << >> /\ race[s] = "racing"
    BY <1>3 DEF Skip, At, TypeInv, TypeOK, RaceTypeOK
  <2>2. /\ worker'[s] = worker[s] /\ temp'[s] = temp[s]
        /\ results'[s] = Tail(results[s]) /\ race'[s] \in {"racing", "lost"}
    BY <1>3 DEF Skip, Move, TypeInv, TypeOK, RaceTypeOK
  <2>3. \A i \in 1 .. Len(Tail(results[s])) :
            i + 1 \in 1 .. Len(results[s]) /\ Tail(results[s])[i] = results[s][i + 1]
    BY <2>1
  <2>4. \A i \in 1 .. Len(results'[s]) : results'[s][i][2] =>
            /\ worker'[s][results'[s][i][1]] = "done"
            /\ temp'[s][results'[s][i][1]] \in Received
    <3> TAKE i \in 1 .. Len(results'[s])
    <3>1. i + 1 \in 1 .. Len(results[s]) /\ results'[s][i] = results[s][i + 1]
      BY <2>2, <2>3
    <3>2. results[s][i + 1][2] => /\ worker[s][results[s][i + 1][1]] = "done"
                                  /\ temp[s][results[s][i + 1][1]] \in Received
      BY <2>1, <3>1 DEF RaceInv
    <3> QED BY <2>2, <3>1, <3>2
  <2>5. /\ \A g \in Gateways : worker'[s][g] = "writing" => temp'[s][g] # NoFile
        /\ \A g \in Gateways : worker'[s][g] = "written" => temp'[s][g] \in Received
    BY <2>1, <2>2 DEF RaceInv
  <2>6. race'[s] \notin {"won", "fetched"}
    BY <2>2
  <2> QED BY <1>0, <2>4, <2>5, <2>6 DEF RaceInv
<1>4. CASE TimeOut(s)
  <2>1. race'[s] = "lost"
    BY <1>4 DEF TimeOut, Move, TypeInv, TypeOK, RaceTypeOK
  <2> QED BY <1>0, <2>1 DEF RaceInv
<1>5. CASE Tidy(s)
  <2>1. /\ race'[s] \in {"fetched", "failed"} /\ output'[s] = output[s]
        /\ race'[s] = "fetched" => race[s] = "won"
    BY <1>5 DEF Tidy, At, Move, TypeInv, TypeOK, RaceTypeOK
  <2> QED BY <1>0, <2>1 DEF RaceInv
<1> QED BY <1>1, <1>2, <1>3, <1>4, <1>5 DEF MainThread

LEMMA RaceDownload ==
    ASSUME TypeInv, RaceInv, NEW s \in Seeds, NEW got \in Received, Download(s, got)
    PROVE  RaceInv'
<1> PICK g \in Gateways : Respond(s, g) \/ Finish(s, g, got) \/ Report(s, g) \/ GiveUpOn(s, g)
  BY DEF Download
<1>0. /\ race \in [Seeds -> {"off", "racing", "won", "lost", "fetched", "failed"}]
      /\ worker \in [Seeds -> [Gateways -> {"off", "asking", "writing", "written", "done"}]]
      /\ temp \in [Seeds -> [Gateways -> Received \cup {NoFile, Part}]]
      /\ results \in [Seeds -> Seq(Gateways \X BOOLEAN)]
  BY DEF TypeInv, TypeOK, RaceTypeOK
<1>1. /\ race' = race /\ output' = output
      /\ \A t \in Seeds \ {s} : worker'[t] = worker[t] /\ temp'[t] = temp[t] /\ results'[t] = results[t]
      /\ \A h \in Gateways \ {g} : worker'[s][h] = worker[s][h] /\ temp'[s][h] = temp[s][h]
  <2>1. CASE Respond(s, g)
    BY <1>0, <2>1 DEF Respond, WorkerTo
  <2>2. CASE Finish(s, g, got)
    BY <1>0, <2>2 DEF Finish, WorkerTo
  <2>3. CASE Report(s, g)
    BY <1>0, <2>3 DEF Report, WorkerTo
  <2>4. CASE GiveUpOn(s, g)
    BY <1>0, <2>4 DEF GiveUpOn, WorkerTo
  <2> QED BY <2>1, <2>2, <2>3, <2>4
<1>2. \A i \in 1 .. Len(results[s]) : results[s][i] \in Gateways \X BOOLEAN
  BY <1>0
<1>3. CASE Respond(s, g)
  <2>1. worker'[s][g] = "writing" /\ temp'[s][g] = Part /\ worker[s][g] = "asking" /\ results' = results
    BY <1>0, <1>3 DEF Respond, WorkerTo
  <2>2. Part # NoFile
    BY DEF Part, NoFile
  <2> QED BY <1>1, <1>2, <2>1, <2>2 DEF RaceInv
<1>4. CASE Finish(s, g, got)
  <2>1. worker'[s][g] = "written" /\ worker[s][g] = "writing" /\ results' = results
    BY <1>0, <1>4 DEF Finish, WorkerTo
  <2>2. temp[s][g] # NoFile => temp'[s][g] = got
    BY <1>0, <1>4 DEF Finish
  <2> QED BY <1>1, <1>2, <2>1, <2>2 DEF RaceInv
<1>5. CASE Report(s, g)
  <2>1. worker'[s][g] = "done" /\ worker[s][g] = "written" /\ temp' = temp
    BY <1>0, <1>5 DEF Report, WorkerTo
  <2>2. results'[s] = Append(results[s], <<g, TRUE>>)
    BY <1>0, <1>5 DEF Report
  <2>3. ASSUME NEW i \in 1 .. Len(results'[s])
        PROVE  \/ i \in 1 .. Len(results[s]) /\ results'[s][i] = results[s][i]
               \/ results'[s][i][1] = g /\ results'[s][i][2] = TRUE
    <3>1. results[s] \in Seq(Gateways \X BOOLEAN) /\ TRUE \in BOOLEAN
      BY <1>0
    <3>2. i \in 1 .. Len(Append(results[s], <<g, TRUE>>))
      BY <2>2
    <3>3. \/ i \in 1 .. Len(results[s]) /\ Append(results[s], <<g, TRUE>>)[i] = results[s][i]
          \/ Append(results[s], <<g, TRUE>>)[i] = <<g, TRUE>>
      BY <3>1, <3>2, PutAdds
    <3> QED BY <2>2, <3>3
  <2>4. ASSUME race[s] = "racing", NEW i \in 1 .. Len(results'[s]), results'[s][i][2]
        PROVE  /\ worker'[s][results'[s][i][1]] = "done"
               /\ temp'[s][results'[s][i][1]] \in Received
    <3>1. CASE i \in 1 .. Len(results[s]) /\ results'[s][i] = results[s][i]
      <4>1. results[s][i][1] \in Gateways \ {g}
        BY <1>2, <2>1, <2>4, <3>1 DEF RaceInv
      <4>2. worker[s][results[s][i][1]] = "done" /\ temp[s][results[s][i][1]] \in Received
        BY <2>4, <3>1 DEF RaceInv
      <4> QED BY <1>1, <3>1, <4>1, <4>2
    <3>2. CASE results'[s][i][1] = g /\ results'[s][i][2] = TRUE
      BY <2>1, <2>4, <3>2 DEF RaceInv
    <3> QED BY <2>3, <3>1, <3>2
  <2> QED BY <1>1, <2>1, <2>4 DEF RaceInv
<1>6. CASE GiveUpOn(s, g)
  <2>1. worker'[s][g] = "done" /\ worker[s][g] \in {"asking", "writing"}
    BY <1>0, <1>6 DEF GiveUpOn, WorkerTo
  <2>2. results'[s] = Append(results[s], <<g, FALSE>>)
    BY <1>0, <1>6 DEF GiveUpOn
  <2>3. ASSUME NEW i \in 1 .. Len(results'[s])
        PROVE  \/ i \in 1 .. Len(results[s]) /\ results'[s][i] = results[s][i]
               \/ results'[s][i][1] = g /\ results'[s][i][2] = FALSE
    <3>1. results[s] \in Seq(Gateways \X BOOLEAN) /\ FALSE \in BOOLEAN
      BY <1>0
    <3>2. i \in 1 .. Len(Append(results[s], <<g, FALSE>>))
      BY <2>2
    <3>3. \/ i \in 1 .. Len(results[s]) /\ Append(results[s], <<g, FALSE>>)[i] = results[s][i]
          \/ Append(results[s], <<g, FALSE>>)[i] = <<g, FALSE>>
      BY <3>1, <3>2, PutAdds
    <3> QED BY <2>2, <3>3
  <2>4. ASSUME race[s] = "racing", NEW i \in 1 .. Len(results'[s]), results'[s][i][2]
        PROVE  /\ worker'[s][results'[s][i][1]] = "done"
               /\ temp'[s][results'[s][i][1]] \in Received
    <3>1. CASE i \in 1 .. Len(results[s]) /\ results'[s][i] = results[s][i]
      <4>1. results[s][i][1] \in Gateways \ {g}
        BY <1>2, <2>1, <2>4, <3>1 DEF RaceInv
      <4>2. worker[s][results[s][i][1]] = "done" /\ temp[s][results[s][i][1]] \in Received
        BY <2>4, <3>1 DEF RaceInv
      <4> QED BY <1>1, <3>1, <4>1, <4>2
    <3>2. CASE results'[s][i][1] = g /\ results'[s][i][2] = FALSE
      BY <2>4, <3>2
    <3> QED BY <2>3, <3>1, <3>2
  <2> QED BY <1>1, <2>1, <2>4 DEF RaceInv
<1> QED BY <1>3, <1>4, <1>5, <1>6

LEMMA RaceNext == TypeInv /\ RaceInv /\ [Next]_vars => RaceInv'
<1> SUFFICES ASSUME TypeInv, RaceInv, [Next]_vars PROVE RaceInv'
  OBVIOUS
<1>1. CASE UNCHANGED raceVars
  BY <1>1 DEF RaceInv, raceVars
<1>2. ASSUME NEW s \in Seeds, Fetch(s) PROVE RaceInv'
  BY <1>2, RaceMain DEF Fetch
<1>3. ASSUME NEW s \in Seeds, NEW got \in Received, Gateway(s, got) PROVE RaceInv'
  BY <1>3, RaceDownload DEF Gateway
<1>4. ASSUME NEW s \in Seeds,
             Fetched(s) \/ Exec(s) \/ WritePid(s) \/ GiveUp(s) \/ Fail(s) \/ Kill(s)
      PROVE  RaceInv'
  BY <1>4, RaceStill DEF Fetched, Exec, WritePid, GiveUp, Fail, Kill, Exit
<1>5. ASSUME NEW s \in Seeds,
             \/ Begin(s) \/ Verify(s) \/ CheckPid(s) \/ Install(s) \/ Unlink(s) \/ Symlink(s)
             \/ RemoveSelf(s) \/ Spawn(s) \/ Import(s) \/ Die(s)
             \/ \E reached \in SUBSET Addresses : Resolve(s, reached)
      PROVE  UNCHANGED raceVars
  BY <1>5 DEF Begin, Verify, CheckPid, Install, Extract, TakeAsItIs, Rename, CopyBegin, CopyEnd, Unlink,
              Symlink, RemoveSelf, Spawn, Import, Die, Resolve, Passes
<1>6. CASE UNCHANGED vars \/ \E p \in Posts : Publish(p)
  BY <1>1, <1>6 DEF vars, Publish
<1> QED BY <1>1, <1>2, <1>3, <1>4, <1>5, <1>6 DEF Next, Shell, Launch

\* Whatever the other gateways' threads do, the artifact that a race hands on is what one
\* gateway has delivered, closed, as far as its connection lasted, for any number of
\* gateways (fetch_resource.py:77-108).
THEOREM OutputIsClosed == Spec => []OutputClosed
<1>1. Init => TypeInv /\ RaceInv
  BY TypeInit DEF Init, RaceInit, RaceInv
<1>2. TypeInv /\ RaceInv /\ [Next]_vars => TypeInv' /\ RaceInv'
  BY TypeNext, RaceNext
<1>3. RaceInv => OutputClosed
  BY DEF RaceInv, OutputClosed
<1> QED BY <1>1, <1>2, <1>3, PTL DEF Spec

-----------------------------------------------------------------------------
\* A seed past the verification holds the release of its manifest, and past the
\* extraction one without links.
Verified(s) ==
    /\ output[s] = Manifest(s).sha
    /\ output[s] \in Releases

HoldsVerified ==
    \A s \in Seeds :
        /\ pc[s] \in {"checkpid", "look", "move"} => Verified(s)
        /\ pc[s] = "move" => Plain(Contents[output[s]])

\* A link is made to a directory that is there, and a copy goes on in one.
LinksToSomething ==
    /\ \A s \in Seeds : pc[s] \in {"copying", "unlink", "symlink"} => dirs[Release(s)] # "absent"
    /\ current # NoDir => dirs[current] # "absent"

\* Nothing gets onto the shelf but what was verified; on one file system, at once.
ShelfTrusted ==
    /\ \A d \in Dirs : dirs[d] # "absent" => d \in Trusted
    /\ layout = "same" =>
         /\ \A s \in Seeds : pc[s] # "copying"
         /\ \A d \in Dirs : dirs[d] # "partial"

InstallInv ==
    /\ TypeInv
    /\ HoldsVerified
    /\ LinksToSomething
    /\ ShelfTrusted
    /\ LoadedVerified

\* What a plain archive is, the extractor decides.
LEMMA UnpacksPlain ==
    ASSUME NEW archive, Unpacks(archive)
    PROVE  Plain(archive)
BY DEF Unpacks, Plain

\* The manifest of a seed stays when the chain and the marks do.
LEMMA SameManifest ==
    ASSUME UNCHANGED <<chain, mark>>, NEW s \in Seeds
    PROVE  Manifest(s)' = Manifest(s) /\ Release(s)' = Release(s)
BY DEF Manifest, Release, Dir

LEMMA VerifiedIsTrusted ==
    ASSUME InstallInv, NEW s \in Seeds, pc[s] = "move"
    PROVE  Release(s) \in Trusted
<1>1. Release(s) \in Dirs
  BY ReleaseIsDir DEF InstallInv, Knowing
<1>2. Release(s)[2] = output[s]
  BY DEF InstallInv, HoldsVerified, Verified, Release, Dir
<1>3. output[s] \in Releases /\ Plain(Contents[output[s]])
  BY DEF InstallInv, HoldsVerified, Verified
<1> QED BY <1>1, <1>2, <1>3 DEF Trusted

\* A step that leaves the files, the imports and the artifacts of the other seeds, and
\* takes no seed to a statement that the invariant is about.
LEMMA InstallFrame ==
    ASSUME InstallInv, TypeInv', NEW s \in Seeds,
           UNCHANGED <<chain, layout, dirs>>,
           \A t \in Seeds \ {s} : pc'[t] = pc[t] /\ mark'[t] = mark[t] /\ output'[t] = output[t],
           pc'[s] \notin {"checkpid", "look", "move", "copying", "unlink", "symlink"},
           current' = current,
           \A t \in Seeds : loaded'[t] \subseteq loaded[t]
    PROVE  InstallInv'
<1>1. \A t \in Seeds \ {s} : Manifest(t)' = Manifest(t) /\ Release(t)' = Release(t)
  BY DEF Manifest, Release, Dir
<1>2. HoldsVerified'
  BY <1>1 DEF InstallInv, HoldsVerified, Verified
<1>3. LinksToSomething'
  BY <1>1 DEF InstallInv, LinksToSomething
<1>4. ShelfTrusted' /\ LoadedVerified'
  BY DEF InstallInv, ShelfTrusted, LoadedVerified, Usable, Trusted
<1> QED BY <1>2, <1>3, <1>4 DEF InstallInv

LEMMA InstallInit == Init => InstallInv
<1> SUFFICES ASSUME Init PROVE InstallInv
  OBVIOUS
<1>1. TypeInv
  BY TypeInit
<1> QED BY <1>1 DEF Init, InstallInv, HoldsVerified, LinksToSomething, ShelfTrusted, LoadedVerified, Usable

LEMMA InstallPublish ==
    ASSUME InstallInv, TypeInv', NEW p \in Posts, Publish(p)
    PROVE  InstallInv'
<1>1. \A s \in Seeds : pc[s] \in Knowing => Manifest(s)' = Manifest(s) /\ Release(s)' = Release(s)
  <2> SUFFICES ASSUME NEW s \in Seeds, pc[s] \in Knowing
               PROVE  Manifest(s)' = Manifest(s)
    BY DEF Release, Dir
  <2>1. mark[s] \in 1 .. Len(chain) /\ chain \in Seq(Posts)
    BY DEF InstallInv, TypeInv, TypeOK, MarkOK
  <2>2. Append(chain, p)[mark[s]] = chain[mark[s]]
    BY <2>1
  <2> QED BY <2>2 DEF Publish, Manifest
<1>2. HoldsVerified'
  BY <1>1 DEF InstallInv, HoldsVerified, Verified, Publish, raceVars, Knowing
<1>3. LinksToSomething'
  BY <1>1 DEF InstallInv, LinksToSomething, Publish, files, Knowing
<1>4. ShelfTrusted' /\ LoadedVerified'
  BY DEF InstallInv, ShelfTrusted, LoadedVerified, Usable, Trusted, Publish, files, processes
<1> QED BY <1>2, <1>3, <1>4 DEF InstallInv

\* The steps before the verification, after the link and outside the shell.
LEMMA InstallElsewhere ==
    ASSUME InstallInv, TypeInv', NEW s \in Seeds,
           \/ Begin(s) \/ Fetched(s) \/ Exec(s) \/ Spawn(s) \/ WritePid(s)
           \/ GiveUp(s) \/ Fail(s) \/ Kill(s)
           \/ \E reached \in SUBSET Addresses : Resolve(s, reached)
    PROVE  InstallInv'
<1>1. pc \in [Seeds -> {"idle", "resolve", "fetch", "verify", "checkpid", "look", "move", "copying",
                        "unlink", "symlink", "launch", "writepid", "ended", "killed"}]
  BY DEF InstallInv, TypeInv, TypeOK
<1>2. \E to \in {"resolve", "fetch", "verify", "writepid", "ended", "killed"} : Goes(s, to)
  BY DEF Begin, Fetched, Exec, Spawn, WritePid, GiveUp, Fail, Kill, Exit, Resolve
<1>3. /\ pc'[s] \notin {"checkpid", "look", "move", "copying", "unlink", "symlink"}
      /\ \A t \in Seeds \ {s} : pc'[t] = pc[t]
  BY <1>1, <1>2 DEF Goes
<1>4. mark \in [Seeds -> 0 .. Len(chain)] /\ output \in [Seeds -> Received \cup {NoFile, Part}]
  BY DEF InstallInv, TypeInv, TypeOK, RaceTypeOK
<1>5. \A t \in Seeds \ {s} : mark'[t] = mark[t] /\ output'[t] = output[t]
  BY <1>4 DEF Begin, Fetched, Exec, Spawn, WritePid, GiveUp, Fail, Kill, Exit, Gone, Resolve, raceVars
<1>6. UNCHANGED <<chain, layout, dirs, current, loaded>>
  BY DEF Begin, Fetched, Exec, Spawn, WritePid, GiveUp, Fail, Kill, Resolve, Started, files, processes
<1> QED BY <1>3, <1>5, <1>6, InstallFrame

LEMMA InstallFetch ==
    ASSUME InstallInv, TypeInv', NEW s \in Seeds, Fetch(s)
    PROVE  InstallInv'
<1>1. pc[s] = "fetch" /\ UNCHANGED <<chain, pc, mark, layout, dirs, current, loaded>>
  BY DEF Fetch, files, processes
<1>2. output \in [Seeds -> Received \cup {NoFile, Part}]
  BY DEF InstallInv, TypeInv, TypeOK, RaceTypeOK
<1>3. \A t \in Seeds \ {s} : output'[t] = output[t]
  BY <1>2 DEF Fetch, StartRace, MainThread, Accept, Skip, TimeOut, Tidy
<1> QED BY <1>1, <1>3, InstallFrame

\* Steps that change neither a seed's place nor its artifact nor a directory or link.
LEMMA InstallStill ==
    ASSUME InstallInv, TypeInv',
           UNCHANGED <<chain, pc, mark, output, dirs, current, layout>>,
           \A t \in Seeds : loaded'[t] \subseteq loaded[t]
    PROVE  InstallInv'
<1>1. \A t \in Seeds : Manifest(t)' = Manifest(t) /\ Release(t)' = Release(t)
  BY SameManifest
<1>2. HoldsVerified'
  BY <1>1 DEF InstallInv, HoldsVerified, Verified
<1>3. LinksToSomething'
  BY <1>1 DEF InstallInv, LinksToSomething
<1>4. ShelfTrusted' /\ LoadedVerified'
  BY DEF InstallInv, ShelfTrusted, LoadedVerified, Usable, Trusted
<1> QED BY <1>2, <1>3, <1>4 DEF InstallInv

LEMMA InstallQuiet ==
    ASSUME InstallInv, TypeInv', NEW s \in Seeds,
           \/ RemoveSelf(s) \/ Die(s)
           \/ \E got \in Received : Gateway(s, got)
    PROVE  InstallInv'
<1>1. UNCHANGED <<chain, pc, mark, dirs, current, layout>>
  BY DEF RemoveSelf, Die, Gateway, files
<1>2. output' = output
  BY DEF RemoveSelf, Die, Gateway, raceVars, Download, Respond, Finish, Report, GiveUpOn
<1>3. loaded \in [Seeds -> SUBSET (Dirs \X {"absent", "partial", "whole"})]
  BY DEF InstallInv, TypeInv, TypeOK
<1>4. \A t \in Seeds : loaded'[t] \subseteq loaded[t]
  BY <1>3 DEF RemoveSelf, Die, Gateway, processes
<1> QED BY <1>1, <1>2, <1>4, InstallStill

\* What a process imports is on the shelf.
LEMMA InstallImport ==
    ASSUME InstallInv, TypeInv', NEW s \in Seeds, Import(s)
    PROVE  InstallInv'
<1>1. UNCHANGED <<chain, pc, mark, output, dirs, current, layout>>
  BY DEF Import, files, raceVars
<1>2. \A t \in Seeds : Manifest(t)' = Manifest(t) /\ Release(t)' = Release(t)
  BY <1>1, SameManifest
<1>3. HoldsVerified'
  BY <1>1, <1>2 DEF InstallInv, HoldsVerified, Verified
<1>4. LinksToSomething'
  BY <1>1, <1>2 DEF InstallInv, LinksToSomething
<1>5. <<current, dirs[current]>> \in Trusted \X Usable
  <2>1. current \in Dirs /\ dirs[current] \in {"partial", "whole"}
    BY DEF InstallInv, TypeInv, TypeOK, LinksToSomething, Import
  <2> QED BY <2>1 DEF InstallInv, ShelfTrusted, Usable
<1>6. loaded \in [Seeds -> SUBSET (Dirs \X {"absent", "partial", "whole"})]
  BY DEF InstallInv, TypeInv, TypeOK
<1>7. \A t \in Seeds : loaded'[t] \subseteq loaded[t] \cup {<<current, dirs[current]>>}
  BY <1>6 DEF Import
<1>8. ShelfTrusted' /\ LoadedVerified'
  BY <1>1, <1>5, <1>7 DEF InstallInv, ShelfTrusted, LoadedVerified, Usable, Trusted
<1> QED BY <1>3, <1>4, <1>8 DEF InstallInv

-----------------------------------------------------------------------------
\* The checks, from the verification to the extraction.
LEMMA InstallChecks ==
    ASSUME InstallInv, TypeInv', NEW s \in Seeds,
           Verify(s) \/ CheckPid(s) \/ Extract(s) \/ TakeAsItIs(s)
    PROVE  InstallInv'
<1>1. /\ UNCHANGED <<chain, mark, output, dirs, current, layout, loaded>>
      /\ \E to \in {"checkpid", "look", "move", "unlink"} : Goes(s, to)
  BY DEF Verify, CheckPid, Extract, TakeAsItIs, Passes, raceVars, files, processes
<1>2. \A t \in Seeds : Manifest(t)' = Manifest(t) /\ Release(t)' = Release(t)
  BY <1>1, SameManifest
<1>3. pc \in [Seeds -> {"idle", "resolve", "fetch", "verify", "checkpid", "look", "move", "copying",
                        "unlink", "symlink", "launch", "writepid", "ended", "killed"}]
  BY DEF InstallInv, TypeInv, TypeOK
<1>4. pc'[s] \in {"checkpid", "look", "move"} => Verified(s)
  BY <1>3 DEF InstallInv, HoldsVerified, Verified, Verify, Genuine, CheckPid, Extract, TakeAsItIs, Passes, Goes
<1>5. pc'[s] = "move" => Plain(Contents[output[s]])
  BY <1>3, UnpacksPlain DEF Verify, CheckPid, Extract, TakeAsItIs, Passes, Goes, Installable
<1>6. pc'[s] # "copying" /\ (pc'[s] = "unlink" => dirs[Release(s)] # "absent")
  BY <1>3 DEF Verify, CheckPid, Extract, TakeAsItIs, Passes, Goes
<1>7. HoldsVerified'
  BY <1>1, <1>2, <1>3, <1>4, <1>5 DEF InstallInv, HoldsVerified, Verified, Goes
<1>8. LinksToSomething'
  BY <1>1, <1>2, <1>3, <1>6 DEF InstallInv, LinksToSomething, Goes
<1>9. ShelfTrusted' /\ LoadedVerified'
  BY <1>1, <1>3 DEF InstallInv, ShelfTrusted, LoadedVerified, Usable, Trusted, Goes
<1> QED BY <1>7, <1>8, <1>9 DEF InstallInv

\* mv puts a verified release on the shelf, at once if it renames.
LEMMA InstallMoves ==
    ASSUME InstallInv, TypeInv', NEW s \in Seeds,
           Rename(s) \/ CopyBegin(s) \/ CopyEnd(s)
    PROVE  InstallInv'
<1>1. /\ UNCHANGED <<chain, mark, output, current, layout, loaded>>
      /\ \E to \in {"copying", "unlink"} : Goes(s, to)
  BY DEF Rename, CopyBegin, CopyEnd, raceVars, processes
<1>2. \A t \in Seeds : Manifest(t)' = Manifest(t) /\ Release(t)' = Release(t)
  BY <1>1, SameManifest
<1>3. /\ pc \in [Seeds -> {"idle", "resolve", "fetch", "verify", "checkpid", "look", "move", "copying",
                            "unlink", "symlink", "launch", "writepid", "ended", "killed"}]
      /\ dirs \in [Dirs -> {"absent", "partial", "whole"}]
  BY DEF InstallInv, TypeInv, TypeOK
<1>4. Release(s) \in Dirs
  BY ReleaseIsDir DEF InstallInv, Knowing, Rename, CopyBegin, CopyEnd
<1>5. HoldsVerified'
  BY <1>1, <1>2, <1>3 DEF InstallInv, HoldsVerified, Verified, Goes
<1>6. \A d \in Dirs : dirs[d] # "absent" => dirs'[d] # "absent"
  BY <1>3, <1>4 DEF Rename, CopyBegin, CopyEnd
<1>7. dirs'[Release(s)] # "absent"
  BY <1>3, <1>4 DEF Rename, CopyBegin, CopyEnd
<1>8. \A t \in Seeds : pc[t] \in {"copying", "unlink", "symlink"} => Release(t) \in Dirs
  BY ReleaseIsDir DEF InstallInv, Knowing
<1>9. LinksToSomething'
  <2>1. \A t \in Seeds :
          pc'[t] \in {"copying", "unlink", "symlink"} => dirs'[Release(t)'] # "absent"
    BY <1>1, <1>2, <1>3, <1>6, <1>7, <1>8 DEF InstallInv, LinksToSomething, Goes
  <2>2. current' # NoDir => dirs'[current'] # "absent"
    BY <1>1, <1>6 DEF InstallInv, LinksToSomething, TypeInv, TypeOK
  <2> QED BY <2>1, <2>2 DEF LinksToSomething
<1>10. ShelfTrusted'
  <2>1. Release(s) \in Trusted
    <3>1. CASE pc[s] = "move"
      BY <3>1, VerifiedIsTrusted
    <3>2. CASE pc[s] = "copying"
      BY <1>4, <3>2 DEF InstallInv, LinksToSomething, ShelfTrusted
    <3> QED BY <3>1, <3>2 DEF Rename, CopyBegin, CopyEnd
  <2>2. \A d \in Dirs : dirs'[d] # "absent" => d \in Trusted
    BY <1>3, <2>1 DEF InstallInv, ShelfTrusted, Rename, CopyBegin, CopyEnd
  <2>3. ASSUME layout = "same"
        PROVE  (\A t \in Seeds : pc'[t] # "copying") /\ \A d \in Dirs : dirs'[d] # "partial"
    <3>1. Rename(s)
      BY <2>3 DEF InstallInv, ShelfTrusted, CopyBegin, CopyEnd
    <3>2. \A t \in Seeds : pc'[t] # "copying"
      BY <1>3, <2>3, <3>1 DEF InstallInv, ShelfTrusted, Rename, Goes
    <3>3. \A d \in Dirs : dirs'[d] # "partial"
      BY <1>3, <2>3, <3>1 DEF InstallInv, ShelfTrusted, Rename
    <3> QED BY <3>2, <3>3
  <2> QED BY <1>1, <2>2, <2>3 DEF ShelfTrusted, Trusted
<1>11. LoadedVerified'
  BY <1>1 DEF InstallInv, LoadedVerified, Usable, Trusted
<1> QED BY <1>1, <1>5, <1>9, <1>10, <1>11 DEF InstallInv

LEMMA InstallLinks ==
    ASSUME InstallInv, TypeInv', NEW s \in Seeds, Unlink(s) \/ Symlink(s)
    PROVE  InstallInv'
<1>1. /\ UNCHANGED <<chain, mark, output, dirs, layout, loaded>>
      /\ \E to \in {"symlink", "launch"} : Goes(s, to)
      /\ pc[s] \in {"unlink", "symlink"}
      /\ current' \in {NoDir, Release(s)}
  BY DEF Unlink, Symlink, raceVars, processes
<1>2. \A t \in Seeds : Manifest(t)' = Manifest(t) /\ Release(t)' = Release(t)
  BY <1>1, SameManifest
<1>3. pc \in [Seeds -> {"idle", "resolve", "fetch", "verify", "checkpid", "look", "move", "copying",
                        "unlink", "symlink", "launch", "writepid", "ended", "killed"}]
  BY DEF InstallInv, TypeInv, TypeOK
<1>4. HoldsVerified'
  BY <1>1, <1>2, <1>3 DEF InstallInv, HoldsVerified, Verified, Goes
<1>5. dirs[Release(s)] # "absent"
  BY <1>1 DEF InstallInv, LinksToSomething
<1>6. LinksToSomething'
  BY <1>1, <1>2, <1>3, <1>5 DEF InstallInv, LinksToSomething, Goes
<1>7. ShelfTrusted' /\ LoadedVerified'
  BY <1>1, <1>3 DEF InstallInv, ShelfTrusted, LoadedVerified, Usable, Trusted, Goes
<1> QED BY <1>4, <1>6, <1>7 DEF InstallInv

LEMMA InstallNext == InstallInv /\ [Next]_vars => InstallInv'
<1> SUFFICES ASSUME InstallInv, [Next]_vars PROVE InstallInv'
  OBVIOUS
<1>1. TypeInv'
  BY TypeNext DEF InstallInv
<1>2. CASE UNCHANGED vars
  BY <1>1, <1>2, InstallStill DEF vars, raceVars, files, processes
<1>3. CASE Next
  BY <1>1, <1>3, InstallPublish, InstallElsewhere, InstallFetch, InstallQuiet, InstallImport,
     InstallChecks, InstallMoves, InstallLinks
     DEF Next, Shell, Install, Launch
<1> QED BY <1>2, <1>3

LEMMA InstallInvariant == Spec => []InstallInv
BY InstallInit, InstallNext, PTL DEF Spec

\* A process imports nothing but signed releases without links, on any file systems, and
\* nothing but whole ones if there is only one, for any number of executions, releases,
\* transactions and gateways (bootstrap.sh:88-110).
THEOREM LoadedIsVerified == Spec => []LoadedVerified
<1>1. InstallInv => LoadedVerified
  BY DEF InstallInv
<1> QED BY <1>1, InstallInvariant, PTL

-----------------------------------------------------------------------------
LEMMA ShelfInit == Init => Shelf!ShelfInit
<1> SUFFICES ASSUME Init PROVE Installed = {} /\ Active = NoDir
  BY DEF Shelf!ShelfInit
<1> QED BY DEF Init, Installed, Active

\* A step that leaves the directories and the link is a stutter of the shelf.
LEMMA ShelfStutter ==
    ASSUME UNCHANGED <<dirs, current, layout>>
    PROVE  UNCHANGED Shelf!shelfVars
BY DEF Shelf!shelfVars, Installed, Active

LEMMA ShelfMoves ==
    ASSUME InstallInv, NEW s \in Seeds, Rename(s) \/ CopyBegin(s) \/ CopyEnd(s)
    PROVE  [Shelf!ShelfNext]_(Shelf!shelfVars)
<1>1. UNCHANGED <<current, layout>>
  BY DEF Rename, CopyBegin, CopyEnd
<1>2. CASE layout # "same"
  BY <1>1, <1>2 DEF Shelf!shelfVars, Installed, Active
<1>3. CASE layout = "same" /\ dirs[Release(s)] # "absent"
  <2>1. Rename(s)
    BY <1>3 DEF InstallInv, ShelfTrusted, CopyBegin, CopyEnd
  <2>2. dirs' = dirs
    BY <1>3, <2>1 DEF InstallInv, TypeInv, TypeOK, Rename
  <2> QED BY <1>1, <2>2, ShelfStutter
<1>4. CASE layout = "same" /\ dirs[Release(s)] = "absent"
  <2>1. Rename(s) /\ pc[s] = "move"
    BY <1>4 DEF InstallInv, ShelfTrusted, Rename, CopyBegin, CopyEnd
  <2>2. Release(s) \in Trusted /\ Release(s) \in Dirs
    BY <2>1, VerifiedIsTrusted DEF Trusted
  <2>3. dirs \in [Dirs -> {"absent", "partial", "whole"}]
    BY DEF InstallInv, TypeInv, TypeOK
  <2>4. Release(s) \notin Installed /\ Installed' = Installed \cup {Release(s)}
    BY <1>1, <1>4, <2>1, <2>2, <2>3 DEF Rename, Installed
  <2>5. Active' = Active
    BY <1>1 DEF Active
  <2> QED BY <2>2, <2>4, <2>5 DEF Shelf!ShelfNext, Shelf!Install
<1> QED BY <1>2, <1>3, <1>4

LEMMA ShelfLinks ==
    ASSUME InstallInv, NEW s \in Seeds, Unlink(s) \/ Symlink(s)
    PROVE  [Shelf!ShelfNext]_(Shelf!shelfVars)
<1>1. UNCHANGED <<dirs, layout>>
  BY DEF Unlink, Symlink
<1>2. Installed' = Installed
  BY <1>1 DEF Installed
<1>3. CASE layout # "same"
  BY <1>1, <1>2, <1>3 DEF Shelf!shelfVars, Active
<1>4. CASE layout = "same" /\ Unlink(s)
  <2>1. Active' = NoDir
    BY <1>1, <1>4 DEF Unlink, Active
  <2> QED BY <1>2, <2>1 DEF Shelf!ShelfNext, Shelf!Withdraw
<1>5. CASE layout = "same" /\ Symlink(s)
  <2>1. Active = NoDir /\ Active' = Release(s)
    BY <1>1, <1>5 DEF Symlink, Active
  <2>2. Release(s) \in Dirs /\ dirs[Release(s)] # "absent"
    BY <1>5, ReleaseIsDir DEF InstallInv, LinksToSomething, Symlink, Knowing
  <2>3. Release(s) \in Installed /\ Release(s) \in Trusted
    BY <1>5, <2>2 DEF InstallInv, ShelfTrusted, Installed
  <2> QED BY <1>2, <2>1, <2>3 DEF Shelf!ShelfNext, Shelf!Activate
<1> QED BY <1>3, <1>4, <1>5

LEMMA ShelfStep == InstallInv /\ [Next]_vars => [Shelf!ShelfNext]_(Shelf!shelfVars)
<1> SUFFICES ASSUME InstallInv, [Next]_vars PROVE [Shelf!ShelfNext]_(Shelf!shelfVars)
  OBVIOUS
<1>1. CASE UNCHANGED vars
  BY <1>1, ShelfStutter DEF vars, files
<1>2. ASSUME NEW s \in Seeds, Rename(s) \/ CopyBegin(s) \/ CopyEnd(s)
      PROVE  [Shelf!ShelfNext]_(Shelf!shelfVars)
  BY <1>2, ShelfMoves
<1>3. ASSUME NEW s \in Seeds, Unlink(s) \/ Symlink(s)
      PROVE  [Shelf!ShelfNext]_(Shelf!shelfVars)
  BY <1>3, ShelfLinks
<1>4. ASSUME NEW p \in Posts, Publish(p) PROVE UNCHANGED <<dirs, current, layout>>
  BY <1>4 DEF Publish, files
<1>5. ASSUME NEW s \in Seeds,
             \/ Begin(s) \/ Fetch(s) \/ Fetched(s) \/ Verify(s) \/ CheckPid(s)
             \/ Extract(s) \/ TakeAsItIs(s)
             \/ \E reached \in SUBSET Addresses : Resolve(s, reached)
             \/ \E got \in Received : Gateway(s, got)
      PROVE  UNCHANGED <<dirs, current, layout>>
  BY <1>5 DEF Begin, Fetch, Fetched, Verify, CheckPid, Extract, TakeAsItIs, Resolve, Gateway,
              Passes, files
<1>6. ASSUME NEW s \in Seeds,
             \/ RemoveSelf(s) \/ Exec(s) \/ Spawn(s) \/ WritePid(s)
             \/ GiveUp(s) \/ Fail(s) \/ Kill(s) \/ Import(s) \/ Die(s)
      PROVE  UNCHANGED <<dirs, current, layout>>
  BY <1>6 DEF RemoveSelf, Exec, Spawn, WritePid, GiveUp, Fail, Kill, Import, Die, files
<1>7. CASE Next
  BY <1>2, <1>3, <1>4, <1>5, <1>6, <1>7, ShelfStutter DEF Next, Shell, Install, Launch
<1> QED BY <1>1, <1>7

\* On one file system the bootstrap implements ReleaseShelf: however executions overlap,
\* fail and are killed, releases appear as a whole, are trusted and stay, and `current`
\* names one of them or nothing (bootstrap.sh:105-110).
THEOREM ShelfImplemented == Spec => ShelfKept
BY ShelfInit, InstallInit, InstallNext, ShelfStep, PTL DEF Spec, ShelfKept, Shelf!ShelfSpec
=============================================================================
