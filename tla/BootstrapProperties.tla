------------------------ MODULE BootstrapProperties ------------------------
(***************************************************************************)
(* What the signed bootstrap should guarantee.                             *)
(***************************************************************************)
EXTENDS Bootstrap

TypeOK ==
    /\ RaceTypeOK
    /\ chain \in Seq(Posts)
    /\ pc \in [Seeds -> {"idle", "resolve", "fetch", "verify", "checkpid", "look", "move", "copying",
                         "unlink", "symlink", "launch", "writepid", "ended", "killed"}]
    /\ mode \in [Seeds -> Modes]
    /\ mark \in [Seeds -> 0 .. Len(chain)]
    /\ workDir \in [Seeds -> BOOLEAN]
    /\ dirs \in [Dirs -> {"absent", "partial", "whole"}]
    /\ current \in Dirs \cup {NoDir}
    /\ pidFile \in Seeds \cup {NoPid}
    /\ removed \in BOOLEAN
    /\ proc \in [Seeds -> Alive \cup {"none", "dead"}]
    /\ loaded \in [Seeds -> SUBSET (Dirs \X {"absent", "partial", "whole"})]
    /\ layout \in Layouts
    /\ excuses \subseteq {"overlap", "unrecorded", "miss", "late"}

\* A directory whose release was signed and contains nothing but files and directories.
Plain(archive) == \A i \in DOMAIN archive : archive[i].kind \in {"file", "dir"}
Trusted == {d \in Dirs : d[2] \in Releases /\ Plain(Contents[d[2]])}

\* Whatever a process imports belongs to a release that the release key has signed and that
\* has no links, however seeds overlap, fail, are killed and race for `current`; and it is
\* the whole release, if mv does not have to copy it (bootstrap.sh:88-110).
Usable == IF layout = "same" THEN {"whole"} ELSE {"partial", "whole"}
LoadedVerified == \A s \in Seeds : loaded[s] \subseteq Trusted \X Usable

\* Seeds that do not overlap, and whose child is recorded, leave at most one background
\* process over the data directory (bootstrap.sh:95-100 and 129).
OneRuntime ==
    excuses \cap {"overlap", "unrecorded"} = {} =>
        \A s, t \in Seeds :
            ~mode[s].foreground /\ ~mode[t].foreground /\ proc[s] \in Alive /\ proc[t] \in Alive
            => s = t

\* A script that has ended, and was not killed, leaves no work directory behind, whichever
\* way it ended (bootstrap.sh:15-20 and 121).
NoLitter == \A s \in Seeds : pc[s] = "ended" => ~workDir[s]

\* If executions do not overlap, record their child, and are all in the background, so that
\* the PID file is asked, a process imports all its modules from one release, though it
\* finds each of them through the link that later executions change (bootstrap.sh:95-112).
OneRelease ==
    excuses \cap {"overlap", "unrecorded"} = {} /\ (\A s \in Seeds : ~mode[s].foreground) =>
        \A s \in Seeds : \A e, f \in loaded[s] : e[1] = f[1]

\* An execution that nothing overlaps, for which every address answers and during which
\* nothing is published starts the newest manifest of the chain, whatever earlier
\* executions have installed, left behind or linked (resolve_pointer.py:85,
\* bootstrap.sh:105-123).
UpToDate ==
    excuses \cap {"overlap", "miss", "late"} = {} =>
        \A s \in Seeds : pc[s] \in {"launch", "writepid"} =>
            \E i \in DOMAIN chain :
                /\ chain[i].input \in Manifests
                /\ current = Dir(chain[i].input)
                /\ \A k \in DOMAIN chain : k > i => chain[k].input \notin Manifests

\* Every execution comes to an end, though gateways never answer (fetch_resource.py:97).
SeedEnds == \A s \in Seeds : pc[s] = "resolve" ~> pc[s] \in Idle

\* What there is to see of the install root on one file system.
Installed == IF layout = "same" THEN {d \in Dirs : dirs[d] # "absent"} ELSE {}
Active == IF layout = "same" THEN current ELSE NoDir

Shelf == INSTANCE ReleaseShelf WITH shelf <- Installed, active <- Active

\* On one file system the install root is a ReleaseShelf: a release appears at once and
\* only if it is trusted, it stays, and `current` names a release that is there or, while
\* it is being replaced, nothing (bootstrap.sh:105-110).
ShelfKept == Shelf!ShelfSpec

\* docs/PROOFS.md says that the bootstrap can start only an artifact that has passed the
\* checks of digest and signature: what a process imports is such a release, as a whole.
RunsVerified == \A s \in Seeds : loaded[s] \subseteq Trusted \X {"whole"}

\* docs/DESIGN.md:19 and docs/INSIDE.md:130 say that the switch of `current` is atomic: once
\* there is a link, there always is one (bootstrap.sh:110).  The ln of the image unlinks
\* `current` first and links it then.
SwitchIsAtomic == [][current # NoDir => current' # NoDir]_current
=============================================================================
