----------------------------- MODULE Bootstrap -----------------------------
(***************************************************************************)
(* bootstrap.sh: executions of the script ("seeds") install signed         *)
(* releases under one install root and start the program from it.  They    *)
(* may overlap, fail at any statement and be killed; the fetch in the      *)
(* middle is the race of GatewayRace.  The processes they start import     *)
(* their modules through the symbolic link `current`.                      *)
(***************************************************************************)
EXTENDS GatewayRace, Pointer, SafeExtract, FiniteSets

CONSTANTS
    Releases,   \* the responses that the release key has signed
    Contents,   \* the members of each response, taken as an archive
    NoSignature,
    Posts,      \* transactions the publisher may send: [to, input]
    MaxPosts,   \* bound: how many of them
    Modes,      \* EOH_FOREGROUND and EOH_REMOVE_BOOTSTRAP of an execution
    NoDir,
    NoPid,
    Layouts     \* is TMPDIR on the file system of the install root?

ASSUME BootstrapAssumption ==
    /\ Releases \subseteq Bodies
    /\ Contents \in [Bodies -> Seq(Member)]
    /\ NoSignature \notin Releases
    /\ \A m \in Manifests : m.sha \in Bodies /\ m.signature \in Releases \cup {NoSignature}
    /\ Posts \subseteq [to : {p.to : p \in Posts}, input : Manifests \cup {Noise, Prose}]
    /\ MaxPosts \in Nat
    /\ Modes \subseteq [foreground : BOOLEAN, removeSelf : BOOLEAN]
    /\ Modes # {}
    /\ NoPid \notin Seeds
    /\ Layouts \subseteq {"same", "cross"}

Addresses == {p.to : p \in Posts}

\* RELEASE_DIR.  Of the digest the code takes 48 bits, enough to tell releases
\* of one version apart.
Dir(m) == <<m.version, m.sha>>
Dirs == {Dir(m) : m \in Manifests}
ASSUME DirAssumption == NoDir \notin Dirs

VARIABLES
    chain,    \* the transactions, in the order of their keys
    pc,       \* the next statement of each seed
    mode,     \* its settings
    mark,     \* the transaction it has resolved, 0 before
    workDir,  \* does WORK_DIR exist?
    dirs,     \* what is under releases/
    current,  \* where the link `current` points
    pidFile,  \* the seed whose child is in the PID file
    removed,  \* has the script removed itself?
    proc,     \* the process that a seed has started or become
    loaded,   \* what it has imported so far: directories and how complete they were
    layout,   \* of the file systems; never changes
    excuses   \* history: what has happened that the script does not guard against

files == <<dirs, current, pidFile, removed>>
processes == <<proc, loaded>>
vars == <<raceVars, chain, pc, mode, mark, workDir, files, processes, layout, excuses>>

Idle == {"idle", "ended", "killed"}
Alive == {"starting", "importing", "running"}

Manifest(s) == chain[mark[s]].input
Release(s) == Dir(Manifest(s))

Init ==
    /\ RaceInit
    /\ chain = << >>
    /\ pc = [s \in Seeds |-> "idle"]
    /\ mode \in [Seeds -> Modes]
    /\ mark = [s \in Seeds |-> 0]
    /\ workDir = [s \in Seeds |-> FALSE]
    /\ dirs = [d \in Dirs |-> "absent"]
    /\ current = NoDir
    /\ pidFile = NoPid
    /\ removed = FALSE
    /\ proc = [s \in Seeds |-> "none"]
    /\ loaded = [s \in Seeds |-> {}]
    /\ layout \in Layouts
    /\ excuses = {}

Goes(s, to) == pc' = [pc EXCEPT ![s] = to]

\* A check that lets the seed pass.
Passes(s, to) ==
    /\ Goes(s, to)
    /\ UNCHANGED <<raceVars, chain, mode, mark, workDir, files, processes, layout, excuses>>

\* The seed and its fetcher are no more, and nobody reads what was in WORK_DIR again.
Gone(s) ==
    /\ EndRace(s)
    /\ temp' = [temp EXCEPT ![s] = [g \in Gateways |-> NoFile]]
    /\ output' = [output EXCEPT ![s] = NoFile]
    /\ mark' = [mark EXCEPT ![s] = 0]

\* The EXIT trap: rm -rf "$WORK_DIR".
Exit(s) ==
    /\ Goes(s, "ended")
    /\ workDir' = [workDir EXCEPT ![s] = FALSE]
    /\ Gone(s)

\* History: what the code does not guard against.  The PID file is read long before it is
\* written, so executions must not overlap; a child that is started and not
\* recorded is not found; an address that does not answer is passed over, and what is
\* published after it has been asked is not seen.
Excused(what) == excuses' = excuses \cup what
AtWork == {s \in Seeds : pc[s] \notin Idle}
Unrecorded(s) == IF pc[s] = "writepid" THEN {"unrecorded"} ELSE {}

-----------------------------------------------------------------------------
\* The publisher sends a transaction (tools/publish_eth_pointer.py).
Publish(p) ==
    /\ Len(chain) < MaxPosts
    /\ chain' = Append(chain, p)
    /\ Excused(IF AtWork # {} THEN {"late"} ELSE {})
    /\ UNCHANGED <<raceVars, pc, mode, mark, workDir, files, processes, layout>>

\* The script is there and makes its work directory.
Begin(s) ==
    /\ pc[s] = "idle"
    /\ ~removed
    /\ Goes(s, "resolve")
    /\ workDir' = [workDir EXCEPT ![s] = TRUE]
    /\ excuses' = IF AtWork # {} THEN excuses \cup {"overlap"} ELSE excuses \ {"miss", "late"}
    /\ UNCHANGED <<raceVars, chain, mode, mark, files, processes, layout>>

\* resolve_pointer.py and the check of its manifest's fields.
Resolve(s, reached) ==
    /\ pc[s] = "resolve"
    /\ \E i \in DOMAIN chain :
        /\ Resolves(i, chain, reached)
        /\ mark' = [mark EXCEPT ![s] = i]
    /\ Excused(IF reached # Addresses THEN {"miss"} ELSE {})
    /\ Goes(s, "fetch")
    /\ UNCHANGED <<raceVars, chain, mode, workDir, files, processes, layout>>

\* fetch_resource.py: the race, and its end when the main thread returns.
Fetch(s) ==
    /\ pc[s] = "fetch"
    /\ IF race[s] = "off" THEN StartRace(s) ELSE MainThread(s)
    /\ UNCHANGED <<chain, pc, mode, mark, workDir, files, processes, layout, excuses>>

Gateway(s, got) ==
    /\ Download(s, got)
    /\ UNCHANGED <<chain, pc, mode, mark, workDir, files, processes, layout, excuses>>

Fetched(s) ==
    /\ pc[s] = "fetch"
    /\ race[s] = "fetched"
    /\ Goes(s, "verify")
    /\ EndRace(s)
    /\ UNCHANGED <<temp, output, chain, mode, mark, workDir, files, processes, layout, excuses>>

\* Faulty variant: the digest is compared, the signature is not.
DigestOnly(s) == output[s] = Manifest(s).sha

\* The digest is the manifest's and the signature is the release key's.
Genuine(s) ==
    /\ output[s] = Manifest(s).sha
    /\ output[s] \in Releases
    /\ output[s] = Manifest(s).signature

Verify(s) ==
    /\ pc[s] = "verify"
    /\ Genuine(s)
    /\ Passes(s, IF mode[s].foreground THEN "look" ELSE "checkpid")

\* kill -0 $(cat "$PID_FILE")
IsRunning(pid) == pid # NoPid /\ proc[pid] \in Alive

\* Faulty variant: the file is read, the process is not looked for.
CheckPidFile(s) == pc[s] = "checkpid" /\ Passes(s, "look")

CheckPid(s) ==
    /\ pc[s] = "checkpid"
    /\ ~IsRunning(pidFile)
    /\ Passes(s, "look")

-----------------------------------------------------------------------------
Installable(s) == Unpacks(Contents[output[s]]) /\ HasEntryPoint(Contents[output[s]])

\* if [ ! -d "$RELEASE_DIR" ]: the archive is unpacked into the work directory ...
Extract(s) ==
    /\ pc[s] = "look"
    /\ dirs[Release(s)] = "absent"
    /\ Installable(s)
    /\ Passes(s, "move")

\* ... and whatever directory is there already is taken as it is.
TakeAsItIs(s) ==
    /\ pc[s] = "look"
    /\ dirs[Release(s)] # "absent"
    /\ Passes(s, "unlink")

\* mv within one file system renames.  If another seed has made the directory
\* meanwhile, `staging` is moved into it, where nothing is imported from.
Rename(s) ==
    /\ pc[s] = "move"
    /\ dirs[Release(s)] # "absent" \/ layout = "same"
    /\ dirs' = [dirs EXCEPT ![Release(s)] = IF @ = "absent" THEN "whole" ELSE @]
    /\ Goes(s, "unlink")
    /\ UNCHANGED <<raceVars, chain, mode, mark, workDir, current, pidFile, removed, processes, layout, excuses>>

\* mv across file systems copies file by file; whoever looks meanwhile, or after
\* a failure, finds a part.
CopyBegin(s) ==
    /\ pc[s] = "move"
    /\ dirs[Release(s)] = "absent"
    /\ layout = "cross"
    /\ dirs' = [dirs EXCEPT ![Release(s)] = "partial"]
    /\ Goes(s, "copying")
    /\ UNCHANGED <<raceVars, chain, mode, mark, workDir, current, pidFile, removed, processes, layout, excuses>>

CopyEnd(s) ==
    /\ pc[s] = "copying"
    /\ dirs' = [dirs EXCEPT ![Release(s)] = "whole"]
    /\ Goes(s, "unlink")
    /\ UNCHANGED <<raceVars, chain, mode, mark, workDir, current, pidFile, removed, processes, layout, excuses>>

\* ln -sfn as the shell of Dockerfile.bootstrap's image has it: unlink, then symlink,
\* which fails if another seed has made the link in between.
Unlink(s) ==
    /\ pc[s] = "unlink"
    /\ current' = NoDir
    /\ Goes(s, "symlink")
    /\ UNCHANGED <<raceVars, chain, mode, mark, workDir, dirs, pidFile, removed, processes, layout, excuses>>

\* Faulty variant: the link names the version without the digest.
SymlinkBare(s) ==
    /\ pc[s] = "symlink"
    /\ current = NoDir
    /\ current' = <<Manifest(s).version>>
    /\ Goes(s, "launch")
    /\ UNCHANGED <<raceVars, chain, mode, mark, workDir, dirs, pidFile, removed, processes, layout, excuses>>

Symlink(s) ==
    /\ pc[s] = "symlink"
    /\ current = NoDir
    /\ current' = Release(s)
    /\ Goes(s, "launch")
    /\ UNCHANGED <<raceVars, chain, mode, mark, workDir, dirs, pidFile, removed, processes, layout, excuses>>

\* rm -f -- "$0" || true: the script goes on if it cannot be removed.
RemoveSelf(s) ==
    /\ pc[s] = "launch"
    /\ mode[s].removeSelf
    /\ ~removed
    /\ removed' = TRUE
    /\ UNCHANGED <<raceVars, chain, pc, mode, mark, workDir, dirs, current, pidFile, processes, layout, excuses>>

Started(s) == proc' = [proc EXCEPT ![s] = "starting"] /\ UNCHANGED loaded

\* Faulty variant: exec without the cleanup before it.
ExecUncleaned(s) ==
    /\ pc[s] = "launch"
    /\ mode[s].foreground
    /\ Goes(s, "ended")
    /\ Gone(s)
    /\ Started(s)
    /\ UNCHANGED <<chain, mode, workDir, files, layout, excuses>>

\* In the foreground the shell cleans up itself, since exec replaces it and its trap.
Exec(s) ==
    /\ pc[s] = "launch"
    /\ mode[s].foreground
    /\ Exit(s)
    /\ Started(s)
    /\ UNCHANGED <<chain, mode, files, layout, excuses>>

\* nohup ... &
Spawn(s) ==
    /\ pc[s] = "launch"
    /\ ~mode[s].foreground
    /\ Goes(s, "writepid")
    /\ Started(s)
    /\ UNCHANGED <<raceVars, chain, mode, mark, workDir, files, layout, excuses>>

\* Faulty variant: the PID is announced and not written.
WritePidNot(s) ==
    /\ pc[s] = "writepid"
    /\ Exit(s)
    /\ UNCHANGED <<chain, mode, files, processes, layout, excuses>>

WritePid(s) ==
    /\ pc[s] = "writepid"
    /\ pidFile' = s
    /\ Exit(s)
    /\ UNCHANGED <<chain, mode, dirs, current, removed, processes, layout, excuses>>

-----------------------------------------------------------------------------
\* A check does not let the seed pass: fail(), or a helper raises.
Refused(s) ==
    \/ pc[s] = "resolve" /\ \E reached \in SUBSET Addresses :
                                \A i \in DOMAIN chain : ~Resolves(i, chain, reached)
    \/ pc[s] = "fetch" /\ race[s] = "failed"
    \/ pc[s] = "verify" /\ ~Genuine(s)
    \/ pc[s] = "checkpid" /\ IsRunning(pidFile)
    \/ pc[s] = "look" /\ dirs[Release(s)] = "absent" /\ ~Installable(s)
    \/ pc[s] = "symlink" /\ current # NoDir

GiveUp(s) ==
    /\ Refused(s)
    /\ Exit(s)
    /\ UNCHANGED <<chain, mode, files, processes, layout, excuses>>

\* Any statement may fail and any signal be caught: set -e and the traps end the script
\* and clean up.
Fail(s) ==
    /\ pc[s] \notin Idle
    /\ Exit(s)
    /\ Excused(Unrecorded(s))
    /\ UNCHANGED <<chain, mode, files, processes, layout>>

\* kill -9, or the end of the container: no trap runs.
Kill(s) ==
    /\ pc[s] \notin Idle
    /\ Goes(s, "killed")
    /\ Gone(s)
    /\ Excused(Unrecorded(s))
    /\ UNCHANGED <<chain, mode, workDir, files, processes, layout>>

\* The process imports modules through `current`: first __main__, then the modules that
\* it needs.
Import(s) ==
    /\ proc[s] \in {"starting", "importing"}
    /\ current # NoDir
    /\ proc' = [proc EXCEPT ![s] = IF @ = "starting" THEN "importing" ELSE "running"]
    /\ loaded' = [loaded EXCEPT ![s] = @ \cup {<<current, dirs[current]>>}]
    /\ UNCHANGED <<raceVars, chain, pc, mode, mark, workDir, files, layout, excuses>>

\* It ends, for reasons of its own or because there is nothing to import.
Die(s) ==
    /\ proc[s] \in Alive
    /\ proc' = [proc EXCEPT ![s] = "dead"]
    /\ loaded' = [loaded EXCEPT ![s] = {}]
    /\ UNCHANGED <<raceVars, chain, pc, mode, mark, workDir, files, layout, excuses>>

-----------------------------------------------------------------------------
Install(s) == Extract(s) \/ TakeAsItIs(s) \/ Rename(s) \/ CopyBegin(s) \/ CopyEnd(s)
Launch(s) == Unlink(s) \/ Symlink(s) \/ RemoveSelf(s) \/ Exec(s) \/ Spawn(s) \/ WritePid(s)

\* What a seed does if nothing goes wrong with it.
Shell(s) ==
    \/ \E reached \in SUBSET Addresses : Resolve(s, reached)
    \/ Fetch(s) \/ Fetched(s) \/ Verify(s) \/ CheckPid(s) \/ Install(s) \/ Launch(s) \/ GiveUp(s)

Next ==
    \/ \E p \in Posts : Publish(p)
    \/ \E s \in Seeds :
        \/ Begin(s) \/ Shell(s) \/ Fail(s) \/ Kill(s) \/ Import(s) \/ Die(s)
        \/ \E got \in Received : Gateway(s, got)

Spec == Init /\ [][Next]_vars

\* A running shell and its fetcher are scheduled; nothing is asked of the gateways,
\* the publisher or the processes that are started.
Fairness == \A s \in Seeds : WF_vars(Shell(s))

FairSpec == Spec /\ Fairness
=============================================================================
