---------------------------- MODULE SafeExtract ----------------------------
(***************************************************************************)
(* bootstrap/safe_extract.py: which archives are unpacked.  An archive is  *)
(* the sequence of its members, a path the sequence of its parts.  All     *)
(* members are judged before the first is written.                         *)
(***************************************************************************)
EXTENDS Naturals, Sequences, SequencesExt

CONSTANTS MaxFiles, MaxBytes

Member == [kind : {"file", "dir", "link", "symlink", "device", "fifo"},
           path : Seq(STRING), absolute : BOOLEAN, size : Nat]

\* _safe_destination: no absolute path and no "..".  The second test, that the
\* resolved path is inside the destination, adds nothing in a directory without
\* symbolic links.
SafeDestination(member) ==
    ~member.absolute /\ \A i \in DOMAIN member.path : member.path[i] # ".."

Size(member) == IF member.kind = "file" THEN member.size ELSE 0
Expanded(archive) ==
    FoldLeft(LAMBDA total, member : total + Size(member), 0, archive)

\* Faulty variant: links are unpacked like files.
UnpacksLinks(archive) ==
    /\ Len(archive) <= MaxFiles
    /\ Expanded(archive) <= MaxBytes
    /\ \A i \in DOMAIN archive : SafeDestination(archive[i])

\* extract() does not raise because of what is in the archive.
Unpacks(archive) ==
    /\ Len(archive) <= MaxFiles
    /\ \A i \in DOMAIN archive : archive[i].kind \in {"file", "dir"}
    /\ Expanded(archive) <= MaxBytes
    /\ \A i \in DOMAIN archive : SafeDestination(archive[i])

\* bootstrap.sh looks for the entry point in what has been unpacked.
HasEntryPoint(archive) ==
    \E i \in DOMAIN archive : /\ archive[i].kind = "file"
                              /\ archive[i].path = <<"earn_or_halt", "__main__.py">>
=============================================================================
