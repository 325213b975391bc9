---------------------------- MODULE ReleaseShelf ----------------------------
(***************************************************************************)
(* What a process that imports through `current` can rely on: a release is *)
(* put on the shelf in one step and only if it is trusted, it stays there, *)
(* and `current` names a release on the shelf or nothing.  The moment at   *)
(* which it names nothing is what ln -sfn does; docs/DESIGN.md:19 speaks   *)
(* of an atomic switch, which is the property SwitchIsAtomic of            *)
(* BootstrapProperties.                                                    *)
(***************************************************************************)
CONSTANTS Trusted, NoDir

VARIABLES
    shelf,  \* releases that are installed as a whole
    active  \* the release that `current` names

shelfVars == <<shelf, active>>

ShelfInit == shelf = {} /\ active = NoDir

Install(d) ==
    /\ d \in Trusted \ shelf
    /\ shelf' = shelf \cup {d}
    /\ UNCHANGED active

\* The link is removed before it is made again.
Withdraw == active' = NoDir /\ UNCHANGED shelf

Activate(d) ==
    /\ active = NoDir
    /\ d \in shelf
    /\ active' = d
    /\ UNCHANGED shelf

ShelfNext == Withdraw \/ \E d \in Trusted : Install(d) \/ Activate(d)

ShelfSpec == ShelfInit /\ [][ShelfNext]_shelfVars
=============================================================================
