---------------------------- MODULE MCBootstrap ----------------------------
(***************************************************************************)
(* Instances of Bootstrap: two good releases, a signed one that contains a *)
(* symbolic link, and a response that nobody signed.                       *)
(***************************************************************************)
EXTENDS BootstrapProperties, TLC

CONSTANTS
    r1, r2, linky, junk, a1, a2,
    Signed,  \* the releases of this instance
    Others   \* what transactions carry besides manifests

MCReleases == Signed
MCBodies == Signed \cup {junk}

A(kind, path) == [kind |-> kind, path |-> path, absolute |-> FALSE, size |-> 1]
Main == A("file", <<"earn_or_halt", "__main__.py">>)
MCContents ==
    [body \in MCBodies |-> IF body = linky THEN <<A("symlink", <<"data">>), Main>> ELSE <<Main>>]

First == [version |-> 1, sha |-> r1, signature |-> r1]
Second == [version |-> 2, sha |-> r2, signature |-> r2]
Linky == [version |-> 2, sha |-> linky, signature |-> linky]
Unsigned == [version |-> 2, sha |-> junk, signature |-> NoSignature]
MCManifests == {m \in {First, Second, Linky, Unsigned} : m.sha \in MCBodies}

MCPosts ==
    {p \in [to : {a1, a2}, input : MCManifests \cup Others] :
        p.to = IF p.input \in {First, Linky} THEN a1 ELSE a2}

MCModes == {[foreground |-> TRUE, removeSelf |-> TRUE], [foreground |-> FALSE, removeSelf |-> FALSE]}

SeedSymmetry == Permutations(Seeds)
=============================================================================
