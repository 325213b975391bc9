------------------------------ MODULE Pointer ------------------------------
(***************************************************************************)
(* bootstrap/resolve_pointer.py: what the newest usable transaction to one *)
(* of the vanity addresses carries.  A chain is the sequence of these      *)
(* transactions by timestamp, block and position, so that the sort key is  *)
(* the index; each goes to an address and carries the text of a manifest,  *)
(* Prose (text that is no manifest) or Noise (no text at all).  A pointer  *)
(* file or URL is a chain with one address.                                *)
(***************************************************************************)
EXTENDS Naturals, Sequences

CONSTANTS Manifests, Noise, Prose
ASSUME InputAssumption ==
    Noise \notin Manifests /\ Prose \notin Manifests /\ Noise # Prose

\* What the queries of the addresses that answer give; the others only add to the
\* list of errors.
Candidates(chain, reached) ==
    {i \in DOMAIN chain : chain[i].to \in reached /\ chain[i].input # Noise}

\* Faulty variant: the candidates are sorted, but not in reverse.
IsOldest(i, candidates) == i \in candidates /\ \A k \in candidates : i <= k

IsNewest(i, candidates) == i \in candidates /\ \A k \in candidates : k <= i

\* The resolver writes the manifest of transaction i.  It raises if there is no such i:
\* the newest candidate is not passed over because it is no manifest.
Resolves(i, chain, reached) ==
    /\ IsNewest(i, Candidates(chain, reached))
    /\ chain[i].input \in Manifests
=============================================================================
