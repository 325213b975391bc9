----------------------------- MODULE Providers -----------------------------
(***************************************************************************)
(* The language-model providers of providers.py, as functions of what the  *)
(* endpoints answer.  A prompt and a reply are one of four answers, told   *)
(* apart by whether generate() returns and whether the vendor charges.     *)
(***************************************************************************)
EXTENDS Naturals

CONSTANTS
    HasFallback,  \* is EOH_FALLBACK_MODEL set?
    Answers       \* what endpoints answer

\* usable:   a JSON object with at least one variant that has a body;
\* unusable: a reply that json.loads, the lookup of choices[0] or
\*           _extract_json_object rejects;
\* lost:     the reply does not arrive before the time-out;
\* refused:  an HTTP error, or no connection.
AllAnswers == {"usable", "unusable", "lost", "refused"}

ASSUME ProviderAssumption == HasFallback \in BOOLEAN /\ Answers \subseteq AllAnswers

\* OpenAICompatibleProvider.generate returns ...
Returns(answer) == answer = "usable"

\* ... and the vendor has done the work, whether it returns or raises.
Bill(answer) == IF answer = "refused" THEN 0 ELSE 1

\* FallbackProvider.generate: does it return, and how many calls are charged?
Call(primary, fallback) ==
    [returns |-> Returns(primary) \/ (HasFallback /\ Returns(fallback)),
     bills |-> IF Returns(primary) \/ ~HasFallback
               THEN Bill(primary)
               ELSE Bill(primary) + Bill(fallback)]

MaxBills == IF HasFallback THEN 2 ELSE 1
=============================================================================
