--------------------------- MODULE EconomicPolicy ---------------------------
(***************************************************************************)
(* The economic policy of earn_or_halt/policy.py: a pure function from the *)
(* statistics of the books to "continue" or to the reason of a halt.       *)
(* Amounts are whole cents.  The margin is compared as exact fractions: the *)
(* code divides in floating point, which can differ in the last digit.     *)
(***************************************************************************)
EXTENDS Integers

CONSTANTS
    StartingCreditCents,         \* credit the organism is born with
    GraceJobs,                   \* successes before the margin matters
    MinimumMarginPercent,        \* smallest margin that is allowed to live
    DailyCostCapCents,           \* 0 switches the daily cap off
    MaximumConsecutiveFailures,  \* 0 switches the failure limit off
    MaximumIdleCycles,           \* 0 switches the idle limit off
    HaltOnNoFunds                \* is a job refused when credit is short?

ASSUME PolicyAssumption ==
    /\ StartingCreditCents \in Nat
    /\ GraceJobs \in Nat
    /\ MinimumMarginPercent \in Int
    /\ DailyCostCapCents \in Nat
    /\ MaximumConsecutiveFailures \in Nat
    /\ MaximumIdleCycles \in Nat
    /\ HaltOnNoFunds \in BOOLEAN

Continue == "continue"
Operator == "operator"  \* the reason an operator gives

\* The policy's own reasons, by the order in which evaluate tries them.
Rank ==
    [failures |-> 1, dailycap |-> 2, nofunds |-> 3,
     norevenue |-> 4, margin |-> 5, idle |-> 6]
PolicyReasons == DOMAIN Rank
Reasons == PolicyReasons \cup {Operator}

\* What evaluate reads of the statistics.
Statistics ==
    [revenue : Nat, cost : Nat, daily : Nat, succeeded : Nat, failures : Nat]

Available(revenue, cost) == StartingCreditCents + revenue - cost

MarginTooThin(s) ==
    /\ s.revenue > 0
    /\ (s.revenue - s.cost) * 100 < MinimumMarginPercent * s.revenue

\* Faulty variant: the cap and the failure limit are noticed one step late.
AppliesLate(reason, s, next, idle) ==
    \/ reason = "failures" /\ s.failures > MaximumConsecutiveFailures
    \/ reason = "dailycap" /\ s.daily > DailyCostCapCents
    \/ reason = "nofunds" /\ next > Available(s.revenue, s.cost)
    \/ reason = "norevenue" /\ s.succeeded >= GraceJobs /\ s.revenue <= 0
    \/ reason = "margin" /\ s.succeeded >= GraceJobs /\ MarginTooThin(s)

\* The condition under which each reason applies, next being the cost of the
\* call about to be made and idle the number of idle cycles.
Applies(reason, s, next, idle) ==
    \/ /\ reason = "failures"
       /\ MaximumConsecutiveFailures # 0
       /\ s.failures >= MaximumConsecutiveFailures
    \/ /\ reason = "dailycap"
       /\ DailyCostCapCents # 0
       /\ s.daily + next > DailyCostCapCents
    \/ /\ reason = "nofunds"
       /\ HaltOnNoFunds
       /\ next > Available(s.revenue, s.cost)
    \/ /\ reason = "norevenue"
       /\ s.succeeded >= GraceJobs
       /\ s.revenue <= 0
    \/ /\ reason = "margin"
       /\ s.succeeded >= GraceJobs
       /\ MarginTooThin(s)
    \/ /\ reason = "idle"
       /\ MaximumIdleCycles # 0
       /\ idle >= MaximumIdleCycles

Objections(s, next, idle) ==
    {reason \in PolicyReasons : Applies(reason, s, next, idle)}

\* Faulty variant: the halt flag is not asked.
EvaluateFlagUnread(s, next, flag, idle) ==
    LET objections == Objections(s, next, idle)
    IN  IF objections = {} THEN Continue
        ELSE CHOOSE reason \in objections :
                 \A other \in objections : Rank[reason] <= Rank[other]

\* A halt flag already set wins over every other reason and is repeated.
Evaluate(s, next, flag, idle) ==
    LET objections == Objections(s, next, idle)
    IN  IF flag \in Reasons THEN flag
        ELSE IF objections = {} THEN Continue
        ELSE CHOOSE reason \in objections :
                 \A other \in objections : Rank[reason] <= Rank[other]
=============================================================================
