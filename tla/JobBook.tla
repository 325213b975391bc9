------------------------------ MODULE JobBook ------------------------------
(***************************************************************************)
(* What a client can see of a job: it is queued at a price, taken at most  *)
(* once, and either succeeds, when exactly its price is credited in the    *)
(* same step, or fails and is credited nothing.  After that it does not    *)
(* change, with one exception: where standard output may break, a success  *)
(* that cannot be printed becomes a failure and keeps its credit.          *)
(***************************************************************************)
EXTENDS Naturals

CONSTANTS
    Jobs,
    Prices,
    Faults  \* what may break: "stdout" matters here

VARIABLES
    book,   \* the status of each job
    offer,  \* the price of each queued job
    credit  \* what each job has earned

bookVars == <<book, offer, credit>>

BookInit ==
    /\ book = [j \in Jobs |-> "absent"]
    /\ offer = [j \in Jobs |-> 0]
    /\ credit = [j \in Jobs |-> 0]

Submit(j, price) ==
    /\ book[j] = "absent"
    /\ book' = [book EXCEPT ![j] = "queued"]
    /\ offer' = [offer EXCEPT ![j] = price]
    /\ UNCHANGED credit

Take(j) ==
    /\ book[j] = "queued"
    /\ book' = [book EXCEPT ![j] = "running"]
    /\ UNCHANGED <<offer, credit>>

Succeed(j) ==
    /\ book[j] = "running"
    /\ book' = [book EXCEPT ![j] = "succeeded"]
    /\ credit' = [credit EXCEPT ![j] = offer[j]]
    /\ UNCHANGED offer

\* fail_job does not ask for the status: it is called for a job that runs, or for one that
\* has succeeded when the print of the success raises.
GiveUp(j) ==
    /\ \/ book[j] = "running"
       \/ book[j] = "succeeded" /\ "stdout" \in Faults
    /\ book' = [book EXCEPT ![j] = "failed"]
    /\ UNCHANGED <<offer, credit>>

BookNext ==
    \E j \in Jobs :
        \/ \E price \in Prices : Submit(j, price)
        \/ Take(j)
        \/ Succeed(j)
        \/ GiveUp(j)

BookSpec == BookInit /\ [][BookNext]_bookVars
=============================================================================
