---------------------------- MODULE GatewayRace ----------------------------
(***************************************************************************)
(* bootstrap/fetch_resource.py: one thread per gateway downloads into a    *)
(* temporary file of its own and puts its result in a queue; the main      *)
(* thread takes results until one is a success, moves that file to the     *)
(* output, removes the temporary files and returns, while the other        *)
(* threads run on until the process ends.  Several executions do so at     *)
(* once, each in a directory of its own.  A file:// or https:// URI is a   *)
(* race of one.                                                            *)
(***************************************************************************)
EXTENDS Naturals, Sequences

CONSTANTS
    Seeds,     \* executions of bootstrap.sh, each with its fetcher
    Gateways,  \* the gateways of EOH_IPFS_GATEWAYS
    Bodies     \* whole responses

\* Contents of a file that is not a whole response: none, one that is being written, and
\* one that was closed when the connection ended before the response did.
NoFile == "missing"
Part == "part"
Cut == "cut"
ASSUME BodyAssumption == {NoFile, Part, Cut} \cap Bodies = {}

Received == Bodies \cup {Cut}

VARIABLES
    race,     \* where each main thread is
    worker,   \* where each download thread is
    temp,     \* the temporary file of each thread
    results,  \* the queue of each race: gateways and whether they succeeded
    output    \* the output file of each fetcher

raceVars == <<race, worker, temp, results, output>>

RaceInit ==
    /\ race = [f \in Seeds |-> "off"]
    /\ worker = [f \in Seeds |-> [g \in Gateways |-> "off"]]
    /\ temp = [f \in Seeds |-> [g \in Gateways |-> NoFile]]
    /\ results = [f \in Seeds |-> << >>]
    /\ output = [f \in Seeds |-> NoFile]

At(f, where) == race[f] = where
Move(f, where) == race' = [race EXCEPT ![f] = where]
WorkerTo(f, g, where) == worker' = [worker EXCEPT ![f][g] = where]

\* mkstemp and a thread for every gateway, before the first result is read.
StartRace(f) ==
    /\ Move(f, "racing")
    /\ worker' = [worker EXCEPT ![f] = [g \in Gateways |-> "asking"]]
    /\ temp' = [temp EXCEPT ![f] = [g \in Gateways |-> Part]]
    /\ results' = [results EXCEPT ![f] = << >>]
    /\ output' = [output EXCEPT ![f] = NoFile]

-----------------------------------------------------------------------------
\* The thread of gateway g.  The response is there: the file is opened with "wb",
\* which creates it again if the main thread has removed it.
Respond(f, g) ==
    /\ worker[f][g] = "asking"
    /\ WorkerTo(f, g, "writing")
    /\ temp' = [temp EXCEPT ![f][g] = Part]
    /\ UNCHANGED <<race, results, output>>

\* read() returns nothing, at the end of the response or because the gateway has closed the
\* connection early, which looks the same, and the file is closed; if it was removed
\* meanwhile, nobody sees what was written.
Finish(f, g, got) ==
    /\ worker[f][g] = "writing"
    /\ WorkerTo(f, g, "written")
    /\ temp' = [temp EXCEPT ![f][g] = IF @ = NoFile THEN NoFile ELSE got]
    /\ UNCHANGED <<race, results, output>>

\* Faulty variant: a thread reports as soon as its response begins.
ReportEarly(f, g) ==
    /\ worker[f][g] \in {"writing", "written"}
    /\ WorkerTo(f, g, "done")
    /\ results' = [results EXCEPT ![f] = Append(@, <<g, TRUE>>)]
    /\ UNCHANGED <<race, temp, output>>

Report(f, g) ==
    /\ worker[f][g] = "written"
    /\ WorkerTo(f, g, "done")
    /\ results' = [results EXCEPT ![f] = Append(@, <<g, TRUE>>)]
    /\ UNCHANGED <<race, temp, output>>

\* Refused, timed out or too large: the file is removed, then the error is put.
GiveUpOn(f, g) ==
    /\ worker[f][g] \in {"asking", "writing"}
    /\ WorkerTo(f, g, "done")
    /\ temp' = [temp EXCEPT ![f][g] = NoFile]
    /\ results' = [results EXCEPT ![f] = Append(@, <<g, FALSE>>)]
    /\ UNCHANGED <<race, output>>

Download(f, got) ==
    \E g \in Gateways :
        Respond(f, g) \/ Finish(f, g, got) \/ Report(f, g) \/ GiveUpOn(f, g)

-----------------------------------------------------------------------------
\* The main thread.  A success is moved to the output ...
Accept(f) ==
    /\ At(f, "racing")
    /\ results[f] # << >>
    /\ Head(results[f])[2]
    /\ LET g == Head(results[f])[1]
       IN  /\ output' = [output EXCEPT ![f] = temp[f][g]]
           /\ temp' = [temp EXCEPT ![f][g] = NoFile]
    /\ results' = [results EXCEPT ![f] = Tail(@)]
    /\ Move(f, "won")
    /\ UNCHANGED worker

\* ... an error is noted, and the last one ends the race.
Skip(f) ==
    /\ At(f, "racing")
    /\ results[f] # << >>
    /\ ~Head(results[f])[2]
    /\ results' = [results EXCEPT ![f] = Tail(@)]
    /\ Move(f, IF Len(results[f]) = 1 /\ \A g \in Gateways : worker[f][g] = "done"
               THEN "lost" ELSE "racing")
    /\ UNCHANGED <<worker, temp, output>>

\* Faulty variant: results.get() without a time-out.
NeverTimeOut(f) == FALSE /\ UNCHANGED raceVars

\* Nothing has come for 25 seconds: results.get() raises.
TimeOut(f) ==
    /\ At(f, "racing")
    /\ results[f] = << >>
    /\ Move(f, "lost")
    /\ UNCHANGED <<worker, temp, results, output>>

\* finally: the temporary files are removed, in the order of the threads; each
\* thread sees only its own go.
Tidy(f) ==
    /\ race[f] \in {"won", "lost"}
    /\ Move(f, IF At(f, "won") THEN "fetched" ELSE "failed")
    /\ temp' = [temp EXCEPT ![f] = [g \in Gateways |-> NoFile]]
    /\ UNCHANGED <<worker, results, output>>

MainThread(f) == Accept(f) \/ Skip(f) \/ TimeOut(f) \/ Tidy(f)

\* The process ends, and its daemon threads with it.
EndRace(f) ==
    /\ Move(f, "off")
    /\ worker' = [worker EXCEPT ![f] = [g \in Gateways |-> "off"]]
    /\ results' = [results EXCEPT ![f] = << >>]

-----------------------------------------------------------------------------
RaceTypeOK ==
    /\ race \in [Seeds -> {"off", "racing", "won", "lost", "fetched", "failed"}]
    /\ worker \in [Seeds -> [Gateways -> {"off", "asking", "writing", "written", "done"}]]
    /\ temp \in [Seeds -> [Gateways -> Received \cup {NoFile, Part}]]
    /\ results \in [Seeds -> Seq(Gateways \X BOOLEAN)]
    /\ output \in [Seeds -> Received \cup {NoFile, Part}]

\* What a race hands on is the one response that a gateway has delivered, as far as its
\* connection lasted: never a file that a thread still writes, and never none, whatever
\* the threads that lost do to their files (_race_http, _download_worker).  That it is
\* whole only the digest shows.
OutputClosed ==
    \A f \in Seeds : race[f] \in {"won", "fetched"} => output[f] \in Received
=============================================================================
