----------------------------- MODULE HalPromise -----------------------------
(***************************************************************************)
(* What the hal promises to those who send requests through it, without    *)
(* its threads, queues, transaction ids and barriers.  A request is made,  *)
(* then enqueued.  If an answer is owed it is reported to the requester    *)
(* exactly once, as a success or as an error, and is kept until then; the  *)
(* service drops it in one case only, when it shuts down.  Nothing is      *)
(* reported after that.                                                    *)
(***************************************************************************)
CONSTANT Requests

VARIABLES
    phase,      \* what has become of each request
    serving     \* the service has not shut down

vars == <<phase, serving>>

Outcomes == {"success", "error"}
Phases == {"unused", "made", "accepted", "posted", "released"} \union Outcomes

Init ==
    /\ phase = [t \in Requests |-> "unused"]
    /\ serving = TRUE

Moves(S, from, to) ==
    /\ \A t \in S: phase[t] \in from
    /\ phase' = [t \in Requests |-> IF t \in S THEN to ELSE phase[t]]

Make(t) == Moves({t}, {"unused"}, "made") /\ UNCHANGED serving

(* An answer is owed ("accepted"), or none is ("posted").                  *)
Enqueue(t) ==
    /\ \E to \in {"accepted", "posted"}: Moves({t}, {"made"}, to)
    /\ UNCHANGED serving

(* A request without an answer is out of the service's hands once sent.    *)
HandOver(t) == Moves({t}, {"posted"}, "released") /\ UNCHANGED serving

(* One message of the switch may answer any number of requests.            *)
Report(S, outcome) ==
    /\ serving
    /\ Moves(S, {"accepted"}, outcome)
    /\ UNCHANGED serving

ShutDown ==
    /\ serving
    /\ serving' = FALSE
    /\ LET outstanding == {t \in Requests: phase[t] \in {"accepted", "posted"}}
       IN  Moves(outstanding, {"accepted", "posted"}, "released")

Next ==
    \/ \E t \in Requests: Make(t) \/ Enqueue(t) \/ HandOver(t)
    \/ \E S \in SUBSET Requests, outcome \in Outcomes: Report(S, outcome)
    \/ ShutDown

Spec == Init /\ [][Next]_vars

=============================================================================
