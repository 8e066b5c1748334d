------------------------ MODULE VerificationService -------------------------
(***************************************************************************)
(* What the verification gate promises its clients, without threads, gate, *)
(* tokens or attempts.  A verify request waits until it is answered once.  *)
(* An interruption (a superseding verify, a cancel, a stop) overtakes      *)
(* every request that waits at that moment, and a request that was         *)
(* overtaken is never answered with the outcome of a run.  A request can   *)
(* be answered `superseded` only by a daemon that was interrupted.  When   *)
(* the daemon goes away, waiting requests are lost.                        *)
(***************************************************************************)
EXTENDS Naturals

CONSTANTS Verifies, Verdicts

VARIABLES
    up,           \* the daemon answers requests
    interrupted,  \* some interruption reached this daemon
    phase,        \* "new", "waiting", "answered" or "lost"
    overtaken,    \* an interruption came after the request
    reply         \* how it was answered

vars == <<up, interrupted, phase, overtaken, reply>>

Replies == Verdicts \cup {"none", "superseded", "internal"}

Init ==
    /\ up = TRUE
    /\ interrupted = FALSE
    /\ phase = [r \in Verifies |-> "new"]
    /\ overtaken = [r \in Verifies |-> FALSE]
    /\ reply = [r \in Verifies |-> "none"]

Waiting(r) == up /\ phase[r] = "waiting"

Submit(r) ==
    /\ up = TRUE
    /\ phase[r] = "new"
    /\ phase' = [phase EXCEPT ![r] = "waiting"]
    /\ UNCHANGED <<up, interrupted, overtaken, reply>>

Overtake ==
    /\ interrupted' = TRUE
    /\ overtaken' = [r \in Verifies |-> overtaken[r] \/ phase[r] = "waiting"]

\* A superseding request overtakes the others and then waits itself.
SubmitSuperseding(r) ==
    /\ up = TRUE
    /\ phase[r] = "new"
    /\ Overtake
    /\ phase' = [phase EXCEPT ![r] = "waiting"]
    /\ UNCHANGED <<up, reply>>

Interrupt ==
    /\ up = TRUE
    /\ Overtake
    /\ UNCHANGED <<up, phase, reply>>

Answer(r) ==
    /\ Waiting(r)
    /\ \/ ~overtaken[r] /\ \E v \in Verdicts : reply' = [reply EXCEPT ![r] = v]
       \/ interrupted /\ reply' = [reply EXCEPT ![r] = "superseded"]
       \/ reply' = [reply EXCEPT ![r] = "internal"]
    /\ phase' = [phase EXCEPT ![r] = "answered"]
    /\ overtaken' = [overtaken EXCEPT ![r] = FALSE]
    /\ UNCHANGED <<up, interrupted>>

GoDown ==
    /\ up = TRUE
    /\ up' = FALSE
    /\ interrupted' = FALSE
    /\ phase' = [r \in Verifies |-> IF phase[r] = "waiting" THEN "lost" ELSE phase[r]]
    /\ overtaken' = [r \in Verifies |-> FALSE]
    /\ UNCHANGED reply

ComeUp ==
    /\ ~up
    /\ up' = TRUE
    /\ UNCHANGED <<interrupted, phase, overtaken, reply>>

Next ==
    \/ \E r \in Verifies : Submit(r) \/ SubmitSuperseding(r) \/ Answer(r)
    \/ Interrupt
    \/ GoDown
    \/ ComeUp

Spec == Init /\ [][Next]_vars
=============================================================================
