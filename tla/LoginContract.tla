--------------------------- MODULE LoginContract ---------------------------
(***************************************************************************)
(* What a login on one connection promises, without mechanisms, messages   *)
(* or exceptions: the client makes claims, and at some point there is one  *)
(* verdict.  The client is let in as a user only if a claim it made        *)
(* entitles it to be that user, and a verdict is never taken back.         *)
(***************************************************************************)
CONSTANTS
    User,
    Claim,
    Entitled,   \* for every user, the claims that entitle a client to be it
    None

VARIABLES
    status,   \* "pending", then the verdict: "granted", "denied" or "failed"
    who,      \* the user the client is let in as
    claims    \* the claims made so far

vars == <<status, who, claims>>

Init ==
    /\ status = "pending"
    /\ who = None
    /\ claims = {}

\* The client makes claims, true by what claims are.
Hear ==
    /\ status = "pending"
    /\ \E made \in SUBSET Claim : claims' = claims \cup made
    /\ UNCHANGED <<status, who>>

Grant(u) ==
    /\ status = "pending"
    /\ claims \cap Entitled[u] # {}
    /\ status' = "granted"
    /\ who' = u
    /\ UNCHANGED claims

\* The server may refuse, and the connection may fail, at any time.
Refuse ==
    /\ status = "pending"
    /\ status' \in {"denied", "failed"}
    /\ UNCHANGED <<who, claims>>

Next == Hear \/ (\E u \in User : Grant(u)) \/ Refuse

Spec == Init /\ [][Next]_vars
=============================================================================
