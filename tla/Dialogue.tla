------------------------------ MODULE Dialogue ------------------------------
(***************************************************************************)
(* t.py: dialogue runs both sides of a mechanism in one thread, without a  *)
(* socket and without the login around it.  Client is the client side as   *)
(* democlient has it.  The server side is written out again, since         *)
(* Handshake has it entangled with its loop, and dialogue's is another     *)
(* one: when next_challenge rejects in the loop, the loop goes on.         *)
(***************************************************************************)
EXTENDS Mechanisms

CONSTANTS
    Clients,   \* what client_opts can make of the target, see DemoClient
    MaxLegs    \* how many tokens a GSSAPI context may need before the last

VARIABLES
    dpc,          \* where dialogue is
    client,       \* the user, password and tickets of the target
    mech,
    ours,         \* GSSAPI: the client asks for the principal the server has
    legs,         \* GSSAPI: tokens before the last
    turns,        \* how often client.respond was called
    stage,        \* of the server side
    challenge,    \* what the client sees next, and
    fresh,        \* whether it has not seen it yet
    response,
    server_done,
    authcid,
    i,            \* of the loop
    rejected      \* history: the server side has rejected

vars == <<dpc, client, mech, ours, legs, turns, stage, challenge, fresh, response,
          server_done, authcid, i, rejected>>

Client == INSTANCE DemoClient WITH
    cpc <- dpc, cmech <- mech, cround <- i, toServer <- <<>>

ASSUME DialogueAssumption ==
    /\ Clients \subseteq Client!ClientType
    /\ MaxLegs \in Nat
    /\ MINIMAL_REQ_FLAGS \in ContextFlags

DIALOGUE_ROUNDS == 10

DialogueTypeOK ==
    /\ dpc \in {"start", "request", "first", "loop", "next", "happy", "clientError", "serverError",
                "noTickets", "raised"}
    /\ client \in Clients
    /\ mech \in Available
    /\ ours \in BOOLEAN
    /\ legs \in 0..MaxLegs
    /\ turns \in 0..(DIALOGUE_ROUNDS + 1)
    /\ stage \in {"new", "begun", "offered"}
    /\ challenge \in ServerToken \cup Nonce \cup {None}
    /\ fresh \in BOOLEAN
    /\ response \in Reply \cup {None}
    /\ server_done \in BOOLEAN
    /\ authcid \in UserName \cup Principal \cup {None}
    /\ i \in 0..DIALOGUE_ROUNDS
    /\ rejected \in BOOLEAN

Init ==
    /\ dpc = "start"
    /\ client \in Clients
    /\ mech \in Available
    /\ ours \in BOOLEAN
    /\ legs \in 0..MaxLegs
    /\ turns = 0
    /\ stage = "new"
    /\ challenge = None
    /\ fresh = FALSE
    /\ response = None
    /\ server_done = FALSE
    /\ authcid = None
    /\ i = 0
    /\ rejected = FALSE

settings == <<client, mech, ours, legs>>

\* What the server side is given: credstore['monetdb'], whoever the client is.
ServerPassword == GetLast(DefaultStore[BuiltinUser], "plain")

-----------------------------------------------------------------------------
(* The client side. *)

\* Classic: a hash of the nonce; otherwise a token, as in democlient.  A
\* GSSAPI context is for the principal it asks for.
Answers(token) ==
    IF mech \in ClassicMech
    THEN {Client!ClassicRespond(mech, token)}
    ELSE {Hex(IF t.type = "gssLast" THEN [t EXCEPT !.ours = ours] ELSE t) :
             t \in Client!Respond(mech, turns, token)}

\* Mutant: a GSSAPI context takes the same token twice.
TakenTwice == TRUE

\* A GSSAPI context does not take the same token twice (GSSError).
Taken == KerberosStyle(mech) => fresh

Respond(token, next) ==
    \/ /\ Taken
       /\ response' \in Answers(token)
       /\ turns' = turns + 1
       /\ fresh' = FALSE
       /\ dpc' = next
    \/ /\ ~Taken \/ Answers(token) = {}       \* Reject
       /\ dpc' = "clientError"
       /\ UNCHANGED <<response, turns, fresh>>

\* dialogue, up to the first request.  GSSAPI needs tickets and a keytab; and
\* with the gssapi module CredStore.default asks it for a principal, which may
\* raise GSSError whatever the mechanism.
Start ==
    /\ dpc = "start"
    /\ \/ /\ KerberosStyle(mech) \/ HaveGssapi
          /\ dpc' = "noTickets"
          /\ UNCHANGED <<challenge, fresh>>
       \/ /\ dpc' = IF mech \in ClassicMech THEN "loop" ELSE "request"
          /\ challenge' \in IF mech \in ClassicMech THEN Nonce ELSE {NoBytes}
          /\ fresh' = TRUE
    /\ UNCHANGED <<settings, turns, stage, response, server_done, authcid, i, rejected>>

\* client_first: client.respond(b'')
Request ==
    /\ dpc = "request"
    /\ Respond(NoBytes, "first")
    /\ UNCHANGED <<settings, stage, challenge, server_done, authcid, i, rejected>>

\* Mutant: one round less.
InLoopShort == dpc = "loop" /\ i < DIALOGUE_ROUNDS - 1

\* Mutant: one round more.
InLoopLong == dpc = "loop" /\ i <= DIALOGUE_ROUNDS

InLoop == dpc = "loop" /\ i < DIALOGUE_ROUNDS

ExchangeTooLong ==
    /\ dpc = "loop"
    /\ ~InLoop
    /\ dpc' = "raised"
    /\ UNCHANGED <<settings, turns, stage, challenge, fresh, response, server_done,
                   authcid, i, rejected>>

ClientResponds ==
    /\ InLoop
    /\ ~server_done
    /\ Respond(challenge, "next")
    /\ UNCHANGED <<settings, stage, challenge, server_done, authcid, i, rejected>>

\* ClassicClient has no wrap_up of its own, so it is NotImplementedError.
WrapUp ==
    /\ InLoop
    /\ server_done
    /\ dpc' = IF mech \in ClassicMech THEN "raised"
              ELSE IF Client!WrapUp(challenge) THEN "happy" ELSE "clientError"
    /\ UNCHANGED <<settings, turns, stage, challenge, fresh, response, server_done,
                   authcid, i, rejected>>

-----------------------------------------------------------------------------
(* The server side.  next_challenge accepts, goes on or rejects.           *)

token == response.token

Accepts(cid, data) ==
    [verdict |-> "accept", authcid |-> cid, challenge |-> data, stage |-> stage]
GoesOn(t, next) ==
    [verdict |-> "go on", authcid |-> None, challenge |-> t, stage |-> next]
Rejects(next) ==
    [verdict |-> "reject", authcid |-> authcid, challenge |-> challenge, stage |-> next]

ClassicNext ==
    IF response = Squish(mech, challenge, ServerPassword)
    THEN {Accepts(client.user, None)} ELSE {Rejects(stage)}

PlainNext ==
    IF token.password = ServerPassword
    THEN {Accepts(token.authcid, None)} ELSE {Rejects(stage)}

\* Which user the first token names decides nothing.
ScramNext ==
    IF stage = "new" THEN {GoesOn(ScramServerFirst(n), "begun") : n \in Nonce}
    ELSE IF token = ScramFinal(challenge.nonce, ServerPassword)
         THEN {Accepts(client.user, ScramServerFinal(ServerPassword))} ELSE {Rejects(stage)}

\* A context for another principal than ours fails, or is found out once it
\* is complete; then it is complete all the same.
GssNext ==
    CASE stage = "begun" -> {GoesOn(GssLayerOffer, "offered")}
      [] stage = "offered" ->
            {IF token.type = "gssLayer" THEN Accepts(client.principal, None) ELSE Rejects(stage)}
      [] stage = "new" /\ token = GssMore -> {GoesOn(GssServerToken, "new")}
      [] stage = "new" /\ token.type = "gssLast" ->
            IF token.ours THEN {GoesOn(GssServerToken, "begun")}
                          ELSE {Rejects("new"), Rejects("begun")}
      [] OTHER -> {Rejects(stage)}

NextChallenge ==
    CASE mech \in ClassicMech     -> ClassicNext
      [] mech = "PLAIN"           -> PlainNext
      [] mech = "SCRAM-SHA-256"   -> ScramNext
      [] mech = "GSSAPI"          -> GssNext

\* The except clause before the loop returns, the one in the loop does not.
AfterReject == IF dpc = "first" THEN "serverError" ELSE "loop"

\* server.next_challenge(response), before the loop and in it.
ServerResponds ==
    /\ dpc \in {"first", "next"}
    /\ mech \in ClassicMech => client.user # NoName
    /\ \E result \in NextChallenge :
          /\ stage' = result.stage
          /\ challenge' = result.challenge
          /\ authcid' = result.authcid
          /\ server_done' = (result.verdict = "accept")
          /\ rejected' = (rejected \/ result.verdict = "reject")
          /\ fresh' = (result.verdict # "reject")
          /\ dpc' = IF result.verdict = "reject" THEN AfterReject ELSE "loop"
    /\ i' = IF dpc = "next" THEN i + 1 ELSE i
    /\ UNCHANGED <<settings, turns, response>>

\* 'assert self.authcid', which set_user has set to target.user.
ServerAsserts ==
    /\ dpc = "next"
    /\ mech \in ClassicMech
    /\ client.user = NoName
    /\ dpc' = "raised"
    /\ UNCHANGED <<settings, turns, stage, challenge, fresh, response, server_done,
                   authcid, i, rejected>>

Ended == dpc \in {"happy", "clientError", "serverError", "noTickets", "raised"}

Terminated == Ended /\ UNCHANGED vars

Next ==
    \/ Start \/ Request \/ ClientResponds \/ WrapUp \/ ExchangeTooLong
    \/ ServerResponds \/ ServerAsserts
    \/ Terminated

Spec == Init /\ [][Next]_vars

-----------------------------------------------------------------------------
(* Properties *)

\* The client has what the server side's store asks for.
Qualifies ==
    IF KerberosStyle(mech) THEN ours ELSE client.password = ServerPassword

\* HAPPY is never printed after a Reject, although the loop goes on with the
\* challenge from before it, and never for a client that has not what it
\* takes; authcid is then who the client is.
HappyIsEarned ==
    dpc = "happy" =>
        /\ ~rejected
        /\ Qualifies
        /\ authcid = IF KerberosStyle(mech) THEN client.principal ELSE client.user

\* A dialogue with the right credentials ends HAPPY, unless GSSAPI takes too
\* many tokens or has no principal, tickets or keytab to begin with; that with
\* a classic mechanism cannot, for its client side has no wrap_up.
QualifiedIsHappy ==
    Ended /\ Qualifies =>
        \/ dpc \in {"happy", "noTickets"}
        \/ dpc = "raised" /\ KerberosStyle(mech) /\ legs + 3 > DIALOGUE_ROUNDS
        \/ dpc = "raised" /\ mech \in ClassicMech
=============================================================================
