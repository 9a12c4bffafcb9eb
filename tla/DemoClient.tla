----------------------------- MODULE DemoClient -----------------------------
(***************************************************************************)
(* democlient.py on a connected socket: attempt_login, with the ClientSide *)
(* classes under mechanisms/.  The client reads the server's messages one  *)
(* by one and answers each with at most one message of its own.            *)
(***************************************************************************)
EXTENDS Mechanisms

CONSTANTS
    Clients,   \* how democlient can be started, see ClientType
    MaxLegs    \* how many tokens a GSSAPI context may need before the last

\* The target's user and password, the principal of the Kerberos tickets the
\* user has, the mechanisms pick_mechanism prefers, best first, and whether
\* the report of the mechanism has the text that --assert-happy asks for.
ClientType == [user : UserName, password : Password, principal : Principal,
               prefers : Seq(MechName), satisfied : BOOLEAN]

ASSUME DemoClientAssumption ==
    /\ Clients \subseteq ClientType
    /\ MaxLegs \in Nat
    /\ MINIMAL_REQ_FLAGS \in ContextFlags     \* the flags democlient asks for

VARIABLES
    cpc,       \* phase of the client
    client,    \* how it was started
    cmech,     \* the mechanism it picked
    legs,      \* GSSAPI: how many tokens its context needs before the last
    turns,     \* how often ctx.respond was called (SCRAM: stage)
    cround,    \* i of the loop in attempt_login_modern
    toServer   \* messages under way to the server

clientVars == <<cpc, client, cmech, legs, turns, cround, toServer>>

CLIENT_ROUNDS == 10

ClientTypeOK ==
    /\ cpc \in {"awaitChallenge", "awaitReply", "awaitVerdict", "happy", "failed", "killed"}
    /\ client \in Clients
    /\ cmech \in Available \cup {None}
    /\ legs \in 0..MaxLegs
    /\ turns \in 0..(CLIENT_ROUNDS + 1)
    /\ cround \in 0..CLIENT_ROUNDS
    /\ toServer \in Seq(FirstMessage \cup LaterMessage)

ClientInit ==
    /\ cpc = "awaitChallenge"
    /\ client \in Clients
    /\ cmech = None
    /\ legs \in 0..MaxLegs
    /\ turns = 0
    /\ cround = 0
    /\ toServer = <<>>

\* The connection is closed on this side once democlient exits.
ClientGone == cpc \in {"failed", "killed"}

ClientSays(msg, next) == cpc' = next /\ toServer' = Append(toServer, msg)

\* ErrorMessage, or an exception nobody catches.
ClientFails == cpc' = "failed" /\ UNCHANGED toServer

\* pick_mechanism: the first candidate that the server has on offer.
Picked == {client.prefers[i] : i \in
              {j \in DOMAIN client.prefers :
                  /\ client.prefers[j] \in Available
                  /\ \A k \in 1..(j - 1) : client.prefers[k] \notin Available}}

\* ClassicClient.respond
ClassicRespond(m, nonce) == Squish(m, nonce, client.password)

(***************************************************************************)
(* ctx.respond(token), called for the (k+1)th time, returns the token in   *)
(* this set; if the set is empty it raises.                                *)
(***************************************************************************)
PlainRespond(token) ==
    {t \in {PlainToken(NoName, client.user, client.password)} : token = NoBytes}

ScramRespond(k, token) ==
    {t \in {ScramFirst(NoName, client.user)} : k = 0 /\ token = NoBytes}
    \cup {ScramFinal(n, client.password) :
            n \in {n \in Nonce : k = 1 /\ token = ScramServerFirst(n)}}

\* negotiate_security_layer: the server's offer, unwrapped, is the answer.
GssLayerRespond(token) ==
    {t \in {GssLayer(TRUE, TRUE, NoName)} : token = GssLayerOffer}

\* After its last token the context still takes the server's answer to it,
\* and has nothing to say: Junk stands for the empty token.
GssRespond(k, token) ==
    CASE k < legs     -> {GssMore}
      [] k = legs     -> {GssLast(client.principal, TRUE, TRUE, MINIMAL_REQ_FLAGS)}
      [] k = legs + 1 -> {t \in {Junk} : token = GssServerToken}
      [] OTHER        -> GssLayerRespond(token)

Respond(m, k, token) ==
    CASE m = "PLAIN"         -> PlainRespond(token)
      [] m = "SCRAM-SHA-256" -> ScramRespond(k, token)
      [] m = "GSSAPI"        -> GssRespond(k, token)

\* Mutant: SCRAM takes the first challenge for the last.
ScramWrapUpTooSoon(data) == turns = 1 /\ data = ScramServerFinal(client.password)

ScramWrapUp(data) == turns = 2 /\ data = ScramServerFinal(client.password)

\* final_message_sent, and no additional data.
GssWrapUp(data) == turns = legs + 3 /\ data = None

\* ctx.wrap_up(data) does not raise.
WrapUp(data) ==
    \/ cmech = "PLAIN"
    \/ cmech = "SCRAM-SHA-256" /\ ScramWrapUp(data)
    \/ cmech = "GSSAPI" /\ GssWrapUp(data)

-----------------------------------------------------------------------------
\* GSSAPIMechanism.start_client finds no Kerberos credentials.
NoTickets(m) == m = "GSSAPI" /\ ClientFails

\* attempt_login, up to the login message.
ReadChallenge(msg) ==
    /\ cpc = "awaitChallenge"
    /\ \/ /\ msg.type = "error" \/ Picked = {}
          /\ ClientFails
          /\ UNCHANGED <<cmech, turns>>
       \/ /\ msg.type = "challenge"
          /\ cmech' \in Picked
          /\ \/ /\ NoTickets(cmech')
                /\ UNCHANGED turns
             \/ /\ cmech' \in ClassicMech
                /\ LET reply == ClassicRespond(cmech', msg.nonce)
                   IN  ClientSays(LoginMessage(client.user, cmech', reply), "awaitVerdict")
                /\ UNCHANGED turns
             \/ /\ cmech' \notin ClassicMech
                /\ \E t \in Respond(cmech', 0, NoBytes) :
                      ClientSays(LoginMessage(client.user, cmech', Hex(t)), "awaitReply")
                /\ turns' = 1
    /\ UNCHANGED <<client, legs, cround>>

\* attempt_login_classic: whatever is not an error makes the client happy.
ReadVerdict(msg) ==
    /\ cpc = "awaitVerdict"
    /\ cpc' = IF msg.type = "error" THEN "failed" ELSE "happy"
    /\ UNCHANGED <<client, cmech, legs, turns, cround, toServer>>

\* One iteration of the loop in attempt_login_modern.  After the last one
\* the answer is sent and then the exchange is given up.
ReadReply(msg) ==
    /\ cpc = "awaitReply"
    /\ cround' = cround + 1
    /\ \/ /\ msg.type \notin {"more", "welcome"}
          /\ ClientFails
          /\ UNCHANGED turns
       \/ /\ msg.type = "more"
          /\ cmech = "GSSAPI"                       \* GSSError
          /\ ClientFails
          /\ UNCHANGED turns
       \/ /\ msg.type = "more"
          /\ IF Respond(cmech, turns, msg.token) = {}
             THEN ClientFails /\ UNCHANGED turns
             ELSE /\ \E t \in Respond(cmech, turns, msg.token) :
                        ClientSays(TextMessage(Hex(t)),
                                   IF cround' = CLIENT_ROUNDS THEN "failed" ELSE "awaitReply")
                  /\ turns' = turns + 1
       \/ /\ msg.type = "welcome"
          /\ cpc' = IF WrapUp(msg.data) /\ client.satisfied THEN "happy" ELSE "failed"
          /\ UNCHANGED <<turns, toServer>>
    /\ UNCHANGED <<client, cmech, legs>>

Read(msg) == ReadChallenge(msg) \/ ReadVerdict(msg) \/ ReadReply(msg)

Waiting == cpc \in {"awaitChallenge", "awaitReply", "awaitVerdict"}

\* mapi.receive() returns None or raises: the server closed the connection.
ReadFails ==
    /\ Waiting
    /\ ClientFails
    /\ UNCHANGED <<client, cmech, legs, turns, cround>>

\* The user interrupts the client.
Killed ==
    /\ Waiting
    /\ cpc' = "killed"
    /\ UNCHANGED <<client, cmech, legs, turns, cround, toServer>>
=============================================================================
