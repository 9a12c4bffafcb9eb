----------------------------- MODULE Handshake -----------------------------
(***************************************************************************)
(* The server's side of one connection, from the accepted socket to the    *)
(* verdict: handle_connection and authorize_connection in demoserver.py,   *)
(* handshake.py and the ServerSide classes under mechanisms/.              *)
(*                                                                         *)
(* The thread runs through the phases of pc.  The client is whoever holds  *)
(* the other end of the socket: it can send any message in any order and   *)
(* close or reset the connection.  Module Login replaces it by democlient. *)
(***************************************************************************)
EXTENDS Mechanisms

VARIABLES
    pc,        \* phase of the thread
    loaded,    \* how many of the -c options are in the store
    creds,     \* the connection's CredStore
    nonce,     \* ini_nonce
    user,      \* hs.user
    mech,      \* hs.mech, its wire_name
    reply,     \* payload, later client_token_str
    round,     \* i of the loop in execute_modern
    ctx,       \* state of the mechanism's ServerSide
    authcid,   \* server_side.authcid
    authzid,   \* server_side.authzid
    final,     \* the final message execute() returned
    exc,       \* the exception that ended the handshake
    toClient,  \* every message sent to the client, in order
    shown,     \* history: the claims the client's messages establish
    asked      \* history: the user it last asked to act as

login    == <<user, mech, reply>>
identity == <<authcid, authzid, final>>
heard    == <<shown, asked>>
vars == <<pc, loaded, creds, nonce, login, round, ctx, identity, exc, toClient, heard>>

MAX_ROUNDS == 10

Exception == {"Reject", "AssertionError", "ValueError", "EOFError", "OSError", "GSSError"}

\* No exception is not the name of one.
ASSUME ExceptionAssumption == None \notin Exception

\* How far a ServerSide object has got (ctx.stage): SCRAM is "new" while
\* self.initial holds; GSSAPI is "new" until ctx.complete and "offered"
\* once final_message_sent.  ctx.peer is server.user or ctx.initiator_name
\* and ctx.keys what auth_fn handed to scramp.
NewContext == [stage |-> "new", peer |-> None, keys |-> None]

Authzid == UserName \cup {GsAuthzid(z) : z \in Name} \cup {None}

TypeOK ==
    /\ pc \in {"opening", "loading", "awaitLogin", "classic", "start", "awaitToken",
               "token", "authorize", "welcome", "session", "rejecting", "rejected",
               "crashed"}
    /\ loaded \in 0..Len(CliCreds)
    /\ creds \in CredStore
    /\ nonce \in Nonce \cup {None}
    /\ user \in UserName \cup {None}
    /\ mech \in Available \cup {None}
    /\ reply \in Reply
    /\ round \in 0..MAX_ROUNDS
    /\ ctx \in [stage : {"new", "begun", "offered"},
                peer : UserName \cup CredData \cup {None},
                keys : CredData \cup ScramEntry \cup {None}]
    /\ authcid \in UserName \cup CredData \cup {None}
    /\ authzid \in Authzid
    /\ final \in ServerToken \cup {None}
    /\ exc \in Exception \cup {None}
    /\ toClient \in Seq(ServerMessage)
    /\ shown \subseteq Claim
    /\ asked \in UserName \cup {None}

Init ==
    /\ pc = "opening"
    /\ loaded = 0
    /\ creds = EmptyStore
    /\ nonce = None
    /\ user = None
    /\ mech = None
    /\ reply = Empty
    /\ round = 0
    /\ ctx = NewContext
    /\ authcid = None
    /\ authzid = None
    /\ final = None
    /\ exc = None
    /\ toClient = <<>>
    /\ shown = {}
    /\ asked = None

-----------------------------------------------------------------------------
\* handle_connection catches Reject; anything else leaves the thread and
\* reaches the excepthook, which ends the process.
Raise(e) ==
    /\ exc' = e
    /\ pc' = IF e = "Reject" THEN "rejecting" ELSE "crashed"

Goto(next) == pc' = next /\ UNCHANGED exc

\* conn.send inside the try of handle_connection: it succeeds, or the
\* operating system reports that the connection is gone.
Send(msg, next) ==
    \/ /\ toClient' = Append(toClient, msg)
       /\ Goto(next)
    \/ Raise("OSError") /\ UNCHANGED toClient

-----------------------------------------------------------------------------
(* The store of this connection. *)

OpenStore ==
    /\ pc = "opening"
    /\ \/ creds' = DefaultStore /\ Goto("loading")
       \/ HaveGssapi /\ Raise("GSSError") /\ UNCHANGED creds
    /\ UNCHANGED <<loaded, nonce, login, round, ctx, identity, toClient, heard>>

LoadCredential ==
    /\ pc = "loading"
    /\ loaded < Len(CliCreds)
    /\ loaded' = loaded + 1
    /\ LET cred == CliCreds[loaded + 1]
       IN  creds' = Add(creds, cred.user, cred.kind, cred.password)
    /\ UNCHANGED <<pc, nonce, login, round, ctx, identity, exc, toClient, heard>>

-----------------------------------------------------------------------------
(* Handshake.execute: the challenge and the client's login message. *)

SendChallenge ==
    /\ pc = "loading"
    /\ loaded = Len(CliCreds)
    /\ \E n \in Nonce :
          /\ nonce' = n
          /\ \/ Send(Challenge(n), "awaitLogin")
             \/ Raise("Reject") /\ UNCHANGED toClient      \* BrokenPipeError
    /\ UNCHANGED <<loaded, creds, login, round, ctx, identity, heard>>

Hear(r) ==
    /\ shown' = shown \cup Shows(r, nonce)
    /\ asked' = IF Asks(r) THEN r.token.authzid ELSE asked

\* Mutant: any mechanism that exists, whether on offer or not.
ReceiveLoginAnyMech(msg) ==
    /\ pc = "awaitLogin"
    /\ msg.type = "login"
    /\ msg.mech \in MechName
    /\ user' = msg.user
    /\ mech' = msg.mech
    /\ reply' = msg.reply
    /\ Hear(msg.reply)
    /\ Goto(IF msg.mech \in ClassicMech THEN "classic" ELSE "start")
    /\ UNCHANGED <<loaded, creds, nonce, round, ctx, identity, toClient>>

ReceiveLogin(msg) ==
    /\ pc = "awaitLogin"
    /\ \/ /\ msg.type = "login"
          /\ user' = msg.user
          /\ IF msg.mech \in Available
             THEN /\ mech' = msg.mech
                  /\ reply' = msg.reply
                  /\ Hear(msg.reply)
                  /\ Goto(IF msg.mech \in ClassicMech THEN "classic" ELSE "start")
             ELSE Raise("Reject") /\ UNCHANGED <<mech, reply, heard>>
       \/ /\ msg.type = "text"
          /\ Raise("Reject")
          /\ UNCHANGED <<login, heard>>
    /\ UNCHANGED <<loaded, creds, nonce, round, ctx, identity, toClient>>

\* conn.receive() returns None: Reject at once, or the token loop goes on
\* with '' and rejects that.
ReceiveEof ==
    /\ \/ pc = "awaitLogin" /\ Raise("Reject") /\ UNCHANGED reply
       \/ pc = "awaitToken" /\ reply' = Empty /\ Goto("token")
    /\ UNCHANGED <<loaded, creds, nonce, user, mech, round, ctx, identity, toClient, heard>>

\* conn.receive() raises: the bytes are not UTF-8, the stream ends inside a
\* message, or the connection is reset.
ReceiveFails(e) ==
    /\ pc \in {"awaitLogin", "awaitToken"}
    /\ Raise(e)
    /\ UNCHANGED <<loaded, creds, nonce, login, round, ctx, identity, toClient, heard>>

-----------------------------------------------------------------------------
(* Handshake.execute_classic and ClassicServer.next_challenge. *)

Expected == LET password == GetLast(creds[user], "plain")
            IN  IF password = None THEN None ELSE Squish(mech, nonce, password)

CheckClassic ==
    /\ pc = "classic"
    /\ authcid' = user
    /\ \/ user = NoName /\ Raise("AssertionError")
       \/ user # NoName /\ reply = Expected /\ Goto("authorize")
       \/ user # NoName /\ reply # Expected /\ Raise("Reject")
    /\ UNCHANGED <<loaded, creds, nonce, login, round, ctx, authzid, final, toClient, heard>>

-----------------------------------------------------------------------------
(* Handshake.execute_modern. *)

\* Mutant: the empty challenge is sent although the client has gone first.
StartServerEager ==
    /\ pc = "start"
    /\ Send(More(NoBytes), IF reply = Empty THEN "awaitToken" ELSE "token")
    /\ UNCHANGED <<loaded, creds, nonce, login, round, ctx, identity, heard>>

\* Mutant: waits for a token although the client has gone first.
StartServerWaits ==
    /\ pc = "start"
    /\ IF reply = Empty THEN Send(More(NoBytes), "awaitToken")
                        ELSE Goto("awaitToken") /\ UNCHANGED toClient
    /\ UNCHANGED <<loaded, creds, nonce, login, round, ctx, identity, heard>>

\* start_server and the initial challenge.  GSSAPI's start_server acquires
\* the server's own credentials, which can fail; with a payload the first
\* token is already there.
StartServer ==
    /\ pc = "start"
    /\ \/ mech = "GSSAPI" /\ Raise("GSSError") /\ UNCHANGED toClient
       \/ reply # Empty /\ Goto("token") /\ UNCHANGED toClient
       \/ reply = Empty /\ Send(More(NoBytes), "awaitToken")
    /\ UNCHANGED <<loaded, creds, nonce, login, round, ctx, identity, heard>>

ReceiveToken(msg) ==
    /\ pc = "awaitToken"
    /\ msg.type = "text"
    /\ reply' = msg.reply
    /\ Hear(msg.reply)
    /\ Goto("token")
    /\ UNCHANGED <<loaded, creds, nonce, user, mech, round, ctx, identity, toClient>>

\* The loop ends after MAX_ROUNDS tokens; what is not '+' and hex digits
\* ends it earlier.
GiveUp ==
    /\ pc = "token"
    /\ \/ round = MAX_ROUNDS /\ Raise("Reject")
       \/ round < MAX_ROUNDS /\ reply.form \notin {"hex", "badhex"} /\ Raise("Reject")
       \/ round < MAX_ROUNDS /\ reply.form = "badhex" /\ Raise("ValueError")
    /\ UNCHANGED <<loaded, creds, nonce, login, round, ctx, identity, toClient, heard>>

\* Mutant: one token too many.
HasTokenTooMany(m) ==
    /\ pc = "token"
    /\ mech = m
    /\ round <= MAX_ROUNDS
    /\ reply.form = "hex"
    /\ reply' = Empty
    /\ round' = round + 1

\* next_challenge takes the token; client_token_str is dead from here to
\* the next receive, and cleared.
HasToken(m) ==
    /\ pc = "token"
    /\ mech = m
    /\ round < MAX_ROUNDS
    /\ reply.form = "hex"
    /\ reply' = Empty
    /\ round' = round + 1

\* Mutant: the final message is sent before authorize_connection runs.
DoneEarly(cid, zid, data) ==
    /\ authcid' = cid
    /\ authzid' = zid
    /\ final' = data
    /\ Send(Welcome(data), "authorize")

\* next_challenge returns (True, data), returns (False, challenge), or raises.
Done(cid, zid, data) ==
    /\ authcid' = cid
    /\ authzid' = zid
    /\ final' = data
    /\ Goto("authorize")
    /\ UNCHANGED toClient

Continue(challenge) ==
    \/ challenge = NoBytes /\ Raise("AssertionError") /\ UNCHANGED toClient
    \/ challenge # NoBytes /\ Send(More(challenge), "awaitToken")

Refuse(e) == Raise(e) /\ UNCHANGED <<identity, toClient>>

OrNone(z) == IF z = NoName THEN None ELSE z

\* PlainServer.next_challenge
PlainNext ==
    /\ HasToken("PLAIN")
    /\ LET t == reply.token
       IN  \/ ~IsUtf8(t) /\ Refuse("ValueError")
           \/ IsUtf8(t) /\ t.type # "plain" /\ Refuse("Reject")
           \/ /\ t.type = "plain"
              /\ IF t.password = GetLast(creds[user], "plain")
                 THEN Done(t.authcid, OrNone(t.authzid), None)
                 ELSE Refuse("Reject")
    /\ UNCHANGED <<loaded, creds, nonce, user, mech, ctx, heard>>

\* What auth_fn finds for the user: the SCRAM entry, or one made from the
\* PLAIN password, which it then stores.
ScramStored == GetLast(creds[user], "SCRAM-SHA-256")
ScramMade == LET password == GetLast(creds[user], "plain")
             IN  IF password = None THEN None ELSE [salted |-> password]
ScramKeys == IF ScramStored = None THEN ScramMade ELSE ScramStored

\* The text between the first two commas of client-first is "a=" and the
\* user to act as, or empty.
ScramAuthzid(z) == IF z = NoName THEN None ELSE GsAuthzid(z)

\* NaiveScramServer.next_challenge, initial
ScramInitial ==
    /\ HasToken("SCRAM-SHA-256")
    /\ ctx.stage = "new"
    /\ LET t == reply.token
       IN  \/ /\ t.type # "scramFirst" \/ ScramKeys = None
              /\ Refuse("Reject")
              /\ UNCHANGED <<creds, ctx>>
           \/ /\ t.type = "scramFirst"
              /\ ScramKeys # None
              /\ creds' = IF ScramStored = None
                          THEN Replace(creds, user, "SCRAM-SHA-256", ScramKeys)
                          ELSE creds
              /\ authzid' = ScramAuthzid(t.authzid)
              /\ ctx' = [stage |-> "begun", peer |-> t.user, keys |-> ScramKeys]
              /\ Continue(ScramServerFirst(nonce))
              /\ UNCHANGED <<authcid, final>>
    /\ UNCHANGED <<loaded, nonce, user, mech, heard>>

\* Mutant: a proof over another nonce is good too.
ScramVerifiesReplayed(t) ==
    /\ t.type = "scramFinal"
    /\ [salted |-> t.password] = ctx.keys

\* NaiveScramServer.next_challenge, final.  scramp compares the proof with
\* the stored key.
ScramVerifies(t) ==
    /\ t.type = "scramFinal"
    /\ t.nonce = nonce
    /\ [salted |-> t.password] = ctx.keys

ScramFinish ==
    /\ HasToken("SCRAM-SHA-256")
    /\ ctx.stage = "begun"
    /\ LET t == reply.token
       IN  IF ScramVerifies(t)
           THEN Done(ctx.peer, authzid, ScramServerFinal(t.password))
           ELSE Refuse("Reject")
    /\ UNCHANGED <<loaded, creds, nonce, user, mech, ctx, heard>>

\* Mutant: mutual authentication is not required.
VerifyFlagsNotMutual(flags) == MINIMAL_REQ_FLAGS \ {"mutual"} \subseteq flags

VerifyFlags(flags) == MINIMAL_REQ_FLAGS \subseteq flags

\* GSSAPIServer.next_challenge, until the context is complete.  The context
\* owes the client a last token only if the client asked for mutual
\* authentication.
GssNegotiate ==
    /\ HasToken("GSSAPI")
    /\ ctx.stage = "new"
    /\ LET t == reply.token
           good == t.kerberos /\ t.ours /\ VerifyFlags(t.flags)
       IN  \/ /\ t.type = "gssMore"
              /\ Continue(GssServerToken)
              /\ UNCHANGED <<identity, ctx>>
           \/ /\ t.type = "gssLast"
              /\ good
              /\ ctx' = [ctx EXCEPT !.stage = "begun", !.peer = t.peer]
              /\ Continue(IF "mutual" \in t.flags THEN GssServerToken ELSE NoBytes)
              /\ UNCHANGED identity
           \/ /\ t.type = "gssLast" => ~good
              /\ t.type # "gssMore"
              /\ Refuse("Reject")
              /\ UNCHANGED ctx
    /\ UNCHANGED <<loaded, creds, nonce, user, mech, heard>>

\* Whatever token arrived, tell the client which security layer we offer.
GssOffer ==
    /\ HasToken("GSSAPI")
    /\ ctx.stage = "begun"
    /\ ctx' = [ctx EXCEPT !.stage = "offered"]
    /\ Continue(GssLayerOffer)
    /\ UNCHANGED <<loaded, creds, nonce, user, mech, identity, heard>>

GssConclude ==
    /\ HasToken("GSSAPI")
    /\ ctx.stage = "offered"
    /\ LET t == reply.token
       IN  IF t.type = "gssLayer" /\ t.zeros /\ t.utf8
           THEN Done(ctx.peer, t.authzid, None)
           ELSE Refuse("Reject")
    /\ UNCHANGED <<loaded, creds, nonce, user, mech, ctx, heard>>

-----------------------------------------------------------------------------
(* authorize_connection, and the rest of handle_connection. *)

\* Mutant: nobody looks at authzid.
MayActAsAnyone == TRUE

\* Mutant: an empty authzid is not supported.
MayActAsSame == authzid = user

MayActAs == authzid \in {None, NoName, user}

\* Mutant: a Kerberos identity is good for any user.
PermittedForAny ==
    \/ ~KerberosStyle(mech)
    \/ \E u \in UserName : authcid \in GetAll(creds[u], "principal")

Permitted == \/ ~KerberosStyle(mech)
             \/ authcid \in GetAll(creds[user], "principal")

\* assert hs.user, assert authcid
Named == user \notin {None, NoName} /\ authcid \notin {None, NoName}

Authorize ==
    /\ pc = "authorize"
    /\ \/ ~Named /\ Raise("AssertionError")
       \/ Named /\ MayActAs /\ Permitted /\ Goto("welcome")
       \/ Named /\ ~(MayActAs /\ Permitted) /\ Raise("Reject")
    /\ UNCHANGED <<loaded, creds, nonce, login, round, ctx, identity, toClient, heard>>

SendWelcome ==
    /\ pc = "welcome"
    /\ Send(Welcome(final), "session")
    /\ UNCHANGED <<loaded, creds, nonce, login, round, ctx, identity, heard>>

\* except Reject: an IOError while sending the error is ignored.
SendError ==
    /\ pc = "rejecting"
    /\ pc' = "rejected"
    /\ toClient' \in {toClient, Append(toClient, Error)}
    /\ UNCHANGED <<loaded, creds, nonce, login, round, ctx, identity, exc, heard>>

\* interact, or the end of the thread.
Ended == pc \in {"session", "rejected", "crashed"}

Terminated == Ended /\ UNCHANGED vars

-----------------------------------------------------------------------------
\* A step the thread takes on its own, without input from the client.
ServerStep ==
    \/ OpenStore \/ LoadCredential \/ SendChallenge
    \/ CheckClassic \/ StartServer \/ GiveUp
    \/ PlainNext \/ ScramInitial \/ ScramFinish
    \/ GssNegotiate \/ GssOffer \/ GssConclude
    \/ Authorize \/ SendWelcome \/ SendError

Next ==
    \/ ServerStep
    \/ \E msg \in FirstMessage : ReceiveLogin(msg)
    \/ \E msg \in LaterMessage : ReceiveToken(msg)
    \/ ReceiveEof
    \/ \E e \in {"ValueError", "EOFError", "OSError"} : ReceiveFails(e)
    \/ Terminated

Spec == Init /\ [][Next]_vars

-----------------------------------------------------------------------------
(* Properties *)

\* A session as a user is only for clients that have, on this connection,
\* proved to know the password configured for that user, or under GSSAPI to
\* be a principal configured for it.  "Configured" is read off the command
\* line: a password that a later option replaced does not count, nor does a
\* hash or a proof over another connection's nonce.
SessionEarned ==
    pc = "session" =>
        IF KerberosStyle(mech)
        THEN \E p \in Principal : IsPrincipal(user, p) /\ Holds(p) \in shown
        ELSE \E p \in Password : IsPassword(user, p) /\ Knows(p) \in shown

\* Nobody gets a session after asking to act as another user than the one
\* the login message named, however the mechanism carries that request.
ActingRespected ==
    pc = "session" => asked \in {None, NoName, user}

\* The client is told it is in exactly when it is: the final message goes
\* out after authorize_connection, not when the mechanism is satisfied.
WelcomeMeansSession ==
    (\E i \in DOMAIN toClient : toClient[i].type = "welcome") <=> pc = "session"

\* The assertions in execute_modern, next_challenge and authorize_connection
\* fail for an empty user name or an empty PLAIN or SCRAM identity only.  In
\* particular no mechanism asks for another round with an empty challenge.
AssertionOnlyForEmptyName ==
    exc = "AssertionError" => user = NoName \/ authcid = NoName

\* The assertions hold.  They do not: see the README.
AssertionsHold == exc # "AssertionError"

\* The comment in authorize_connection: an authzid that is empty or
\* identical to the handshake user is supported.  With a mechanism of style
\* PASSWORD nothing else is left to check, so authorize_connection then
\* rejects nobody.  SCRAM's authzid is never identical: see the README.
SupportedAuthzid ==
    [][pc = "authorize" /\ pc' = "rejecting" /\ ~KerberosStyle(mech)
        => asked \notin {None, NoName, user}]_vars

\* What a login promises, whatever mechanism carries it.
Verdict == IF pc = "session" THEN "granted"
           ELSE IF pc \in {"rejecting", "rejected"} THEN "denied"
           ELSE IF pc = "crashed" THEN "failed"
           ELSE "pending"

Who == IF pc = "session" THEN user ELSE None

Contract == INSTANCE LoginContract WITH
    User     <- Name,
    Entitled <- [u \in Name |-> Entitling(u)],
    status   <- Verdict,
    who      <- Who,
    claims   <- shown

\* Every mechanism keeps the promise of LoginContract: a verdict is final,
\* and it is positive only for the named user and on sufficient claims.
ImplementsContract == Contract!Spec

-----------------------------------------------------------------------------
(***************************************************************************)
(* The inductive invariant behind SessionEarned, ActingRespected and the   *)
(* refinement: what is known at each phase about the store, about the      *)
(* mechanism's context and about the reply that waits to be looked at.     *)
(***************************************************************************)
BeforeLogin == pc \in {"opening", "loading", "awaitLogin"}
Holding == pc \in {"classic", "start", "token"}
Verified == pc \in {"authorize", "welcome", "session"}

\* The store holds what the options loaded so far say, and a SCRAM entry is
\* made from the user's password.
StoreFaithful ==
    /\ pc \in {"opening", "loading", "crashed"} \/ loaded = Len(CliCreds)
    /\ pc = "opening" => loaded = 0
    /\ \A u \in UserName :
          /\ creds[u]["plain"] # <<>> =>
                IsPasswordUpto(loaded, u, GetLast(creds[u], "plain"))
          /\ \A p \in GetAll(creds[u], "principal") : IsPrincipalUpto(loaded, u, p)
          /\ creds[u]["SCRAM-SHA-256"] # <<>> =>
                \E p \in Password : /\ IsPassword(u, p)
                                    /\ GetLast(creds[u], "SCRAM-SHA-256") = [salted |-> p]

LoginKnown ==
    /\ BeforeLogin => ctx.stage = "new" /\ asked = None
    /\ pc \in {"awaitLogin", "awaitToken"} \/ Holding => nonce \in Nonce
    /\ pc \in {"classic", "start"} => ctx.stage = "new"
    /\ pc = "classic" => mech \in ClassicMech
    /\ pc \in {"start", "awaitToken", "token"} => mech \in MechName \ ClassicMech
    /\ Holding \/ Verified \/ pc = "awaitToken" => user \in UserName /\ mech \in MechName

\* scramp checks a proof against the password of the login's user, and a
\* completed GSSAPI context stands for an identity the client holds.
ContextFaithful ==
    ctx.stage # "new" =>
        /\ mech = "SCRAM-SHA-256" =>
              \E p \in Password : IsPassword(user, p) /\ ctx.keys = [salted |-> p]
        /\ mech = "GSSAPI" => ctx.peer \in Principal /\ Holds(ctx.peer) \in shown

ReplyHeard ==
    Holding => /\ Shows(reply, nonce) \subseteq shown
               /\ Asks(reply) => asked = reply.token.authzid
               /\ pc = "classic" /\ ~Asks(reply) => asked = None

\* SCRAM learns the authzid a round before it knows who is asking.
ScramAsked ==
    /\ mech = "SCRAM-SHA-256"
    /\ ctx.stage # "new"
    /\ pc = "awaitToken" \/ (pc = "token" /\ ~Asks(reply))
    => authzid = ScramAuthzid(asked)

Earned ==
    Verified =>
        /\ IF KerberosStyle(mech)
           THEN authcid \in Principal /\ Holds(authcid) \in shown
           ELSE \E p \in Password : IsPassword(user, p) /\ Knows(p) \in shown
        /\ asked \in {None, NoName} \/ authzid \in {asked, GsAuthzid(asked)}

Authorized ==
    pc \in {"welcome", "session"} =>
        /\ user # NoName
        /\ authzid \in {None, NoName, user}
        /\ KerberosStyle(mech) => IsPrincipal(user, authcid)

IInv == /\ TypeOK /\ StoreFaithful /\ LoginKnown /\ ContextFaithful
        /\ ReplyHeard /\ ScramAsked /\ Earned /\ Authorized
=============================================================================
