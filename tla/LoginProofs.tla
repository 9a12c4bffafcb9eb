---------------------------- MODULE LoginProofs ----------------------------
(***************************************************************************)
(* Proofs about Login, for any users, credentials, -c options, offered     *)
(* mechanisms, clients and lengths of a GSSAPI negotiation.                *)
(***************************************************************************)
EXTENDS Login, HandshakeProofs

-----------------------------------------------------------------------------
(* The server of Login is the one of Handshake. *)

\* What can arrive while a text message is waited for.
LEMMA StopText == TextMessage(Stop) \in FirstMessage \cap LaterMessage
  BY DEF FirstMessage, LaterMessage, Reply

\* With democlient at the other end the server takes no step that it would
\* not take with some client.
LEMMA LoginStep ==
    ASSUME [LoginNext]_loginVars, toServer \in Seq(FirstMessage \cup LaterMessage)
    PROVE  [Next]_vars
  <1>1. CASE ServerRuns
    BY <1>1 DEF ServerRuns, Next
  <1>2. CASE ServerReads
    <2> DEFINE msg == Head(toServer)
    <2>1. msg \in FirstMessage \cup LaterMessage
      BY <1>2 DEF ServerReads
    <2>0. ReceiveLogin(msg) \/ ReceiveToken(msg)
      BY <1>2 DEF ServerReads
    <2> HIDE DEF msg
    <2>2. CASE ReceiveLogin(msg)
      <3>1. CASE msg \in FirstMessage
        BY <2>2, <3>1 DEF Next
      <3>2. CASE msg \in LaterMessage
        <4>1. msg.type = "text"
          BY <3>2 DEF LaterMessage, TextMessage
        <4>2. ReceiveLogin(TextMessage(Stop))
          BY <2>2, <4>1 DEF ReceiveLogin, TextMessage
        <4> QED
          BY <4>2, StopText DEF Next
      <3> QED
        BY <2>1, <3>1, <3>2
    <2>3. CASE ReceiveToken(msg)
      <3>1. msg.type = "text"
        BY <2>3 DEF ReceiveToken
      <3>2. msg \in LaterMessage
        BY <2>1, <3>1, StopText DEF FirstMessage, LoginMessage
      <3> QED
        BY <2>3, <3>2 DEF Next
    <2> QED
      BY <2>0, <2>2, <2>3
  <1>3. CASE ServerFindsClientGone
    BY <1>3 DEF ServerFindsClientGone, Next
  <1>4. CASE ClientMoves \/ ClientKilled \/ LoginDone
    BY <1>4 DEF ClientMoves, ClientReads, ClientFindsServerGone, ClientKilled, LoginDone, loginVars
  <1>5. CASE UNCHANGED loginVars
    BY <1>5 DEF loginVars
  <1> QED
    BY <1>1, <1>2, <1>3, <1>4, <1>5 DEF LoginNext, ServerMoves

(* What the client keeps to itself. *)

\* The client's own bookkeeping: it is only in the loop with a mechanism it
\* picked, one response ahead of the loop's counter, and not past its end.
InLoop ==
    /\ cpc = "awaitReply" => /\ cmech \in Available \ ClassicMech
                             /\ cround < CLIENT_ROUNDS
                             /\ turns = cround + 1
    /\ cpc \in {"awaitChallenge", "awaitVerdict"} => turns = 0 /\ cround = 0


\* What the client answers is a token.
LEMMA RespondToken ==
    ASSUME client \in Clients, legs \in 0..MaxLegs, NEW k, NEW token,
           NEW m \in {"PLAIN", "SCRAM-SHA-256", "GSSAPI"}
    PROVE  Respond(m, k, token) \subseteq Token
  <1>1. /\ client.user \in UserName /\ client.password \in Password
        /\ client.principal \in Principal
        /\ NoName \in UserName /\ MINIMAL_REQ_FLAGS \in ContextFlags
    BY DemoClientAssumption DEF ClientType, UserName
  <1>2. PlainRespond(token) \subseteq Token
    BY <1>1 DEF PlainRespond, Token
  <1>3. ScramRespond(k, token) \subseteq Token
    BY <1>1 DEF ScramRespond, Token
  <1>4. GssRespond(k, token) \subseteq Token
    <2>1. GssMore \in Token /\ Junk \in Token
      BY DEF Token
    <2>2. GssLast(client.principal, TRUE, TRUE, MINIMAL_REQ_FLAGS) \in Token
      <3>1. \A b \in BOOLEAN : GssLast(client.principal, b, b, MINIMAL_REQ_FLAGS) \in Token
        BY <1>1 DEF Token
      <3> QED
        BY <3>1
    <2>3. GssLayer(TRUE, TRUE, NoName) \in Token
      <3>1. \A b \in BOOLEAN : GssLayer(b, b, NoName) \in Token
        BY <1>1 DEF Token
      <3> QED
        BY <3>1
    <2> QED
      BY <2>1, <2>2, <2>3 DEF GssRespond, GssLayerRespond
  <1> QED
    BY <1>2, <1>3, <1>4 DEF Respond

\* The mechanisms in the loop, and what the client sends.
LEMMA ClientMessages ==
    ASSUME client \in Clients
    PROVE  /\ Picked \subseteq Available
           /\ Available \ ClassicMech \subseteq {"PLAIN", "SCRAM-SHA-256", "GSSAPI"}
           /\ \A m \in Available, r \in Reply :
                 LoginMessage(client.user, m, r) \in FirstMessage
           /\ \A t \in Token : Hex(t) \in Reply /\ TextMessage(Hex(t)) \in LaterMessage
           /\ \A m \in ClassicMech, n \in Nonce : Squish(m, n, client.password) \in Reply
  <1>1. client.user \in UserName /\ client.password \in Password
    BY DemoClientAssumption DEF ClientType
  <1>2. Picked \subseteq Available
    BY DEF Picked
  <1>3. \A t \in Token : Hex(t) \in Reply
    BY DEF Reply
  <1>4. \A t \in Token : TextMessage(Hex(t)) \in LaterMessage
    BY <1>3 DEF LaterMessage
  <1>5. \A m \in ClassicMech, n \in Nonce : Squish(m, n, client.password) \in Reply
    BY <1>1 DEF Reply
  <1>6. Available \subseteq MechName
    BY MechanismsAssumption
  <1>7. \A m \in Available, r \in Reply : LoginMessage(client.user, m, r) \in FirstMessage
    BY <1>1, <1>6 DEF FirstMessage
  <1> QED
    BY <1>2, <1>3, <1>4, <1>5, <1>6, <1>7 DEF MechName

LEMMA ReadChallengeTypes ==
    ASSUME ClientTypeOK, InLoop, NEW msg \in ServerMessage, ReadChallenge(msg)
    PROVE  ClientTypeOK' /\ InLoop'
  <1>0. /\ client \in Clients /\ legs \in 0..MaxLegs
        /\ toServer \in Seq(FirstMessage \cup LaterMessage)
        /\ cpc = "awaitChallenge" /\ turns = 0 /\ cround = 0
        /\ client' = client /\ legs' = legs /\ cround' = cround
    BY DEF ClientTypeOK, InLoop, ReadChallenge
  <1>1. CASE ClientFails /\ UNCHANGED <<cmech, turns>>
    BY <1>0, <1>1 DEF ClientFails, ClientTypeOK, InLoop, CLIENT_ROUNDS
  <1>2. CASE cmech' \in Picked /\ NoTickets(cmech') /\ UNCHANGED turns
    BY <1>0, <1>2, ClientMessages DEF NoTickets, ClientFails, ClientTypeOK, InLoop, CLIENT_ROUNDS
  <1>3. ASSUME msg.type = "challenge", cmech' \in Picked, cmech' \in ClassicMech,
               ClientSays(LoginMessage(client.user, cmech', ClassicRespond(cmech', msg.nonce)),
                          "awaitVerdict"),
               UNCHANGED turns
        PROVE  ClientTypeOK' /\ InLoop'
    <2> DEFINE said == LoginMessage(client.user, cmech', ClassicRespond(cmech', msg.nonce))
    <2>1. msg.nonce \in Nonce
      BY <1>3 DEF ServerMessage, Challenge, More, Welcome, Error
    <2>2. said \in FirstMessage /\ cmech' \in Available
      BY <1>0, <1>3, <2>1, ClientMessages DEF ClassicRespond
    <2>3. cpc' = "awaitVerdict" /\ toServer' = Append(toServer, said)
      BY <1>3 DEF ClientSays
    <2> HIDE DEF said
    <2> QED
      BY <1>0, <1>3, <2>2, <2>3 DEF ClientTypeOK, InLoop, CLIENT_ROUNDS
  <1>4. ASSUME cmech' \in Picked, cmech' \notin ClassicMech, turns' = 1,
               NEW t \in Respond(cmech', 0, NoBytes),
               ClientSays(LoginMessage(client.user, cmech', Hex(t)), "awaitReply")
        PROVE  ClientTypeOK' /\ InLoop'
    <2> DEFINE said == LoginMessage(client.user, cmech', Hex(t))
    <2>1. cmech' \in Available \ ClassicMech /\ said \in FirstMessage
      BY <1>0, <1>4, ClientMessages, RespondToken
    <2>2. cpc' = "awaitReply" /\ toServer' = Append(toServer, said)
      BY <1>4 DEF ClientSays
    <2> HIDE DEF said
    <2> QED
      BY <1>0, <1>4, <2>1, <2>2 DEF ClientTypeOK, InLoop, CLIENT_ROUNDS
  <1> QED
    BY <1>1, <1>2, <1>3, <1>4 DEF ReadChallenge

LEMMA ReadReplyTypes ==
    ASSUME ClientTypeOK, InLoop, NEW msg, ReadReply(msg)
    PROVE  ClientTypeOK' /\ InLoop'
  <1>0. /\ client \in Clients /\ legs \in 0..MaxLegs
        /\ toServer \in Seq(FirstMessage \cup LaterMessage)
        /\ cpc = "awaitReply" /\ cmech \in Available \ ClassicMech
        /\ cround \in 0..(CLIENT_ROUNDS - 1) /\ turns = cround + 1
        /\ client' = client /\ legs' = legs /\ cmech' = cmech /\ cround' = cround + 1
    BY DEF ClientTypeOK, InLoop, ReadReply, CLIENT_ROUNDS
  <1>1. CASE ClientFails /\ UNCHANGED turns
    BY <1>0, <1>1 DEF ClientFails, ClientTypeOK, InLoop, CLIENT_ROUNDS
  <1>2. ASSUME NEW t \in Respond(cmech, turns, msg.token), turns' = turns + 1,
               ClientSays(TextMessage(Hex(t)),
                          IF cround' = CLIENT_ROUNDS THEN "failed" ELSE "awaitReply")
        PROVE  ClientTypeOK' /\ InLoop'
    <2> DEFINE said == TextMessage(Hex(t))
    <2>1. said \in LaterMessage
      BY <1>0, <1>2, ClientMessages, RespondToken
    <2>2. /\ cpc' = IF cround' = CLIENT_ROUNDS THEN "failed" ELSE "awaitReply"
          /\ toServer' = Append(toServer, said)
      BY <1>2 DEF ClientSays
    <2> HIDE DEF said
    <2> QED
      BY <1>0, <1>2, <2>1, <2>2 DEF ClientTypeOK, InLoop, CLIENT_ROUNDS
  <1>3. CASE cpc' \in {"happy", "failed"} /\ UNCHANGED <<turns, toServer>>
    BY <1>0, <1>3 DEF ClientTypeOK, InLoop, CLIENT_ROUNDS
  <1> QED
    BY <1>1, <1>2, <1>3 DEF ReadReply

\* The two sides, each on its own.
Sides == IInv /\ ClientTypeOK /\ nread \in 0..Len(toClient) /\ InLoop

LEMMA LoginSides == Sides /\ [LoginNext]_loginVars => Sides'
  <1> SUFFICES ASSUME Sides, [LoginNext]_loginVars PROVE Sides'
    OBVIOUS
  <1>0. /\ IInv /\ ClientTypeOK /\ InLoop /\ nread \in 0..Len(toClient)
        /\ toServer \in Seq(FirstMessage \cup LaterMessage)
        /\ toClient \in Seq(ServerMessage)
    BY DEF Sides, ClientTypeOK, IInv, TypeOK
  <1>1. [Next]_vars
    BY <1>0, LoginStep
  <1>2. IInv'
    BY <1>0, <1>1, NextIInv
  <1>3. Len(toClient) \in Nat /\ Len(toClient') \in Nat /\ Len(toClient') >= Len(toClient)
    <2>1. toClient' \in Seq(ServerMessage)
      BY <1>2 DEF IInv, TypeOK
    <2>2. toClient' = toClient \/ \E msg : toClient' = Append(toClient, msg)
      BY <1>1, StepTells DEF Tells
    <2> QED
      BY <1>0, <2>1, <2>2
  <1>4. CASE ServerRuns \/ ServerFindsClientGone \/ LoginDone \/ UNCHANGED loginVars
    <2>1. UNCHANGED <<clientVars, nread>>
      BY <1>4 DEF ServerRuns, ServerFindsClientGone, LoginDone, loginVars
    <2> QED
      BY <1>0, <1>2, <1>3, <2>1 DEF Sides, clientVars, ClientTypeOK, InLoop
  <1>5. CASE ServerReads
    <2>1. /\ UNCHANGED <<cpc, client, cmech, legs, turns, cround, nread>>
          /\ toServer # <<>> /\ toServer' = Tail(toServer)
      BY <1>5 DEF ServerReads
    <2>2. toServer' \in Seq(FirstMessage \cup LaterMessage)
      BY <1>0, <2>1
    <2> QED
      BY <1>0, <1>2, <1>3, <2>1, <2>2 DEF Sides, ClientTypeOK, InLoop
  <1>6. CASE ClientReads
    <2> DEFINE msg == toClient[nread + 1]
    <2>1. /\ msg \in ServerMessage /\ nread' \in 0..Len(toClient') /\ Read(msg)
      BY <1>0, <1>6 DEF ClientReads, vars
    <2> HIDE DEF msg
    <2>2. ReadVerdict(msg) => ClientTypeOK' /\ InLoop'
      BY <1>0 DEF ReadVerdict, ClientTypeOK, InLoop
    <2> QED
      BY <1>0, <1>2, <2>1, <2>2, ReadChallengeTypes, ReadReplyTypes DEF Read, Sides
  <1>7. CASE ClientFindsServerGone \/ ClientKilled
    BY <1>0, <1>2, <1>3, <1>7
       DEF ClientFindsServerGone, ReadFails, ClientFails, ClientKilled, Killed,
           Sides, ClientTypeOK, InLoop, vars
  <1> QED
    BY <1>4, <1>5, <1>6, <1>7 DEF LoginNext, ServerMoves, ClientMoves

LEMMA LoginSidesInit == LoginInit => Sides
  <1> SUFFICES ASSUME LoginInit PROVE Sides
    OBVIOUS
  <1>1. IInv
    BY InitIInv DEF LoginInit
  <1>2. ClientTypeOK /\ InLoop /\ nread \in 0..Len(toClient)
    BY DEF LoginInit, Init, ClientInit, ClientTypeOK, InLoop, CLIENT_ROUNDS
  <1> QED
    BY <1>1, <1>2 DEF Sides

\* Type correctness of a connection between the two.
THEOREM LoginTypeCorrect == LoginSpec => []LoginTypeOK
  <1>1. Sides => LoginTypeOK
    BY DEF Sides, IInv, LoginTypeOK
  <1> QED
    BY <1>1, LoginSidesInit, LoginSides, PTL DEF LoginSpec

\* A connection between demoserver and democlient is one of the connections
\* Handshake describes: what is proved there about a server and whatever
\* client also holds with democlient at the other end.
THEOREM LoginFollowsHandshake == LoginSpec => Spec
  <1>1. LoginInit => Init
    BY DEF LoginInit
  <1>2. Sides /\ [LoginNext]_loginVars => [Next]_vars
    BY LoginStep DEF Sides, ClientTypeOK
  <1> QED
    BY <1>1, <1>2, LoginSidesInit, LoginSides, PTL DEF LoginSpec, Spec

-----------------------------------------------------------------------------
(* The store, once more. *)

\* Nothing that was configured is missing from the store, and of a user's
\* passwords the one that counts is the one that is looked at.
StoreComplete ==
    pc \notin {"opening", "crashed"} =>
        \A u \in UserName :
            /\ \A p \in Password : IsPasswordUpto(loaded, u, p) =>
                  creds[u]["plain"] # <<>> /\ GetLast(creds[u], "plain") = p
            /\ \A p \in Principal :
                  IsPrincipalUpto(loaded, u, p) => p \in GetAll(creds[u], "principal")

\* The same lists are as complete as they were.
LEMMA CompleteKept ==
    ASSUME StoreComplete, pc \notin {"opening", "crashed"}, UNCHANGED loaded,
           \A u \in UserName : /\ creds'[u]["plain"] = creds[u]["plain"]
                               /\ creds'[u]["principal"] = creds[u]["principal"]
    PROVE  StoreComplete'
  <1>1. \A u \in UserName : /\ GetLast(creds'[u], "plain") = GetLast(creds[u], "plain")
                            /\ GetAll(creds'[u], "principal") = GetAll(creds[u], "principal")
    BY DEF GetLast, GetAll
  <1> QED
    BY <1>1 DEF StoreComplete

LEMMA OpenComplete == IInv /\ OpenStore => StoreComplete'
  <1> SUFFICES ASSUME IInv, OpenStore, pc' # "crashed" PROVE StoreComplete'
    BY DEF StoreComplete
  <1>1. creds' = DefaultStore /\ loaded' = 0
    BY DEF IInv, StoreFaithful, OpenStore, Raise
  <1>2. ASSUME NEW u \in UserName, NEW p \in Password, IsPasswordUpto(0, u, p)
        PROVE  creds'[u]["plain"] # <<>> /\ GetLast(creds'[u], "plain") = p
    <2>1. u = BuiltinUser /\ p = BuiltinPassword
      BY <1>2 DEF IsPasswordUpto
    <2> QED
      BY <1>1, <2>1, DefaultLookup, OneEntry
  <1>3. ASSUME NEW u \in UserName, NEW p \in Principal, IsPrincipalUpto(0, u, p)
        PROVE  p \in GetAll(creds'[u], "principal")
    <2>1. HaveGssapi /\ u = BuiltinUser /\ p = OurPrincipal
      BY <1>3 DEF IsPrincipalUpto
    <2>2. creds'[u]["principal"] = <<p>>
      BY <1>1, <2>1, DefaultLookup
    <2> QED
      BY <2>2 DEF GetAll
  <1> QED
    BY <1>1, <1>2, <1>3 DEF StoreComplete

LEMMA LoadComplete == IInv /\ StoreComplete /\ LoadCredential => StoreComplete'
  <1> SUFFICES ASSUME IInv, StoreComplete, LoadCredential PROVE StoreComplete'
    OBVIOUS
  <1> DEFINE k    == loaded + 1
             cred == CliCreds[k]
  <1>1. /\ k \in 1..Len(CliCreds) /\ loaded \in Nat /\ k = loaded + 1
        /\ cred \in Cred /\ cred = CliCreds[k]
        /\ loaded' = k /\ pc = "loading" /\ pc' = pc
        /\ creds' = Add(creds, cred.user, cred.kind, cred.password)
    BY CredentialsAssumption DEF IInv, TypeOK, LoadCredential
  <1> HIDE DEF k, cred
  <1>2. /\ cred.user \in UserName
        /\ cred.kind \in Kind
        /\ cred.password \in CredData
        /\ "plain" \in Kind /\ "principal" \in Kind
    BY <1>1 DEF Cred, UserName, Kind, CredData
  <1>3. /\ creds \in CredStore
        /\ \A u \in UserName, kd \in Kind : creds[u][kd] \in Seq(CredData \cup ScramEntry)
    BY DEF IInv, TypeOK, CredStore, UserCreds
  <1>4. \A u \in UserName, kd \in Kind :
            creds'[u][kd] = IF u = cred.user /\ kd = cred.kind
                            THEN Append(creds[u][kd], cred.password)
                            ELSE creds[u][kd]
    BY <1>1, <1>2, <1>3, AddLookup
  <1>5. ASSUME NEW u \in UserName, NEW p \in Password, IsPasswordUpto(k, u, p)
        PROVE  creds'[u]["plain"] # <<>> /\ GetLast(creds'[u], "plain") = p
    <2>1. CASE Given(k, u, "plain")
      <3>1. p = cred.password
        BY <1>1, <1>5, <2>1 DEF IsPasswordUpto
      <3> DEFINE list == creds[u]["plain"]
      <3>2. list \in Seq(CredData \cup ScramEntry)
        BY <1>2, <1>3
      <3>3. creds'[u]["plain"] = Append(list, p)
        BY <1>1, <1>2, <1>4, <2>1, <3>1 DEF Given
      <3>4. Append(list, p) # <<>> /\ Append(list, p)[Len(Append(list, p))] = p
        <4> HIDE DEF list
        <4> QED
          BY <1>2, <3>1, <3>2, AppendLookup
      <3> QED
        BY <3>3, <3>4 DEF GetLast
    <2>2. CASE ~Given(k, u, "plain")
      <3>1. creds'[u]["plain"] = creds[u]["plain"]
        BY <1>1, <1>2, <1>4, <2>2 DEF Given
      <3>2. IsPasswordUpto(loaded, u, p)
        BY <1>1, <1>5, <2>2 DEF IsPasswordUpto
      <3>3. creds[u]["plain"] # <<>> /\ GetLast(creds[u], "plain") = p
        BY <1>1, <3>2 DEF StoreComplete
      <3> QED
        BY <3>1, <3>3 DEF GetLast
    <2> QED
      BY <2>1, <2>2
  <1>6. ASSUME NEW u \in UserName, NEW p \in Principal, IsPrincipalUpto(k, u, p)
        PROVE  p \in GetAll(creds'[u], "principal")
    <2> DEFINE list == creds[u]["principal"]
    <2>1. list \in Seq(CredData \cup ScramEntry)
      BY <1>2, <1>3
    <2>2. CASE Given(k, u, "principal") /\ p = cred.password
      <3>1. creds'[u]["principal"] = Append(list, p)
        BY <1>1, <1>2, <1>4, <2>2 DEF Given
      <3>2. Append(list, p)[Len(list) + 1] = p /\ Len(list) + 1 \in DOMAIN Append(list, p)
        <4> HIDE DEF list
        <4> QED
          BY <1>2, <2>1, <2>2
      <3> QED
        BY <3>1, <3>2 DEF GetAll
    <2>3. CASE IsPrincipalUpto(loaded, u, p)
      <3>1. p \in GetAll(creds[u], "principal")
        BY <1>1, <2>3 DEF StoreComplete
      <3>2. PICK i \in DOMAIN list : p = list[i]
        BY <3>1 DEF GetAll
      <3>3. \/ creds'[u]["principal"] = list
            \/ creds'[u]["principal"] = Append(list, cred.password)
        BY <1>2, <1>4
      <3>4. i \in DOMAIN creds'[u]["principal"] /\ p = creds'[u]["principal"][i]
        <4> HIDE DEF list
        <4> QED
          BY <1>2, <2>1, <3>2, <3>3
      <3> QED
        BY <3>4 DEF GetAll
    <2> QED
      BY <1>1, <1>6, <2>2, <2>3 DEF IsPrincipalUpto
  <1> QED
    BY <1>1, <1>5, <1>6 DEF StoreComplete

LEMMA NextComplete == IInv /\ StoreComplete /\ [Next]_vars => StoreComplete'
  <1> SUFFICES ASSUME IInv, StoreComplete, [Next]_vars PROVE StoreComplete'
    OBVIOUS
  <1>1. CASE OpenStore
    BY <1>1, OpenComplete
  <1>2. CASE LoadCredential
    BY <1>2, LoadComplete
  <1>3. CASE ScramInitial
    <2>1. pc = "token" /\ user \in UserName /\ loaded' = loaded
      BY <1>3, TokenTaken DEF ScramInitial
    <2>2. \/ creds' = creds
          \/ creds' = Replace(creds, user, "SCRAM-SHA-256", ScramKeys)
      BY <1>3 DEF ScramInitial
    <2>3. creds \in CredStore
      BY DEF IInv, TypeOK
    <2>4. \A u \in UserName : /\ creds'[u]["plain"] = creds[u]["plain"]
                              /\ creds'[u]["principal"] = creds[u]["principal"]
      BY <2>1, <2>2, <2>3 DEF Replace, CredStore, UserCreds, Kind
    <2> QED
      BY <2>1, <2>4, CompleteKept
  <1>4. CASE pc \notin {"opening", "crashed"} /\ UNCHANGED <<loaded, creds>>
    BY <1>4, CompleteKept
  <1>5. CASE UNCHANGED vars
    BY <1>5 DEF vars, StoreComplete
  <1>6. CASE SendChallenge \/ CheckClassic \/ StartServer \/ GiveUp \/ PlainNext
    BY <1>4, <1>6 DEF SendChallenge, CheckClassic, StartServer, GiveUp, PlainNext, HasToken
  <1>7. CASE ScramFinish \/ GssNegotiate \/ GssOffer \/ GssConclude
    BY <1>4, <1>7 DEF ScramFinish, GssNegotiate, GssOffer, GssConclude, HasToken
  <1>8. CASE Authorize \/ SendWelcome \/ SendError \/ ReceiveEof
    BY <1>4, <1>8 DEF Authorize, SendWelcome, SendError, ReceiveEof
  <1>9. ASSUME NEW msg, ReceiveLogin(msg) \/ ReceiveToken(msg)
        PROVE  StoreComplete'
    BY <1>4, <1>9 DEF ReceiveLogin, ReceiveToken
  <1>10. ASSUME NEW e, ReceiveFails(e)
         PROVE  StoreComplete'
    BY <1>4, <1>10 DEF ReceiveFails
  <1> QED
    BY <1>1, <1>2, <1>3, <1>5, <1>6, <1>7, <1>8, <1>9, <1>10 DEF Next, ServerStep, Terminated

\* The password that counts is the one GetLast returns, so there is only one.
LEMMA PasswordLookup ==
    ASSUME StoreComplete, pc \notin {"opening", "crashed"}, loaded = Len(CliCreds),
           NEW u \in UserName, NEW p \in Password, IsPassword(u, p)
    PROVE  creds[u]["plain"] # <<>> /\ GetLast(creds[u], "plain") = p
  BY DEF StoreComplete, IsPassword

-----------------------------------------------------------------------------
(* Where the two sides stand, as long as the client is there. *)

\* Nothing is under way, a message is under way to the client, to the server.
Silent == toServer = <<>> /\ nread = Len(toClient)
ToBeRead(msg) == toServer = <<>> /\ Len(toClient) = nread + 1 /\ toClient[nread + 1] = msg
UnderWay(msg) == toServer = <<msg>> /\ nread = Len(toClient)

\* GSSAPI's last two tokens.
LastToken  == GssLast(client.principal, TRUE, TRUE, MINIMAL_REQ_FLAGS)
LayerToken == GssLayer(TRUE, TRUE, NoName)

\* The token democlient, having picked m, sends after k others.
TokenAt(m, t, k) ==
    \/ m = "PLAIN" /\ k = 0 /\ t = PlainToken(NoName, client.user, client.password)
    \/ m = "SCRAM-SHA-256" /\ k = 0 /\ t = ScramFirst(NoName, client.user)
    \/ m = "SCRAM-SHA-256" /\ k = 1 /\ t = ScramFinal(nonce, client.password)
    \/ m = "GSSAPI" /\ k < legs /\ t = GssMore
    \/ m = "GSSAPI" /\ k = legs /\ t = LastToken
    \/ m = "GSSAPI" /\ k = legs + 1 /\ t = Junk
    \/ m = "GSSAPI" /\ k = legs + 2 /\ t = LayerToken

\* The server's ServerSide after k tokens, if it is not done.
ContextAt(k) ==
    \/ cmech = "PLAIN" /\ k = 0
    \/ cmech = "SCRAM-SHA-256" /\ k = 0 /\ ctx.stage = "new"
    \/ /\ cmech = "SCRAM-SHA-256" /\ k = 1 /\ ctx.stage = "begun"
       /\ ctx.peer = client.user /\ authzid = None
    \/ cmech = "GSSAPI" /\ k <= legs /\ ctx.stage = "new"
    \/ cmech = "GSSAPI" /\ k = legs + 1 /\ ctx.stage = "begun" /\ ctx.peer = client.principal
    \/ cmech = "GSSAPI" /\ k = legs + 2 /\ ctx.stage = "offered" /\ ctx.peer = client.principal

SameLogin == user = client.user /\ mech = cmech

Opening ==
    /\ pc \in {"opening", "loading"}
    /\ Silent
    /\ cpc = "awaitChallenge"
    /\ exc = None /\ authzid = None /\ round = 0

Challenged ==
    /\ pc = "awaitLogin"
    /\ ToBeRead(Challenge(nonce))
    /\ cpc = "awaitChallenge"
    /\ exc = None /\ authzid = None /\ round = 0

\* The login message is under way.
LoggingIn ==
    /\ pc = "awaitLogin"
    /\ exc = None /\ authzid = None /\ round = 0
    /\ cmech \in Available
    /\ \/ /\ cmech \in ClassicMech
          /\ UnderWay(LoginMessage(client.user, cmech, Squish(cmech, nonce, client.password)))
          /\ cpc = "awaitVerdict"
       \/ /\ cmech \notin ClassicMech
          /\ \E t \in Token : TokenAt(cmech, t, 0) /\ UnderWay(LoginMessage(client.user, cmech, Hex(t)))
          /\ cpc = "awaitReply"
          /\ cround = 0

Checking ==
    /\ pc = "classic"
    /\ Silent
    /\ cpc = "awaitVerdict"
    /\ SameLogin
    /\ exc = None /\ authzid = None
    /\ reply = Squish(mech, nonce, client.password)

\* The server holds the client's token.
Looking ==
    /\ pc \in {"start", "token"}
    /\ Silent
    /\ cpc = "awaitReply"
    /\ SameLogin
    /\ exc = None
    /\ round = cround
    /\ ContextAt(round)
    /\ \E t \in Token : TokenAt(cmech, t, round) /\ reply = Hex(t)

\* The server has asked for another token, and the client has not seen it.
Asked ==
    /\ pc = "awaitToken"
    /\ \E token \in ServerToken :
          /\ ToBeRead(More(token))
          /\ cmech = "SCRAM-SHA-256" => token = ScramServerFirst(nonce)
    /\ cpc = "awaitReply"
    /\ SameLogin
    /\ exc = None
    /\ round = cround + 1
    /\ ContextAt(round)

\* The client's answer is under way.
Answered ==
    /\ pc = "awaitToken"
    /\ \E t \in Token : TokenAt(cmech, t, round) /\ UnderWay(TextMessage(Hex(t)))
    /\ cpc = "awaitReply"
    /\ SameLogin
    /\ exc = None
    /\ round = cround
    /\ ContextAt(round)

\* The mechanism is satisfied.  Under GSSAPI that says who the client is,
\* and otherwise that it knows the password.
Satisfied ==
    /\ SameLogin
    /\ exc = None
    /\ authzid \in {None, NoName}
    /\ IF KerberosStyle(mech)
       THEN authcid = client.principal
       ELSE authcid = client.user /\ IsPassword(client.user, client.password)

Deciding ==
    /\ pc \in {"authorize", "welcome"}
    /\ Silent
    /\ cpc \in {"awaitReply", "awaitVerdict"}
    /\ Satisfied

LetIn ==
    /\ pc = "session"
    /\ \/ ToBeRead(Welcome(final)) /\ cpc \in {"awaitReply", "awaitVerdict"}
       \/ Silent /\ cpc = "happy"
    /\ Satisfied

TurnedAway ==
    /\ SameLogin
    /\ ~Qualifies
    /\ cpc \in {"awaitReply", "awaitVerdict"}
    /\ \/ pc = "rejecting" /\ Silent
       \/ pc = "rejected" /\ ToBeRead(Error)

Dead ==
    /\ pc = "crashed"
    /\ Silent
    /\ Waiting
    /\ exc = "GSSError" \/ (exc = "AssertionError" /\ client.user = NoName)

InStep ==
    ~ClientGone =>
        \/ Opening \/ Challenged \/ LoggingIn \/ Checking \/ Looking \/ Asked \/ Answered
        \/ Deciding \/ LetIn \/ TurnedAway \/ Dead

\* What all of the above rests on.
Base == Sides /\ StoreComplete

-----------------------------------------------------------------------------
(* One lemma for each action that keeps the two in step. *)

\* What is known about the client from its type.
LEMMA ClientKnown ==
    ASSUME Base
    PROVE  /\ client \in Clients
           /\ client.user \in UserName /\ client.user # None
           /\ client.password \in Password /\ client.password # None
           /\ client.principal \in Principal /\ client.principal \notin {None, NoName}
           /\ legs \in Nat /\ cround \in Nat /\ round \in Nat
           /\ toClient \in Seq(ServerMessage) /\ nread \in Nat
           /\ toServer \in Seq(FirstMessage \cup LaterMessage)
           /\ None # "OSError" /\ None # "Reject" /\ None # "GSSError"
           /\ None # "AssertionError"
  <1>1. client \in ClientType
    BY DemoClientAssumption DEF Base, Sides, ClientTypeOK
  <1>2. /\ client.user \in UserName /\ client.password \in Password
        /\ client.principal \in Principal
    BY <1>1 DEF ClientType
  <1>3. None \notin UserName \cup Password \cup Principal /\ NoName \notin Principal
    BY CredentialsAssumption DEF UserName, CredData
  <1>4. /\ None # "OSError" /\ None # "Reject" /\ None # "GSSError"
        /\ None # "AssertionError"
    BY ExceptionAssumption DEF Exception
  <1>5. /\ legs \in Nat /\ cround \in Nat /\ round \in Nat /\ nread \in Nat
        /\ toClient \in Seq(ServerMessage)
        /\ toServer \in Seq(FirstMessage \cup LaterMessage)
        /\ client \in Clients
    BY DemoClientAssumption
       DEF Base, Sides, IInv, TypeOK, ClientTypeOK, MAX_ROUNDS, CLIENT_ROUNDS
  <1> QED
    BY <1>2, <1>3, <1>4, <1>5

\* A send that does not fail leaves one message to be read.
LEMMA Sent ==
    ASSUME Base, NEW msg, NEW next, Send(msg, next), ~SendFailed, exc = None,
           Silent, UNCHANGED <<toServer, nread>>
    PROVE  /\ pc' = next /\ exc' = None
           /\ toServer' = <<>> /\ Len(toClient') = nread' + 1 /\ toClient'[nread' + 1] = msg
  <1>1. toClient' = Append(toClient, msg) /\ pc' = next /\ exc' = exc
    BY ClientKnown DEF Send, Goto, Raise, SendFailed
  <1>2. toClient \in Seq(ServerMessage \cup {msg})
    BY ClientKnown
  <1> QED
    BY <1>1, <1>2 DEF Silent

\* The password that democlient has is checked against the one that counts.
LEMMA RightPassword ==
    ASSUME Base, pc \notin {"opening", "loading", "crashed"}, SameLogin
    PROVE  IsPassword(client.user, client.password)
              <=> GetLast(creds[user], "plain") = client.password
  <1>1. /\ user = client.user /\ user \in UserName
        /\ client.password \in Password /\ client.password # None
        /\ loaded = Len(CliCreds)
    BY ClientKnown DEF SameLogin, Base, Sides, IInv, StoreFaithful
  <1>2. ASSUME IsPassword(client.user, client.password)
        PROVE  GetLast(creds[user], "plain") = client.password
    BY <1>1, <1>2, PasswordLookup DEF Base
  <1>3. ASSUME GetLast(creds[user], "plain") = client.password
        PROVE  IsPassword(client.user, client.password)
    <2>1. creds[user]["plain"] # <<>>
      BY <1>1, <1>3 DEF GetLast
    <2> QED
      BY <1>1, <1>3, <2>1 DEF Base, Sides, IInv, StoreFaithful, IsPassword
  <1> QED
    BY <1>2, <1>3

\* The steps up to the challenge.
LEMMA OpeningStep ==
    ASSUME Base, InStep, ~ClientGone, ~SendFailed, UNCHANGED <<clientVars, nread>>,
           OpenStore \/ LoadCredential \/ SendChallenge
    PROVE  Opening' \/ Challenged' \/ Dead'
  <1>1. Opening
    BY DEF InStep, Opening, Challenged, LoggingIn, Checking, Looking, Asked, Answered,
           Deciding, LetIn, TurnedAway, Dead, OpenStore, LoadCredential, SendChallenge
  <1>2. UNCHANGED <<cpc, client, toServer, nread>>
    BY DEF clientVars
  <1>3. CASE OpenStore \/ LoadCredential
    BY <1>1, <1>2, <1>3 DEF OpenStore, LoadCredential, Goto, Raise, Opening, Dead, Silent, identity, Waiting
  <1>4. CASE SendChallenge
    <2>1. PICK n \in Nonce : /\ nonce' = n
                             /\ \/ Send(Challenge(n), "awaitLogin")
                                \/ Raise("Reject") /\ UNCHANGED toClient
      BY <1>4 DEF SendChallenge
    <2>2. Send(Challenge(n), "awaitLogin")
      BY <1>4, <2>1 DEF SendChallenge, Raise, SendFailed
    <2>3. /\ pc' = "awaitLogin" /\ exc' = None
          /\ toServer' = <<>> /\ Len(toClient') = nread' + 1
          /\ toClient'[nread' + 1] = Challenge(n)
      BY <1>1, <1>2, <2>2, Sent DEF Opening
    <2> QED
      BY <1>1, <1>2, <1>4, <2>1, <2>3 DEF SendChallenge, Opening, Challenged, ToBeRead, identity
  <1> QED
    BY <1>3, <1>4

\* The classic check: a client that knows the password passes it.
LEMMA CheckingStep ==
    ASSUME Base, InStep, ~ClientGone, UNCHANGED <<clientVars, nread>>, CheckClassic
    PROVE  Deciding' \/ TurnedAway' \/ Dead'
  <1>1. Checking
    BY DEF InStep, Opening, Challenged, LoggingIn, Checking, Looking, Asked, Answered,
           Deciding, LetIn, TurnedAway, Dead, CheckClassic
  <1>2. /\ UNCHANGED <<cpc, client, cmech, toServer, nread, user, mech, toClient, authzid>>
        /\ pc = "classic" /\ authcid' = user
    BY DEF clientVars, CheckClassic, login
  <1>3. ~KerberosStyle(mech)
    BY <1>2 DEF Base, Sides, IInv, LoginKnown, ClassicMech, KerberosStyle
  <1>4. /\ Silent' /\ SameLogin' /\ SameLogin
        /\ (Qualifies' <=> IsPassword(client.user, client.password))
    BY <1>1, <1>2, <1>3 DEF Checking, Silent, SameLogin, Qualifies, IsPassword, KerberosStyle
  <1>5. IsPassword(client.user, client.password) <=> reply = Expected
    <2>1. reply = Squish(mech, nonce, client.password)
      BY <1>1 DEF Checking
    <2>2. reply = Expected <=> GetLast(creds[user], "plain") = client.password
      <3>1. None \notin Reply /\ reply \in Reply
        BY MechanismsAssumption DEF Base, Sides, IInv, TypeOK
      <3> QED
        BY <2>1, <3>1, ClientKnown DEF Expected, Squish
    <2> QED
      BY <1>2, <1>4, <2>2, RightPassword
  <1>6. CASE user = NoName /\ Raise("AssertionError")
    BY <1>1, <1>2, <1>4, <1>6 DEF Raise, Dead, Checking, SameLogin, Waiting
  <1>7. CASE reply = Expected /\ Goto("authorize")
    <2>1. IsPassword(client.user, client.password)'
      BY <1>2, <1>5, <1>7 DEF IsPassword
    <2> QED
      BY <1>1, <1>2, <1>3, <1>4, <1>7, <2>1
         DEF Goto, Deciding, Satisfied, Checking, SameLogin, KerberosStyle
  <1>8. CASE reply # Expected /\ Raise("Reject")
    BY <1>1, <1>2, <1>4, <1>5, <1>8 DEF Raise, TurnedAway, Checking
  <1> QED
    BY <1>6, <1>7, <1>8 DEF CheckClassic

\* What is known when the server looks at democlient's token.
LEMMA LookingKnown ==
    ASSUME Base, InStep, ~ClientGone, pc \in {"start", "token"}
    PROVE  /\ Silent /\ cpc = "awaitReply" /\ SameLogin /\ exc = None
           /\ round = cround /\ round \in Nat /\ round < MAX_ROUNDS
           /\ ContextAt(round)
           /\ reply.form = "hex" /\ reply # Empty
           /\ TokenAt(cmech, reply.token, round)
  <1>1. Looking
    BY DEF InStep, Opening, Challenged, LoggingIn, Checking, Looking, Asked, Answered,
           Deciding, LetIn, TurnedAway, Dead
  <1>2. PICK t \in Token : TokenAt(cmech, t, round) /\ reply = Hex(t)
    BY <1>1 DEF Looking
  <1>3. reply.form = "hex" /\ reply # Empty /\ reply.token = t
    BY <1>2 DEF Hex, Empty
  <1> QED
    BY <1>1, <1>2, <1>3, ClientKnown DEF Looking, Base, Sides, InLoop, MAX_ROUNDS, CLIENT_ROUNDS

\* Which token it is, mechanism by mechanism.
LEMMA TokenOf ==
    ASSUME NEW t, NEW k \in Nat, legs \in Nat, TokenAt(cmech, t, k)
    PROVE  /\ cmech = "PLAIN" => t = PlainToken(NoName, client.user, client.password)
           /\ cmech = "SCRAM-SHA-256" /\ k = 0 => t = ScramFirst(NoName, client.user)
           /\ cmech = "SCRAM-SHA-256" /\ k = 1 => t = ScramFinal(nonce, client.password)
           /\ cmech = "GSSAPI" =>
                 /\ k < legs => t = GssMore
                 /\ k = legs => t = LastToken
                 /\ k = legs + 2 => t = LayerToken
  BY DEF TokenAt

\* How far the server's context is, mechanism by mechanism.
LEMMA ContextOf ==
    ASSUME NEW k \in Nat, legs \in Nat, ContextAt(k)
    PROVE  /\ cmech = "SCRAM-SHA-256" =>
                 /\ ctx.stage = "new" => k = 0
                 /\ ctx.stage = "begun" => k = 1 /\ ctx.peer = client.user /\ authzid = None
           /\ cmech = "GSSAPI" =>
                 /\ ctx.stage = "new" => k <= legs
                 /\ ctx.stage = "begun" => k = legs + 1 /\ ctx.peer = client.principal
                 /\ ctx.stage = "offered" => k = legs + 2 /\ ctx.peer = client.principal
  BY DEF ContextAt

\* The start of the loop, and its end, which is not reached.
LEMMA StartStep ==
    ASSUME Base, InStep, ~ClientGone, ~SendFailed, UNCHANGED <<clientVars, nread>>,
           StartServer
    PROVE  Looking' \/ Dead'
  <1>1. /\ pc = "start"
        /\ UNCHANGED <<cpc, client, cmech, legs, cround, toServer, user, mech, reply, round,
                       ctx, authzid, nonce>>
    BY DEF clientVars, StartServer, login, identity
  <1>2. Looking
    BY <1>1 DEF InStep, Opening, Challenged, LoggingIn, Checking, Looking, Asked, Answered,
           Deciding, LetIn, TurnedAway, Dead
  <1>3. reply # Empty
    BY <1>1, LookingKnown
  <1>4. CASE Raise("GSSError") /\ UNCHANGED toClient
    BY <1>1, <1>2, <1>4 DEF Raise, Dead, Looking, Silent, Waiting
  <1>5. CASE Goto("token") /\ UNCHANGED toClient
    BY <1>1, <1>2, <1>5 DEF Goto, Looking, Silent, SameLogin, ContextAt,
             TokenAt, LastToken, LayerToken
  <1> QED
    BY <1>3, <1>4, <1>5 DEF StartServer

LEMMA NoGiveUp ==
    ASSUME Base, InStep, ~ClientGone, GiveUp
    PROVE  FALSE
  BY LookingKnown DEF GiveUp, MAX_ROUNDS

\* The next round.
LEMMA AskedNext ==
    ASSUME Base, InStep, ~ClientGone, ~SendFailed, UNCHANGED <<clientVars, nread>>,
           NEW m, HasToken(m), UNCHANGED <<user, mech, nonce>>,
           NEW token \in ServerToken, token # NoBytes, Continue(token),
           mech = "SCRAM-SHA-256" => token = ScramServerFirst(nonce),
           ContextAt(round)'
    PROVE  Asked'
  <1>1. /\ Silent /\ cpc = "awaitReply" /\ SameLogin /\ exc = None /\ round = cround
        /\ round' = round + 1
    BY LookingKnown DEF HasToken
  <1>2. UNCHANGED <<cpc, client, cmech, legs, cround, toServer, nread>>
    BY DEF clientVars
  <1>4. Send(More(token), "awaitToken")
    BY DEF Continue
  <1>5. /\ pc' = "awaitToken" /\ exc' = None
        /\ toServer' = <<>> /\ Len(toClient') = nread' + 1
        /\ toClient'[nread' + 1] = More(token)
    BY <1>1, <1>2, <1>4, Sent
  <1> QED
    BY <1>1, <1>2, <1>5 DEF Asked, ToBeRead, SameLogin

LEMMA PlainStep ==
    ASSUME Base, InStep, ~ClientGone, UNCHANGED <<clientVars, nread>>, PlainNext
    PROVE  Deciding' \/ TurnedAway'
  <1>0. HasToken("PLAIN") /\ pc = "token" /\ mech = "PLAIN"
    BY DEF PlainNext, HasToken
  <1>1. /\ Silent /\ cpc = "awaitReply" /\ SameLogin /\ exc = None
        /\ reply.token = PlainToken(NoName, client.user, client.password)
    BY <1>0, LookingKnown, ClientKnown, TokenOf DEF SameLogin
  <1>2. UNCHANGED <<cpc, client, cmech, toServer, nread, user, mech>>
    BY DEF clientVars, PlainNext
  <1>3. /\ SameLogin' /\ ~KerberosStyle(mech)
        /\ (Qualifies' <=> IsPassword(client.user, client.password))
    BY <1>0, <1>1, <1>2 DEF SameLogin, Qualifies, KerberosStyle, IsPassword
  <1>4. IsPassword(client.user, client.password)
           <=> GetLast(creds[user], "plain") = client.password
    BY <1>0, <1>1, RightPassword
  <1>5. CASE /\ client.password = GetLast(creds[user], "plain")
             /\ Done(client.user, OrNone(NoName), None)
    <2>1. IsPassword(client.user, client.password)'
      BY <1>2, <1>4, <1>5 DEF IsPassword
    <2> QED
      BY <1>1, <1>2, <1>3, <1>5, <2>1
         DEF Done, Goto, OrNone, Deciding, Satisfied, Silent, KerberosStyle
  <1>6. CASE client.password # GetLast(creds[user], "plain") /\ Refuse("Reject")
    BY <1>1, <1>2, <1>3, <1>4, <1>6 DEF Refuse, Raise, TurnedAway, Silent
  <1> QED
    BY <1>1, <1>5, <1>6 DEF PlainNext, PlainToken, IsUtf8

LEMMA ScramFirstStep ==
    ASSUME Base, InStep, ~ClientGone, ~SendFailed, UNCHANGED <<clientVars, nread>>,
           ScramInitial
    PROVE  Asked' \/ TurnedAway'
  <1>0. HasToken("SCRAM-SHA-256") /\ pc = "token" /\ mech = "SCRAM-SHA-256" /\ ctx.stage = "new"
    BY DEF ScramInitial, HasToken
  <1>1. /\ Silent /\ cpc = "awaitReply" /\ SameLogin /\ exc = None
        /\ round = 0 /\ reply.token = ScramFirst(NoName, client.user)
    BY <1>0, LookingKnown, ClientKnown, TokenOf, ContextOf DEF SameLogin
  <1>2. UNCHANGED <<cpc, client, cmech, toServer, nread, user, mech, nonce>>
    BY DEF clientVars, ScramInitial
  <1>3. CASE ScramKeys = None /\ Refuse("Reject")
    <2>1. ~IsPassword(client.user, client.password)
      <3> SUFFICES ASSUME IsPassword(client.user, client.password) PROVE FALSE
        OBVIOUS
      <3>1. GetLast(creds[user], "plain") = client.password
        BY <1>0, <1>1, RightPassword
      <3>2. ScramMade = [salted |-> client.password]
        BY <3>1, ClientKnown DEF ScramMade
      <3>3. [salted |-> client.password] # None
        BY ClientKnown, CredentialsAssumption DEF ScramEntry
      <3> QED
        BY <1>3, <3>2, <3>3 DEF ScramKeys
    <2>2. SameLogin' /\ ~Qualifies'
      BY <1>0, <1>1, <1>2, <2>1 DEF SameLogin, Qualifies, KerberosStyle, IsPassword
    <2> QED
      BY <1>1, <1>2, <1>3, <2>2 DEF Refuse, Raise, TurnedAway, Silent
  <1>4. CASE /\ authzid' = ScramAuthzid(NoName)
             /\ ctx' = [stage |-> "begun", peer |-> client.user, keys |-> ScramKeys]
             /\ Continue(ScramServerFirst(nonce))
    <2>1. ContextAt(round)'
      BY <1>0, <1>1, <1>2, <1>4 DEF ContextAt, ScramAuthzid, SameLogin, ScramInitial, HasToken
    <2>2. ScramServerFirst(nonce) \in ServerToken /\ ScramServerFirst(nonce) # NoBytes
      BY <1>0, MessageTypes, ChallengesNotEmpty DEF Base, Sides, IInv, LoginKnown, Holding
    <2> QED
      BY <1>0, <1>2, <1>4, <2>1, <2>2, AskedNext
  <1> QED
    BY <1>1, <1>3, <1>4 DEF ScramInitial, ScramFirst

LEMMA ScramFinalStep ==
    ASSUME Base, InStep, ~ClientGone, UNCHANGED <<clientVars, nread>>, ScramFinish
    PROVE  Deciding' \/ TurnedAway'
  <1>0. HasToken("SCRAM-SHA-256") /\ pc = "token" /\ mech = "SCRAM-SHA-256" /\ ctx.stage = "begun"
    BY DEF ScramFinish, HasToken
  <1>1. /\ Silent /\ cpc = "awaitReply" /\ SameLogin /\ exc = None
        /\ round = 1 /\ reply.token = ScramFinal(nonce, client.password)
        /\ ctx.peer = client.user /\ authzid = None
    BY <1>0, LookingKnown, ClientKnown, TokenOf, ContextOf DEF SameLogin
  <1>2. UNCHANGED <<cpc, client, cmech, toServer, nread, user, mech>>
    BY DEF clientVars, ScramFinish
  <1>3. PICK p \in Password : IsPassword(user, p) /\ ctx.keys = [salted |-> p]
    BY <1>0 DEF Base, Sides, IInv, ContextFaithful
  <1>4. /\ SameLogin' /\ ~KerberosStyle(mech)
        /\ (Qualifies' <=> IsPassword(client.user, client.password))
    BY <1>0, <1>1, <1>2 DEF SameLogin, Qualifies, KerberosStyle, IsPassword
  <1>5. IsPassword(client.user, client.password) <=> client.password = p
    <2>1. loaded = Len(CliCreds) /\ user \in UserName
      BY <1>0, TokenTaken DEF Base, Sides
    <2>2. GetLast(creds[user], "plain") = p
      BY <1>0, <1>3, <2>1, PasswordLookup DEF Base
    <2> QED
      BY <1>0, <1>1, <2>2, RightPassword
  <1>6. ScramVerifies(reply.token) <=> client.password = p
    BY <1>1, <1>3 DEF ScramVerifies, ScramFinal
  <1>7. CASE /\ client.password = p
             /\ Done(ctx.peer, authzid, ScramServerFinal(client.password))
    <2>1. IsPassword(client.user, client.password)'
      BY <1>2, <1>5, <1>7 DEF IsPassword
    <2> QED
      BY <1>1, <1>2, <1>4, <1>7, <2>1 DEF Done, Goto, Deciding, Satisfied, Silent, KerberosStyle
  <1>8. CASE client.password # p /\ Refuse("Reject")
    BY <1>1, <1>2, <1>4, <1>5, <1>8 DEF Refuse, Raise, TurnedAway, Silent
  <1> QED
    BY <1>1, <1>6, <1>7, <1>8 DEF ScramFinish, ScramFinal

LEMMA GssStep ==
    ASSUME Base, InStep, ~ClientGone, ~SendFailed, UNCHANGED <<clientVars, nread>>,
           GssNegotiate \/ GssOffer
    PROVE  Asked'
  <1>0. HasToken("GSSAPI") /\ pc = "token" /\ mech = "GSSAPI" /\ ctx.stage \in {"new", "begun"}
    BY DEF GssNegotiate, GssOffer, HasToken
  <1>1. /\ SameLogin /\ ContextAt(round) /\ TokenAt(cmech, reply.token, round)
        /\ cmech = "GSSAPI" /\ round \in Nat /\ legs \in Nat
    BY <1>0, LookingKnown, ClientKnown DEF SameLogin
  <1>2. UNCHANGED <<client, cmech, legs, user, mech, nonce>> /\ round' = round + 1
    BY <1>0 DEF clientVars, GssNegotiate, GssOffer, HasToken
  <1>3. ASSUME NEW token \in {GssServerToken, GssLayerOffer}, Continue(token),
               ContextAt(round)'
        PROVE  Asked'
    BY <1>0, <1>2, <1>3, MessageTypes, ChallengesNotEmpty, AskedNext
  <1>4. CASE GssNegotiate /\ round < legs
    <2>1. reply.token = GssMore /\ ctx.stage = "new"
      BY <1>1, <1>4, TokenOf DEF GssNegotiate
    <2>2. Continue(GssServerToken) /\ ctx' = ctx
      BY <1>4, <2>1 DEF GssNegotiate, GssMore
    <2>3. ContextAt(round)'
      BY <1>1, <1>2, <1>4, <2>1, <2>2 DEF ContextAt
    <2> QED
      BY <1>3, <2>2, <2>3
  <1>5. CASE GssNegotiate /\ round = legs
    <2>1. /\ reply.token = LastToken
          /\ ctx.stage = "new"
      BY <1>1, <1>5, TokenOf DEF GssNegotiate
    <2>2. VerifyFlags(MINIMAL_REQ_FLAGS) /\ "mutual" \in MINIMAL_REQ_FLAGS
      BY DEF VerifyFlags, MINIMAL_REQ_FLAGS
    <2>3. /\ Continue(GssServerToken)
          /\ ctx' = [ctx EXCEPT !.stage = "begun", !.peer = client.principal]
      BY <1>5, <2>1, <2>2 DEF GssNegotiate, LastToken, GssLast
    <2>4. ctx'.stage = "begun" /\ ctx'.peer = client.principal
      BY <2>3 DEF Base, Sides, IInv, TypeOK
    <2>5. ContextAt(round)'
      BY <1>1, <1>2, <1>5, <2>4 DEF ContextAt
    <2> QED
      BY <1>3, <2>3, <2>5
  <1>6. CASE GssOffer
    <2>1. /\ ctx.stage = "begun" /\ Continue(GssLayerOffer)
          /\ ctx' = [ctx EXCEPT !.stage = "offered"]
      BY <1>6 DEF GssOffer
    <2>2. round = legs + 1 /\ ctx.peer = client.principal
      BY <1>1, <2>1, ContextOf
    <2>3. ctx'.stage = "offered" /\ ctx'.peer = ctx.peer
      BY <2>1 DEF Base, Sides, IInv, TypeOK
    <2>4. ContextAt(round)'
      BY <1>1, <1>2, <2>2, <2>3 DEF ContextAt
    <2> QED
      BY <1>3, <2>1, <2>4
  <1>7. GssNegotiate => round <= legs
    BY <1>1, ContextOf DEF GssNegotiate
  <1> QED
    BY <1>1, <1>4, <1>5, <1>6, <1>7

LEMMA GssLastStep ==
    ASSUME Base, InStep, ~ClientGone, UNCHANGED <<clientVars, nread>>, GssConclude
    PROVE  Deciding'
  <1>0. HasToken("GSSAPI") /\ pc = "token" /\ mech = "GSSAPI" /\ ctx.stage = "offered"
    BY DEF GssConclude, HasToken
  <1>1. /\ Silent /\ cpc = "awaitReply" /\ SameLogin /\ exc = None
        /\ ContextAt(round) /\ TokenAt(cmech, reply.token, round)
        /\ cmech = "GSSAPI" /\ round \in Nat /\ legs \in Nat
    BY <1>0, LookingKnown, ClientKnown DEF SameLogin
  <1>2. round = legs + 2 /\ ctx.peer = client.principal
    BY <1>0, <1>1, ContextOf
  <1>3. reply.token = LayerToken
    BY <1>1, <1>2, TokenOf
  <1>4. Done(ctx.peer, NoName, None) /\ UNCHANGED <<cpc, client, cmech, toServer, nread, user, mech>>
    BY <1>3 DEF clientVars, GssConclude, LayerToken, GssLayer
  <1> QED
    BY <1>0, <1>1, <1>2, <1>4 DEF Done, Goto, Deciding, Satisfied, Silent, SameLogin, KerberosStyle

\* The verdict: a client that the mechanism is satisfied with gets in, unless
\* it is not one of the user's principals or the user has no name.
LEMMA DecidingKnown ==
    ASSUME InStep, ~ClientGone, pc \in {"authorize", "welcome"}
    PROVE  Deciding
  BY DEF InStep, Opening, Challenged, LoggingIn, Checking, Looking, Asked, Answered,
         Deciding, LetIn, TurnedAway, Dead

LEMMA VerdictStep ==
    ASSUME Base, InStep, ~ClientGone, UNCHANGED <<clientVars, nread>>, Authorize
    PROVE  Deciding' \/ TurnedAway' \/ Dead'
  <1>1. /\ pc = "authorize"
        /\ UNCHANGED <<cpc, client, cmech, toServer, nread, user, mech, authcid, authzid,
                       toClient, creds, loaded>>
    BY DEF clientVars, Authorize, login, identity
  <1>2. Deciding
    BY <1>1, DecidingKnown
  <1>3. CASE ~Named /\ Raise("AssertionError")
    <2>1. user = NoName
      BY <1>2, <1>3, ClientKnown DEF Named, Deciding, Satisfied, SameLogin
    <2> QED
      BY <1>1, <1>2, <1>3, <2>1 DEF Raise, Dead, Deciding, Satisfied, SameLogin, Silent, Waiting
  <1>4. CASE Goto("welcome")
    BY <1>1, <1>2, <1>4
       DEF Goto, Deciding, Satisfied, SameLogin, Silent, IsPassword, KerberosStyle
  <1>5. CASE ~(MayActAs /\ Permitted) /\ Raise("Reject")
    <2>1. KerberosStyle(mech) /\ client.principal \notin GetAll(creds[client.user], "principal")
      BY <1>2, <1>5 DEF MayActAs, Permitted, Deciding, Satisfied, SameLogin
    <2>2. loaded = Len(CliCreds)
      BY <1>1 DEF Base, Sides, IInv, StoreFaithful
    <2>3. ~IsPrincipal(client.user, client.principal)
      BY <1>1, <2>1, <2>2, ClientKnown DEF Base, StoreComplete, IsPrincipal
    <2>4. ~Qualifies'
      BY <1>1, <2>1, <2>3 DEF Qualifies, IsPrincipal, KerberosStyle
    <2> QED
      BY <1>1, <1>2, <1>5, <2>4 DEF Raise, TurnedAway, Deciding, Satisfied, SameLogin, Silent
  <1> QED
    BY <1>3, <1>4, <1>5 DEF Authorize

LEMMA WelcomeStep ==
    ASSUME Base, InStep, ~ClientGone, ~SendFailed, UNCHANGED <<clientVars, nread>>,
           SendWelcome
    PROVE  LetIn'
  <1>1. /\ pc = "welcome" /\ Send(Welcome(final), "session")
        /\ UNCHANGED <<cpc, client, cmech, toServer, nread, user, mech, authcid, authzid, final>>
    BY DEF clientVars, SendWelcome, login, identity
  <1>2. Deciding
    BY <1>1, DecidingKnown
  <1>3. /\ pc' = "session" /\ exc' = None
        /\ toServer' = <<>> /\ Len(toClient') = nread' + 1
        /\ toClient'[nread' + 1] = Welcome(final)
    BY <1>1, <1>2, Sent DEF Deciding, Satisfied
  <1> QED
    BY <1>1, <1>2, <1>3
       DEF LetIn, ToBeRead, Deciding, Satisfied, SameLogin, IsPassword, KerberosStyle

LEMMA ErrorStep ==
    ASSUME Base, InStep, ~ClientGone, ~SendFailed, UNCHANGED <<clientVars, nread>>,
           SendError
    PROVE  TurnedAway'
  <1>1. /\ pc = "rejecting" /\ pc' = "rejected" /\ toClient' = Append(toClient, Error)
        /\ UNCHANGED <<cpc, client, cmech, toServer, nread, user, mech>>
    BY DEF clientVars, SendError, SendFailed, login
  <1>2. TurnedAway
    BY <1>1 DEF InStep, Opening, Challenged, LoggingIn, Checking, Looking, Asked, Answered,
           Deciding, LetIn, TurnedAway, Dead
  <1>3. toServer' = <<>> /\ Len(toClient') = nread' + 1 /\ toClient'[nread' + 1] = Error
    <2>1. toClient \in Seq(ServerMessage) /\ Error \in ServerMessage
      BY ClientKnown, MessageTypes
    <2>2. toServer = <<>> /\ nread = Len(toClient)
      BY <1>1, <1>2 DEF TurnedAway, Silent
    <2> QED
      BY <1>1, <2>1, <2>2
  <1> QED
    BY <1>1, <1>2, <1>3 DEF TurnedAway, ToBeRead, SameLogin, Qualifies,
           IsPassword, IsPrincipal, KerberosStyle

\* The server takes the login message, or the next token.
LEMMA TakeLogin ==
    ASSUME Base, InStep, ~ClientGone, ServerReads, ReceiveLogin(Head(toServer))
    PROVE  Checking' \/ Looking'
  <1>1. /\ pc = "awaitLogin" /\ toServer # <<>> /\ toServer' = Tail(toServer)
        /\ UNCHANGED <<cpc, client, cmech, legs, cround, nread, nonce, ctx, round, authzid,
                       toClient>>
    BY DEF ReceiveLogin, ServerReads, identity
  <1>2. LoggingIn
    BY <1>1 DEF InStep, Opening, Challenged, LoggingIn, Checking, Looking, Asked, Answered,
           Deciding, LetIn, TurnedAway, Dead, ToBeRead
  <1>3. PICK r : /\ UnderWay(LoginMessage(client.user, cmech, r))
                 /\ \/ /\ cmech \in ClassicMech
                       /\ r = Squish(cmech, nonce, client.password)
                       /\ cpc = "awaitVerdict"
                    \/ /\ cmech \notin ClassicMech
                       /\ \E t \in Token : TokenAt(cmech, t, 0) /\ r = Hex(t)
                       /\ cpc = "awaitReply" /\ cround = 0
    BY <1>2 DEF LoggingIn
  <1>4. /\ Head(toServer) = LoginMessage(client.user, cmech, r)
        /\ toServer' = <<>> /\ nread = Len(toClient)
    BY <1>1, <1>3 DEF UnderWay
  <1>5. /\ user' = client.user /\ mech' = cmech /\ reply' = r /\ exc' = exc
        /\ pc' = IF cmech \in ClassicMech THEN "classic" ELSE "start"
    BY <1>2, <1>4 DEF ReceiveLogin, LoginMessage, Goto, LoggingIn
  <1>6. Silent' /\ SameLogin' /\ exc' = None /\ authzid' = None /\ round' = 0
    BY <1>1, <1>2, <1>4, <1>5 DEF Silent, SameLogin, LoggingIn
  <1>7. CASE cmech \in ClassicMech
    BY <1>1, <1>3, <1>5, <1>6, <1>7 DEF Checking
  <1>8. CASE cmech \notin ClassicMech
    <2>1. ctx.stage = "new"
      BY <1>1 DEF Base, Sides, IInv, LoginKnown, BeforeLogin
    <2>2. cmech \in {"PLAIN", "SCRAM-SHA-256", "GSSAPI"}
      BY <1>2, <1>8, ClientKnown, ClientMessages DEF LoggingIn
    <2>3. ContextAt(0)'
      BY <1>1, <2>1, <2>2, ClientKnown DEF ContextAt
    <2>4. ContextAt(round)'
      BY <1>6, <2>3 DEF ContextAt
    <2>5. PICK t \in Token : TokenAt(cmech, t, 0) /\ r = Hex(t)
      BY <1>3, <1>8
    <2>6. TokenAt(cmech, t, round)' /\ reply' = Hex(t)
      BY <1>1, <1>5, <1>6, <2>5 DEF TokenAt, LastToken, LayerToken
    <2> QED
      BY <1>1, <1>3, <1>5, <1>6, <1>8, <2>4, <2>6 DEF Looking
  <1> QED
    BY <1>7, <1>8

LEMMA TakeToken ==
    ASSUME Base, InStep, ~ClientGone, ServerReads, ReceiveToken(Head(toServer))
    PROVE  Looking'
  <1>1. /\ pc = "awaitToken" /\ toServer # <<>> /\ toServer' = Tail(toServer)
        /\ reply' = Head(toServer).reply /\ pc' = "token" /\ exc' = exc
        /\ UNCHANGED <<cpc, client, cmech, legs, cround, nread, nonce, user, mech, ctx, round,
                       authzid, toClient>>
    BY DEF ReceiveToken, ServerReads, Goto, identity
  <1>2. Answered
    <2>1. Asked \/ Answered
      BY <1>1 DEF InStep, Opening, Challenged, LoggingIn, Checking, Looking, Asked, Answered,
             Deciding, LetIn, TurnedAway, Dead
    <2>2. ~Asked
      BY <1>1 DEF Asked, ToBeRead
    <2> QED
      BY <2>1, <2>2
  <1>3. PICK t \in Token : TokenAt(cmech, t, round) /\ UnderWay(TextMessage(Hex(t)))
    BY <1>2 DEF Answered
  <1>4. reply' = Hex(t) /\ Silent'
    BY <1>1, <1>3 DEF UnderWay, TextMessage, Silent
  <1>5. TokenAt(cmech, t, round)' /\ ContextAt(round)' /\ SameLogin'
    BY <1>1, <1>2, <1>3 DEF TokenAt, LastToken, LayerToken, ContextAt, SameLogin, Answered
  <1> QED
    BY <1>1, <1>2, <1>4, <1>5 DEF Looking, Answered

\* What democlient answers is what TokenAt says.
LEMMA RespondAt ==
    ASSUME Base, NEW m \in {"PLAIN", "SCRAM-SHA-256", "GSSAPI"}, NEW k \in Nat, NEW token,
           m = "PLAIN" => k = 0,
           m = "SCRAM-SHA-256" /\ k = 1 => token = ScramServerFirst(nonce),
           m = "GSSAPI" => k <= legs + 2,
           NEW t \in Respond(m, k, token)
    PROVE  t \in Token /\ TokenAt(m, t, k)
  <1>1. t \in Token
    BY RespondToken DEF Base, Sides, ClientTypeOK
  <1>2. m = "PLAIN" => TokenAt(m, t, k)
    BY DEF Respond, PlainRespond, TokenAt
  <1>3. ASSUME m = "SCRAM-SHA-256"
        PROVE  TokenAt(m, t, k)
    <2>1. t \in ScramRespond(k, token)
      BY <1>3 DEF Respond
    <2>2. CASE k = 0 /\ t = ScramFirst(NoName, client.user)
      BY <1>3, <2>2 DEF TokenAt
    <2>3. ASSUME k = 1, NEW n \in Nonce, token = ScramServerFirst(n),
                 t = ScramFinal(n, client.password)
          PROVE  TokenAt(m, t, k)
      <3>1. n = nonce
        BY <1>3, <2>3 DEF ScramServerFirst
      <3> QED
        BY <1>3, <2>3, <3>1 DEF TokenAt
    <2> QED
      BY <2>1, <2>2, <2>3 DEF ScramRespond
  <1>4. ASSUME m = "GSSAPI"
        PROVE  TokenAt(m, t, k)
    <2>1. t \in GssRespond(k, token) /\ legs \in Nat /\ k <= legs + 2
      BY <1>4, ClientKnown DEF Respond
    <2>2. CASE k < legs
      <3>1. t = GssMore
        BY <2>1, <2>2 DEF GssRespond, GssLast
      <3> QED
        BY <1>4, <2>2, <3>1 DEF TokenAt
    <2>3. CASE k = legs
      <3>1. t = LastToken
        BY <2>1, <2>3 DEF GssRespond, LastToken, GssLast
      <3> QED
        BY <1>4, <2>3, <3>1 DEF TokenAt
    <2>4. CASE k = legs + 1
      <3>1. t = Junk
        BY <2>1, <2>4 DEF GssRespond, GssLast
      <3> QED
        BY <1>4, <2>4, <3>1 DEF TokenAt
    <2>5. CASE k = legs + 2
      <3>1. t = LayerToken
        <4>1. t \in GssLayerRespond(token)
          BY <2>1, <2>5 DEF GssRespond, GssLast
        <4> QED
          BY <4>1 DEF GssLayerRespond, LayerToken
      <3> QED
        BY <1>4, <2>5, <3>1 DEF TokenAt
    <2> QED
      BY <2>1, <2>2, <2>3, <2>4, <2>5
  <1> QED
    BY <1>1, <1>2, <1>3, <1>4

\* A message that is said when nothing is under way.
LEMMA Said ==
    ASSUME toServer = <<>>, NEW msg, NEW next, ClientSays(msg, next)
    PROVE  toServer' = <<msg>> /\ cpc' = next
  BY DEF ClientSays

\* The client reads the challenge, and says who it is.
LEMMA ReadsChallenge ==
    ASSUME Base, Challenged, UNCHANGED vars, nread' = nread + 1,
           ReadChallenge(toClient[nread + 1]), ~ClientGone'
    PROVE  LoggingIn'
  <1> DEFINE msg == toClient[nread + 1]
  <1>1. /\ msg = Challenge(nonce) /\ toServer = <<>> /\ Len(toClient) = nread + 1
        /\ pc = "awaitLogin" /\ exc = None /\ authzid = None /\ round = 0
    BY DEF Challenged, ToBeRead
  <1>2. msg.type = "challenge" /\ msg.nonce = nonce
    BY <1>1 DEF Challenge
  <1>3. UNCHANGED <<client, legs, cround, nonce, pc, exc, authzid, round, toClient>>
    BY DEF ReadChallenge, vars, identity
  <1>4. cround = 0
    BY DEF Challenged, Base, Sides, InLoop
  <1>5. ~ClientFails
    BY DEF ClientFails, ClientGone
  <1>6. /\ cmech' \in Picked
        /\ \/ /\ cmech' \in ClassicMech
              /\ ClientSays(LoginMessage(client.user, cmech',
                                         ClassicRespond(cmech', msg.nonce)), "awaitVerdict")
           \/ /\ cmech' \notin ClassicMech
              /\ \E t \in Respond(cmech', 0, NoBytes) :
                    ClientSays(LoginMessage(client.user, cmech', Hex(t)), "awaitReply")
    BY <1>2, <1>5 DEF ReadChallenge, NoTickets
  <1>7. /\ cmech' \in Available
        /\ nread' = Len(toClient') /\ pc' = "awaitLogin" /\ exc' = None
        /\ authzid' = None /\ round' = 0 /\ cround' = 0
    BY <1>1, <1>3, <1>4, <1>6, ClientKnown, ClientMessages
  <1> HIDE DEF msg
  <1>8. CASE /\ cmech' \in ClassicMech
             /\ ClientSays(LoginMessage(client.user, cmech',
                                        ClassicRespond(cmech', msg.nonce)), "awaitVerdict")
    <2> DEFINE said == LoginMessage(client.user, cmech', Squish(cmech', nonce, client.password))
    <2>1. ClientSays(said, "awaitVerdict")
      BY <1>2, <1>8 DEF ClassicRespond
    <2>2. toServer' = <<said>> /\ cpc' = "awaitVerdict"
      BY <1>1, <2>1, Said
    <2> QED
      BY <1>3, <1>7, <1>8, <2>2 DEF LoggingIn, UnderWay
  <1>9. ASSUME cmech' \notin ClassicMech, NEW t \in Respond(cmech', 0, NoBytes),
               ClientSays(LoginMessage(client.user, cmech', Hex(t)), "awaitReply")
        PROVE  LoggingIn'
    <2> DEFINE said == LoginMessage(client.user, cmech', Hex(t))
    <2>1. toServer' = <<said>> /\ cpc' = "awaitReply"
      BY <1>1, <1>9, Said
    <2>2. cmech' \in {"PLAIN", "SCRAM-SHA-256", "GSSAPI"}
      BY <1>7, <1>9, ClientKnown, ClientMessages
    <2>3. t \in Token /\ TokenAt(cmech', t, 0)
      BY <1>9, <2>2, ClientKnown, RespondAt
    <2>4. TokenAt(cmech, t, 0)'
      BY <1>3, <2>3 DEF TokenAt, LastToken, LayerToken
    <2> QED
      BY <1>3, <1>7, <1>9, <2>1, <2>3, <2>4 DEF LoggingIn, UnderWay
  <1> QED
    BY <1>6, <1>8, <1>9

\* The client reads that another token is wanted, and answers.
LEMMA ReadsMore ==
    ASSUME Base, Asked, UNCHANGED vars, nread' = nread + 1,
           ReadReply(toClient[nread + 1]), ~ClientGone'
    PROVE  Answered'
  <1>1. PICK token \in ServerToken :
              /\ ToBeRead(More(token))
              /\ cmech = "SCRAM-SHA-256" => token = ScramServerFirst(nonce)
    BY DEF Asked
  <1> DEFINE msg == toClient[nread + 1]
  <1>2. /\ msg.type = "more" /\ msg.token = token
        /\ toServer = <<>> /\ Len(toClient) = nread + 1
    BY <1>1 DEF ToBeRead, More
  <1> HIDE DEF msg
  <1>3. /\ UNCHANGED <<client, cmech, legs, nonce, pc, user, mech, exc, ctx, authzid, round,
                       toClient>>
        /\ cround' = cround + 1
    BY DEF ReadReply, vars, identity, login
  <1>4. /\ pc = "awaitToken" /\ SameLogin /\ exc = None /\ round = cround + 1
        /\ ContextAt(round) /\ turns = round
        /\ cmech \in {"PLAIN", "SCRAM-SHA-256", "GSSAPI"}
    BY ClientKnown, ClientMessages DEF Asked, Base, Sides, InLoop
  <1>5. ~ClientFails
    BY DEF ClientFails, ClientGone
  <1>6. PICK t \in Respond(cmech, turns, token) :
              ClientSays(TextMessage(Hex(t)),
                         IF cround' = CLIENT_ROUNDS THEN "failed" ELSE "awaitReply")
    BY <1>2, <1>5 DEF ReadReply, msg
  <1>7. toServer' = <<TextMessage(Hex(t))>> /\ cpc' = "awaitReply"
    BY <1>2, <1>6, Said DEF ClientGone
  <1>8. t \in Token /\ TokenAt(cmech, t, round)
    <2>1. /\ cmech = "PLAIN" => round = 0
          /\ cmech = "GSSAPI" => round <= legs + 2
      BY <1>4, ClientKnown DEF ContextAt
    <2> QED
      BY <1>1, <1>4, <1>6, <2>1, ClientKnown, RespondAt
  <1>9. TokenAt(cmech, t, round)' /\ ContextAt(round)' /\ SameLogin'
    BY <1>3, <1>4, <1>8 DEF TokenAt, LastToken, LayerToken, ContextAt, SameLogin
  <1> QED
    BY <1>2, <1>3, <1>4, <1>7, <1>8, <1>9, ClientKnown DEF Answered, UnderWay

\* The client reads the verdict.
LEMMA ReadsVerdict ==
    ASSUME Base, LetIn \/ TurnedAway, UNCHANGED vars, nread < Len(toClient),
           nread' = nread + 1, Read(toClient[nread + 1]), ~ClientGone'
    PROVE  LetIn'
  <1> DEFINE msg == toClient[nread + 1]
  <1>1. ~ClientFails
    BY DEF ClientFails, ClientGone
  <1>2. /\ UNCHANGED <<pc, user, mech, authcid, authzid, final, exc, toClient>>
    BY DEF vars, identity, login
  <1>3. cpc \in {"awaitReply", "awaitVerdict"} /\ Len(toClient) = nread + 1 /\ toServer = <<>>
    BY ClientKnown DEF LetIn, TurnedAway, ToBeRead, Silent
  <1>4. CASE LetIn
    <2>1. msg.type = "welcome"
      BY <1>4, ClientKnown DEF LetIn, ToBeRead, Silent, Welcome
    <2>2. cpc' = "happy" /\ UNCHANGED <<client, cmech, toServer>>
      BY <1>1, <1>3, <2>1 DEF Read, ReadChallenge, ReadVerdict, ReadReply, ClientGone
    <2> QED
      BY <1>2, <1>3, <1>4, <2>2
         DEF LetIn, Silent, Satisfied, SameLogin, IsPassword, KerberosStyle
  <1>5. CASE TurnedAway
    <2>1. msg.type = "error"
      BY <1>5, ClientKnown DEF TurnedAway, ToBeRead, Silent, Error
    <2> QED
      BY <1>1, <1>3, <2>1 DEF Read, ReadChallenge, ReadVerdict, ReadReply, ClientGone
  <1> QED
    BY <1>4, <1>5

-----------------------------------------------------------------------------
(* The joint invariant. *)

\* Which phases have something to be read.
LEMMA PhaseOfClient ==
    ASSUME InStep, ~ClientGone, nread < Len(toClient), toClient \in Seq(ServerMessage),
           nread \in Nat
    PROVE  Challenged \/ Asked \/ LetIn \/ TurnedAway
  BY DEF InStep, Opening, LoggingIn, Checking, Looking, Answered, Deciding, Dead,
         Silent, UnderWay

\* The server's own steps.
LEMMA ServerInStep ==
    ASSUME Base, InStep, ~ClientGone, ServerRuns
    PROVE  InStep'
  <1>1. ServerStep /\ ~SendFailed /\ UNCHANGED <<clientVars, nread>>
    BY DEF ServerRuns
  <1>2. CASE OpenStore \/ LoadCredential \/ SendChallenge
    BY <1>1, <1>2, OpeningStep DEF InStep
  <1>3. CASE CheckClassic
    BY <1>1, <1>3, CheckingStep DEF InStep
  <1>4. CASE StartServer
    BY <1>1, <1>4, StartStep DEF InStep
  <1>5. CASE GiveUp
    BY <1>5, NoGiveUp
  <1>6. CASE PlainNext
    BY <1>1, <1>6, PlainStep DEF InStep
  <1>7. CASE ScramInitial
    BY <1>1, <1>7, ScramFirstStep DEF InStep
  <1>8. CASE ScramFinish
    BY <1>1, <1>8, ScramFinalStep DEF InStep
  <1>9. CASE GssNegotiate \/ GssOffer
    BY <1>1, <1>9, GssStep DEF InStep
  <1>10. CASE GssConclude
    BY <1>1, <1>10, GssLastStep DEF InStep
  <1>11. CASE Authorize
    BY <1>1, <1>11, VerdictStep DEF InStep
  <1>12. CASE SendWelcome
    BY <1>1, <1>12, WelcomeStep DEF InStep
  <1>13. CASE SendError
    BY <1>1, <1>13, ErrorStep DEF InStep
  <1> QED
    BY <1>1, <1>2, <1>3, <1>4, <1>5, <1>6, <1>7, <1>8, <1>9, <1>10, <1>11, <1>12, <1>13
       DEF ServerStep

\* The client's reading.
LEMMA ClientInStep ==
    ASSUME Base, InStep, ~ClientGone, ClientReads, ~ClientGone'
    PROVE  InStep'
  <1> DEFINE msg == toClient[nread + 1]
  <1>1. UNCHANGED vars /\ nread' = nread + 1 /\ nread < Len(toClient) /\ Read(msg)
    BY DEF ClientReads
  <1>2. Challenged \/ Asked \/ LetIn \/ TurnedAway
    BY <1>1, ClientKnown, PhaseOfClient
  <1>3. CASE Challenged
    <2>1. ReadChallenge(msg)
      BY <1>1, <1>3 DEF Challenged, Read, ReadVerdict, ReadReply
    <2> QED
      BY <1>1, <1>3, <2>1, ReadsChallenge DEF InStep
  <1>4. CASE Asked
    <2>1. ReadReply(msg)
      BY <1>1, <1>4 DEF Asked, Read, ReadVerdict, ReadChallenge
    <2> QED
      BY <1>1, <1>4, <2>1, ReadsMore DEF InStep
  <1>5. CASE LetIn \/ TurnedAway
    BY <1>1, <1>5, ReadsVerdict DEF InStep
  <1> QED
    BY <1>2, <1>3, <1>4, <1>5

LEMMA NextInStep == Base /\ InStep /\ [LoginNext]_loginVars => InStep'
  <1> SUFFICES ASSUME Base, InStep, [LoginNext]_loginVars, ~ClientGone' PROVE InStep'
    BY DEF InStep
  <1>1. CASE ClientGone
    <2>1. ~Waiting /\ ~ClientReads
      BY <1>1 DEF ClientGone, Waiting, ClientReads, Read, ReadChallenge, ReadVerdict, ReadReply
    <2>2. cpc' = cpc
      BY <2>1 DEF LoginNext, ServerMoves, ClientMoves, ServerRuns, ServerReads,
             ServerFindsClientGone, ClientFindsServerGone, ReadFails, ClientKilled, Killed,
             LoginDone, loginVars, clientVars
    <2> QED
      BY <1>1, <2>2 DEF ClientGone
  <1>2. CASE ~ClientGone
    <2>1. CASE ServerRuns
      BY <1>2, <2>1, ServerInStep
    <2>2. CASE ServerReads
      BY <1>2, <2>2, TakeLogin, TakeToken DEF ServerReads, InStep
    <2>3. CASE ServerFindsClientGone
      BY <1>2, <2>3 DEF ServerFindsClientGone
    <2>4. CASE ClientReads
      BY <1>2, <2>4, ClientInStep
    <2>5. CASE ClientFindsServerGone \/ ClientKilled
      BY <2>5 DEF ClientFindsServerGone, ReadFails, ClientFails, ClientKilled, Killed, ClientGone
    <2>6. CASE UNCHANGED loginVars
      <3>1. UNCHANGED <<pc, nonce, user, mech, reply, round, ctx, authcid, authzid, final, exc,
                        toClient, cpc, client, cmech, legs, turns, cround, toServer, nread>>
        BY <2>6 DEF loginVars, vars, clientVars, login, identity
      <3> USE DEF Silent, ToBeRead, UnderWay, SameLogin
      <3>2. (Opening => Opening') /\ (Challenged => Challenged') /\ (Checking => Checking')
        BY <3>1 DEF Opening, Challenged, Checking
      <3>3. LoggingIn => LoggingIn'
        BY <3>1 DEF LoggingIn, TokenAt, LastToken, LayerToken
      <3>4. (Looking => Looking') /\ (Asked => Asked') /\ (Answered => Answered')
        <4>1. \A k : ContextAt(k) => ContextAt(k)'
          BY <3>1 DEF ContextAt
        <4>2. \A m, t, k : TokenAt(m, t, k) => TokenAt(m, t, k)'
          <5>1. LastToken' = LastToken /\ LayerToken' = LayerToken
            BY <3>1 DEF LastToken, LayerToken
          <5> QED
            BY <3>1, <5>1 DEF TokenAt
        <4> QED
          BY <3>1, <4>1, <4>2 DEF Looking, Asked, Answered
      <3>5. (Deciding => Deciding') /\ (LetIn => LetIn')
        BY <3>1 DEF Deciding, LetIn, Satisfied, IsPassword, KerberosStyle
      <3>6. (TurnedAway => TurnedAway') /\ (Dead => Dead')
        BY <3>1 DEF TurnedAway, Dead, Qualifies, Waiting, IsPassword, IsPrincipal, KerberosStyle
      <3> QED
        BY <1>2, <3>2, <3>3, <3>4, <3>5, <3>6 DEF InStep
    <2> QED
      BY <2>1, <2>2, <2>3, <2>4, <2>5, <2>6 DEF LoginNext, ServerMoves, ClientMoves, LoginDone
  <1> QED
    BY <1>1, <1>2

\* The two sides never get out of step, as long as the client is there.
THEOREM StaysInStep == LoginSpec => [](Base /\ InStep)
  <1>1. LoginInit => Base /\ InStep
    <2> SUFFICES ASSUME LoginInit PROVE Base /\ InStep
      OBVIOUS
    <2>1. Base
      BY LoginSidesInit DEF Base, StoreComplete, LoginInit, Init
    <2>2. Opening
      BY DEF LoginInit, Init, ClientInit, Opening, Silent
    <2> QED
      BY <2>1, <2>2 DEF InStep
  <1>2. Base /\ InStep /\ [LoginNext]_loginVars => (Base /\ InStep)'
    BY LoginSides, LoginStep, NextComplete, NextInStep DEF Base, Sides, ClientTypeOK
  <1> QED
    BY <1>1, <1>2, PTL DEF LoginSpec

\* A client that is happy is in the session that the server has opened for
\* it, as the user it meant, and is entitled to it.
THEOREM HappyClientsAgree == LoginSpec => []Agreement
  <1>1. Base /\ InStep => Agreement
    <2> SUFFICES ASSUME Base, InStep, cpc = "happy" PROVE Agreement
      BY DEF Agreement
    <2>1. LetIn
      BY DEF InStep, ClientGone, Opening, Challenged, LoggingIn, Checking, Looking, Asked,
             Answered, Deciding, TurnedAway, Dead, Waiting
    <2> QED
      BY <2>1 DEF LetIn, Satisfied, SameLogin, Agreement, Qualifies, Base, Sides, IInv, Authorized
  <1> QED
    BY <1>1, StaysInStep, PTL

\* The conversation never has both sides waiting, nor two messages crossing.
THEOREM TheyTakeTurns == LoginSpec => []HalfDuplex
  <1>1. Base /\ InStep => HalfDuplex
    <2> SUFFICES ASSUME Base, InStep, ~ClientGone
                 PROVE  /\ Len(toServer) + (Len(toClient) - nread) <= 1
                        /\ Waiting /\ pc \in {"awaitLogin", "awaitToken"} =>
                              Len(toServer) + (Len(toClient) - nread) = 1
      BY DEF HalfDuplex
    <2>0. nread \in Nat /\ Len(toClient) \in Nat
      BY ClientKnown
    <2>1. Silent => Len(toServer) + (Len(toClient) - nread) = 0
      BY <2>0 DEF Silent
    <2>2. \A msg : ToBeRead(msg) => Len(toServer) + (Len(toClient) - nread) = 1
      BY <2>0 DEF ToBeRead
    <2>3. \A msg : UnderWay(msg) => Len(toServer) + (Len(toClient) - nread) = 1
      BY <2>0 DEF UnderWay
    <2>4. CASE Opening \/ Checking \/ Looking \/ Deciding \/ Dead
      BY <2>1, <2>4 DEF Opening, Checking, Looking, Deciding, Dead
    <2>5. CASE Challenged \/ Asked
      BY <2>2, <2>5 DEF Challenged, Asked
    <2>6. CASE LoggingIn \/ Answered
      BY <2>3, <2>6 DEF LoggingIn, Answered
    <2>7. CASE LetIn \/ TurnedAway
      BY <2>1, <2>2, <2>7 DEF LetIn, TurnedAway
    <2> QED
      BY <2>4, <2>5, <2>6, <2>7 DEF InStep
  <1> QED
    BY <1>1, StaysInStep, PTL

\* No client with the right credentials is turned away.
THEOREM QualifiedGetIn == LoginSpec => []QualifiedNotRejected
  <1>1. Base /\ InStep => QualifiedNotRejected
    <2> SUFFICES ASSUME Base, InStep, exc = "Reject", ~ClientGone PROVE ~Qualifies
      BY DEF QualifiedNotRejected
    <2>1. TurnedAway
      BY ClientKnown DEF InStep, Opening, Challenged, LoggingIn, Checking, Looking, Asked,
         Answered, Deciding, LetIn, Satisfied, Dead
    <2> QED
      BY <2>1 DEF TurnedAway
  <1> QED
    BY <1>1, StaysInStep, PTL

\* Nothing democlient sends ends the server process, except that it was
\* started without a user name; and that is the only assertion it can hit.
THEOREM ClientDoesNotCrash == LoginSpec => []NoCrashByClient
  <1>1. Base /\ InStep => NoCrashByClient
    <2> SUFFICES ASSUME Base, InStep, pc = "crashed", ~ClientGone
                 PROVE  exc = "GSSError" \/ (exc = "AssertionError" /\ client.user = NoName)
      BY DEF NoCrashByClient
    <2>1. Dead
      BY DEF InStep, Opening, Challenged, LoggingIn, Checking, Looking, Asked, Answered,
         Deciding, LetIn, TurnedAway
    <2> QED
      BY <2>1 DEF Dead
  <1> QED
    BY <1>1, StaysInStep, PTL
=============================================================================
