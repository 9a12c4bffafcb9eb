-------------------------- MODULE HandshakeProofs --------------------------
(***************************************************************************)
(* Proofs about Handshake, for any users, credentials, -c options, offered *)
(* mechanisms and nonces.                                                  *)
(***************************************************************************)
EXTENDS Handshake, TLAPS

-----------------------------------------------------------------------------
(* What the replies and messages are made of. *)

\* The fields of a token, by its type.
LEMMA TokenFields ==
    ASSUME NEW t \in Token
    PROVE  /\ t.type = "plain" => /\ t.password \in Password
                                  /\ t.authcid \in UserName
                                  /\ t.authzid \in UserName
           /\ t.type = "scramFirst" => t.user \in UserName /\ t.authzid \in UserName
           /\ t.type = "scramFinal" => t.password \in Password
           /\ t.type = "gssLast" => t.peer \in Principal
           /\ t.type = "gssLayer" => t.authzid \in UserName
  BY DEF Token, PlainToken, ScramFirst, ScramFinal, GssLast, GssLayer, GssMore, Junk

\* A reply in hexadecimal carries a token.
LEMMA HexToken ==
    ASSUME NEW r \in Reply, r.form = "hex"
    PROVE  r.token \in Token
  BY DEF Reply, Hex, Squish, BadHex, Stop, Empty

\* A hash carries a password.
LEMMA HashPassword ==
    ASSUME NEW r \in Reply, r.form = "hash"
    PROVE  r.password \in Password
  BY DEF Reply, Hex, Squish, BadHex, Stop, Empty

LEMMA EmptyReply == Empty \in Reply
  BY DEF Reply

\* A reply that asks to act as a user names one.
LEMMA AsksUser ==
    ASSUME NEW r \in Reply, Asks(r)
    PROVE  r.token.authzid \in UserName
  BY HexToken, TokenFields DEF Asks

\* The messages of the server.
LEMMA MessageTypes ==
    /\ \A n \in Nonce : Challenge(n) \in ServerMessage
    /\ \A t \in ServerToken : More(t) \in ServerMessage
    /\ \A d \in ServerToken \cup {None} : Welcome(d) \in ServerMessage
    /\ Error \in ServerMessage
    /\ NoBytes \in ServerToken
    /\ GssServerToken \in ServerToken
    /\ GssLayerOffer \in ServerToken
    /\ \A n \in Nonce : ScramServerFirst(n) \in ServerToken
    /\ \A p \in Password : ScramServerFinal(p) \in ServerToken
  BY DEF ServerMessage, ServerToken

-----------------------------------------------------------------------------
(* The store. *)

\* Looking up a list after Add: the new entry is the last one of its list,
\* and the other lists are as before.
LEMMA AddLookup ==
    ASSUME NEW store \in CredStore, NEW u \in UserName, NEW kind \in Kind,
           NEW pw \in CredData
    PROVE  /\ Add(store, u, kind, pw) \in CredStore
           /\ \A v \in UserName, k \in Kind :
                 Add(store, u, kind, pw)[v][k] =
                    IF v = u /\ k = kind THEN Append(store[v][k], pw) ELSE store[v][k]
  BY DEF CredStore, UserCreds, Add

\* What GetLast and GetAll return after an Append.
LEMMA AppendLookup ==
    ASSUME NEW S, NEW s \in Seq(S), NEW e \in S
    PROVE  /\ Append(s, e) # <<>>
           /\ Append(s, e)[Len(Append(s, e))] = e
           /\ \A i \in DOMAIN Append(s, e) : Append(s, e)[i] = e \/ (i \in DOMAIN s /\ Append(s, e)[i] = s[i])
  OBVIOUS

\* GetLast and GetAll look at one list only.
LEMMA SameList ==
    ASSUME NEW a, NEW b, NEW k, a[k] = b[k]
    PROVE  GetLast(a, k) = GetLast(b, k) /\ GetAll(a, k) = GetAll(b, k)
  BY DEF GetLast, GetAll

\* The last entry of a list of one.
LEMMA OneEntry ==
    ASSUME NEW a, NEW k, NEW e, a[k] = <<e>>
    PROVE  GetLast(a, k) = e
  BY DEF GetLast

LEMMA EmptyStoreType ==
    /\ EmptyStore \in CredStore
    /\ \A u \in UserName, k \in Kind : EmptyStore[u][k] = <<>>
  BY DEF EmptyStore, CredStore, UserCreds

\* The default store: the built-in password, and the server's own principal.
LEMMA DefaultLookup ==
    /\ DefaultStore \in CredStore
    /\ \A u \in UserName :
          /\ DefaultStore[u]["plain"] =
                IF u = BuiltinUser THEN <<BuiltinPassword>> ELSE <<>>
          /\ DefaultStore[u]["principal"] =
                IF HaveGssapi /\ u = BuiltinUser THEN <<OurPrincipal>> ELSE <<>>
          /\ DefaultStore[u]["SCRAM-SHA-256"] = <<>>
  <1> DEFINE builtin == Add(EmptyStore, BuiltinUser, "plain", BuiltinPassword)
  <1>1. /\ BuiltinUser \in UserName
        /\ BuiltinPassword \in CredData
        /\ OurPrincipal \in CredData
        /\ "plain" \in Kind /\ "principal" \in Kind /\ "SCRAM-SHA-256" \in Kind
    BY CredentialsAssumption DEF UserName, CredData, Kind
  <1>2. /\ builtin \in CredStore
        /\ \A v \in UserName, k \in Kind :
              builtin[v][k] = IF v = BuiltinUser /\ k = "plain" THEN <<BuiltinPassword>> ELSE <<>>
    <2>1. /\ EmptyStore \in CredStore
          /\ \A v \in UserName, k \in Kind : EmptyStore[v][k] = <<>>
      BY EmptyStoreType
    <2>2. /\ builtin \in CredStore
          /\ \A v \in UserName, k \in Kind :
                builtin[v][k] = IF v = BuiltinUser /\ k = "plain"
                                THEN Append(EmptyStore[v][k], BuiltinPassword)
                                ELSE EmptyStore[v][k]
      BY <1>1, <2>1, AddLookup
    <2>3. Append(<<>>, BuiltinPassword) = <<BuiltinPassword>>
      OBVIOUS
    <2> HIDE DEF builtin
    <2> QED
      BY <2>1, <2>2, <2>3
  <1> DEFINE both == Add(builtin, BuiltinUser, "principal", OurPrincipal)
  <1> HIDE DEF builtin
  <1>3. /\ both \in CredStore
        /\ \A v \in UserName, k \in Kind :
              both[v][k] = IF v = BuiltinUser /\ k = "principal"
                           THEN Append(builtin[v][k], OurPrincipal) ELSE builtin[v][k]
    BY <1>1, <1>2, AddLookup
  <1>4. DefaultStore = IF HaveGssapi THEN both ELSE builtin
    BY DEF DefaultStore, builtin
  <1>5. Append(<<>>, OurPrincipal) = <<OurPrincipal>>
    OBVIOUS
  <1> HIDE DEF both
  <1>6. CASE HaveGssapi
    <2>1. DefaultStore = both
      BY <1>4, <1>6
    <2>2. /\ \A u \in UserName : both[u]["plain"] = builtin[u]["plain"]
          /\ \A u \in UserName : both[u]["SCRAM-SHA-256"] = builtin[u]["SCRAM-SHA-256"]
          /\ \A u \in UserName : builtin[u]["SCRAM-SHA-256"] = <<>>
      BY <1>1, <1>2, <1>3
    <2>3. \A u \in UserName : both[u]["principal"] =
                IF u = BuiltinUser THEN <<OurPrincipal>> ELSE <<>>
      BY <1>1, <1>2, <1>3, <1>5
    <2>4. \A u \in UserName : builtin[u]["plain"] =
                IF u = BuiltinUser THEN <<BuiltinPassword>> ELSE <<>>
      BY <1>1, <1>2
    <2> QED
      BY <1>3, <1>6, <2>1, <2>2, <2>3, <2>4
  <1>7. CASE ~HaveGssapi
    <2>1. DefaultStore = builtin
      BY <1>4, <1>7
    <2> QED
      BY <1>1, <1>2, <1>7, <2>1
  <1> QED
    BY <1>6, <1>7

-----------------------------------------------------------------------------
(* The invariant. *)

LEMMA InitIInv == Init => IInv
  <1> SUFFICES ASSUME Init PROVE IInv
    OBVIOUS
  <1>1. TypeOK
    BY EmptyStoreType, EmptyReply, CredentialsAssumption
       DEF Init, TypeOK, NewContext, Authzid, Exception, MAX_ROUNDS
  <1>2. StoreFaithful
    BY EmptyStoreType DEF Init, StoreFaithful, GetAll, Kind
  <1>3. /\ LoginKnown /\ ContextFaithful /\ ReplyHeard
        /\ ScramAsked /\ Earned /\ Authorized
    BY DEF Init, LoginKnown, ContextFaithful, ReplyHeard, ScramAsked, Earned, Authorized,
           BeforeLogin, Holding, Verified, NewContext
  <1> QED
    BY <1>1, <1>2, <1>3 DEF IInv

\* Once the store is loaded, an action that leaves it alone keeps it faithful.
LEMMA StoreKept ==
    ASSUME StoreFaithful, UNCHANGED <<loaded, creds>>,
           pc \notin {"opening", "crashed"}, pc' # "opening",
           pc = "loading" => loaded = Len(CliCreds)
    PROVE  StoreFaithful'
  <1>1. /\ loaded' = loaded
        /\ \A u \in UserName :
              /\ creds'[u] = creds[u]
              /\ GetLast(creds'[u], "plain") = GetLast(creds[u], "plain")
              /\ GetLast(creds'[u], "SCRAM-SHA-256") = GetLast(creds[u], "SCRAM-SHA-256")
              /\ GetAll(creds'[u], "principal") = GetAll(creds[u], "principal")
    OBVIOUS
  <1>2. /\ pc' \in {"opening", "loading", "crashed"} \/ loaded' = Len(CliCreds)
        /\ pc' = "opening" => loaded' = 0
    BY DEF StoreFaithful
  <1> QED
    BY <1>1, <1>2 DEF StoreFaithful

\* What a send can do.
LEMMA SendOutcome ==
    ASSUME NEW msg \in ServerMessage, NEW next, TypeOK, Send(msg, next)
    PROVE  /\ toClient' \in Seq(ServerMessage)
           /\ \/ pc' = next /\ exc' = exc
              \/ pc' = "crashed" /\ exc' = "OSError"
  <1>1. toClient \in Seq(ServerMessage)
    BY DEF TypeOK
  <1>2. CASE toClient' = Append(toClient, msg) /\ Goto(next)
    BY <1>1, <1>2 DEF Goto
  <1>3. CASE Raise("OSError") /\ UNCHANGED toClient
    BY <1>1, <1>3 DEF Raise
  <1> QED
    BY <1>2, <1>3 DEF Send

LEMMA SendChallengeStep == IInv /\ SendChallenge => IInv'
  <1> SUFFICES ASSUME IInv, SendChallenge PROVE IInv'
    OBVIOUS
  <1>1. TypeOK'
    <2>1. PICK n \in Nonce :
             /\ nonce' = n
             /\ \/ Send(Challenge(n), "awaitLogin")
                \/ Raise("Reject") /\ UNCHANGED toClient
      BY DEF SendChallenge
    <2>2. /\ toClient' \in Seq(ServerMessage)
          /\ pc' \in {"awaitLogin", "crashed", "rejecting"}
          /\ exc' \in Exception \cup {None}
      <3>1. CASE Send(Challenge(n), "awaitLogin")
        BY <3>1, SendOutcome, MessageTypes DEF IInv, TypeOK, Exception
      <3>2. CASE Raise("Reject") /\ UNCHANGED toClient
        BY <3>2 DEF IInv, TypeOK, Exception, Raise
      <3> QED
        BY <2>1, <3>1, <3>2
    <2> QED
      BY <2>1, <2>2 DEF IInv, TypeOK, SendChallenge, login, identity, heard
  <1>2. StoreFaithful'
    BY StoreKept DEF IInv, SendChallenge, Send, Goto, Raise
  <1>3. /\ LoginKnown' /\ ContextFaithful' /\ ReplyHeard'
        /\ ScramAsked' /\ Earned' /\ Authorized'
    BY DEF IInv, SendChallenge, Send, Goto, Raise, login, identity, heard,
           LoginKnown, ContextFaithful, ReplyHeard, ScramAsked, Earned, Authorized,
           BeforeLogin, Holding, Verified
  <1> QED
    BY <1>1, <1>2, <1>3 DEF IInv

LEMMA ReceiveLoginStep ==
    ASSUME IInv, NEW msg \in FirstMessage, ReceiveLogin(msg)
    PROVE  IInv'
  <1>0. msg.type = "login" => msg.user \in UserName /\ msg.reply \in Reply
    BY DEF FirstMessage, LoginMessage, TextMessage
  <1>1. TypeOK'
    <2>1. shown' \subseteq Claim /\ asked' \in UserName \cup {None}
      BY <1>0, AsksUser DEF IInv, TypeOK, ReceiveLogin, Hear, Shows, heard
    <2> QED
      BY <1>0, <2>1 DEF IInv, TypeOK, ReceiveLogin, Goto, Raise, login, identity, Exception
  <1>2. StoreFaithful'
    BY StoreKept DEF IInv, ReceiveLogin, Goto, Raise
  <1>3. /\ LoginKnown' /\ ContextFaithful' /\ ReplyHeard'
        /\ ScramAsked' /\ Earned' /\ Authorized'
    BY <1>0, MechanismsAssumption DEF IInv, ReceiveLogin, Hear, Goto, Raise, login, identity, heard,
           LoginKnown, ContextFaithful, ReplyHeard, ScramAsked, Earned, Authorized,
           BeforeLogin, Holding, Verified
  <1> QED
    BY <1>1, <1>2, <1>3 DEF IInv

LEMMA ReceiveEofStep == IInv /\ ReceiveEof => IInv'
  <1> SUFFICES ASSUME IInv, ReceiveEof PROVE IInv'
    OBVIOUS
  <1>1. TypeOK'
    BY EmptyReply DEF IInv, TypeOK, ReceiveEof, Goto, Raise, identity, heard, Exception
  <1>2. StoreFaithful'
    BY StoreKept DEF IInv, ReceiveEof, Goto, Raise
  <1>3. Shows(Empty, nonce) = {} /\ ~Asks(Empty)
    BY DEF Shows, Asks, Empty
  <1>4. /\ LoginKnown' /\ ContextFaithful' /\ ReplyHeard'
        /\ ScramAsked' /\ Earned' /\ Authorized'
    BY <1>3 DEF IInv, ReceiveEof, Goto, Raise, identity, heard,
           LoginKnown, ContextFaithful, ReplyHeard, ScramAsked, Earned, Authorized,
           BeforeLogin, Holding, Verified
  <1> QED
    BY <1>1, <1>2, <1>4 DEF IInv

LEMMA ReceiveFailsStep ==
    ASSUME IInv, NEW e \in {"ValueError", "EOFError", "OSError"}, ReceiveFails(e)
    PROVE  IInv'
  <1>1. TypeOK'
    BY DEF IInv, TypeOK, ReceiveFails, Raise, login, identity, heard, Exception
  <1>2. StoreFaithful'
    BY StoreKept DEF IInv, ReceiveFails, Raise
  <1>3. /\ LoginKnown' /\ ContextFaithful' /\ ReplyHeard'
        /\ ScramAsked' /\ Earned' /\ Authorized'
    BY DEF IInv, ReceiveFails, Raise, login, identity, heard,
           LoginKnown, ContextFaithful, ReplyHeard, ScramAsked, Earned, Authorized,
           BeforeLogin, Holding, Verified
  <1> QED
    BY <1>1, <1>2, <1>3 DEF IInv

LEMMA CheckClassicStep == IInv /\ CheckClassic => IInv'
  <1> SUFFICES ASSUME IInv, CheckClassic PROVE IInv'
    OBVIOUS
  <1>1. TypeOK'
    BY DEF IInv, TypeOK, CheckClassic, Goto, Raise, login, heard, Exception,
           LoginKnown, Holding
  <1>2. StoreFaithful'
    BY StoreKept DEF IInv, CheckClassic, Goto, Raise
  <1>3. /\ LoginKnown' /\ ContextFaithful' /\ ReplyHeard' /\ ScramAsked' /\ Authorized'
    BY DEF IInv, CheckClassic, Goto, Raise, login, heard,
           LoginKnown, ContextFaithful, ReplyHeard, ScramAsked, Authorized,
           BeforeLogin, Holding, Verified
  <1>4. Earned'
    <2> SUFFICES ASSUME pc' = "authorize" PROVE Earned'
      BY DEF Earned, Verified, CheckClassic, Goto, Raise
    <2> DEFINE password == GetLast(creds[user], "plain")
    <2>1. pc = "classic" /\ reply = Expected /\ UNCHANGED <<login, heard>>
      BY DEF CheckClassic, Raise
    <2>2. mech \in ClassicMech /\ user \in UserName
      BY <2>1 DEF IInv, LoginKnown, Holding
    <2>3. reply \in Reply /\ loaded = Len(CliCreds)
      BY <2>1 DEF IInv, TypeOK, StoreFaithful
    <2>4. password # None /\ reply = Squish(mech, nonce, password)
      BY <2>1, <2>3, MechanismsAssumption DEF Expected
    <2>5. /\ password \in Password
          /\ IsPassword(user, password)
      BY <2>2, <2>3, <2>4, HashPassword DEF Squish, IInv, StoreFaithful, GetLast, IsPassword
    <2>6. Knows(password) \in shown /\ asked = None
      <3>1. reply.form = "hash" /\ reply.nonce = nonce /\ reply.password = password
        BY <2>4 DEF Squish
      <3>2. Knows(password) \in Shows(reply, nonce)
        BY <2>5, <3>1 DEF Shows, Claim
      <3> QED
        BY <2>1, <3>1, <3>2 DEF IInv, ReplyHeard, Holding, Asks
    <2> QED
      BY <2>1, <2>2, <2>5, <2>6 DEF Earned, KerberosStyle, ClassicMech, login, heard
  <1> QED
    BY <1>1, <1>2, <1>3, <1>4 DEF IInv

LEMMA OpenStoreStep == IInv /\ OpenStore => IInv'
  <1> SUFFICES ASSUME IInv, OpenStore PROVE IInv'
    OBVIOUS
  <1>1. TypeOK'
    BY DefaultLookup DEF IInv, TypeOK, OpenStore, Goto, Raise, login, identity, heard, Exception
  <1>2. StoreFaithful'
    <2>1. CASE creds' = DefaultStore /\ Goto("loading")
      <3>1. loaded' = 0 /\ pc' = "loading"
        BY <2>1 DEF IInv, StoreFaithful, OpenStore, Goto
      <3>2. ASSUME NEW u \in UserName, creds'[u]["plain"] # <<>>
            PROVE  IsPasswordUpto(0, u, GetLast(creds'[u], "plain"))
        BY <2>1, <3>2, DefaultLookup DEF GetLast, IsPasswordUpto
      <3>3. ASSUME NEW u \in UserName, NEW p \in GetAll(creds'[u], "principal")
            PROVE  IsPrincipalUpto(0, u, p)
        BY <2>1, DefaultLookup DEF GetAll, IsPrincipalUpto
      <3>4. \A u \in UserName : creds'[u]["SCRAM-SHA-256"] = <<>>
        BY <2>1, DefaultLookup
      <3> QED
        BY <3>1, <3>2, <3>3, <3>4 DEF StoreFaithful
    <2>2. CASE Raise("GSSError") /\ UNCHANGED creds
      <3>1. loaded' = loaded /\ creds' = creds /\ pc' = "crashed"
        BY <2>2 DEF OpenStore, Raise
      <3> QED
        BY <3>1 DEF IInv, StoreFaithful
    <2> QED
      BY <2>1, <2>2 DEF OpenStore
  <1>3. /\ LoginKnown' /\ ContextFaithful' /\ ReplyHeard'
        /\ ScramAsked' /\ Earned' /\ Authorized'
    BY DEF IInv, OpenStore, Goto, Raise, login, identity, heard,
           LoginKnown, ContextFaithful, ReplyHeard, ScramAsked, Earned, Authorized,
           BeforeLogin, Holding, Verified
  <1> QED
    BY <1>1, <1>2, <1>3 DEF IInv

\* The next option: a later password replaces an earlier one, a principal
\* joins the earlier ones.
LEMMA LoadCredentialStep == IInv /\ LoadCredential => IInv'
  <1> SUFFICES ASSUME IInv, LoadCredential PROVE IInv'
    OBVIOUS
  <1> DEFINE k    == loaded + 1
             cred == CliCreds[k]
  <1>1. /\ k \in 1..Len(CliCreds) /\ loaded \in Nat /\ k = loaded + 1
        /\ cred \in Cred /\ cred = CliCreds[k]
        /\ loaded' = k /\ pc = "loading" /\ pc' = pc
        /\ creds' = Add(creds, cred.user, cred.kind, cred.password)
    BY CredentialsAssumption DEF IInv, TypeOK, LoadCredential
  <1> HIDE DEF k, cred
  <1>2. /\ cred.user \in Name
        /\ cred.user \in UserName
        /\ cred.kind \in Kind
        /\ cred.password \in CredData
        /\ cred.kind # "SCRAM-SHA-256"
    BY <1>1 DEF Cred, UserName, Kind, CredData
  <1>3. creds \in CredStore
    BY DEF IInv, TypeOK
  <1>4. /\ creds' \in CredStore
        /\ \A u \in UserName, kd \in Kind :
              creds'[u][kd] = IF u = cred.user /\ kd = cred.kind
                              THEN Append(creds[u][kd], cred.password)
                              ELSE creds[u][kd]
    BY <1>1, <1>2, <1>3, AddLookup
  <1>5. TypeOK'
    BY <1>1, <1>4 DEF IInv, TypeOK, LoadCredential, login, identity, heard
  <1>6. StoreFaithful'
    <2>1. "plain" \in Kind /\ "principal" \in Kind /\ "SCRAM-SHA-256" \in Kind
      BY DEF Kind
    <2>2. \A u \in UserName, kd \in Kind : creds[u][kd] \in Seq(CredData \cup ScramEntry)
      BY <1>3 DEF CredStore, UserCreds
    <2>3. ASSUME NEW u \in UserName, creds'[u]["plain"] # <<>>
          PROVE  IsPasswordUpto(k, u, GetLast(creds'[u], "plain"))
      <3>1. CASE u = cred.user /\ cred.kind = "plain"
        <4>1. GetLast(creds'[u], "plain") = cred.password
          <5> DEFINE list == creds[u]["plain"]
          <5>1. list \in Seq(CredData \cup ScramEntry)
            BY <2>1, <2>2
          <5>2. creds'[u]["plain"] = Append(list, cred.password)
            BY <1>4, <2>1, <3>1
          <5>3. Append(list, cred.password)[Len(Append(list, cred.password))] = cred.password
            <6> HIDE DEF list
            <6> QED
              BY <1>2, <5>1, AppendLookup
          <5> QED
            BY <2>3, <5>2, <5>3 DEF GetLast
        <4> QED
          BY <1>1, <3>1, <4>1 DEF IsPasswordUpto, Given
      <3>2. CASE ~(u = cred.user /\ cred.kind = "plain")
        <4>1. creds'[u]["plain"] = creds[u]["plain"]
          BY <1>4, <2>1, <3>2
        <4>2. IsPasswordUpto(loaded, u, GetLast(creds'[u], "plain"))
          BY <2>3, <4>1 DEF IInv, StoreFaithful, GetLast
        <4>3. ~Given(k, u, "plain")
          BY <1>1, <3>2 DEF Given
        <4> QED
          BY <1>1, <4>2, <4>3 DEF IsPasswordUpto
      <3> QED
        BY <3>1, <3>2
    <2>4. ASSUME NEW u \in UserName, NEW p \in GetAll(creds'[u], "principal")
          PROVE  IsPrincipalUpto(k, u, p)
      <3>1. CASE p \in GetAll(creds[u], "principal")
        <4>1. IsPrincipalUpto(loaded, u, p)
          BY <3>1 DEF IInv, StoreFaithful
        <4> QED
          BY <1>1, <4>1 DEF IsPrincipalUpto
      <3>2. CASE p \notin GetAll(creds[u], "principal")
        <4>1. u = cred.user /\ cred.kind = "principal" /\ p = cred.password
          <5>1. u = cred.user /\ cred.kind = "principal"
            BY <1>4, <2>1, <2>4, <3>2 DEF GetAll
          <5>2. creds'[u]["principal"] = Append(creds[u]["principal"], cred.password)
            BY <1>4, <2>1, <5>1
          <5>3. PICK i \in DOMAIN creds'[u]["principal"] : p = creds'[u]["principal"][i]
            BY <2>4 DEF GetAll
          <5>4. \/ p = cred.password
                \/ \E j \in DOMAIN creds[u]["principal"] : p = creds[u]["principal"][j]
            BY <1>2, <2>1, <2>2, <5>2, <5>3, AppendLookup
          <5> QED
            BY <3>2, <5>1, <5>4 DEF GetAll
        <4> QED
          BY <1>1, <4>1 DEF IsPrincipalUpto, Given
      <3> QED
        BY <3>1, <3>2
    <2>5. \A u \in UserName : creds'[u]["SCRAM-SHA-256"] = creds[u]["SCRAM-SHA-256"]
      BY <1>2, <1>4, <2>1
    <2> QED
      BY <1>1, <2>3, <2>4, <2>5, ZenonT(30) DEF IInv, StoreFaithful, GetLast
  <1>7. /\ LoginKnown' /\ ContextFaithful' /\ ReplyHeard'
        /\ ScramAsked' /\ Earned' /\ Authorized'
    BY DEF IInv, LoadCredential, login, identity, heard,
           LoginKnown, ContextFaithful, ReplyHeard, ScramAsked, Earned, Authorized,
           BeforeLogin, Holding, Verified
  <1> QED
    BY <1>5, <1>6, <1>7 DEF IInv


LEMMA GiveUpStep == IInv /\ GiveUp => IInv'
  <1> SUFFICES ASSUME IInv, GiveUp PROVE IInv'
    OBVIOUS
  <1>1. TypeOK'
    BY DEF IInv, TypeOK, GiveUp, Goto, Raise, login, identity, heard, Exception
  <1>2. StoreFaithful'
    BY StoreKept DEF IInv, GiveUp, Goto, Raise, login, identity, heard
  <1>3. /\ LoginKnown' /\ ContextFaithful' /\ ReplyHeard'
        /\ ScramAsked' /\ Earned' /\ Authorized'
    BY DEF IInv, GiveUp, Goto, Raise, login, identity, heard,
           LoginKnown, ContextFaithful, ReplyHeard, ScramAsked, Earned, Authorized,
           BeforeLogin, Holding, Verified
  <1> QED
    BY <1>1, <1>2, <1>3 DEF IInv

LEMMA AuthorizeStep == IInv /\ Authorize => IInv'
  <1> SUFFICES ASSUME IInv, Authorize PROVE IInv'
    OBVIOUS
  <1>1. TypeOK'
    BY DEF IInv, TypeOK, Authorize, Goto, Raise, login, identity, heard, Exception
  <1>2. StoreFaithful'
    BY StoreKept DEF IInv, Authorize, Goto, Raise
  <1>3. /\ LoginKnown' /\ ContextFaithful' /\ ReplyHeard' /\ ScramAsked'
    BY DEF IInv, Authorize, Goto, Raise, login, identity, heard,
           LoginKnown, ContextFaithful, ReplyHeard, ScramAsked, BeforeLogin, Holding, Verified
  <1>4. Earned'
    <2>1. pc = "authorize" /\ UNCHANGED <<user, mech, authcid, authzid, shown, asked>>
      BY DEF Authorize, login, identity, heard
    <2> QED
      BY <2>1 DEF IInv, Earned, Verified
  <1>5. Authorized'
    <2> SUFFICES ASSUME pc' = "welcome" PROVE Authorized'
      BY DEF Authorize, Goto, Raise, Authorized
    <2>1. /\ pc = "authorize"
          /\ UNCHANGED <<user, mech, authcid, authzid>>
          /\ user # NoName /\ MayActAs /\ Permitted
      BY DEF Authorize, Named, Goto, Raise, login, identity
    <2>2. KerberosStyle(mech) => IsPrincipal(user, authcid)
      <3>1. user \in UserName /\ loaded = Len(CliCreds)
        BY <2>1 DEF IInv, StoreFaithful, LoginKnown, Verified
      <3> QED
        BY <2>1, <3>1 DEF Permitted, IInv, StoreFaithful, IsPrincipal
    <2> QED
      BY <2>1, <2>2 DEF Authorized, MayActAs
  <1> QED
    BY <1>1, <1>2, <1>3, <1>4, <1>5 DEF IInv

LEMMA SendErrorStep == IInv /\ SendError => IInv'
  <1> SUFFICES ASSUME IInv, SendError PROVE IInv'
    OBVIOUS
  <1>1. TypeOK'
    BY MessageTypes DEF IInv, TypeOK, SendError, login, identity, heard, Exception
  <1>2. StoreFaithful'
    BY StoreKept DEF IInv, SendError, login, identity, heard
  <1>3. /\ LoginKnown' /\ ContextFaithful' /\ ReplyHeard'
        /\ ScramAsked' /\ Earned' /\ Authorized'
    BY DEF IInv, SendError, login, identity, heard,
           LoginKnown, ContextFaithful, ReplyHeard, ScramAsked, Earned, Authorized,
           BeforeLogin, Holding, Verified
  <1> QED
    BY <1>1, <1>2, <1>3 DEF IInv

LEMMA SendWelcomeStep == IInv /\ SendWelcome => IInv'
  <1> SUFFICES ASSUME IInv, SendWelcome PROVE IInv'
    OBVIOUS
  <1>0. /\ pc = "welcome"
        /\ toClient' \in Seq(ServerMessage)
        /\ \/ pc' = "session" /\ exc' = exc
           \/ pc' = "crashed" /\ exc' = "OSError"
    <2>1. Welcome(final) \in ServerMessage
      BY MessageTypes DEF IInv, TypeOK
    <2> QED
      BY <2>1, SendOutcome DEF IInv, SendWelcome
  <1>1. TypeOK'
    BY <1>0 DEF IInv, TypeOK, SendWelcome, login, identity, heard, Exception
  <1>2. StoreFaithful'
    BY <1>0, StoreKept DEF IInv, SendWelcome
  <1>3. /\ LoginKnown' /\ ContextFaithful' /\ ReplyHeard'
        /\ ScramAsked' /\ Earned' /\ Authorized'
    BY <1>0 DEF IInv, SendWelcome, login, identity, heard,
           LoginKnown, ContextFaithful, ReplyHeard, ScramAsked, Earned, Authorized,
           BeforeLogin, Holding, Verified
  <1> QED
    BY <1>1, <1>2, <1>3 DEF IInv

LEMMA StartServerStep == IInv /\ StartServer => IInv'
  <1> SUFFICES ASSUME IInv, StartServer PROVE IInv'
    OBVIOUS
  <1>0. /\ pc = "start"
        /\ toClient' \in Seq(ServerMessage)
        /\ pc' \in {"token", "awaitToken", "crashed"}
        /\ exc' \in {exc, "OSError", "GSSError"}
    <2>1. CASE Send(More(NoBytes), "awaitToken")
      BY <2>1, SendOutcome, MessageTypes DEF IInv, StartServer
    <2>2. CASE ~Send(More(NoBytes), "awaitToken")
      BY <2>2 DEF IInv, TypeOK, StartServer, Raise, Goto
    <2> QED
      BY <2>1, <2>2
  <1>1. TypeOK'
    BY <1>0 DEF IInv, TypeOK, StartServer, login, identity, heard, Exception
  <1>2. StoreFaithful'
    BY <1>0, StoreKept DEF IInv, StartServer
  <1>3. /\ LoginKnown' /\ ContextFaithful' /\ ReplyHeard'
        /\ ScramAsked' /\ Earned' /\ Authorized'
    BY <1>0 DEF IInv, StartServer, login, identity, heard,
           LoginKnown, ContextFaithful, ReplyHeard, ScramAsked, Earned, Authorized,
           BeforeLogin, Holding, Verified
  <1> QED
    BY <1>1, <1>2, <1>3 DEF IInv

LEMMA ReceiveTokenStep ==
    ASSUME IInv, NEW msg \in LaterMessage, ReceiveToken(msg)
    PROVE  IInv'
  <1>0. msg.reply \in Reply
    BY DEF LaterMessage, TextMessage
  <1>1. TypeOK'
    <2>1. shown' \subseteq Claim /\ asked' \in UserName \cup {None}
      BY <1>0, AsksUser DEF IInv, TypeOK, ReceiveToken, Hear, Shows
    <2> QED
      BY <1>0, <2>1 DEF IInv, TypeOK, ReceiveToken, Goto, identity
  <1>2. StoreFaithful'
    BY StoreKept DEF IInv, ReceiveToken, Goto
  <1>3. /\ LoginKnown' /\ ContextFaithful' /\ ReplyHeard'
        /\ ScramAsked' /\ Earned' /\ Authorized'
    BY DEF IInv, ReceiveToken, Hear, Goto, identity,
           LoginKnown, ContextFaithful, ReplyHeard, ScramAsked, Earned, Authorized,
           BeforeLogin, Holding, Verified
  <1> QED
    BY <1>1, <1>2, <1>3 DEF IInv

-----------------------------------------------------------------------------
(* The mechanisms. *)

\* What is known when next_challenge gets a token.
LEMMA TokenTaken ==
    ASSUME IInv, NEW m, HasToken(m)
    PROVE  /\ pc = "token" /\ mech = m
           /\ user \in UserName /\ loaded = Len(CliCreds)
           /\ reply.token \in Token
           /\ reply' = Empty /\ reply' \in Reply
           /\ round' \in 0..MAX_ROUNDS
           /\ \A c \in Claim : TokenShows(reply.token, nonce, c) => c \in shown
           /\ reply.token.type \in {"plain", "scramFirst", "gssLayer"} =>
                 Asks(reply) /\ asked = reply.token.authzid
           /\ reply.token.type \notin {"plain", "scramFirst", "gssLayer"} => ~Asks(reply)
  <1>1. pc = "token" /\ mech = m /\ reply.form = "hex" /\ reply' = Empty
    BY DEF HasToken
  <1>2. reply \in Reply /\ user \in UserName /\ loaded = Len(CliCreds)
    BY <1>1 DEF IInv, TypeOK, LoginKnown, Holding, StoreFaithful
  <1>3. round' \in 0..MAX_ROUNDS
    BY DEF IInv, TypeOK, HasToken, MAX_ROUNDS
  <1>4. reply.token.type \in {"plain", "scramFirst", "gssLayer"} <=> Asks(reply)
    BY <1>1 DEF Asks
  <1>5. Shows(reply, nonce) \subseteq shown /\ (Asks(reply) => asked = reply.token.authzid)
    BY <1>1 DEF IInv, ReplyHeard, Holding
  <1>6. \A c \in Claim : TokenShows(reply.token, nonce, c) => c \in shown
    BY <1>1, <1>5 DEF Shows
  <1> QED
    BY <1>1, <1>2, <1>3, <1>4, <1>5, <1>6, HexToken, EmptyReply

\* What happens when next_challenge asks for another round.
LEMMA ContinueOutcome ==
    ASSUME NEW challenge \in ServerToken, TypeOK, Continue(challenge)
    PROVE  /\ toClient' \in Seq(ServerMessage)
           /\ \/ pc' = "awaitToken" /\ exc' = exc
              \/ pc' = "crashed" /\ exc' \in {"OSError", "AssertionError"}
  <1>1. More(challenge) \in ServerMessage
    BY MessageTypes
  <1>2. toClient \in Seq(ServerMessage)
    BY DEF TypeOK
  <1> QED
    BY <1>1, <1>2, SendOutcome DEF Continue, Raise

\* next_challenge rejects the token.
LEMMA RefuseStep ==
    ASSUME IInv, NEW m, HasToken(m), NEW e \in {"Reject", "ValueError"}, Refuse(e),
           UNCHANGED <<loaded, creds, nonce, user, mech, ctx, shown, asked>>
    PROVE  IInv'
  <1>1. pc = "token" /\ reply' \in Reply /\ round' \in 0..MAX_ROUNDS /\ loaded = Len(CliCreds)
    BY TokenTaken
  <1>2. pc' \in {"rejecting", "crashed"} /\ exc' \in Exception /\ UNCHANGED <<identity, toClient>>
    BY DEF Refuse, Raise, Exception
  <1>3. TypeOK'
    BY <1>1, <1>2 DEF IInv, TypeOK, identity
  <1>4. StoreFaithful'
    BY <1>1, <1>2, StoreKept DEF IInv
  <1>5. /\ LoginKnown' /\ ContextFaithful' /\ ReplyHeard'
        /\ ScramAsked' /\ Earned' /\ Authorized'
    BY <1>1, <1>2 DEF IInv, LoginKnown, ContextFaithful, ReplyHeard, ScramAsked, Earned, Authorized,
           BeforeLogin, Holding, Verified
  <1> QED
    BY <1>3, <1>4, <1>5 DEF IInv

LEMMA PlainNextStep == IInv /\ PlainNext => IInv'
  <1> SUFFICES ASSUME IInv, PlainNext PROVE IInv'
    OBVIOUS
  <1> DEFINE t == reply.token
  <1>0. /\ HasToken("PLAIN")
        /\ UNCHANGED <<loaded, creds, nonce, user, mech, ctx, shown, asked, toClient>>
    BY DEF PlainNext, heard, Refuse, Done
  <1>1. /\ pc = "token" /\ mech = "PLAIN"
        /\ user \in UserName /\ loaded = Len(CliCreds)
        /\ t \in Token /\ reply' \in Reply /\ round' \in 0..MAX_ROUNDS
    BY <1>0, TokenTaken
  <1>2. CASE Refuse("Reject") \/ Refuse("ValueError")
    BY <1>0, <1>2, RefuseStep
  <1>3. CASE /\ t.type = "plain"
             /\ t.password = GetLast(creds[user], "plain")
             /\ Done(t.authcid, OrNone(t.authzid), None)
    <2>1. /\ t.password \in Password /\ t.authcid \in UserName /\ t.authzid \in UserName
          /\ asked = t.authzid
          /\ Knows(t.password) \in shown
      <3>1. t.password \in Password /\ t.authcid \in UserName /\ t.authzid \in UserName
        BY <1>1, <1>3, TokenFields
      <3>2. Knows(t.password) \in Claim /\ TokenShows(t, nonce, Knows(t.password))
        BY <1>3, <3>1 DEF Claim, TokenShows
      <3> QED
        BY <1>0, <1>3, <3>1, <3>2, TokenTaken
    <2>2. IsPassword(user, t.password)
      BY <1>1, <1>3, <2>1, CredentialsAssumption
         DEF IInv, StoreFaithful, GetLast, IsPassword, CredData
    <2>3. /\ pc' = "authorize" /\ exc' = exc
          /\ authcid' = t.authcid /\ authzid' = OrNone(t.authzid) /\ final' = None
      BY <1>3 DEF Done, Goto
    <2>4. TypeOK'
      BY <1>0, <1>1, <2>1, <2>3 DEF IInv, TypeOK, OrNone, Authzid
    <2>5. StoreFaithful'
      BY <1>0, <1>1, <2>3, StoreKept DEF IInv
    <2>6. Earned'
      BY <1>0, <1>1, <2>1, <2>2, <2>3 DEF Earned, KerberosStyle, OrNone
    <2>7. LoginKnown' /\ ContextFaithful' /\ ReplyHeard' /\ ScramAsked' /\ Authorized'
      BY <1>0, <1>1, <2>3 DEF IInv, LoginKnown, ContextFaithful, ReplyHeard, ScramAsked, Authorized,
             BeforeLogin, Holding, Verified
    <2> QED
      BY <2>4, <2>5, <2>6, <2>7 DEF IInv
  <1> QED
    BY <1>2, <1>3 DEF PlainNext

LEMMA ScramInitialStep == IInv /\ ScramInitial => IInv'
  <1> SUFFICES ASSUME IInv, ScramInitial PROVE IInv'
    OBVIOUS
  <1> DEFINE t == reply.token
  <1>0. /\ HasToken("SCRAM-SHA-256") /\ ctx.stage = "new"
        /\ UNCHANGED <<loaded, nonce, user, mech, shown, asked>>
    BY DEF ScramInitial, heard
  <1>1. /\ pc = "token" /\ mech = "SCRAM-SHA-256"
        /\ user \in UserName /\ loaded = Len(CliCreds)
        /\ t \in Token /\ reply' \in Reply /\ round' \in 0..MAX_ROUNDS
    BY <1>0, TokenTaken
  <1>2. CASE Refuse("Reject") /\ UNCHANGED <<creds, ctx>>
    BY <1>0, <1>2, RefuseStep
  <1>3. CASE /\ t.type = "scramFirst"
             /\ ScramKeys # None
             /\ creds' = IF ScramStored = None
                         THEN Replace(creds, user, "SCRAM-SHA-256", ScramKeys)
                         ELSE creds
             /\ authzid' = ScramAuthzid(t.authzid)
             /\ ctx' = [stage |-> "begun", peer |-> t.user, keys |-> ScramKeys]
             /\ Continue(ScramServerFirst(nonce))
             /\ UNCHANGED <<authcid, final>>
    <2>1. t.user \in UserName /\ t.authzid \in UserName /\ asked = t.authzid
      BY <1>0, <1>1, <1>3, TokenFields, TokenTaken
    <2>2. PICK p \in Password : IsPassword(user, p) /\ ScramKeys = [salted |-> p]
      <3>1. CASE ScramStored # None
        <4>1. ScramKeys = ScramStored /\ creds[user]["SCRAM-SHA-256"] # <<>>
          BY <3>1 DEF ScramKeys, ScramStored, GetLast
        <4> QED
          BY <1>1, <4>1 DEF IInv, StoreFaithful, ScramStored
      <3>2. CASE ScramStored = None
        <4> DEFINE password == GetLast(creds[user], "plain")
        <4>1. ScramKeys = [salted |-> password] /\ password # None
          BY <1>3, <3>2 DEF ScramKeys, ScramMade
        <4>2. IsPassword(user, password)
          BY <1>1, <4>1 DEF IInv, StoreFaithful, GetLast, IsPassword
        <4>3. password \in Password
          <5>1. \A i \in 1..Len(CliCreds) : CliCreds[i] \in Cred
            BY CredentialsAssumption
          <5>2. \A i \in 1..Len(CliCreds) : Given(i, user, "plain") => CliCreds[i].password \in Password
            BY <5>1 DEF Given, Cred
          <5> HIDE DEF password
          <5> QED
            BY <4>2, <5>2, CredentialsAssumption DEF IsPassword, IsPasswordUpto
        <4> QED
          BY <4>1, <4>2, <4>3
      <3> QED
        BY <3>1, <3>2
    <2>3. ScramKeys \in ScramEntry
      BY <2>2 DEF ScramEntry
    <2>4. creds \in CredStore /\ "SCRAM-SHA-256" \in Kind
      BY DEF IInv, TypeOK, Kind
    <2>5. /\ creds' \in CredStore
          /\ \A u \in UserName :
                /\ creds'[u]["plain"] = creds[u]["plain"]
                /\ creds'[u]["principal"] = creds[u]["principal"]
                /\ u # user => creds'[u]["SCRAM-SHA-256"] = creds[u]["SCRAM-SHA-256"]
          /\ creds'[user]["SCRAM-SHA-256"] \in {<<ScramKeys>>, creds[user]["SCRAM-SHA-256"]}
      <3>1. CASE creds' = creds
        BY <2>4, <3>1
      <3>2. CASE creds' = Replace(creds, user, "SCRAM-SHA-256", ScramKeys)
        BY <1>1, <2>3, <2>4, <3>2 DEF Replace, CredStore, UserCreds, Kind
      <3> QED
        BY <1>3, <3>1, <3>2
    <2>6. /\ toClient' \in Seq(ServerMessage)
          /\ \/ pc' = "awaitToken" /\ exc' = exc
             \/ pc' = "crashed" /\ exc' \in {"OSError", "AssertionError"}
      <3>1. nonce \in Nonce
        BY <1>1 DEF IInv, LoginKnown, Holding
      <3> QED
        BY <1>3, <3>1, MessageTypes, ContinueOutcome DEF IInv
    <2>7. TypeOK'
      <3>1. ctx' \in [stage : {"new", "begun", "offered"},
                      peer : UserName \cup CredData \cup {None},
                      keys : CredData \cup ScramEntry \cup {None}]
        BY <1>3, <2>1, <2>3
      <3>2. authzid' \in Authzid
        BY <1>3, <2>1 DEF ScramAuthzid, Authzid, UserName
      <3> QED
        BY <1>0, <1>1, <1>3, <2>5, <2>6, <3>1, <3>2 DEF IInv, TypeOK, Exception
    <2>8. StoreFaithful'
      <3>1. loaded' = loaded /\ loaded = Len(CliCreds) /\ pc' # "opening"
        BY <1>0, <1>1, <2>6
      <3>2. ASSUME NEW u \in UserName, creds'[u]["SCRAM-SHA-256"] # <<>>
            PROVE  \E q \in Password :
                      /\ IsPassword(u, q)
                      /\ GetLast(creds'[u], "SCRAM-SHA-256") = [salted |-> q]
        <4>1. CASE creds'[u]["SCRAM-SHA-256"] = creds[u]["SCRAM-SHA-256"]
          BY <3>2, <4>1 DEF IInv, StoreFaithful, GetLast
        <4>2. CASE u = user /\ creds'[u]["SCRAM-SHA-256"] = <<ScramKeys>>
          <5>1. GetLast(creds'[u], "SCRAM-SHA-256") = ScramKeys
            BY <4>2, OneEntry
          <5>2. IsPassword(u, p) /\ GetLast(creds'[u], "SCRAM-SHA-256") = [salted |-> p]
            BY <2>2, <4>2, <5>1
          <5> QED
            BY <5>2
        <4> QED
          BY <2>5, <4>1, <4>2
      <3> QED
        <4>1. \A u \in UserName :
                 /\ GetLast(creds'[u], "plain") = GetLast(creds[u], "plain")
                 /\ GetAll(creds'[u], "principal") = GetAll(creds[u], "principal")
          <5> TAKE u \in UserName
          <5>1. creds'[u]["plain"] = creds[u]["plain"]
            BY <2>5
          <5>2. creds'[u]["principal"] = creds[u]["principal"]
            BY <2>5
          <5>3. GetLast(creds'[u], "plain") = GetLast(creds[u], "plain")
            BY <5>1, SameList
          <5>4. GetAll(creds'[u], "principal") = GetAll(creds[u], "principal")
            BY <5>2, SameList
          <5> QED
            BY <5>3, <5>4
        <4>2. \A u \in UserName :
                 /\ creds[u]["plain"] # <<>> =>
                       IsPasswordUpto(loaded, u, GetLast(creds[u], "plain"))
                 /\ \A k \in GetAll(creds[u], "principal") : IsPrincipalUpto(loaded, u, k)
          BY DEF IInv, StoreFaithful
        <4> QED
          BY <2>5, <3>1, <3>2, <4>1, <4>2 DEF StoreFaithful
    <2>9. LoginKnown' /\ ReplyHeard' /\ Earned' /\ Authorized'
      BY <1>0, <1>1, <2>6 DEF IInv, LoginKnown, ReplyHeard, Earned, Authorized,
             BeforeLogin, Holding, Verified
    <2>10. ContextFaithful' /\ ScramAsked'
      BY <1>0, <1>1, <1>3, <2>1, <2>2, <2>6 DEF ContextFaithful, ScramAsked
    <2> QED
      BY <2>7, <2>8, <2>9, <2>10 DEF IInv
  <1> QED
    BY <1>2, <1>3 DEF ScramInitial

LEMMA ScramFinishStep == IInv /\ ScramFinish => IInv'
  <1> SUFFICES ASSUME IInv, ScramFinish PROVE IInv'
    OBVIOUS
  <1> DEFINE t == reply.token
  <1>0. /\ HasToken("SCRAM-SHA-256") /\ ctx.stage = "begun"
        /\ UNCHANGED <<loaded, creds, nonce, user, mech, ctx, shown, asked, toClient>>
    BY DEF ScramFinish, heard, Refuse, Done
  <1>1. /\ pc = "token" /\ mech = "SCRAM-SHA-256"
        /\ user \in UserName /\ loaded = Len(CliCreds)
        /\ t \in Token /\ reply' \in Reply /\ round' \in 0..MAX_ROUNDS
    BY <1>0, TokenTaken
  <1>2. CASE Refuse("Reject")
    BY <1>0, <1>2, RefuseStep
  <1>3. CASE ScramVerifies(t) /\ Done(ctx.peer, authzid, ScramServerFinal(t.password))
    <2>1. t.type = "scramFinal" /\ t.password \in Password /\ Knows(t.password) \in shown
      <3>1. t.type = "scramFinal" /\ t.password \in Password /\ t.nonce = nonce
        BY <1>1, <1>3, TokenFields DEF ScramVerifies
      <3>2. Knows(t.password) \in Claim /\ TokenShows(t, nonce, Knows(t.password))
        BY <3>1 DEF Claim, TokenShows
      <3> QED
        BY <1>0, <3>1, <3>2, TokenTaken
    <2>2. IsPassword(user, t.password)
      <3>1. PICK p \in Password : IsPassword(user, p) /\ ctx.keys = [salted |-> p]
        BY <1>0, <1>1 DEF IInv, ContextFaithful
      <3>2. [salted |-> t.password] = [salted |-> p]
        BY <1>3, <3>1 DEF ScramVerifies
      <3>3. [salted |-> t.password].salted = [salted |-> p].salted
        BY <3>2
      <3> QED
        BY <3>1, <3>3
    <2>3. /\ pc' = "authorize" /\ exc' = exc
          /\ authcid' = ctx.peer /\ authzid' = authzid
          /\ final' = ScramServerFinal(t.password) /\ final' \in ServerToken
      BY <1>3, <2>1, MessageTypes DEF Done, Goto
    <2>4. TypeOK'
      BY <1>0, <1>1, <2>3 DEF IInv, TypeOK
    <2>5. StoreFaithful'
      BY <1>0, <1>1, <2>3, StoreKept DEF IInv
    <2>6. Earned'
      <3>1. authzid = ScramAuthzid(asked)
        BY <1>0, <1>1, <2>1, TokenTaken DEF IInv, ScramAsked
      <3> QED
        BY <1>0, <1>1, <2>1, <2>2, <2>3, <3>1 DEF Earned, KerberosStyle, ScramAuthzid
    <2>7. LoginKnown' /\ ContextFaithful' /\ ReplyHeard' /\ ScramAsked' /\ Authorized'
      BY <1>0, <1>1, <2>3 DEF IInv, LoginKnown, ContextFaithful, ReplyHeard, ScramAsked, Authorized,
             BeforeLogin, Holding, Verified
    <2> QED
      BY <2>4, <2>5, <2>6, <2>7 DEF IInv
  <1> QED
    BY <1>2, <1>3 DEF ScramFinish

\* GSSAPI asks for another round: with the context as it was, or with one
\* whose peer the client has shown to be.
LEMMA GssContinueStep ==
    ASSUME IInv, HasToken("GSSAPI"), NEW challenge \in ServerToken, Continue(challenge),
           UNCHANGED <<loaded, creds, nonce, user, mech, identity, shown, asked>>,
           ctx' \in [stage : {"new", "begun", "offered"},
                    peer : UserName \cup CredData \cup {None},
                    keys : CredData \cup ScramEntry \cup {None}],
           ctx'.stage # "new" => ctx'.peer \in Principal /\ Holds(ctx'.peer) \in shown
    PROVE  IInv'
  <1>1. /\ pc = "token" /\ mech = "GSSAPI"
        /\ user \in UserName /\ loaded = Len(CliCreds)
        /\ reply' \in Reply /\ round' \in 0..MAX_ROUNDS
    BY TokenTaken
  <1>2. /\ toClient' \in Seq(ServerMessage)
        /\ \/ pc' = "awaitToken" /\ exc' = exc
           \/ pc' = "crashed" /\ exc' \in {"OSError", "AssertionError"}
    BY ContinueOutcome DEF IInv
  <1>3. TypeOK'
    BY <1>1, <1>2 DEF IInv, TypeOK, identity, Exception
  <1>4. StoreFaithful'
    BY <1>1, <1>2, StoreKept DEF IInv
  <1>5. /\ LoginKnown' /\ ContextFaithful' /\ ReplyHeard'
        /\ ScramAsked' /\ Earned' /\ Authorized'
    BY <1>1, <1>2 DEF IInv, LoginKnown, ContextFaithful, ReplyHeard, ScramAsked, Earned, Authorized,
           BeforeLogin, Holding, Verified, ClassicMech, MechName
  <1> QED
    BY <1>3, <1>4, <1>5 DEF IInv

LEMMA GssNegotiateStep == IInv /\ GssNegotiate => IInv'
  <1> SUFFICES ASSUME IInv, GssNegotiate PROVE IInv'
    OBVIOUS
  <1> DEFINE t == reply.token
  <1>0. /\ HasToken("GSSAPI") /\ ctx.stage = "new"
        /\ UNCHANGED <<loaded, creds, nonce, user, mech, shown, asked>>
    BY DEF GssNegotiate, heard
  <1>1. /\ pc = "token" /\ mech = "GSSAPI"
        /\ user \in UserName /\ loaded = Len(CliCreds)
        /\ t \in Token /\ reply' \in Reply /\ round' \in 0..MAX_ROUNDS
    BY <1>0, TokenTaken
  <1>2. CASE Refuse("Reject") /\ UNCHANGED ctx
    BY <1>0, <1>2, RefuseStep
  <1>3. CASE Continue(GssServerToken) /\ UNCHANGED <<identity, ctx>>
    BY <1>0, <1>3, GssContinueStep, MessageTypes DEF IInv, TypeOK
  <1>4. CASE /\ t.type = "gssLast" /\ t.kerberos /\ t.ours
             /\ ctx' = [ctx EXCEPT !.stage = "begun", !.peer = t.peer]
             /\ Continue(IF "mutual" \in t.flags THEN GssServerToken ELSE NoBytes)
             /\ UNCHANGED identity
    <2>1. t.peer \in Principal
      BY <1>1, <1>4, TokenFields
    <2>2. Holds(t.peer) \in shown
      <3>1. Holds(t.peer) \in Claim /\ TokenShows(t, nonce, Holds(t.peer))
        BY <1>4, <2>1 DEF Claim, TokenShows
      <3> QED
        BY <1>0, <3>1, TokenTaken
    <2>3. /\ ctx' \in [stage : {"new", "begun", "offered"},
                       peer : UserName \cup CredData \cup {None},
                       keys : CredData \cup ScramEntry \cup {None}]
          /\ ctx'.peer = t.peer
      BY <1>4, <2>1 DEF IInv, TypeOK, CredData
    <2>4. PICK challenge \in ServerToken : Continue(challenge)
      BY <1>4, MessageTypes
    <2> QED
      BY <1>0, <1>4, <2>1, <2>2, <2>3, <2>4, GssContinueStep
  <1> QED
    BY <1>2, <1>3, <1>4 DEF GssNegotiate

LEMMA GssOfferStep == IInv /\ GssOffer => IInv'
  <1> SUFFICES ASSUME IInv, GssOffer PROVE IInv'
    OBVIOUS
  <1>1. /\ HasToken("GSSAPI") /\ ctx.stage = "begun" /\ mech = "GSSAPI"
        /\ UNCHANGED <<loaded, creds, nonce, user, mech, identity, shown, asked>>
        /\ ctx' = [ctx EXCEPT !.stage = "offered"]
        /\ Continue(GssLayerOffer)
    BY DEF GssOffer, HasToken, heard
  <1>2. /\ ctx' \in [stage : {"new", "begun", "offered"},
                     peer : UserName \cup CredData \cup {None},
                     keys : CredData \cup ScramEntry \cup {None}]
        /\ ctx'.peer = ctx.peer
    BY <1>1 DEF IInv, TypeOK
  <1>3. ctx.peer \in Principal /\ Holds(ctx.peer) \in shown
    BY <1>1 DEF IInv, ContextFaithful
  <1> QED
    BY <1>1, <1>2, <1>3, GssContinueStep, MessageTypes

LEMMA GssConcludeStep == IInv /\ GssConclude => IInv'
  <1> SUFFICES ASSUME IInv, GssConclude PROVE IInv'
    OBVIOUS
  <1> DEFINE t == reply.token
  <1>0. /\ HasToken("GSSAPI") /\ ctx.stage = "offered"
        /\ UNCHANGED <<loaded, creds, nonce, user, mech, ctx, shown, asked, toClient>>
    BY DEF GssConclude, heard, Refuse, Done
  <1>1. /\ pc = "token" /\ mech = "GSSAPI"
        /\ user \in UserName /\ loaded = Len(CliCreds)
        /\ t \in Token /\ reply' \in Reply /\ round' \in 0..MAX_ROUNDS
    BY <1>0, TokenTaken
  <1>2. CASE Refuse("Reject")
    BY <1>0, <1>2, RefuseStep
  <1>3. CASE t.type = "gssLayer" /\ Done(ctx.peer, t.authzid, None)
    <2>1. t.authzid \in UserName /\ asked = t.authzid
      BY <1>0, <1>1, <1>3, TokenFields, TokenTaken
    <2>2. ctx.peer \in Principal /\ Holds(ctx.peer) \in shown
      BY <1>0, <1>1 DEF IInv, ContextFaithful
    <2>3. /\ pc' = "authorize" /\ exc' = exc
          /\ authcid' = ctx.peer /\ authzid' = asked /\ final' = None
      BY <1>3, <2>1 DEF Done, Goto
    <2>4. TypeOK'
      BY <1>0, <1>1, <2>1, <2>2, <2>3 DEF IInv, TypeOK, Authzid, CredData
    <2>5. StoreFaithful'
      BY <1>0, <1>1, <2>3, StoreKept DEF IInv
    <2>6. Earned'
      BY <1>0, <1>1, <2>2, <2>3 DEF Earned, KerberosStyle
    <2>7. LoginKnown' /\ ContextFaithful' /\ ReplyHeard' /\ ScramAsked' /\ Authorized'
      BY <1>0, <1>1, <2>3 DEF IInv, LoginKnown, ContextFaithful, ReplyHeard, ScramAsked, Authorized,
             BeforeLogin, Holding, Verified
    <2> QED
      BY <2>4, <2>5, <2>6, <2>7 DEF IInv
  <1> QED
    BY <1>2, <1>3 DEF GssConclude

-----------------------------------------------------------------------------
(* The theorems. *)

\* Every step keeps the invariant.
LEMMA NextIInv == IInv /\ [Next]_vars => IInv'
  <1> SUFFICES ASSUME IInv, [Next]_vars PROVE IInv'
    OBVIOUS
  <1>1. CASE ServerStep
    BY <1>1, OpenStoreStep, LoadCredentialStep, SendChallengeStep, CheckClassicStep,
       StartServerStep, GiveUpStep, PlainNextStep, ScramInitialStep, ScramFinishStep,
       GssNegotiateStep, GssOfferStep, GssConcludeStep, AuthorizeStep, SendWelcomeStep,
       SendErrorStep DEF ServerStep
  <1>2. CASE \E msg \in FirstMessage : ReceiveLogin(msg)
    BY <1>2, ReceiveLoginStep
  <1>3. CASE \E msg \in LaterMessage : ReceiveToken(msg)
    BY <1>3, ReceiveTokenStep
  <1>4. CASE ReceiveEof
    BY <1>4, ReceiveEofStep
  <1>5. CASE \E e \in {"ValueError", "EOFError", "OSError"} : ReceiveFails(e)
    BY <1>5, ReceiveFailsStep
  <1>6. CASE UNCHANGED vars
    BY <1>6 DEF vars, login, identity, heard, IInv, TypeOK, StoreFaithful, LoginKnown,
           ContextFaithful, ReplyHeard, ScramAsked, Earned, Authorized,
           BeforeLogin, Holding, Verified, ScramKeys, IsPassword, IsPrincipal
  <1> QED
    BY <1>1, <1>2, <1>3, <1>4, <1>5, <1>6 DEF Next, Terminated

\* IInv is an invariant of every behaviour.
THEOREM Invariance == Spec => []IInv
  BY InitIInv, NextIInv, PTL DEF Spec

\* Type correctness of the server's side of a connection.
THEOREM TypeCorrect == Spec => []TypeOK
  <1>1. IInv => TypeOK
    BY DEF IInv
  <1> QED
    BY <1>1, Invariance, PTL

\* The verdict is earned: whatever messages a client sends in whatever order,
\* it gets a session as a user only on a credential configured for that user.
THEOREM SessionsAreEarned == Spec => []SessionEarned
  <1>1. IInv => SessionEarned
    BY DEF IInv, SessionEarned, Earned, Authorized, Verified, KerberosStyle
  <1> QED
    BY <1>1, Invariance, PTL

\* No mechanism lets a client act as anyone but the user it logged in as.
THEOREM ActingIsRespected == Spec => []ActingRespected
  <1>1. IInv => ActingRespected
    <2> SUFFICES ASSUME IInv, pc = "session", asked \notin {None, NoName}
                 PROVE  asked = user
      BY DEF ActingRespected
    <2>1. /\ authzid \in {None, NoName, user}
          /\ authzid \in {asked, GsAuthzid(asked)}
          /\ user \in UserName /\ asked \in Name
      BY DEF IInv, Authorized, Earned, LoginKnown, Verified, TypeOK, UserName
    <2>2. GsAuthzid(asked) \notin UserName /\ GsAuthzid(asked) # None
      BY <2>1, MechanismsAssumption
    <2> QED
      BY <2>1, <2>2 DEF UserName
  <1> QED
    BY <1>1, Invariance, PTL

-----------------------------------------------------------------------------
(* The handshake implements LoginContract. *)

Pending == pc \notin {"session", "rejecting", "rejected", "crashed"}

Quiet == UNCHANGED shown

\* What the steps of the thread look like from outside.
Outline ==
    \/ Pending /\ Pending' /\ (\E made \in SUBSET Claim : shown' = shown \cup made)
    \/ Pending /\ pc' \in {"rejecting", "crashed"} /\ Quiet
    \/ pc = "welcome" /\ pc' = "session" /\ user' = user /\ Quiet
    \/ pc = "rejecting" /\ pc' = "rejected" /\ Quiet
    \/ UNCHANGED <<pc, user, shown>>

\* Steps that hear nothing.
LEMMA QuietOutline ==
    ASSUME Pending, UNCHANGED shown, Pending' \/ pc' \in {"rejecting", "crashed"}
    PROVE  Outline
  <1>1. shown' = shown \cup {} /\ {} \in SUBSET Claim
    OBVIOUS
  <1> QED
    BY <1>1 DEF Outline, Quiet

LEMMA StepOutline == [Next]_vars => Outline
  <1> SUFFICES ASSUME [Next]_vars PROVE Outline
    OBVIOUS
  <1>1. CASE OpenStore \/ LoadCredential \/ SendChallenge \/ StartServer
    BY <1>1, QuietOutline DEF OpenStore, LoadCredential, SendChallenge, StartServer,
       Send, Goto, Raise, heard, Pending
  <1>2. CASE CheckClassic \/ GiveUp \/ Authorize
    BY <1>2, QuietOutline DEF CheckClassic, GiveUp, Authorize, Goto, Raise, heard, Pending
  <1>3. CASE PlainNext
    BY <1>3, QuietOutline DEF PlainNext, HasToken, Done, Refuse, Goto, Raise, heard, Pending
  <1>4. CASE ScramInitial \/ ScramFinish
    BY <1>4, QuietOutline DEF ScramInitial, ScramFinish, HasToken, Done, Refuse, Continue,
       Send, Goto, Raise, heard, Pending
  <1>5. CASE GssNegotiate \/ GssOffer \/ GssConclude
    BY <1>5, QuietOutline DEF GssNegotiate, GssOffer, GssConclude, HasToken, Done, Refuse,
       Continue, Send, Goto, Raise, heard, Pending
  <1>6. CASE SendWelcome
    <2>1. pc = "welcome" /\ pc' \in {"session", "crashed"} /\ user' = user /\ Quiet
      BY <1>6 DEF SendWelcome, Send, Goto, Raise, login, heard, Quiet
    <2> QED
      BY <2>1 DEF Outline, Pending
  <1>7. CASE SendError
    BY <1>7 DEF SendError, heard, Outline, Quiet
  <1>8. ASSUME NEW msg \in FirstMessage, ReceiveLogin(msg)
        PROVE  Outline
    <2>1. pc = "awaitLogin" /\ pc' \in {"classic", "start", "rejecting"}
      BY <1>8 DEF ReceiveLogin, Goto, Raise
    <2>2. CASE UNCHANGED shown
      BY <2>1, <2>2, QuietOutline DEF Pending
    <2>3. CASE shown' = shown \cup Shows(msg.reply, nonce) /\ pc' # "rejecting"
      <3>1. Shows(msg.reply, nonce) \in SUBSET Claim
        BY DEF Shows
      <3> QED
        BY <2>1, <2>3, <3>1 DEF Outline, Pending
    <2> QED
      BY <1>8, <2>2, <2>3 DEF ReceiveLogin, Hear, Goto, Raise, heard
  <1>9. ASSUME NEW msg \in LaterMessage, ReceiveToken(msg)
        PROVE  Outline
    <2>1. pc = "awaitToken" /\ pc' = "token" /\ shown' = shown \cup Shows(msg.reply, nonce)
      BY <1>9 DEF ReceiveToken, Hear, Goto
    <2>2. Shows(msg.reply, nonce) \in SUBSET Claim
      BY DEF Shows
    <2> QED
      BY <2>1, <2>2 DEF Outline, Pending
  <1>10. CASE ReceiveEof
    BY <1>10, QuietOutline DEF ReceiveEof, Goto, Raise, heard, Pending
  <1>11. ASSUME NEW e \in {"ValueError", "EOFError", "OSError"}, ReceiveFails(e)
         PROVE  Outline
    BY <1>11, QuietOutline DEF ReceiveFails, Raise, heard, Pending
  <1>12. CASE UNCHANGED vars
    BY <1>12 DEF vars, login, heard, Outline
  <1> QED
    BY <1>1, <1>2, <1>3, <1>4, <1>5, <1>6, <1>7, <1>8, <1>9, <1>10, <1>11, <1>12
       DEF Next, ServerStep, Terminated

\* Every behaviour of the handshake is one the contract allows: whoever is
\* let in is entitled to it, and no verdict is given twice or taken back.
THEOREM HandshakeImplementsContract == Spec => ImplementsContract
  <1>1. Init => Contract!Init
    BY DEF Init, Contract!Init, Verdict, Who
  <1>2. IInv /\ IInv' /\ [Next]_vars => [Contract!Next]_(Contract!vars)
    <2> SUFFICES ASSUME IInv, IInv', [Next]_vars
                 PROVE  Contract!Next \/ UNCHANGED Contract!vars
      OBVIOUS
    <2>1. CASE Pending /\ Pending' /\ (\E made \in SUBSET Claim : shown' = shown \cup made)
      BY <2>1 DEF Pending, Verdict, Who, Contract!Next, Contract!Hear
    <2>2. CASE Pending /\ pc' \in {"rejecting", "crashed"} /\ Quiet
      BY <2>2 DEF Pending, Quiet, Verdict, Who, Contract!Next, Contract!Refuse
    <2>3. CASE pc = "welcome" /\ pc' = "session" /\ user' = user /\ Quiet
      <3>1. user \in Name
        BY <2>3 DEF IInv, LoginKnown, Authorized, Verified, UserName
      <3>2. shown \cap Entitling(user) # {}
        <4>1. CASE KerberosStyle(mech)
          BY <2>3, <4>1 DEF IInv, Earned, Authorized, Verified, Entitling
        <4>2. CASE ~KerberosStyle(mech)
          BY <2>3, <4>2 DEF IInv, Earned, Verified, Entitling
        <4> QED
          BY <4>1, <4>2
      <3>3. Contract!Grant(user)
        BY <2>3, <3>1, <3>2 DEF Quiet, Verdict, Who, Contract!Grant
      <3> QED
        BY <3>1, <3>3 DEF Contract!Next
    <2>4. CASE pc = "rejecting" /\ pc' = "rejected" /\ Quiet
      BY <2>4 DEF Quiet, Verdict, Who, Contract!vars
    <2>5. CASE UNCHANGED <<pc, user, shown>>
      BY <2>5 DEF Verdict, Who, Contract!vars
    <2> QED
      BY <2>1, <2>2, <2>3, <2>4, <2>5, StepOutline DEF Outline
  <1> QED
    BY <1>1, <1>2, Invariance, PTL DEF Spec, ImplementsContract, Contract!Spec

-----------------------------------------------------------------------------
(* The final message goes out with the session, and not before. *)

\* What a step tells the client: nothing, something that is no welcome and
\* does not open the session, or the welcome that does.
Tells ==
    \/ /\ pc # "session" /\ pc' # "session"
       /\ \/ toClient' = toClient
          \/ \E msg : msg.type # "welcome" /\ toClient' = Append(toClient, msg)
    \/ pc = "welcome" /\ pc' = "session" /\ toClient' = Append(toClient, Welcome(final))
    \/ UNCHANGED <<pc, toClient>>

\* A send of anything but the welcome.
LEMMA SendTells ==
    ASSUME NEW msg, msg.type # "welcome", NEW next, next # "session",
           pc # "session", Send(msg, next)
    PROVE  Tells
  BY DEF Send, Goto, Raise, Tells

\* The messages that are sent on the way.
LEMMA OnTheWay ==
    /\ \A n : Challenge(n).type # "welcome"
    /\ \A t : More(t).type # "welcome"
    /\ Error.type # "welcome"
  BY DEF Challenge, More, Error

LEMMA ContinueTells ==
    ASSUME NEW t, pc # "session", Continue(t)
    PROVE  Tells
  <1>1. CASE Raise("AssertionError") /\ UNCHANGED toClient
    BY <1>1 DEF Raise, Tells
  <1>2. CASE Send(More(t), "awaitToken")
    BY <1>2, SendTells, OnTheWay
  <1> QED
    BY <1>1, <1>2 DEF Continue

LEMMA StepTells == [Next]_vars => Tells
  <1> SUFFICES ASSUME [Next]_vars PROVE Tells
    OBVIOUS
  <1>1. CASE OpenStore \/ LoadCredential \/ CheckClassic \/ GiveUp \/ Authorize
    BY <1>1 DEF OpenStore, LoadCredential, CheckClassic, GiveUp, Authorize, Goto, Raise, Tells
  <1>2. CASE SendChallenge
    <2>1. PICK n \in Nonce : \/ Send(Challenge(n), "awaitLogin")
                             \/ Raise("Reject") /\ UNCHANGED toClient
      BY <1>2 DEF SendChallenge
    <2>2. pc # "session"
      BY <1>2 DEF SendChallenge
    <2>3. CASE Send(Challenge(n), "awaitLogin")
      BY <2>2, <2>3, SendTells, OnTheWay
    <2>4. CASE Raise("Reject") /\ UNCHANGED toClient
      BY <2>2, <2>4 DEF Raise, Tells
    <2> QED
      BY <2>1, <2>3, <2>4
  <1>3. CASE StartServer
    <2>1. pc # "session"
      BY <1>3 DEF StartServer
    <2>2. CASE Send(More(NoBytes), "awaitToken")
      BY <2>1, <2>2, SendTells, OnTheWay
    <2>3. CASE UNCHANGED toClient /\ (Raise("GSSError") \/ Goto("token"))
      BY <2>1, <2>3 DEF Raise, Goto, Tells
    <2> QED
      BY <1>3, <2>2, <2>3 DEF StartServer
  <1>4. CASE PlainNext \/ ScramFinish \/ GssConclude
    BY <1>4 DEF PlainNext, ScramFinish, GssConclude, HasToken, Done, Refuse, Goto, Raise, Tells
  <1>5. CASE ScramInitial \/ GssNegotiate \/ GssOffer
    <2>1. pc = "token"
      BY <1>5 DEF ScramInitial, GssNegotiate, GssOffer, HasToken
    <2>2. CASE Refuse("Reject")
      BY <2>1, <2>2 DEF Refuse, Raise, Tells
    <2>3. CASE \E t : Continue(t)
      BY <2>1, <2>3, ContinueTells
    <2> QED
      BY <1>5, <2>2, <2>3 DEF ScramInitial, GssNegotiate, GssOffer
  <1>6. CASE SendWelcome
    BY <1>6 DEF SendWelcome, Send, Goto, Raise, Tells
  <1>7. CASE SendError
    BY <1>7, OnTheWay DEF SendError, Tells
  <1>8. ASSUME NEW msg \in FirstMessage, ReceiveLogin(msg)
        PROVE  Tells
    BY <1>8 DEF ReceiveLogin, Goto, Raise, Tells
  <1>9. ASSUME NEW msg \in LaterMessage, ReceiveToken(msg)
        PROVE  Tells
    BY <1>9 DEF ReceiveToken, Goto, Tells
  <1>10. CASE ReceiveEof
    BY <1>10 DEF ReceiveEof, Goto, Raise, Tells
  <1>11. ASSUME NEW e \in {"ValueError", "EOFError", "OSError"}, ReceiveFails(e)
         PROVE  Tells
    BY <1>11 DEF ReceiveFails, Raise, Tells
  <1>12. CASE UNCHANGED vars
    BY <1>12 DEF vars, Tells
  <1> QED
    BY <1>1, <1>2, <1>3, <1>4, <1>5, <1>6, <1>7, <1>8, <1>9, <1>10, <1>11, <1>12
       DEF Next, ServerStep, Terminated

\* One more message at the end of a sequence.
LEMMA AppendIndex ==
    ASSUME NEW S, NEW s \in Seq(S), NEW e, NEW t, t = Append(s, e)
    PROVE  /\ Len(t) \in DOMAIN t /\ t[Len(t)] = e
           /\ \A i \in DOMAIN t : i # Len(t) => i \in DOMAIN s /\ t[i] = s[i]
           /\ \A i \in DOMAIN s : i \in DOMAIN t /\ t[i] = s[i]
  <1>1. s \in Seq(S \cup {e}) /\ t = Append(s, e)
    OBVIOUS
  <1> QED
    BY <1>1

\* The client is told it is in when it is: no mechanism, and no failure of
\* authorize_connection, lets the final message out without a session.
THEOREM WelcomeWithSession == Spec => []WelcomeMeansSession
  <1>1. Init => WelcomeMeansSession
    BY DEF Init, WelcomeMeansSession
  <1>2. TypeOK /\ WelcomeMeansSession /\ [Next]_vars => WelcomeMeansSession'
    <2> SUFFICES ASSUME TypeOK, WelcomeMeansSession, [Next]_vars
                 PROVE  WelcomeMeansSession'
      OBVIOUS
    <2>1. toClient \in Seq(ServerMessage)
      BY DEF TypeOK
    <2>2. CASE pc # "session" /\ pc' # "session" /\ toClient' = toClient
      BY <2>2 DEF WelcomeMeansSession
    <2>3. ASSUME pc # "session", pc' # "session",
                 NEW msg, msg.type # "welcome", toClient' = Append(toClient, msg)
          PROVE  WelcomeMeansSession'
      BY <2>1, <2>3, AppendIndex DEF WelcomeMeansSession
    <2>4. CASE pc' = "session" /\ toClient' = Append(toClient, Welcome(final))
      BY <2>1, <2>4, AppendIndex DEF WelcomeMeansSession, Welcome
    <2>5. CASE UNCHANGED <<pc, toClient>>
      BY <2>5 DEF WelcomeMeansSession
    <2> QED
      BY <2>2, <2>3, <2>4, <2>5, StepTells DEF Tells
  <1> QED
    BY <1>1, <1>2, TypeCorrect, PTL DEF Spec

-----------------------------------------------------------------------------
(* The assertions on the way to the session.                               *)

\* What the assertions look at: whom SCRAM was told it talks to, that a
\* mechanism that is done says who the client is, and, once an assertion has
\* failed, that it was over an empty name.
NamesKnown ==
    /\ mech = "SCRAM-SHA-256" /\ ctx.stage # "new" => ctx.peer \in UserName
    /\ Verified => authcid # None
    /\ exc = "AssertionError" => pc = "crashed" /\ (user = NoName \/ authcid = NoName)

\* No mechanism asks for another round with an empty challenge.
LEMMA ChallengesNotEmpty ==
    /\ \A n : ScramServerFirst(n) # NoBytes
    /\ GssServerToken # NoBytes
    /\ GssLayerOffer # NoBytes
  BY DEF ScramServerFirst, GssServerToken, GssLayerOffer, NoBytes

\* The next round: a send, with a failure that is no AssertionError.
LEMMA ContinueNames ==
    ASSUME NEW t, t # NoBytes, Continue(t), exc # "AssertionError"
    PROVE  pc' \in {"awaitToken", "crashed"} /\ exc' # "AssertionError"
  BY DEF Continue, Send, Goto, Raise

LEMMA ScramNames ==
    ASSUME IInv, NamesKnown, ScramInitial \/ ScramFinish
    PROVE  NamesKnown'
  <1> DEFINE t == reply.token
  <1>0. /\ HasToken("SCRAM-SHA-256") /\ pc = "token" /\ mech = "SCRAM-SHA-256" /\ mech' = mech
        /\ t \in Token /\ exc # "AssertionError"
    BY TokenTaken DEF ScramInitial, ScramFinish, HasToken, NamesKnown
  <1>1. CASE Refuse("Reject") /\ ctx' = ctx
    BY <1>0, <1>1 DEF Refuse, Raise, Verified, NamesKnown
  <1>2. CASE /\ t.type = "scramFirst"
             /\ ctx' = [stage |-> "begun", peer |-> t.user, keys |-> ScramKeys]
             /\ Continue(ScramServerFirst(nonce))
    <2>1. pc' \in {"awaitToken", "crashed"} /\ exc' # "AssertionError"
      BY <1>0, <1>2, ChallengesNotEmpty, ContinueNames
    <2>2. ctx'.peer \in UserName
      BY <1>0, <1>2, TokenFields
    <2> QED
      BY <2>1, <2>2 DEF Verified, NamesKnown
  <1>3. CASE ScramFinish /\ ScramVerifies(t)
    <2>1. /\ authcid' = ctx.peer /\ ctx.peer \in UserName /\ ctx' = ctx
          /\ pc' = "authorize" /\ exc' = exc
      BY <1>0, <1>3 DEF ScramFinish, Done, Goto, NamesKnown
    <2>2. None \notin UserName
      BY CredentialsAssumption DEF UserName
    <2> QED
      BY <1>0, <2>1, <2>2 DEF NamesKnown
  <1> QED
    BY <1>0, <1>1, <1>2, <1>3 DEF ScramInitial, ScramFinish

LEMMA GssNames ==
    ASSUME IInv, NamesKnown, GssNegotiate \/ GssOffer \/ GssConclude
    PROVE  NamesKnown'
  <1> DEFINE t == reply.token
  <1>0. /\ HasToken("GSSAPI") /\ pc = "token" /\ mech = "GSSAPI" /\ mech' = mech
        /\ exc # "AssertionError"
    BY TokenTaken DEF GssNegotiate, GssOffer, GssConclude, HasToken, NamesKnown
  <1>1. CASE Refuse("Reject")
    BY <1>0, <1>1 DEF Refuse, Raise, Verified, NamesKnown
  <1>2. ASSUME NEW c, c # NoBytes, Continue(c)
        PROVE  NamesKnown'
    BY <1>0, <1>2, ContinueNames DEF Verified, NamesKnown
  <1>3. CASE GssNegotiate
    <2>1. VerifyFlags(t.flags) => "mutual" \in t.flags
      BY DEF VerifyFlags, MINIMAL_REQ_FLAGS
    <2> QED
      BY <1>1, <1>2, <1>3, <2>1, ChallengesNotEmpty DEF GssNegotiate
  <1>4. CASE GssOffer
    BY <1>2, <1>4, ChallengesNotEmpty DEF GssOffer
  <1>5. CASE GssConclude /\ Done(ctx.peer, t.authzid, None)
    <2>1. ctx.stage # "new" /\ authcid' = ctx.peer /\ pc' = "authorize" /\ exc' = exc
      BY <1>5 DEF GssConclude, Done, Goto
    <2>2. ctx.peer \in Principal
      BY <1>0, <2>1 DEF IInv, ContextFaithful
    <2>3. None \notin Principal
      BY CredentialsAssumption DEF CredData
    <2> QED
      BY <1>0, <2>1, <2>2, <2>3 DEF NamesKnown
  <1> QED
    BY <1>1, <1>3, <1>4, <1>5 DEF GssNegotiate, GssOffer, GssConclude

LEMMA NextNames == IInv /\ NamesKnown /\ [Next]_vars => NamesKnown'
  <1> SUFFICES ASSUME IInv, NamesKnown, [Next]_vars PROVE NamesKnown'
    OBVIOUS
  <1> USE DEF NamesKnown, Verified
  <1>0. None \notin UserName
    BY CredentialsAssumption DEF UserName
  <1>1. CASE OpenStore \/ LoadCredential \/ StartServer \/ GiveUp
    BY <1>1 DEF OpenStore, LoadCredential, StartServer, GiveUp, Send, Goto, Raise, login, identity
  <1>2. CASE SendChallenge
    BY <1>2 DEF SendChallenge, Send, Goto, Raise, login, identity
  <1>3. CASE CheckClassic
    <2>1. pc = "classic" /\ authcid' = user /\ mech' = mech /\ user' = user /\ ctx' = ctx
      BY <1>3 DEF CheckClassic, login
    <2>2. user \in UserName
      BY <2>1 DEF IInv, LoginKnown, Holding
    <2> QED
      BY <1>0, <1>3, <2>1, <2>2 DEF CheckClassic, Goto, Raise
  <1>4. CASE PlainNext
    <2>1. /\ HasToken("PLAIN") /\ pc = "token" /\ mech = "PLAIN" /\ mech' = mech
          /\ reply.token \in Token /\ exc # "AssertionError"
      BY <1>4, TokenTaken DEF PlainNext, HasToken
    <2>2. CASE Refuse("Reject") \/ Refuse("ValueError")
      BY <2>1, <2>2 DEF Refuse, Raise
    <2>3. CASE /\ reply.token.type = "plain"
               /\ Done(reply.token.authcid, OrNone(reply.token.authzid), None)
      BY <1>0, <2>1, <2>3, TokenFields DEF Done, Goto
    <2> QED
      BY <1>4, <2>2, <2>3 DEF PlainNext
  <1>5. CASE ScramInitial \/ ScramFinish
    BY <1>5, ScramNames
  <1>6. CASE GssNegotiate \/ GssOffer \/ GssConclude
    BY <1>6, GssNames
  <1>7. CASE Authorize
    <2>1. pc = "authorize" /\ UNCHANGED <<user, mech, ctx, authcid>>
      BY <1>7 DEF Authorize, login, identity
    <2>2. user \in UserName
      BY <2>1 DEF IInv, LoginKnown
    <2> QED
      BY <1>0, <1>7, <2>1, <2>2 DEF Authorize, Named, Goto, Raise
  <1>8. CASE SendWelcome \/ SendError
    BY <1>8 DEF SendWelcome, SendError, Send, Goto, Raise, login, identity
  <1>9. ASSUME NEW msg \in FirstMessage, ReceiveLogin(msg)
        PROVE  NamesKnown'
    <2>1. ctx.stage = "new"
      BY <1>9 DEF ReceiveLogin, IInv, LoginKnown, BeforeLogin
    <2> QED
      BY <1>9, <2>1 DEF ReceiveLogin, Goto, Raise, login, identity
  <1>10. ASSUME NEW msg \in LaterMessage, ReceiveToken(msg)
         PROVE  NamesKnown'
    BY <1>10 DEF ReceiveToken, Goto, identity
  <1>11. CASE ReceiveEof
    BY <1>11 DEF ReceiveEof, Goto, Raise, identity
  <1>12. ASSUME NEW e \in {"ValueError", "EOFError", "OSError"}, ReceiveFails(e)
         PROVE  NamesKnown'
    BY <1>12 DEF ReceiveFails, Raise, login, identity
  <1>13. CASE UNCHANGED vars
    BY <1>13 DEF vars, login, identity
  <1> QED
    BY <1>1, <1>2, <1>3, <1>4, <1>5, <1>6, <1>7, <1>8, <1>9, <1>10, <1>11, <1>12, <1>13
       DEF Next, ServerStep, Terminated

\* An assertion fails over an empty name and for no other reason, whatever
\* the client sends and whatever flags its GSSAPI context ends up with.
THEOREM AssertionsFailForEmptyNames == Spec => []AssertionOnlyForEmptyName
  <1>1. Init => NamesKnown
    BY ExceptionAssumption DEF Init, NamesKnown, Verified, NewContext, Exception
  <1>2. NamesKnown => AssertionOnlyForEmptyName
    BY DEF NamesKnown, AssertionOnlyForEmptyName
  <1> QED
    BY <1>1, <1>2, NextNames, Invariance, PTL DEF Spec
=============================================================================
