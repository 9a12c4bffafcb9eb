--------------------------- MODULE DialogueProofs ---------------------------
(***************************************************************************)
(* Proofs about Dialogue, for any client, store password, set of available *)
(* mechanisms and number of GSSAPI tokens: its types, that HAPPY is earned *)
(* and that a qualified client gets it.                                    *)
(***************************************************************************)
EXTENDS Dialogue, TLAPS

-----------------------------------------------------------------------------
(* The inductive invariant: where the two sides stand. *)

Modern == mech \in {"PLAIN", "SCRAM-SHA-256", "GSSAPI"}

Undecided == ~rejected /\ ~server_done

\* The client's last token but two, its last ones, and SCRAM's.
LastToken == GssLast(client.principal, TRUE, ours, MINIMAL_REQ_FLAGS)
LayerToken == GssLayer(TRUE, TRUE, NoName)

\* The token the client sends after k others.
TokenAt(t, k) ==
    \/ mech = "PLAIN" /\ k = 0 /\ t = PlainToken(NoName, client.user, client.password)
    \/ mech = "SCRAM-SHA-256" /\ k = 0 /\ t = ScramFirst(NoName, client.user)
    \/ mech = "SCRAM-SHA-256" /\ k = 1 /\ t = ScramFinal(challenge.nonce, client.password)
    \/ mech = "GSSAPI" /\ k < legs /\ t = GssMore
    \/ mech = "GSSAPI" /\ k = legs /\ t = LastToken
    \/ mech = "GSSAPI" /\ k = legs + 1 /\ t = Junk
    \/ mech = "GSSAPI" /\ k = legs + 2 /\ t = LayerToken

\* The server side after k tokens, unless it has decided.
StageAt(k) ==
    \/ mech = "PLAIN" /\ k = 0
    \/ mech = "SCRAM-SHA-256" /\ k = 0 /\ stage = "new"
    \/ /\ mech = "SCRAM-SHA-256" /\ k = 1 /\ stage = "begun"
       /\ \E n \in Nonce : challenge = ScramServerFirst(n)
    \/ mech = "GSSAPI" /\ k <= legs /\ stage = "new"
    \/ mech = "GSSAPI" /\ k = legs + 1 /\ stage = "begun" /\ ours
    \/ mech = "GSSAPI" /\ k = legs + 2 /\ stage = "offered" /\ ours

\* What GSSAPI's server side has answered to the client's k tokens.
GssChallengeAt(k) ==
    mech = "GSSAPI" =>
        \/ k <= legs + 1 /\ challenge = GssServerToken
        \/ k = legs + 2 /\ challenge = GssLayerOffer

Starting ==
    /\ dpc = "start"
    /\ turns = 0 /\ i = 0 /\ stage = "new" /\ Undecided

Requesting ==
    /\ dpc = "request"
    /\ Modern
    /\ turns = 0 /\ i = 0 /\ stage = "new" /\ Undecided
    /\ challenge = NoBytes /\ fresh

\* The classic mechanisms: the same hash again and again, until accepted.
Hashing ==
    /\ mech \in ClassicMech
    /\ ~server_done => challenge \in Nonce
    /\ \/ dpc = "loop" /\ turns = i
       \/ /\ dpc = "next" /\ turns = i + 1 /\ i < DIALOGUE_ROUNDS
          /\ ~server_done
          /\ response = Squish(mech, challenge, client.password)

\* The server side has a response to look at.
Answered ==
    /\ Modern /\ Undecided
    /\ \/ dpc = "first" /\ turns = 1 /\ i = 0
       \/ dpc = "next" /\ turns = i + 2 /\ i < DIALOGUE_ROUNDS
    /\ StageAt(turns - 1)
    /\ \E t \in Token : TokenAt(t, turns - 1) /\ response = Hex(t)

\* The client has a challenge to answer.
Asked ==
    /\ dpc = "loop"
    /\ Modern /\ Undecided /\ fresh
    /\ turns = i + 1
    /\ StageAt(turns) /\ GssChallengeAt(turns)

Accepted ==
    /\ dpc = "loop"
    /\ Modern /\ ~rejected /\ server_done
    /\ turns = i + 1
    /\ Qualifies
    /\ authcid = IF KerberosStyle(mech) THEN client.principal ELSE client.user
    /\ \/ mech = "PLAIN" /\ turns = 1
       \/ mech = "SCRAM-SHA-256" /\ turns = 2 /\ challenge = ScramServerFinal(ServerPassword)
       \/ mech = "GSSAPI" /\ turns = legs + 3 /\ challenge = None

\* Rejected in the loop, which goes on; the client has no answer.
Refused ==
    /\ dpc = "loop"
    /\ Modern /\ rejected /\ ~server_done
    /\ turns = i + 1
    /\ ~Qualifies
    /\ \/ mech = "SCRAM-SHA-256" /\ turns = 2
       \/ mech = "GSSAPI" /\ ~fresh

Over == Ended /\ HappyIsEarned /\ QualifiedIsHappy

Phase ==
    \/ Starting \/ Requesting \/ Hashing \/ Answered \/ Asked \/ Accepted \/ Refused
    \/ Over

IInv == DialogueTypeOK /\ Phase

-----------------------------------------------------------------------------
(* What is known of the parts *)

LEMMA Known ==
    ASSUME DialogueTypeOK
    PROVE  /\ client \in Clients
           /\ client.user \in UserName /\ client.password \in Password
           /\ client.principal \in Principal
           /\ NoName \in UserName
           /\ mech \in Available
           /\ ours \in BOOLEAN /\ legs \in Nat /\ turns \in Nat /\ i \in Nat
           /\ Modern \/ mech \in ClassicMech
           /\ ~(Modern /\ mech \in ClassicMech)
<1>1. client \in Clients /\ mech \in Available /\ ours \in BOOLEAN
  BY DEF DialogueTypeOK
<1>2. legs \in Nat /\ turns \in Nat /\ i \in Nat
  BY DialogueAssumption DEF DialogueTypeOK, DIALOGUE_ROUNDS
<1>3. /\ client.user \in UserName /\ client.password \in Password
      /\ client.principal \in Principal
  BY <1>1, DialogueAssumption DEF Client!ClientType, Client!UserName, UserName
<1>4. mech \in MechName
  BY <1>1, MechanismsAssumption
<1> QED
  BY <1>1, <1>2, <1>3, <1>4 DEF MechName, Modern, ClassicMech, UserName

\* The password of the built-in user is what the server side asks for.
LEMMA ServerPasswordKnown == ServerPassword = BuiltinPassword /\ ServerPassword \in Password
<1> DEFINE builtin == Add(EmptyStore, BuiltinUser, "plain", BuiltinPassword)
           full == Add(builtin, BuiltinUser, "principal", OurPrincipal)
<1>1. BuiltinUser \in UserName /\ "plain" \in Kind /\ BuiltinPassword \in Password
  BY CredentialsAssumption DEF UserName, Kind
<1>2. /\ builtin[BuiltinUser]["plain"] = Append(<<>>, BuiltinPassword)
      /\ builtin[BuiltinUser] = [[k \in Kind |-> <<>>] EXCEPT !["plain"] = Append(@, BuiltinPassword)]
      /\ BuiltinUser \in DOMAIN builtin
      /\ DOMAIN builtin[BuiltinUser] = Kind
  BY <1>1 DEF Add, EmptyStore
<1> HIDE DEF builtin
<1>3. full[BuiltinUser]["plain"] = Append(<<>>, BuiltinPassword)
  BY <1>1, <1>2 DEF Add
<1>4. DefaultStore = builtin \/ DefaultStore = full
  BY DEF DefaultStore, builtin
<1> HIDE DEF full
<1>5. DefaultStore[BuiltinUser]["plain"] = Append(<<>>, BuiltinPassword)
  BY <1>2, <1>3, <1>4
<1> DEFINE one == Append(<<>>, BuiltinPassword)
<1>6. one # <<>> /\ one[Len(one)] = BuiltinPassword
  OBVIOUS
<1> HIDE DEF one
<1>7. ServerPassword = one[Len(one)]
  BY <1>5, <1>6 DEF ServerPassword, GetLast, one
<1> QED
  BY <1>1, <1>6, <1>7

\* The terms the client sends are tokens.
LEMMA TokenTypes ==
    ASSUME DialogueTypeOK
    PROVE  /\ PlainToken(NoName, client.user, client.password) \in Token
           /\ ScramFirst(NoName, client.user) \in Token
           /\ \A n \in Nonce : ScramFinal(n, client.password) \in Token
           /\ GssMore \in Token /\ Junk \in Token
           /\ LastToken \in Token
           /\ LayerToken \in Token
<1>1. /\ client.user \in UserName /\ client.password \in Password
      /\ client.principal \in Principal /\ NoName \in UserName /\ ours \in BOOLEAN
      /\ MINIMAL_REQ_FLAGS \in ContextFlags
  BY Known, DialogueAssumption
<1>2. /\ PlainToken(NoName, client.user, client.password) \in Token
      /\ ScramFirst(NoName, client.user) \in Token
      /\ GssMore \in Token /\ Junk \in Token
  BY <1>1 DEF Token
<1>3. \A n \in Nonce : ScramFinal(n, client.password) \in Token
  BY <1>1 DEF Token
<1>5. LastToken \in Token
  <2>1. \A b \in BOOLEAN : GssLast(client.principal, b, ours, MINIMAL_REQ_FLAGS) \in Token
    BY <1>1 DEF Token
  <2> QED
    BY <2>1 DEF LastToken
<1>6. LayerToken \in Token
  <2>1. \A b \in BOOLEAN : GssLayer(b, b, NoName) \in Token
    BY <1>1 DEF Token
  <2> QED
    BY <2>1 DEF LayerToken
<1> QED
  BY <1>2, <1>3, <1>5, <1>6

LEMMA HexReply == \A t \in Token : Hex(t) \in Reply
  BY DEF Reply

-----------------------------------------------------------------------------
(* The client's answer *)

\* The client's side, instantiated here, in the terms of this module.
LEMMA TheClient ==
    /\ \A m, c : Client!ClassicRespond(m, c) = Squish(m, c, client.password)
    /\ \A c : Client!PlainRespond(c) =
               {t \in {PlainToken(NoName, client.user, client.password)} : c = NoBytes}
    /\ \A k, c : Client!ScramRespond(k, c) =
                     {t \in {ScramFirst(NoName, client.user)} : k = 0 /\ c = NoBytes}
               \cup {ScramFinal(n, client.password) :
                        n \in {n \in Nonce : k = 1 /\ c = ScramServerFirst(n)}}
    /\ \A c : Client!GssLayerRespond(c) = {t \in {LayerToken} : c = GssLayerOffer}
    /\ Client!GssMore = GssMore /\ Client!Junk = Junk
    /\ Client!GssServerToken = GssServerToken
    /\ Client!MINIMAL_REQ_FLAGS = MINIMAL_REQ_FLAGS
<1>1. \A m, c : Client!ClassicRespond(m, c) = Squish(m, c, client.password)
  BY DEF Client!ClassicRespond, Client!Squish, Squish
<1>2. \A c : Client!PlainRespond(c) =
                {t \in {PlainToken(NoName, client.user, client.password)} : c = NoBytes}
  BY DEF Client!PlainRespond, Client!PlainToken, PlainToken, Client!NoBytes, NoBytes
<1>3. \A k, c : Client!ScramRespond(k, c) =
                     {t \in {ScramFirst(NoName, client.user)} : k = 0 /\ c = NoBytes}
               \cup {ScramFinal(n, client.password) :
                        n \in {n \in Nonce : k = 1 /\ c = ScramServerFirst(n)}}
  BY DEF Client!ScramRespond, Client!ScramFirst, ScramFirst, Client!ScramFinal, ScramFinal,
         Client!NoBytes, NoBytes, Client!ScramServerFirst, ScramServerFirst
<1>4. \A c : Client!GssLayerRespond(c) = {t \in {LayerToken} : c = GssLayerOffer}
  BY DEF Client!GssLayerRespond, LayerToken, Client!GssLayer, GssLayer,
         Client!GssLayerOffer, GssLayerOffer
<1>5. /\ Client!GssMore = GssMore /\ Client!Junk = Junk
      /\ Client!GssServerToken = GssServerToken
      /\ Client!MINIMAL_REQ_FLAGS = MINIMAL_REQ_FLAGS
  BY DEF Client!GssMore, GssMore, Client!Junk, Junk, Client!GssServerToken, GssServerToken,
         Client!MINIMAL_REQ_FLAGS, MINIMAL_REQ_FLAGS
<1> QED
  BY <1>1, <1>2, <1>3, <1>4, <1>5

\* A classic mechanism answers with a hash, every time.
LEMMA ClassicAnswer ==
    ASSUME mech \in ClassicMech, NEW c
    PROVE  Answers(c) = {Squish(mech, c, client.password)}
  BY TheClient DEF Answers

\* How a token of the client looks when it is sent.
Sent(t) == IF t.type = "gssLast" THEN [t EXCEPT !.ours = ours] ELSE t

LEMMA ModernAnswer ==
    ASSUME mech \notin ClassicMech, NEW c, NEW t, Client!Respond(mech, turns, c) = {t}
    PROVE  Answers(c) = {Hex(Sent(t))}
  BY DEF Answers, Sent

\* How many tokens the client has sent when it is asked for another.
LEMMA TurnsWhenAsked ==
    ASSUME DialogueTypeOK, Requesting \/ Asked
    PROVE  /\ mech = "PLAIN" => Requesting
           /\ mech = "SCRAM-SHA-256" => \/ Requesting
                                        \/ turns = 1 /\ \E n \in Nonce :
                                                          challenge = ScramServerFirst(n)
           /\ mech = "GSSAPI" => \/ turns = 0 /\ turns <= legs
                                 \/ /\ turns > 0 /\ turns <= legs + 2
                                    /\ turns <= legs + 1 => challenge = GssServerToken
                                    /\ turns = legs + 2 => challenge = GssLayerOffer
  BY Known DEF Requesting, Asked, StageAt, GssChallengeAt

\* There is one answer to what the server side has sent last.
LEMMA TheAnswer ==
    ASSUME DialogueTypeOK, Requesting \/ Asked
    PROVE  \E t \in Token : TokenAt(t, turns) /\ Answers(challenge) = {Hex(t)}
<1>1. Modern /\ mech \notin ClassicMech /\ turns \in Nat /\ legs \in Nat
  BY Known DEF Requesting, Asked
<1>2. CASE mech = "PLAIN"
  <2> DEFINE t == PlainToken(NoName, client.user, client.password)
  <2>1. turns = 0 /\ challenge = NoBytes
    BY <1>2, TurnsWhenAsked DEF Requesting
  <2>2. Client!Respond(mech, turns, challenge) = {t}
    BY <1>2, <2>1, TheClient DEF Client!Respond
  <2>3. Sent(t) = t
    BY DEF Sent, PlainToken
  <2>4. t \in Token
    BY TokenTypes
  <2> HIDE DEF t
  <2> QED
    BY <1>1, <1>2, <2>1, <2>2, <2>3, <2>4, ModernAnswer DEF TokenAt, t
<1>3. CASE mech = "SCRAM-SHA-256" /\ turns = 0
  <2> DEFINE t == ScramFirst(NoName, client.user)
  <2>1. challenge = NoBytes
    BY <1>3, TurnsWhenAsked DEF Requesting
  <2>2. Client!Respond(mech, turns, challenge) = {t}
    <3>1. Client!Respond(mech, turns, challenge) = Client!ScramRespond(turns, challenge)
      BY <1>3 DEF Client!Respond
    <3> QED
      BY <1>3, <2>1, <3>1, TheClient
  <2>3. Sent(t) = t
    BY DEF Sent, ScramFirst
  <2>4. t \in Token
    BY TokenTypes
  <2> HIDE DEF t
  <2> QED
    BY <1>1, <1>3, <2>2, <2>3, <2>4, ModernAnswer DEF TokenAt, t
<1>4. CASE mech = "SCRAM-SHA-256" /\ turns # 0
  <2>1. turns = 1 /\ \E n \in Nonce : challenge = ScramServerFirst(n)
    BY <1>4, TurnsWhenAsked DEF Requesting
  <2>2. PICK n \in Nonce : challenge = ScramServerFirst(n)
    BY <2>1
  <2> DEFINE t == ScramFinal(n, client.password)
  <2>3. challenge.nonce = n
    BY <2>2 DEF ScramServerFirst
  <2>4. \A n2 : challenge = ScramServerFirst(n2) => n2 = n
    BY <2>2 DEF ScramServerFirst
  <2>5. Client!Respond(mech, turns, challenge) = {t}
    <3>1. Client!Respond(mech, turns, challenge) = Client!ScramRespond(turns, challenge)
      BY <1>4 DEF Client!Respond
    <3> QED
      BY <2>1, <2>2, <2>4, <3>1, TheClient
  <2>6. Sent(t) = t
    BY DEF Sent, ScramFinal
  <2>7. t \in Token
    BY TokenTypes
  <2> HIDE DEF t
  <2> QED
    BY <1>1, <1>4, <2>1, <2>3, <2>5, <2>6, <2>7, ModernAnswer DEF TokenAt, t
<1>5. CASE mech = "GSSAPI"
  <2>1. Client!Respond(mech, turns, challenge) = Client!GssRespond(turns, challenge)
    BY <1>5 DEF Client!Respond
  <2>2. CASE turns < legs
    <3>1. Client!GssRespond(turns, challenge) = {GssMore} /\ Sent(GssMore) = GssMore
      BY <1>1, <2>2, TheClient DEF Client!GssRespond, Client!GssLast, Sent, GssMore
    <3> QED
      BY <1>1, <1>5, <2>1, <2>2, <3>1, ModernAnswer, TokenTypes DEF TokenAt
  <2>3. CASE turns = legs
    <3> DEFINE t == GssLast(client.principal, TRUE, TRUE, MINIMAL_REQ_FLAGS)
    <3>1. Client!GssRespond(turns, challenge) = {t}
      BY <1>1, <2>3, TheClient DEF Client!GssRespond, Client!GssLast, GssLast
    <3>2. Sent(t) = LastToken
      <4>1. \A b \in BOOLEAN : Sent(GssLast(client.principal, b, b, MINIMAL_REQ_FLAGS))
                                = GssLast(client.principal, b, ours, MINIMAL_REQ_FLAGS)
        BY DEF Sent, GssLast
      <4> QED
        BY <4>1 DEF LastToken
    <3> HIDE DEF t
    <3> QED
      BY <1>1, <1>5, <2>1, <2>3, <3>1, <3>2, ModernAnswer, TokenTypes DEF TokenAt
  <2>4. CASE turns = legs + 1
    <3>1. challenge = GssServerToken
      BY <1>1, <1>5, <2>4, TurnsWhenAsked
    <3>2. Client!GssRespond(turns, challenge) = {Junk} /\ Sent(Junk) = Junk
      BY <1>1, <2>4, <3>1, TheClient DEF Client!GssRespond, Client!GssLast, Sent, Junk
    <3> QED
      BY <1>1, <1>5, <2>1, <2>4, <3>2, ModernAnswer, TokenTypes DEF TokenAt
  <2>5. CASE turns > legs + 1
    <3>1. turns = legs + 2 /\ challenge = GssLayerOffer
      BY <1>1, <1>5, <2>5, TurnsWhenAsked
    <3>2. Client!GssRespond(turns, challenge) = {LayerToken}
      <4>1. Client!GssRespond(turns, challenge) = Client!GssLayerRespond(challenge)
        BY <1>1, <2>5 DEF Client!GssRespond, Client!GssLast
      <4> QED
        BY <3>1, <4>1, TheClient
    <3>3. Sent(LayerToken) = LayerToken
      BY DEF Sent, LayerToken, GssLayer
    <3> QED
      BY <1>1, <1>5, <2>1, <3>1, <3>2, <3>3, ModernAnswer, TokenTypes DEF TokenAt
  <2> QED
    BY <1>1, <2>2, <2>3, <2>4, <2>5
<1> QED
  BY <1>1, <1>2, <1>3, <1>4, <1>5 DEF Modern

\* SCRAM's client has no third token.
LEMMA NoAnswer ==
    ASSUME mech = "SCRAM-SHA-256", turns = 2, NEW c
    PROVE  Answers(c) = {}
<1>1. Client!Respond(mech, turns, c) = {}
  BY TheClient DEF Client!Respond
<1>2. mech \notin ClassicMech
  BY DEF ClassicMech
<1> QED
  BY <1>1, <1>2 DEF Answers

-----------------------------------------------------------------------------
(* The server side's verdict *)

\* The server side wants another token after k of them.
WantsMore(r, k) ==
    /\ r.verdict = "go on" /\ r.authcid = None
    /\ \/ /\ mech = "SCRAM-SHA-256" /\ k = 1 /\ r.stage = "begun"
          /\ \E n \in Nonce : r.challenge = ScramServerFirst(n)
       \/ mech = "GSSAPI" /\ k <= legs /\ r.stage = "new" /\ r.challenge = GssServerToken
       \/ mech = "GSSAPI" /\ k = legs + 1 /\ ours /\ r.stage = "begun" /\ r.challenge = GssServerToken
       \/ mech = "GSSAPI" /\ k = legs + 2 /\ ours /\ r.stage = "offered" /\ r.challenge = GssLayerOffer

\* It accepts a client that qualifies, and knows who that is.
LetsIn(r, k) ==
    /\ r.verdict = "accept" /\ Qualifies /\ r.stage = stage
    /\ r.authcid = IF KerberosStyle(mech) THEN client.principal ELSE client.user
    /\ \/ mech = "PLAIN" /\ k = 1 /\ r.challenge = None
       \/ mech = "SCRAM-SHA-256" /\ k = 2 /\ r.challenge = ScramServerFinal(ServerPassword)
       \/ mech = "GSSAPI" /\ k = legs + 3 /\ r.challenge = None

\* It rejects one that does not.
TurnsAway(r, k) ==
    /\ r.verdict = "reject" /\ ~Qualifies
    /\ r.authcid = authcid /\ r.challenge = challenge
    /\ r.stage \in {"new", "begun", "offered"}
    /\ \/ mech = "PLAIN" /\ k = 1
       \/ mech = "SCRAM-SHA-256" /\ k = 2
       \/ mech = "GSSAPI"

LEMMA PlainVerdict ==
    ASSUME DialogueTypeOK, Answered, mech = "PLAIN", NEW r \in NextChallenge
    PROVE  LetsIn(r, turns) \/ TurnsAway(r, turns)
<1>1. turns \in Nat /\ mech \notin ClassicMech /\ ~KerberosStyle(mech)
  BY Known DEF ClassicMech, KerberosStyle
<1>2. turns = 1 /\ token = PlainToken(NoName, client.user, client.password)
  BY <1>1 DEF Answered, StageAt, TokenAt, token, Hex
<1>3. token.password = client.password /\ token.authcid = client.user
  BY <1>2 DEF PlainToken
<1>4. r \in PlainNext /\ stage \in {"new", "begun", "offered"}
  BY <1>1 DEF NextChallenge, DialogueTypeOK
<1>5. CASE client.password = ServerPassword
  BY <1>1, <1>2, <1>3, <1>4, <1>5 DEF PlainNext, Accepts, LetsIn, Qualifies
<1>6. CASE client.password # ServerPassword
  BY <1>1, <1>2, <1>3, <1>4, <1>6 DEF PlainNext, Rejects, TurnsAway, Qualifies
<1> QED
  BY <1>5, <1>6

LEMMA ScramVerdict ==
    ASSUME DialogueTypeOK, Answered, mech = "SCRAM-SHA-256", NEW r \in NextChallenge
    PROVE  WantsMore(r, turns) \/ LetsIn(r, turns) \/ TurnsAway(r, turns)
<1>1. turns \in Nat /\ mech \notin ClassicMech /\ ~KerberosStyle(mech)
  BY Known DEF ClassicMech, KerberosStyle
<1>2. r \in ScramNext /\ stage \in {"new", "begun", "offered"}
  BY <1>1 DEF NextChallenge, DialogueTypeOK
<1>3. CASE turns = 1
  <2>1. stage = "new"
    BY <1>1, <1>3 DEF Answered, StageAt
  <2>2. PICK n \in Nonce : r = GoesOn(ScramServerFirst(n), "begun")
    BY <1>2, <2>1 DEF ScramNext
  <2> QED
    BY <1>3, <2>2 DEF GoesOn, WantsMore
<1>4. CASE turns # 1
  <2>1. turns = 2 /\ stage = "begun"
    BY <1>1, <1>4 DEF Answered, StageAt
  <2>2. token = ScramFinal(challenge.nonce, client.password)
    BY <1>1, <2>1 DEF Answered, TokenAt, token, Hex
  <2>3. token = ScramFinal(challenge.nonce, ServerPassword)
           <=> client.password = ServerPassword
    BY <2>2 DEF ScramFinal
  <2>4. CASE client.password = ServerPassword
    BY <1>1, <1>2, <2>1, <2>3, <2>4 DEF ScramNext, Accepts, LetsIn, Qualifies
  <2>5. CASE client.password # ServerPassword
    BY <1>1, <1>2, <2>1, <2>3, <2>5 DEF ScramNext, Rejects, TurnsAway, Qualifies
  <2> QED
    BY <2>4, <2>5
<1> QED
  BY <1>3, <1>4

LEMMA GssVerdict ==
    ASSUME DialogueTypeOK, Answered, mech = "GSSAPI", NEW r \in NextChallenge
    PROVE  WantsMore(r, turns) \/ LetsIn(r, turns) \/ TurnsAway(r, turns)
<1>1. turns \in Nat /\ legs \in Nat /\ ours \in BOOLEAN
      /\ mech \notin ClassicMech /\ KerberosStyle(mech)
  BY Known DEF ClassicMech, KerberosStyle
<1>2. r \in GssNext /\ stage \in {"new", "begun", "offered"}
  BY <1>1 DEF NextChallenge, DialogueTypeOK
<1>3. /\ StageAt(turns - 1) /\ TokenAt(token, turns - 1) /\ turns - 1 \in Nat
  <2>1. StageAt(turns - 1) /\ turns - 1 \in Nat
    BY <1>1, Known DEF Answered
  <2>2. PICK t \in Token : TokenAt(t, turns - 1) /\ response = Hex(t)
    BY DEF Answered
  <2>3. token = t
    BY <2>2 DEF token, Hex
  <2> QED
    BY <2>1, <2>2, <2>3
<1>4. Qualifies <=> ours
  BY <1>1 DEF Qualifies
<1>5. CASE turns - 1 < legs
  <2>1. stage = "new" /\ token = GssMore
    BY <1>1, <1>3, <1>5 DEF StageAt, TokenAt
  <2>2. r = GoesOn(GssServerToken, "new")
    BY <1>2, <2>1 DEF GssNext, GssMore
  <2>3. /\ r.verdict = "go on" /\ r.authcid = None
        /\ r.stage = "new" /\ r.challenge = GssServerToken
    BY <2>2 DEF GoesOn
  <2>4. turns <= legs
    BY <1>1, <1>5
  <2> QED
    BY <2>3, <2>4 DEF WantsMore
<1>6. CASE turns - 1 = legs
  <2>1. stage = "new" /\ token = LastToken
    BY <1>1, <1>3, <1>6 DEF StageAt, TokenAt
  <2>2. token # GssMore /\ token.type = "gssLast" /\ token.ours = ours
    <3>1. \A b \in BOOLEAN : LET t == GssLast(client.principal, b, ours, MINIMAL_REQ_FLAGS)
                             IN  t # GssMore /\ t.type = "gssLast" /\ t.ours = ours
      BY DEF GssLast, GssMore
    <3> QED
      BY <2>1, <3>1 DEF LastToken
  <2>3. CASE ours
    <3>1. r = GoesOn(GssServerToken, "begun")
      BY <1>2, <2>1, <2>2, <2>3 DEF GssNext
    <3>2. /\ r.verdict = "go on" /\ r.authcid = None
          /\ r.stage = "begun" /\ r.challenge = GssServerToken
      BY <3>1 DEF GoesOn
    <3>3. turns = legs + 1
      BY <1>1, <1>6
    <3> QED
      BY <2>3, <3>2, <3>3 DEF WantsMore
  <2>4. CASE ~ours
    <3>1. r = Rejects("new") \/ r = Rejects("begun")
      BY <1>2, <2>1, <2>2, <2>4 DEF GssNext
    <3> QED
      BY <1>1, <1>4, <2>4, <3>1 DEF Rejects, TurnsAway
  <2> QED
    BY <2>3, <2>4
<1>7. CASE turns - 1 = legs + 1
  <2>1. stage = "begun" /\ ours
    BY <1>1, <1>3, <1>7 DEF StageAt
  <2>2. r = GoesOn(GssLayerOffer, "offered")
    BY <1>2, <2>1 DEF GssNext
  <2>3. /\ r.verdict = "go on" /\ r.authcid = None
        /\ r.stage = "offered" /\ r.challenge = GssLayerOffer
    BY <2>2 DEF GoesOn
  <2>4. turns = legs + 2
    BY <1>1, <1>7
  <2> QED
    BY <2>1, <2>3, <2>4 DEF WantsMore
<1>8. CASE turns - 1 > legs + 1
  <2>1. turns = legs + 3 /\ stage = "offered" /\ ours /\ token = LayerToken
    BY <1>1, <1>3, <1>8 DEF StageAt, TokenAt
  <2>2. token.type = "gssLayer"
    <3>1. \A b \in BOOLEAN : GssLayer(b, b, NoName).type = "gssLayer"
      BY DEF GssLayer
    <3> QED
      BY <2>1, <3>1 DEF LayerToken
  <2>3. r = Accepts(client.principal, None)
    BY <1>2, <2>1, <2>2 DEF GssNext
  <2> QED
    BY <1>1, <1>4, <2>1, <2>3 DEF Accepts, LetsIn
<1> QED
  BY <1>1, <1>5, <1>6, <1>7, <1>8

-----------------------------------------------------------------------------
(* Every step keeps the invariant *)

\* Where a dialogue that has ended without HAPPY ends.
LEMMA EndsUnhappy ==
    ASSUME settings' = settings, Ended', dpc' # "happy",
           \/ dpc' = "noTickets"
           \/ ~Qualifies
           \/ dpc' = "raised" /\ mech \in ClassicMech
           \/ dpc' = "raised" /\ KerberosStyle(mech) /\ legs + 3 > DIALOGUE_ROUNDS
    PROVE  Over'
<1>1. /\ client' = client /\ mech' = mech /\ ours' = ours /\ legs' = legs
      /\ (Qualifies <=> Qualifies')
  BY DEF settings, Qualifies, ServerPassword
<1>3. HappyIsEarned'
  BY DEF HappyIsEarned
<1>4. QualifiedIsHappy'
  BY <1>1 DEF QualifiedIsHappy
<1> QED
  BY <1>3, <1>4 DEF Over

\* The mechanism and what the client has do not change.
LEMMA Settled ==
    ASSUME settings' = settings
    PROVE  /\ client' = client /\ mech' = mech /\ ours' = ours /\ legs' = legs
           /\ (Qualifies <=> Qualifies') /\ (Modern <=> Modern') /\ LastToken' = LastToken
           /\ LayerToken' = LayerToken
  BY DEF settings, Qualifies, Modern, LastToken, LayerToken

LEMMA InitInv ==
    ASSUME Init
    PROVE  IInv
<1>1. DialogueTypeOK
  <2>1. fresh \in BOOLEAN /\ server_done \in BOOLEAN /\ rejected \in BOOLEAN
    BY DEF Init
  <2>2. /\ dpc = "start" /\ client \in Clients /\ mech \in Available /\ ours \in BOOLEAN
        /\ legs \in 0..MaxLegs /\ turns = 0 /\ stage = "new" /\ challenge = None
        /\ response = None /\ authcid = None /\ i = 0
    BY DEF Init
  <2> QED
    BY <2>1, <2>2 DEF DialogueTypeOK, DIALOGUE_ROUNDS
<1>2. Starting
  BY DEF Init, Starting, Undecided
<1> QED
  BY <1>1, <1>2 DEF IInv, Phase

LEMMA StartStep ==
    ASSUME IInv, Start
    PROVE  IInv'
<1>1. DialogueTypeOK /\ dpc = "start" /\ settings' = settings
  BY DEF IInv, Start
<1>2. Starting
  BY <1>1 DEF IInv, Phase, Start, Requesting, Hashing, Answered, Asked, Accepted, Refused,
              Over, Ended
<1>3. DialogueTypeOK'
  BY <1>1 DEF DialogueTypeOK, Start, settings, ServerToken
<1>4. CASE dpc' = "noTickets"
  BY <1>1, <1>3, <1>4, EndsUnhappy DEF Ended, IInv, Phase
<1>5. CASE /\ dpc' = IF mech \in ClassicMech THEN "loop" ELSE "request"
           /\ challenge' \in IF mech \in ClassicMech THEN Nonce ELSE {NoBytes}
           /\ fresh' = TRUE
  <2>1. /\ turns' = 0 /\ i' = 0 /\ stage' = "new" /\ ~rejected' /\ ~server_done'
        /\ mech' = mech /\ fresh'
    BY <1>2, <1>5, Settled, <1>1 DEF Start, Starting, Undecided
  <2>2. CASE mech \in ClassicMech
    BY <1>3, <1>5, <2>1, <2>2 DEF Hashing, IInv, Phase
  <2>3. CASE mech \notin ClassicMech
    <3>1. Modern'
      BY <1>1, <2>3, Known, Settled
    <3> QED
      BY <1>3, <1>5, <2>1, <2>3, <3>1 DEF Requesting, Undecided, IInv, Phase
  <2> QED
    BY <2>2, <2>3
<1> QED
  BY <1>4, <1>5 DEF Start

\* Nothing to answer, or no answer.
LEMMA ClientGivesUp ==
    ASSUME IInv, settings' = settings, dpc' = "clientError", ~Qualifies,
           UNCHANGED <<turns, stage, challenge, fresh, response, server_done, authcid, i, rejected>>
    PROVE  IInv'
<1>1. DialogueTypeOK'
  BY DEF IInv, DialogueTypeOK, settings
<1>2. Over'
  BY EndsUnhappy DEF Ended
<1> QED
  BY <1>1, <1>2 DEF IInv, Phase

\* What is asked of the client it answers.
LEMMA ClientAnswers ==
    ASSUME DialogueTypeOK, Requesting \/ Asked, settings' = settings,
           NEW next \in {"first", "next"}, Respond(challenge, next),
           next = "first" <=> Requesting, i < DIALOGUE_ROUNDS,
           UNCHANGED <<stage, challenge, server_done, authcid, i, rejected>>
    PROVE  IInv'
<1>1. PICK t \in Token : TokenAt(t, turns) /\ Answers(challenge) = {Hex(t)}
  BY TheAnswer
<1>2. Modern /\ Undecided /\ fresh /\ StageAt(turns)
  BY Known DEF Requesting, Asked, StageAt, Modern
<1>3. /\ response' = Hex(t) /\ turns' = turns + 1 /\ fresh' = FALSE /\ dpc' = next
  BY <1>1, <1>2 DEF Respond, Taken
<1>4. turns \in Nat /\ turns <= i + 1 /\ i \in Nat /\ turns' - 1 = turns
      /\ i + 1 \in 0..DIALOGUE_ROUNDS
  BY <1>3, Known DEF Requesting, Asked, DIALOGUE_ROUNDS
<1>5. DialogueTypeOK'
  <2>1. turns' \in 0..(DIALOGUE_ROUNDS + 1)
    BY <1>3, <1>4 DEF DIALOGUE_ROUNDS
  <2>2. response' \in Reply
    BY <1>3, HexReply
  <2> QED
    BY <1>3, <2>1, <2>2 DEF DialogueTypeOK, settings
<1>6. PICK k \in Nat : k = turns
  BY <1>4
<1>7. StageAt(k)' /\ TokenAt(t, k)'
  <2>1. StageAt(k) /\ TokenAt(t, k)
    BY <1>1, <1>2, <1>6
  <2>2. /\ client' = client /\ mech' = mech /\ ours' = ours /\ legs' = legs
        /\ LastToken' = LastToken /\ LayerToken' = LayerToken
        /\ stage' = stage /\ challenge' = challenge
    BY Settled
  <2>3. StageAt(k)'
    BY <2>1, <2>2 DEF StageAt
  <2> QED
    BY <2>1, <2>2, <2>3 DEF TokenAt
<1>8. turns' - 1 = k /\ Modern' /\ Undecided'
  BY <1>2, <1>4, <1>6, Settled DEF Undecided
<1>9. \/ dpc' = "first" /\ turns' = 1 /\ i' = 0
      \/ dpc' = "next" /\ turns' = i' + 2 /\ i' < DIALOGUE_ROUNDS
  BY <1>3, <1>4 DEF Requesting, Asked
<1>10. Answered'
  BY <1>3, <1>7, <1>8, <1>9 DEF Answered
<1> QED
  BY <1>5, <1>10 DEF IInv, Phase

LEMMA RequestStep ==
    ASSUME IInv, Request
    PROVE  IInv'
<1>1. DialogueTypeOK /\ dpc = "request" /\ settings' = settings
  BY DEF IInv, Request
<1>2. Requesting
  BY <1>1 DEF IInv, Phase, Starting, Hashing, Answered, Asked, Accepted, Refused, Over, Ended
<1>3. Respond(challenge, "first") /\ i < DIALOGUE_ROUNDS
  BY <1>2 DEF Requesting, Request, DIALOGUE_ROUNDS
<1> QED
  BY <1>1, <1>2, <1>3, ClientAnswers DEF Request

LEMMA ClientRespondsStep ==
    ASSUME IInv, ClientResponds
    PROVE  IInv'
<1>1. /\ DialogueTypeOK /\ dpc = "loop" /\ i < DIALOGUE_ROUNDS /\ ~server_done
      /\ settings' = settings /\ Respond(challenge, "next")
      /\ UNCHANGED <<stage, challenge, server_done, authcid, i, rejected>>
  BY DEF IInv, ClientResponds, InLoop
<1>2. Hashing \/ Asked \/ Refused
  BY <1>1 DEF IInv, Phase, Starting, Requesting, Answered, Accepted, Over, Ended
<1>3. CASE Hashing
  <2>1. /\ mech \in ClassicMech /\ turns = i /\ i \in Nat /\ challenge \in Nonce
        /\ client.password \in Password
    BY <1>1, <1>3, Known DEF Hashing
  <2>2. ~KerberosStyle(mech)
    BY <2>1 DEF KerberosStyle, ClassicMech
  <2>3. /\ response' = Squish(mech, challenge, client.password)
        /\ turns' = i + 1 /\ fresh' = FALSE /\ dpc' = "next"
    BY <1>1, <2>1, <2>2, ClassicAnswer DEF Respond, Taken
  <2>4. response' \in Reply
    BY <2>1, <2>3 DEF Reply
  <2>5. turns' \in 0..(DIALOGUE_ROUNDS + 1)
    BY <1>1, <2>1, <2>3 DEF DIALOGUE_ROUNDS
  <2>6. DialogueTypeOK'
    BY <1>1, <2>3, <2>4, <2>5 DEF DialogueTypeOK, settings
  <2>7. Hashing'
    BY <1>1, <2>1, <2>3, Settled DEF Hashing
  <2> QED
    BY <2>6, <2>7 DEF IInv, Phase
<1>4. CASE Asked
  <2>1. ~Requesting
    BY <1>1 DEF Requesting
  <2> QED
    BY <1>1, <1>4, <2>1, ClientAnswers
<1>5. CASE Refused
  <2>1. mech = "SCRAM-SHA-256" => Answers(challenge) = {}
    BY <1>5, NoAnswer DEF Refused
  <2>2. mech = "GSSAPI" => ~Taken
    BY <1>5 DEF Refused, Taken, KerberosStyle
  <2>3. dpc' = "clientError" /\ UNCHANGED <<response, turns, fresh>> /\ ~Qualifies
    BY <1>1, <1>5, <2>1, <2>2 DEF Refused, Respond
  <2> QED
    BY <1>1, <2>3, ClientGivesUp
<1> QED
  BY <1>2, <1>3, <1>4, <1>5

LEMMA WrapUpStep ==
    ASSUME IInv, WrapUp
    PROVE  IInv'
<1>1. /\ DialogueTypeOK /\ dpc = "loop" /\ server_done /\ settings' = settings
      /\ UNCHANGED <<turns, stage, challenge, fresh, response, server_done, authcid, i, rejected>>
  BY DEF IInv, WrapUp, InLoop
<1>2. Hashing \/ Accepted
  BY <1>1 DEF IInv, Phase, Starting, Requesting, Answered, Asked, Refused, Over, Ended, Undecided
<1>3. DialogueTypeOK'
  BY <1>1 DEF DialogueTypeOK, settings, WrapUp
<1>4. CASE mech \in ClassicMech
  <2>1. dpc' = "raised"
    BY <1>4 DEF WrapUp
  <2> QED
    BY <1>1, <1>3, <1>4, <2>1, EndsUnhappy DEF Ended, IInv, Phase
<1>5. CASE mech \notin ClassicMech
  <2>1. Accepted
    BY <1>2, <1>5 DEF Hashing
  <2>2. Client!WrapUp(challenge)
    BY <2>1 DEF Accepted, Qualifies, KerberosStyle, Client!WrapUp, Client!ScramWrapUp,
                Client!GssWrapUp, Client!ScramServerFinal, ScramServerFinal
  <2>3. dpc' = "happy"
    BY <1>5, <2>2 DEF WrapUp
  <2>4. HappyIsEarned'
    BY <1>1, <2>1, Settled DEF Accepted, HappyIsEarned
  <2>5. Over'
    BY <2>3, <2>4 DEF Over, Ended, QualifiedIsHappy
  <2> QED
    BY <1>3, <2>5 DEF IInv, Phase
<1> QED
  BY <1>4, <1>5

LEMMA ExchangeTooLongStep ==
    ASSUME IInv, ExchangeTooLong
    PROVE  IInv'
<1>1. /\ DialogueTypeOK /\ dpc = "loop" /\ settings' = settings /\ dpc' = "raised"
      /\ UNCHANGED <<turns, stage, challenge, fresh, response, server_done, authcid, i, rejected>>
  BY DEF IInv, ExchangeTooLong
<1>2. i = DIALOGUE_ROUNDS
  BY <1>1 DEF ExchangeTooLong, InLoop, DialogueTypeOK, DIALOGUE_ROUNDS
<1>3. DialogueTypeOK'
  BY <1>1 DEF DialogueTypeOK, settings
<1>4. Hashing \/ Asked \/ Accepted \/ Refused
  BY <1>1 DEF IInv, Phase, Starting, Requesting, Answered, Over, Ended
<1>5. \/ ~Qualifies \/ mech \in ClassicMech
      \/ KerberosStyle(mech) /\ legs + 3 > DIALOGUE_ROUNDS
  <2>1. legs \in Nat
    BY <1>1, Known
  <2>2. Asked => mech = "GSSAPI" /\ legs + 3 > DIALOGUE_ROUNDS
    BY <1>2, <2>1 DEF Asked, StageAt, DIALOGUE_ROUNDS
  <2>3. Accepted => mech = "GSSAPI" /\ legs + 3 > DIALOGUE_ROUNDS
    BY <1>2, <2>1 DEF Accepted, DIALOGUE_ROUNDS
  <2> QED
    BY <1>4, <2>2, <2>3 DEF Hashing, Refused, KerberosStyle
<1> QED
  BY <1>1, <1>3, <1>5, EndsUnhappy DEF Ended, IInv, Phase

\* A classic mechanism: accepted, or asked for the same hash again.
LEMMA HashChecked ==
    ASSUME IInv, mech \in ClassicMech, ServerResponds
    PROVE  IInv'
<1>1. DialogueTypeOK /\ dpc \in {"first", "next"} /\ settings' = settings
      /\ UNCHANGED <<turns, response>>
  BY DEF IInv, ServerResponds
<1>2. Hashing
  BY <1>1, Known DEF IInv, Phase, Starting, Requesting, Answered, Asked, Accepted, Refused,
                     Over, Ended
<1>3. /\ dpc = "next" /\ turns = i + 1 /\ i < DIALOGUE_ROUNDS /\ i \in Nat
      /\ ~server_done /\ challenge \in Nonce /\ client.user \in UserName
      /\ stage \in {"new", "begun", "offered"}
  BY <1>1, <1>2, Known DEF Hashing, DialogueTypeOK
<1>4. PICK r \in ClassicNext :
        /\ stage' = r.stage /\ challenge' = r.challenge /\ authcid' = r.authcid
        /\ server_done' = (r.verdict = "accept")
        /\ rejected' = (rejected \/ r.verdict = "reject")
        /\ fresh' = (r.verdict # "reject")
        /\ dpc' = IF r.verdict = "reject" THEN AfterReject ELSE "loop"
  <2>1. NextChallenge = ClassicNext
    BY DEF NextChallenge, ClassicMech
  <2> QED
    BY <2>1 DEF ServerResponds
<1>5. i' = i + 1 /\ i' \in 0..DIALOGUE_ROUNDS /\ turns' = i'
  BY <1>1, <1>3 DEF ServerResponds, DIALOGUE_ROUNDS
<1>6. \/ r = Accepts(client.user, None)
      \/ r = Rejects(stage)
  BY <1>4 DEF ClassicNext
<1>7. dpc' = "loop" /\ mech' = mech
  BY <1>1, <1>3, <1>4, Settled DEF AfterReject
<1>8. CASE r = Accepts(client.user, None)
  <2>1. /\ stage' = stage /\ challenge' = None /\ authcid' = client.user /\ server_done'
        /\ server_done' \in BOOLEAN /\ rejected' \in BOOLEAN /\ fresh' \in BOOLEAN
    BY <1>4, <1>8 DEF Accepts
  <2>2. DialogueTypeOK'
    BY <1>1, <1>3, <1>5, <1>7, <2>1 DEF DialogueTypeOK, settings
  <2>3. Hashing'
    BY <1>5, <1>7, <2>1 DEF Hashing
  <2> QED
    BY <2>2, <2>3 DEF IInv, Phase
<1>9. CASE r = Rejects(stage)
  <2>1. /\ stage' = stage /\ challenge' = challenge /\ authcid' = authcid /\ ~server_done'
        /\ server_done' \in BOOLEAN /\ rejected' \in BOOLEAN /\ fresh' \in BOOLEAN
    BY <1>4, <1>9 DEF Rejects
  <2>2. DialogueTypeOK'
    BY <1>1, <1>3, <1>5, <1>7, <2>1 DEF DialogueTypeOK, settings
  <2>3. Hashing'
    BY <1>3, <1>5, <1>7, <2>1 DEF Hashing
  <2> QED
    BY <2>2, <2>3 DEF IInv, Phase
<1> QED
  BY <1>6, <1>8, <1>9

\* The other mechanisms: another challenge, the end of the exchange, or the
\* loop goes on although the client was turned away.
LEMMA TokenChecked ==
    ASSUME IInv, mech \notin ClassicMech, ServerResponds
    PROVE  IInv'
<1>1. DialogueTypeOK /\ dpc \in {"first", "next"} /\ settings' = settings
      /\ UNCHANGED <<turns, response>>
  BY DEF IInv, ServerResponds
<1>2. Answered
  BY <1>1 DEF IInv, Phase, Starting, Requesting, Hashing, Asked, Accepted, Refused, Over, Ended
<1>3. PICK r \in NextChallenge :
        /\ stage' = r.stage /\ challenge' = r.challenge /\ authcid' = r.authcid
        /\ server_done' = (r.verdict = "accept")
        /\ rejected' = (rejected \/ r.verdict = "reject")
        /\ fresh' = (r.verdict # "reject")
        /\ dpc' = IF r.verdict = "reject" THEN AfterReject ELSE "loop"
  BY DEF ServerResponds
<1>4. WantsMore(r, turns) \/ LetsIn(r, turns) \/ TurnsAway(r, turns)
  BY <1>1, <1>2, PlainVerdict, ScramVerdict, GssVerdict DEF Answered, Modern
<1>5. /\ i' \in 0..DIALOGUE_ROUNDS /\ turns' = turns /\ i' \in Nat /\ turns \in Nat
      /\ turns = i' + 1
  <2>1. \/ dpc = "first" /\ turns = 1 /\ i = 0 /\ i' = 0
        \/ dpc = "next" /\ turns = i + 2 /\ i < DIALOGUE_ROUNDS /\ i' = i + 1
    BY <1>1, <1>2 DEF Answered, ServerResponds
  <2> QED
    BY <1>1, <2>1, Known DEF DIALOGUE_ROUNDS
<1>6. /\ mech' = mech /\ client' = client /\ ours' = ours /\ legs' = legs
      /\ Modern /\ Modern' /\ Undecided /\ legs \in Nat
      /\ (Qualifies <=> Qualifies')
  BY <1>1, <1>2, Known, Settled DEF Answered
<1>7. /\ client.user \in UserName /\ client.principal \in Principal
      /\ stage \in {"new", "begun", "offered"}
      /\ ServerPassword \in Password
      /\ server_done' \in BOOLEAN /\ rejected' \in BOOLEAN /\ fresh' \in BOOLEAN
  BY <1>1, <1>3, Known, ServerPasswordKnown DEF DialogueTypeOK
<1>8. CASE WantsMore(r, turns)
  <2>1. /\ dpc' = "loop" /\ Undecided' /\ fresh' /\ authcid' = None
    BY <1>3, <1>6, <1>8 DEF WantsMore, Undecided
  <2>2. /\ stage' \in {"new", "begun", "offered"} /\ challenge' \in ServerToken
    BY <1>3, <1>8 DEF WantsMore, ServerToken
  <2>3. DialogueTypeOK'
    BY <1>1, <1>5, <1>7, <2>1, <2>2 DEF DialogueTypeOK, settings
  <2>4. PICK k \in Nat : k = turns
    BY <1>5
  <2>5. StageAt(k)' /\ GssChallengeAt(k)'
    <3>1. \/ /\ mech' = "SCRAM-SHA-256" /\ k = 1 /\ stage' = "begun"
             /\ \E n \in Nonce : challenge' = ScramServerFirst(n)
          \/ mech' = "GSSAPI" /\ k <= legs' /\ stage' = "new" /\ challenge' = GssServerToken
          \/ /\ mech' = "GSSAPI" /\ k = legs' + 1 /\ ours' /\ stage' = "begun"
             /\ challenge' = GssServerToken
          \/ /\ mech' = "GSSAPI" /\ k = legs' + 2 /\ ours' /\ stage' = "offered"
             /\ challenge' = GssLayerOffer
      BY <1>3, <1>6, <1>8, <2>4 DEF WantsMore
    <3>2. StageAt(k)'
      BY <3>1 DEF StageAt
    <3>3. GssChallengeAt(k)'
      BY <1>6, <2>4, <3>1 DEF GssChallengeAt
    <3> QED
      BY <3>2, <3>3
  <2>6. Asked'
    BY <1>5, <1>6, <2>1, <2>4, <2>5 DEF Asked
  <2> QED
    BY <2>3, <2>6 DEF IInv, Phase
<1>9. CASE LetsIn(r, turns)
  <2>1. /\ dpc' = "loop" /\ ~rejected' /\ server_done' /\ stage' = stage
        /\ authcid' = IF KerberosStyle(mech) THEN client.principal ELSE client.user
    BY <1>3, <1>6, <1>9 DEF LetsIn, Undecided
  <2>2. /\ challenge' = r.challenge /\ Qualifies
        /\ \/ mech = "PLAIN" /\ turns = 1 /\ r.challenge = None
           \/ mech = "SCRAM-SHA-256" /\ turns = 2 /\ r.challenge = ScramServerFinal(ServerPassword)
           \/ mech = "GSSAPI" /\ turns = legs + 3 /\ r.challenge = None
    BY <1>3, <1>9 DEF LetsIn
  <2>3. DialogueTypeOK'
    <3>1. challenge' \in ServerToken \cup Nonce \cup {None}
      BY <1>7, <2>2 DEF ServerToken
    <3>2. authcid' \in UserName \cup Principal
      BY <1>7, <2>1
    <3> QED
      BY <1>1, <1>5, <1>7, <2>1, <3>1, <3>2 DEF DialogueTypeOK, settings
  <2>4. Accepted'
    BY <1>5, <1>6, <2>1, <2>2 DEF Accepted, ServerPassword
  <2> QED
    BY <2>3, <2>4 DEF IInv, Phase
<1>10. CASE TurnsAway(r, turns)
  <2>1. /\ dpc' = AfterReject /\ rejected' /\ ~server_done' /\ ~fresh' /\ ~Qualifies
        /\ authcid' = authcid /\ challenge' = challenge
        /\ stage' \in {"new", "begun", "offered"}
        /\ dpc' \in {"serverError", "loop"}
    BY <1>3, <1>10 DEF TurnsAway, AfterReject
  <2>2. DialogueTypeOK'
    BY <1>1, <1>5, <1>7, <2>1 DEF DialogueTypeOK, settings
  <2>3. CASE dpc' = "serverError"
    BY <1>1, <2>1, <2>2, <2>3, EndsUnhappy DEF Ended, IInv, Phase
  <2>4. CASE dpc' = "loop"
    <3>1. dpc = "next"
      BY <1>1, <2>1, <2>4 DEF AfterReject
    <3>2. turns > 1
      BY <1>1, <1>2, <3>1, Known DEF Answered
    <3>3. \/ mech = "SCRAM-SHA-256" /\ turns = 2
          \/ mech = "GSSAPI"
      BY <1>10, <3>2 DEF TurnsAway
    <3>4. Refused'
      BY <1>5, <1>6, <2>1, <2>4, <3>3 DEF Refused
    <3> QED
      BY <2>2, <3>4 DEF IInv, Phase
  <2> QED
    BY <2>1, <2>3, <2>4
<1> QED
  BY <1>4, <1>8, <1>9, <1>10

LEMMA ServerAssertsStep ==
    ASSUME IInv, ServerAsserts
    PROVE  IInv'
<1>1. DialogueTypeOK'
  BY DEF IInv, ServerAsserts, DialogueTypeOK, settings
<1>2. Over'
  BY EndsUnhappy DEF ServerAsserts, Ended
<1> QED
  BY <1>1, <1>2 DEF IInv, Phase

\* Nothing changes.
LEMMA Stutter ==
    ASSUME IInv, UNCHANGED vars
    PROVE  IInv'
<1>1. DialogueTypeOK'
  BY DEF IInv, vars, DialogueTypeOK
<1>2. Starting => Starting'
  BY DEF vars, Starting, Undecided
<1>3. Requesting => Requesting'
  BY DEF vars, Requesting, Undecided, Modern
<1>4. Hashing => Hashing'
  BY DEF vars, Hashing
<1>5. Answered => Answered'
  BY DEF vars, Answered, Undecided, Modern, StageAt, TokenAt, LastToken, LayerToken
<1>6. Asked => Asked'
  BY DEF vars, Asked, Undecided, Modern, StageAt, GssChallengeAt
<1>7. Accepted => Accepted'
  BY DEF vars, Accepted, Modern, Qualifies, ServerPassword
<1>8. Refused => Refused'
  BY DEF vars, Refused, Modern, Qualifies, ServerPassword
<1>9. Over => Over'
  BY DEF vars, Over, Ended, HappyIsEarned, QualifiedIsHappy, Qualifies, ServerPassword
<1> QED
  BY <1>1, <1>2, <1>3, <1>4, <1>5, <1>6, <1>7, <1>8, <1>9 DEF IInv, Phase

LEMMA Invariant == Spec => []IInv
<1>1. ASSUME IInv, [Next]_vars
      PROVE  IInv'
  <2>1. CASE UNCHANGED vars
    BY <1>1, <2>1, Stutter
  <2>2. CASE Start
    BY <1>1, <2>2, StartStep
  <2>3. CASE Request
    BY <1>1, <2>3, RequestStep
  <2>4. CASE ClientResponds
    BY <1>1, <2>4, ClientRespondsStep
  <2>5. CASE WrapUp
    BY <1>1, <2>5, WrapUpStep
  <2>6. CASE ExchangeTooLong
    BY <1>1, <2>6, ExchangeTooLongStep
  <2>7. CASE ServerResponds
    BY <1>1, <2>7, HashChecked, TokenChecked
  <2>8. CASE ServerAsserts
    BY <1>1, <2>8, ServerAssertsStep
  <2> QED
    BY <1>1, <2>1, <2>2, <2>3, <2>4, <2>5, <2>6, <2>7, <2>8 DEF Next, Terminated
<1> QED
  BY InitInv, <1>1, PTL DEF Spec

-----------------------------------------------------------------------------
(* The theorems *)

\* Every state of a dialogue is of the types that t.py's variables have.
THEOREM DialogueTypeCorrect == Spec => []DialogueTypeOK
<1>1. IInv => DialogueTypeOK
  BY DEF IInv
<1> QED
  BY <1>1, Invariant, PTL

\* dialogue prints HAPPY only for a client that has what the server side asks
\* for, was not turned away, and is known by its name or principal.
THEOREM HappyWasEarned == Spec => []HappyIsEarned
<1>1. IInv => HappyIsEarned
  BY DEF IInv, Phase, Starting, Requesting, Hashing, Answered, Asked, Accepted, Refused, Over,
         HappyIsEarned
<1> QED
  BY <1>1, Invariant, PTL

\* A dialogue with the right credentials ends HAPPY, but for the ends
\* QualifiedIsHappy names.
THEOREM QualifiedEndsHappy == Spec => []QualifiedIsHappy
<1>1. IInv => QualifiedIsHappy
  BY DEF IInv, Phase, Starting, Requesting, Hashing, Answered, Asked, Accepted, Refused, Over,
         QualifiedIsHappy, Ended
<1> QED
  BY <1>1, Invariant, PTL
=============================================================================
