----------------------------- MODULE Mechanisms -----------------------------
(***************************************************************************)
(* The authentication mechanisms and what travels between the two sides.   *)
(* Tokens and replies are terms: a hash or a proof is a record of what it  *)
(* was computed from, so two are equal only if they were computed from the *)
(* same password and nonce.                                                *)
(***************************************************************************)
EXTENDS Credentials

CONSTANTS
    Available,     \* the mechanisms pick_mechanisms leaves for this server
    Nonce,         \* the nonces the server can pick
    ContextFlags   \* the flag sets a GSSAPI context can end up with

ClassicMech == {"SHA512", "SHA256", "RIPEMD160"}
MechName == ClassicMech \cup {"PLAIN", "SCRAM-SHA-256", "GSSAPI"}

\* A Mechanism's style is PASSWORD unless its class says otherwise.
KerberosStyle(m) == m = "GSSAPI"

MINIMAL_REQ_FLAGS == {"integrity", "mutual", "sequence", "replay"}

\* ClassicMechanism.squish: the digest of the password's digest and the nonce.
Squish(m, n, pw) == [form |-> "hash", algo |-> m, nonce |-> n, password |-> pw]

\* Mutant: the user in front of the first separator.
PlainTokenSwapped(zid, cid, pw) ==
    [type |-> "plain", authzid |-> cid, authcid |-> zid, password |-> pw]

PlainToken(zid, cid, pw) ==
    [type |-> "plain", authzid |-> zid, authcid |-> cid, password |-> pw]
\* SCRAM's client-first starts with "n,,", or "n,a=USER," to act as USER.
GsAuthzid(z) == [attr |-> "a", value |-> z]
ScramFirst(zid, u) == [type |-> "scramFirst", authzid |-> zid, user |-> u]
ScramFinal(n, pw) == [type |-> "scramFinal", nonce |-> n, password |-> pw]
GssMore == [type |-> "gssMore"]
GssLast(peer, krb, ours, flags) ==
    [type |-> "gssLast", peer |-> peer, kerberos |-> krb, ours |-> ours, flags |-> flags]
GssLayer(zeros, utf8, zid) ==
    [type |-> "gssLayer", zeros |-> zeros, utf8 |-> utf8, authzid |-> zid]
Junk == [type |-> "junk"]

\* Every token a client can send.  Junk is text no mechanism understands.
Token ==
         {PlainToken(z, c, p) : z \in UserName, c \in UserName, p \in Password}
    \cup {ScramFirst(z, u) : z \in UserName, u \in UserName}
    \cup {ScramFinal(n, p) : n \in Nonce, p \in Password}
    \cup {GssLast(p, k, o, f) : p \in Principal, k \in BOOLEAN, o \in BOOLEAN,
                                f \in ContextFlags}
    \cup {GssLayer(zs, u8, z) : zs \in BOOLEAN, u8 \in BOOLEAN, z \in UserName}
    \cup {GssMore, Junk}

\* GSSAPI tokens are binary, the others are UTF-8 text.
IsUtf8(t) == t.type \notin {"gssMore", "gssLast", "gssLayer"}

(***************************************************************************)
(* What the client writes after {MECH} in its login message, and as a      *)
(* message of its own in later rounds: '+' and the hex digits of a token,  *)
(* '+' and something else, nothing that starts with '+', the empty string, *)
(* or the hash of the classic mechanisms.                                  *)
(***************************************************************************)
Hex(t) == [form |-> "hex", token |-> t]
BadHex == [form |-> "badhex"]
Stop   == [form |-> "stop"]
Empty  == [form |-> "empty"]

Reply == {Hex(t) : t \in Token}
    \cup {Squish(m, n, p) : m \in ClassicMech, n \in Nonce, p \in Password}
    \cup {BadHex, Stop, Empty}

ASSUME MechanismsAssumption ==
    /\ Available \subseteq MechName
    /\ Nonce # {}
    /\ None \notin MechName
    /\ None \notin Nonce
    /\ None \notin Reply
    /\ \A z \in Name : GsAuthzid(z) \notin UserName \cup {None}
    /\ ContextFlags \subseteq SUBSET (MINIMAL_REQ_FLAGS \cup {"confidentiality"})

\* LIT:user:{mech}reply:sql:dbname:   or a later reply.  None stands for a
\* mech outside MechName or no {mech} at all.  A login message that arrives
\* where a token is expected is one more text that starts with no '+'.
LoginMessage(u, m, r) == [type |-> "login", user |-> u, mech |-> m, reply |-> r]
TextMessage(r) == [type |-> "text", reply |-> r]

FirstMessage ==
         {LoginMessage(u, m, r) : u \in UserName, m \in MechName \cup {None}, r \in Reply}
    \cup {TextMessage(Stop)}

LaterMessage == {TextMessage(r) : r \in Reply}

\* Messages of the server: the challenge line, '+' and a token, '*' with or
\* without data (or '' for the classic mechanisms), and '!' and an error.
Challenge(n) == [type |-> "challenge", nonce |-> n]
More(t) == [type |-> "more", token |-> t]
Welcome(d) == [type |-> "welcome", data |-> d]
Error == [type |-> "error"]

\* The tokens of the server; "empty" is b''.
NoBytes == [type |-> "empty"]
ScramServerFirst(n) == [type |-> "scramServerFirst", nonce |-> n]
ScramServerFinal(pw) == [type |-> "scramServerFinal", password |-> pw]
GssServerToken == [type |-> "gssServerToken"]
GssLayerOffer == [type |-> "gssLayerOffer"]

ServerToken == {ScramServerFirst(n) : n \in Nonce}
    \cup {ScramServerFinal(p) : p \in Password}
    \cup {NoBytes, GssServerToken, GssLayerOffer}

ServerMessage == {Challenge(n) : n \in Nonce}
    \cup {More(t) : t \in ServerToken}
    \cup {Welcome(d) : d \in ServerToken \cup {None}}
    \cup {Error}

-----------------------------------------------------------------------------
(***************************************************************************)
(* What a client's message establishes, whatever the server makes of it:   *)
(* knowledge of a password, or possession of a Kerberos identity.  A hash  *)
(* or a SCRAM proof establishes the password only if it was computed over  *)
(* this connection's nonce n.                                              *)
(***************************************************************************)
Knows(p) == [claim |-> "password", data |-> p]
Holds(p) == [claim |-> "principal", data |-> p]

Claim == {Knows(p) : p \in Password} \cup {Holds(p) : p \in Principal}

TokenShows(t, n, c) ==
    \/ t.type = "plain" /\ c = Knows(t.password)
    \/ t.type = "scramFinal" /\ t.nonce = n /\ c = Knows(t.password)
    \/ t.type = "gssLast" /\ t.kerberos /\ t.ours /\ c = Holds(t.peer)

Shows(r, n) ==
    {c \in Claim : \/ r.form = "hex" /\ TokenShows(r.token, n, c)
                   \/ r.form = "hash" /\ r.nonce = n /\ c = Knows(r.password)}

\* A token that says which user the client wants to act as.
Asks(r) == r.form = "hex" /\ r.token.type \in {"plain", "scramFirst", "gssLayer"}

\* The claims that entitle a client to a session as user u.
Entitling(u) == {Knows(p) : p \in {q \in Password : IsPassword(u, q)}}
           \cup {Holds(p) : p \in {q \in Principal : IsPrincipal(u, q)}}
=============================================================================
