---------------------------- MODULE Credentials ----------------------------
(***************************************************************************)
(* credentials.py: the credential store.  A store maps a user name to the  *)
(* lists of credentials known for it, one list for each kind.  The store   *)
(* is created anew for every connection, see OpenStore and LoadCredential  *)
(* in Handshake.                                                           *)
(***************************************************************************)
EXTENDS Integers, Sequences

CONSTANTS
    Name,             \* the non-empty user names
    NoName,           \* the empty string, where a user name is expected
    Password,         \* the passwords, and
    Principal,        \* the Kerberos principals: what follows "USER=KIND:"
    None,             \* Python's None
    BuiltinUser,      \* 'monetdb', the user default() always knows
    BuiltinPassword,  \* its password
    HaveGssapi,       \* TRUE if the gssapi module can be imported
    OurPrincipal,     \* the Kerberos principal the server runs as
    CliCreds          \* the -c options, in the order they were given

Kind == {"plain", "principal", "SCRAM-SHA-256"}

\* parse_credentials: USER=KIND:DATA.  KIND is \w+, so SCRAM-SHA-256 cannot
\* be given; a kind no mechanism looks at has no effect and is left out.
Cred == [user : Name, kind : {"plain"}, password : Password]
        \cup [user : Name, kind : {"principal"}, password : Principal]

CredData == Password \cup Principal

\* The entry of a SCRAM password file, made from a password.
ScramEntry == [salted : Password]

ASSUME CredentialsAssumption ==
    /\ NoName \notin Name \cup Principal
    /\ None \notin Name \cup {NoName} \cup CredData \cup ScramEntry
    /\ BuiltinUser \in Name
    /\ BuiltinPassword \in Password
    /\ OurPrincipal \in Principal
    /\ HaveGssapi \in BOOLEAN
    /\ CliCreds \in Seq(Cred)

UserName == Name \cup {NoName}

UserCreds == [Kind -> Seq(CredData \cup ScramEntry)]

CredStore == [UserName -> UserCreds]

\* A user the store has not heard of has no credentials: looking it up
\* creates an empty UserCreds.
EmptyStore == [u \in UserName |-> [k \in Kind |-> <<>>]]

Add(store, u, kind, pw) == [store EXCEPT ![u][kind] = Append(@, pw)]

Replace(store, u, kind, pw) == [store EXCEPT ![u][kind] = <<pw>>]

GetAll(usercreds, kind) == {usercreds[kind][i] : i \in DOMAIN usercreds[kind]}

\* Mutant: the first one counts.
GetFirst(usercreds, kind) ==
    IF usercreds[kind] = <<>> THEN None ELSE usercreds[kind][1]

GetLast(usercreds, kind) ==
    IF usercreds[kind] = <<>> THEN None ELSE usercreds[kind][Len(usercreds[kind])]

\* CredStore.default()
DefaultStore ==
    LET builtin == Add(EmptyStore, BuiltinUser, "plain", BuiltinPassword)
    IN  IF HaveGssapi THEN Add(builtin, BuiltinUser, "principal", OurPrincipal)
                      ELSE builtin

-----------------------------------------------------------------------------
(***************************************************************************)
(* What the operator configured, stated over the command line and not over *)
(* the store: of the passwords given for a user the last one counts, the   *)
(* built-in one counts only if there is no other, and every principal      *)
(* counts.  Upto restricts this to the first k options.                    *)
(***************************************************************************)
Given(i, u, kind) == CliCreds[i].user = u /\ CliCreds[i].kind = kind

IsPasswordUpto(k, u, p) ==
    \/ \E i \in 1..k : /\ Given(i, u, "plain")
                       /\ CliCreds[i].password = p
                       /\ \A j \in (i + 1)..k : ~Given(j, u, "plain")
    \/ /\ u = BuiltinUser
       /\ p = BuiltinPassword
       /\ \A j \in 1..k : ~Given(j, u, "plain")

IsPrincipalUpto(k, u, p) ==
    \/ \E i \in 1..k : Given(i, u, "principal") /\ CliCreds[i].password = p
    \/ HaveGssapi /\ u = BuiltinUser /\ p = OurPrincipal

IsPassword(u, p)  == IsPasswordUpto(Len(CliCreds), u, p)
IsPrincipal(u, p) == IsPrincipalUpto(Len(CliCreds), u, p)
=============================================================================
