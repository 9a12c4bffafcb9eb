----------------------------- MODULE Selection -----------------------------
(***************************************************************************)
(* Which mechanism a login uses: pick_mechanisms decides what the server   *)
(* offers, pick_mechanism what the client takes of it.                     *)
(***************************************************************************)
EXTENDS SequencesExt

CONSTANTS
    Modules,      \* the possible sets of optional Python modules on a host
    ServerLists,  \* what -m of the server can be
    ClientLists,  \* what -m of the client can be
    UrlLists,     \* what _authmechanism in the URL can be
    NotGiven      \* no -m, no _authmechanism

PasswordBased == {"SCRAM-SHA-256", "SHA512", "SHA256", "RIPEMD160", "PLAIN"}

\* Names as a user can write them: a mechanism, the virtual one, nothing
\* between two commas, or one that no side knows.
Name == PasswordBased \cup {"GSSAPI", "PASSWORD", "", "unknown"}

ASSUME SelectionAssumption ==
    /\ Modules \subseteq SUBSET {"scramp", "gssapi"}
    /\ ServerLists \cup ClientLists \cup UrlLists \subseteq Seq(Name) \ {<<>>}
    /\ NotGiven \notin Seq(Name) \cup Name

BuiltIn == <<"SHA512", "SHA256", "RIPEMD160", "PLAIN">>

\* Mutant: append instead of insert(0, ...).
MECHANISMSAppended(modules) ==
    BuiltIn \o (IF "scramp" \in modules THEN <<"SCRAM-SHA-256">> ELSE <<>>)
            \o (IF "gssapi" \in modules THEN <<"GSSAPI">> ELSE <<>>)

\* Each mechanism with an optional module goes in front of those before it.
MECHANISMS(modules) ==
    (IF "gssapi" \in modules THEN <<"GSSAPI">> ELSE <<>>)
    \o (IF "scramp" \in modules THEN <<"SCRAM-SHA-256">> ELSE <<>>)
    \o BuiltIn

\* What PASSWORD stands for, in the order of MECHANISMS.
OfPassword(mechs) ==
    FlattenSeq([j \in DOMAIN mechs |->
        IF mechs[j] \in PasswordBased THEN <<mechs[j]>> ELSE <<>>])

\* expand_password
ExpandPassword(names, mechs) ==
    FlattenSeq([j \in DOMAIN names |->
        IF names[j] = "PASSWORD" THEN OfPassword(mechs) ELSE <<names[j]>>])

Given(names) == IF names = NotGiven THEN <<>> ELSE names

\* Mutant: neither empty nor unknown names are skipped.
PickMechanismsUnchecked(names, mechs) ==
    IF names = NotGiven THEN ToSet(mechs) ELSE ToSet(names)

\* pick_mechanisms; only the keys of its result are used.
PickMechanisms(names, mechs) ==
    LET wanted == ToSet(Given(names)) \ {""}
    IN  IF wanted = {} THEN ToSet(mechs) ELSE wanted \cap ToSet(mechs)

-----------------------------------------------------------------------------
VARIABLES
    setting,   \* the two command lines, the URL, the modules on both hosts
    offer,     \* the mechanisms in the server's challenge
    choice     \* the mechanism of the login message

vars == <<setting, offer, choice>>

Setting == [server : ServerLists \cup {NotGiven}, client : ClientLists \cup {NotGiven},
            url : UrlLists \cup {NotGiven}, serverHas : Modules, clientHas : Modules]

SelectionTypeOK ==
    /\ setting \in Setting
    /\ offer \in (SUBSET ToSet(MECHANISMS({"scramp", "gssapi"}))) \cup {NotGiven}
    /\ choice \in ToSet(MECHANISMS({"scramp", "gssapi"})) \cup {"none", NotGiven}

Init ==
    /\ setting \in Setting
    /\ offer = NotGiven
    /\ choice = NotGiven

\* Handshake.execute
Offer ==
    /\ offer = NotGiven
    /\ offer' = PickMechanisms(setting.server, MECHANISMS(setting.serverHas))
    /\ UNCHANGED <<setting, choice>>

-----------------------------------------------------------------------------
(* pick_mechanism *)

CliNames == ExpandPassword(Given(setting.client), MECHANISMS(setting.clientHas))
UrlNames == ExpandPassword(Given(setting.url), MECHANISMS(setting.clientHas))

\* Mutant: the command line decides.
CandidatesCliFirst ==
    IF CliNames # <<>> THEN CliNames
    ELSE IF UrlNames # <<>> THEN UrlNames
    ELSE ExpandPassword(<<"PASSWORD">>, MECHANISMS(setting.clientHas))

\* url_mech_names or cli_mech_names or the expansion of PASSWORD
Candidates ==
    IF UrlNames # <<>> THEN UrlNames
    ELSE IF CliNames # <<>> THEN CliNames
    ELSE ExpandPassword(<<"PASSWORD">>, MECHANISMS(setting.clientHas))

Restrictions == IF CliNames # <<>> THEN offer \cap ToSet(CliNames) ELSE offer

\* The for loop returns the first candidate that the client has and that is
\* in restrictions; "none" is the ErrorMessage.
Pick ==
    /\ offer # NotGiven
    /\ choice = NotGiven
    /\ LET fits(m) == m \in ToSet(MECHANISMS(setting.clientHas)) \cap Restrictions
           first   == SelectInSeq(Candidates, fits)
       IN  choice' = IF first = 0 THEN "none" ELSE Candidates[first]
    /\ UNCHANGED <<setting, offer>>

Next == Offer \/ Pick

Spec == Init /\ [][Next]_vars

-----------------------------------------------------------------------------
(* Properties *)

Matches(m, name) == m = name \/ (name = "PASSWORD" /\ m \in PasswordBased)

\* The names that decide: the URL's, or the command line's, or PASSWORD.
Deciding == IF setting.url # NotGiven THEN setting.url
            ELSE IF setting.client # NotGiven THEN setting.client
            ELSE <<"PASSWORD">>

\* What both sides have and both operators let pass.
Usable == {m \in offer \cap ToSet(MECHANISMS(setting.clientHas)) :
              /\ \E i \in DOMAIN Deciding : Matches(m, Deciding[i])
              /\ setting.client = NotGiven
                 \/ \E i \in DOMAIN setting.client : Matches(m, setting.client[i])}

\* The rule in the comment of pick_mechanism: the URL decides, the command
\* line decides without one and restricts otherwise, the default is
\* PASSWORD, which stands for all password mechanisms.  The client takes a
\* usable mechanism that matches the earliest name with any, and gives up
\* only if there is no usable mechanism.
UrlDecidesCommandLineRestricts ==
    choice # NotGiven =>
        IF Usable = {} THEN choice = "none"
        ELSE /\ choice \in Usable
             /\ \E i \in DOMAIN Deciding :
                   /\ Matches(choice, Deciding[i])
                   /\ \A m \in Usable, j \in 1..(i - 1) : ~Matches(m, Deciding[j])

\* A password goes out in the clear only if no other password mechanism is
\* usable, or the client was asked for PLAIN by name: PLAIN comes last
\* among the mechanisms PASSWORD stands for.
PlainIsLastResort ==
    choice = "PLAIN" =>
        Usable \cap PasswordBased = {"PLAIN"} \/ \E i \in DOMAIN Deciding : Deciding[i] = "PLAIN"
=============================================================================
