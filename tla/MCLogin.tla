------------------------------ MODULE MCLogin ------------------------------
(***************************************************************************)
(* Login on a small instance: democlient started as either user or none,   *)
(* with the right password, a replaced one or another user's, the right or *)
(* the wrong Kerberos tickets, and every mechanism; one of the mechanisms  *)
(* it prefers is not on offer.  Some ask for a report they do not get.     *)
(***************************************************************************)
EXTENDS Login, TLC

CONSTANTS monetdb, alice, pwBuiltin, pwOld, pwNew, krbServer, krbAlice, n1

MCCliCreds == <<
    [user |-> alice, kind |-> "plain",     password |-> pwOld],
    [user |-> alice, kind |-> "principal", password |-> krbAlice],
    [user |-> alice, kind |-> "plain",     password |-> pwNew]>>

MCContextFlags == {MINIMAL_REQ_FLAGS}

MCPrefers == {<<"GSSAPI", "PLAIN">>, <<"RIPEMD160", "SCRAM-SHA-256">>, <<"SHA512">>,
              <<"PLAIN", "SHA512">>, <<"RIPEMD160">>}

MCClients ==
    {[user |-> u, password |-> p, principal |-> k, prefers |-> m, satisfied |-> TRUE] :
        u \in {monetdb, alice, NoName}, p \in {pwBuiltin, pwOld, pwNew},
        k \in {krbServer, krbAlice}, m \in MCPrefers}
    \cup {[user |-> alice, password |-> pwNew, principal |-> krbAlice, prefers |-> m,
           satisfied |-> FALSE] : m \in MCPrefers}
=============================================================================
