----------------------------- MODULE MCDialogue -----------------------------
(***************************************************************************)
(* Dialogue with the user of the store, another one or none, the right and *)
(* the wrong password, and the mechanisms t.py tries.                      *)
(***************************************************************************)
EXTENDS Dialogue

CONSTANTS monetdb, alice, pwBuiltin, pwOther, krbServer

MCClients ==
    {[user |-> u, password |-> p, principal |-> krbServer, prefers |-> <<>>,
      satisfied |-> TRUE] :
        u \in {monetdb, alice, NoName}, p \in {pwBuiltin, pwOther}}

MCContextFlags == {MINIMAL_REQ_FLAGS}

NoOptions == <<>>
=============================================================================
