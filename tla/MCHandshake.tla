---------------------------- MODULE MCHandshake ----------------------------
(***************************************************************************)
(* Handshake on a small instance: two users, of whom alice has an old and  *)
(* a new password and a Kerberos principal, and the built-in user keeps    *)
(* its default password.  Eve's principal is nobody's.                     *)
(***************************************************************************)
EXTENDS Handshake, TLC

CONSTANTS monetdb, alice, pwBuiltin, pwOld, pwNew, krbServer, krbAlice, n1, n2

MCCliCreds == <<
    [user |-> alice, kind |-> "plain",     password |-> pwOld],
    [user |-> alice, kind |-> "principal", password |-> krbAlice],
    [user |-> alice, kind |-> "plain",     password |-> pwNew]>>

MCContextFlags == {MINIMAL_REQ_FLAGS, MINIMAL_REQ_FLAGS \ {"mutual"}}

NonceSymmetry == Permutations(Nonce)
=============================================================================
