----------------------------- MODULE MCConnect -----------------------------
(***************************************************************************)
(* Connect on a small instance: targets with and without a scan; redirects *)
(* to another host, to one with another user, and back to a scan; restarts *)
(* for another database, another user, and with an option for the address. *)
(***************************************************************************)
EXTENDS Connect

At(host, sock, scannable, tls, valid) ==
    [host |-> host, sock |-> sock, scannable |-> scannable, tls |-> tls, valid |-> valid]

ToScan == At(None, None, TRUE, FALSE, TRUE)
ToHost == At("remote", None, FALSE, FALSE, TRUE)
ToPort == At(None, None, FALSE, FALSE, TRUE)
ToSock == At(None, "mine", FALSE, FALSE, TRUE)
ToTls  == At("remote", None, FALSE, TRUE, TRUE)
ToBoth == At("remote", "mine", FALSE, FALSE, FALSE)

MCStart == [at : {ToScan, ToPort, ToSock, ToTls}, database : {"db1"}, user : {"alice"}]
MCRedirect == {[at |-> ToScan, database |-> "db2", user |-> None],
               [at |-> ToHost, database |-> "db2", user |-> "bob"],
               [at |-> ToBoth, database |-> "db1", user |-> None]}
MCRestart == {[at |-> None, database |-> "db2", user |-> None],
              [at |-> None, database |-> None, user |-> "bob"],
              [at |-> ToTls, database |-> None, user |-> None]}
=============================================================================
