------------------------------- MODULE Login -------------------------------
(***************************************************************************)
(* One connection between demoserver and democlient: Handshake and         *)
(* DemoClient with the socket between them.  The socket is two FIFO        *)
(* channels: toServer, and the part of toClient the client has not read.   *)
(* When one side has closed it, the other side may still read what was     *)
(* sent, or may find the connection reset.                                 *)
(***************************************************************************)
EXTENDS Handshake, DemoClient

VARIABLE nread    \* how many of the messages in toClient the client has read

loginVars == <<vars, clientVars, nread>>

LoginInit == Init /\ ClientInit /\ nread = 0

\* The server's end of the socket is closed.
ServerGone == pc \in {"rejected", "crashed"}

\* A send can only fail if the client is gone.
SendFailed ==
    \/ exc' = "OSError" /\ exc # "OSError"
    \/ pc = "loading" /\ pc' = "rejecting"
    \/ pc = "rejecting" /\ toClient' = toClient

ServerRuns ==
    /\ ServerStep
    /\ SendFailed => ClientGone
    /\ UNCHANGED <<clientVars, nread>>

ServerReads ==
    /\ toServer # <<>>
    /\ ReceiveLogin(Head(toServer)) \/ ReceiveToken(Head(toServer))
    /\ toServer' = Tail(toServer)
    /\ UNCHANGED <<cpc, client, cmech, legs, turns, cround, nread>>

\* The stream ends, in the middle of a message only if the client was killed
\* while sending it, or the connection is reset.
ServerFindsClientGone ==
    /\ ClientGone
    /\ \/ toServer = <<>> /\ ReceiveEof
       \/ toServer = <<>> /\ cpc = "killed" /\ ReceiveFails("EOFError")
       \/ ReceiveFails("OSError")
    /\ UNCHANGED <<clientVars, nread>>

ClientReads ==
    /\ nread < Len(toClient)
    /\ Read(toClient[nread + 1])
    /\ nread' = nread + 1
    /\ UNCHANGED vars

\* End of the stream, or a reset that takes unread messages with it.
ClientFindsServerGone ==
    /\ ServerGone
    /\ ReadFails
    /\ UNCHANGED <<vars, nread>>

ClientKilled == Killed /\ UNCHANGED <<vars, nread>>

BothEnded == Ended /\ ~Waiting

LoginDone == BothEnded /\ UNCHANGED loginVars

ServerMoves == ServerRuns \/ ServerReads \/ ServerFindsClientGone

ClientMoves == ClientReads \/ ClientFindsServerGone

LoginNext == ServerMoves \/ ClientMoves \/ ClientKilled \/ LoginDone

LoginSpec == LoginInit /\ [][LoginNext]_loginVars

\* Both are ordinary threads of control that the operating system runs:
\* neither stays forever before a step it can take.
FairLogin ==
    /\ LoginSpec
    /\ WF_loginVars(ServerMoves)
    /\ WF_loginVars(ClientMoves)

-----------------------------------------------------------------------------
(* Properties *)

LoginTypeOK == TypeOK /\ ClientTypeOK /\ nread \in 0..Len(toClient)

\* What the mechanism at hand asks for is configured for the client's user.
Qualifies ==
    IF KerberosStyle(mech)
    THEN IsPrincipal(client.user, client.principal)
    ELSE IsPassword(client.user, client.password)

\* A client that reports success is in the session the server gave it: as
\* the user it named, with the mechanism it picked, and it is not one the
\* operator's credentials do not entitle.
Agreement ==
    cpc = "happy" =>
        /\ pc = "session"
        /\ user = client.user
        /\ mech = cmech
        /\ Qualifies

\* The two take turns: as long as the client is there, no more than one
\* message is under way, and the side that waits for one is not waiting for
\* a side that waits itself.
HalfDuplex ==
    ~ClientGone =>
        /\ Len(toServer) + (Len(toClient) - nread) <= 1
        /\ Waiting /\ pc \in {"awaitLogin", "awaitToken"} =>
              Len(toServer) + (Len(toClient) - nread) = 1

\* A client with the right credentials is not turned away.  If its GSSAPI
\* context takes so many tokens that the server's loop of MAX_ROUNDS ends,
\* then its own loop has ended before, and the client has left.
QualifiedNotRejected ==
    exc = "Reject" /\ ~ClientGone /\ mech # None => ~Qualifies

\* democlient sends nothing that makes the server's thread die of an
\* exception it does not handle, unless it was started without a user name
\* (with a classic mechanism or GSSAPI an assertion then fails).  Otherwise
\* the server process only ends because the client vanished or because of
\* its own Kerberos set-up.
NoCrashByClient ==
    pc = "crashed" =>
        \/ ClientGone
        \/ exc = "GSSError"
        \/ exc = "AssertionError" /\ client.user = NoName

\* Every login ends, on both sides.
LoginEnds == <>BothEnded

\* If the server opens a session then the client, unless it is killed, gets
\* to know: it ends up happy, or finds that the mechanism's report is not
\* what --assert-happy asks for.
SessionReachesClient ==
    [](pc = "session" =>
        <>(\/ cpc \in {"happy", "killed"}
           \/ cpc = "failed" /\ ~client.satisfied))
=============================================================================
