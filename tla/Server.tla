------------------------------- MODULE Server -------------------------------
(***************************************************************************)
(* demoserver.py as a process: a thread for every listening socket that    *)
(* accepts connections and numbers them, a thread for every connection,    *)
(* and the excepthook that ends the process if one of them dies of an      *)
(* exception.  A connection's login is one step with the three verdicts of *)
(* LoginContract, which Handshake implements; the session after it is      *)
(* interact, request by request.                                           *)
(***************************************************************************)
EXTENDS Integers, FiniteSetsExt, Sequences

CONSTANTS
    Listener,     \* the listening sockets
    Conn,         \* the connections clients make
    None,
    MaxRequests   \* bound: how many requests clients send in all sessions

\* What a client can send in a session: a message that starts with
\* 'Xclientinfo ', one interact_sql answers, any other text, an empty one,
\* one that is not UTF-8, and a SELECT of a number with more digits than int
\* takes, 4300 of them.
Request == {"clientinfo", "query", "other", "empty", "binary", "huge"}

\* The last two: receive or interact_sql raises ValueError.
Fatal == {"binary", "huge"}

ASSUME ServerAssumption ==
    /\ None \notin Listener \cup Conn \cup Request \cup Nat
    /\ MaxRequests \in Nat

VARIABLES
    up,        \* FALSE after os._exit
    apc,       \* per listener, where its thread is in accept_connections
    sock,      \* per listener, the connection it accepted last
    number,    \* per listener, the value pick_connection_id has read
    holder,    \* who holds connection_id_lock
    counter,   \* connection_id_counter
    id,        \* per connection, its id
    target,    \* per connection, the listener it was made to
    phase,     \* per connection, see ServerTypeOK
    there,     \* per connection: its client has not closed it
    inbox,     \* per connection, the requests that interact has not read
    busy,      \* per connection, the request interact is answering
    heard,     \* history: the requests interact has read
    answers    \* history: what it answered

accepting  == <<apc, sock, number, holder, counter, id>>
session    == <<inbox, busy, heard, answers>>
connection == <<target, phase, there>>
vars == <<up, accepting, connection, session>>

Answer == {"empty", "result", "error"}

ServerTypeOK ==
    /\ up \in BOOLEAN
    /\ apc \in [Listener -> {"accept", "lock", "read", "write", "start", "dying"}]
    /\ sock \in [Listener -> Conn \cup {None}]
    /\ number \in [Listener -> Nat]
    /\ holder \in Listener \cup {None}
    /\ counter \in Nat
    /\ id \in [Conn -> Nat \cup {None}]
    /\ target \in [Conn -> Listener \cup {None}]
    /\ phase \in [Conn -> {"away", "queued", "accepted", "login", "session", "dying", "closed"}]
    /\ there \in [Conn -> BOOLEAN]
    /\ inbox \in [Conn -> Seq(Request)]
    /\ busy \in [Conn -> (Request \ ({"empty"} \cup Fatal)) \cup {None}]
    /\ heard \in [Conn -> Seq(Request)]
    /\ answers \in [Conn -> Seq(Answer)]

Init ==
    /\ up = TRUE
    /\ apc = [l \in Listener |-> "accept"]
    /\ sock = [l \in Listener |-> None]
    /\ number = [l \in Listener |-> 0]
    /\ holder = None
    /\ counter = 10
    /\ id = [c \in Conn |-> None]
    /\ target = [c \in Conn |-> None]
    /\ phase = [c \in Conn |-> "away"]
    /\ there = [c \in Conn |-> FALSE]
    /\ inbox = [c \in Conn |-> <<>>]
    /\ busy = [c \in Conn |-> None]
    /\ heard = [c \in Conn |-> <<>>]
    /\ answers = [c \in Conn |-> <<>>]

AcceptGoto(l, next) == apc' = [apc EXCEPT ![l] = next]
Becomes(c, next) == phase' = [phase EXCEPT ![c] = next]

-----------------------------------------------------------------------------
(* The clients. *)

\* The kernel completes the connection; it waits in the listener's backlog.
Connect(c, l) ==
    /\ up
    /\ phase[c] = "away"
    /\ Becomes(c, "queued")
    /\ target' = [target EXCEPT ![c] = l]
    /\ there' = [there EXCEPT ![c] = TRUE]
    /\ UNCHANGED <<up, accepting, session>>

Asked == MapThenSumSet(LAMBDA c : Len(heard[c]) + Len(inbox[c]), Conn)

Ask(c, r) ==
    /\ there[c]
    /\ phase[c] = "session"
    /\ Asked < MaxRequests
    /\ inbox' = [inbox EXCEPT ![c] = Append(@, r)]
    /\ UNCHANGED <<up, accepting, connection, busy, heard, answers>>

Leave(c) ==
    /\ there[c]
    /\ there' = [there EXCEPT ![c] = FALSE]
    /\ UNCHANGED <<up, accepting, target, phase, session>>

-----------------------------------------------------------------------------
(* accept_connections and pick_connection_id. *)

Accept(l) ==
    /\ up
    /\ apc[l] = "accept"
    /\ \E c \in Conn :
          /\ phase[c] = "queued"
          /\ target[c] = l
          /\ sock' = [sock EXCEPT ![l] = c]
          /\ Becomes(c, "accepted")
    /\ AcceptGoto(l, "lock")
    /\ UNCHANGED <<up, number, holder, counter, id, target, there, session>>

\* Mutant: no lock.
LockUnheld(l) ==
    /\ up
    /\ apc[l] = "lock"
    /\ AcceptGoto(l, "read")
    /\ UNCHANGED <<up, sock, number, holder, counter, id, connection, session>>

\* with connection_id_lock
Lock(l) ==
    /\ up
    /\ apc[l] = "lock"
    /\ holder = None
    /\ holder' = l
    /\ AcceptGoto(l, "read")
    /\ UNCHANGED <<up, sock, number, counter, id, connection, session>>

ReadCounter(l) ==
    /\ up
    /\ apc[l] = "read"
    /\ number' = [number EXCEPT ![l] = counter]
    /\ AcceptGoto(l, "write")
    /\ UNCHANGED <<up, sock, holder, counter, id, connection, session>>

\* Mutant: acquire without release.
WriteCounterKeepsLock(l) ==
    /\ up
    /\ apc[l] = "write"
    /\ counter' = counter + 1
    /\ id' = [id EXCEPT ![sock[l]] = number[l]]
    /\ AcceptGoto(l, "start")
    /\ UNCHANGED <<up, sock, number, holder, connection, session>>

\* Mutant: connection_id_counter =- 1
WriteCounterSlip(l) ==
    /\ up
    /\ apc[l] = "write"
    /\ counter' = -1
    /\ id' = [id EXCEPT ![sock[l]] = number[l]]
    /\ holder' = None
    /\ AcceptGoto(l, "start")
    /\ UNCHANGED <<up, sock, number, connection, session>>

\* connection_id_counter += 1 and the end of the with block
WriteCounter(l) ==
    /\ up
    /\ apc[l] = "write"
    /\ counter' = counter + 1
    /\ id' = [id EXCEPT ![sock[l]] = number[l]]
    /\ holder' = None
    /\ AcceptGoto(l, "start")
    /\ UNCHANGED <<up, sock, number, connection, session>>

StartThread(l) ==
    /\ up
    /\ apc[l] = "start"
    /\ Becomes(sock[l], "login")
    /\ AcceptGoto(l, "accept")
    /\ UNCHANGED <<up, sock, number, holder, counter, id, target, there, session>>

\* accept raises OSError or start raises RuntimeError: out of descriptors
\* or threads.
AcceptFails(l) ==
    /\ up
    /\ apc[l] \in {"accept", "start"}
    /\ AcceptGoto(l, "dying")
    /\ UNCHANGED <<up, sock, number, holder, counter, id, connection, session>>

-----------------------------------------------------------------------------
(* handle_connection and interact. *)

\* The verdict of the handshake: a session, a refusal, or an exception.
LoginVerdict(c) ==
    /\ up
    /\ phase[c] = "login"
    /\ \E next \in {"session", "closed", "dying"} : Becomes(c, next)
    /\ UNCHANGED <<up, accepting, target, there, session>>

\* Mutant: a new request is read while the last is being answered.
ReadRequestAhead(c) ==
    /\ up
    /\ phase[c] = "session"
    /\ inbox[c] # <<>>
    /\ inbox' = [inbox EXCEPT ![c] = Tail(@)]
    /\ heard' = [heard EXCEPT ![c] = Append(@, Head(inbox[c]))]
    /\ \/ /\ Head(inbox[c]) = "empty"
          /\ Becomes(c, "closed")
          /\ UNCHANGED busy
       \/ /\ Head(inbox[c]) \in Fatal
          /\ Becomes(c, "dying")
          /\ UNCHANGED busy
       \/ /\ Head(inbox[c]) \notin {"empty"} \cup Fatal
          /\ busy' = [busy EXCEPT ![c] = Head(inbox[c])]
          /\ UNCHANGED phase
    /\ UNCHANGED <<up, accepting, target, there, answers>>

\* conn.receive(), and what interact_sql raises
ReadRequest(c) ==
    /\ up
    /\ phase[c] = "session"
    /\ busy[c] = None
    /\ inbox[c] # <<>>
    /\ inbox' = [inbox EXCEPT ![c] = Tail(@)]
    /\ heard' = [heard EXCEPT ![c] = Append(@, Head(inbox[c]))]
    /\ \/ /\ Head(inbox[c]) = "empty"          \* if not msg: return
          /\ Becomes(c, "closed")
          /\ UNCHANGED busy
       \/ /\ Head(inbox[c]) \in Fatal
          /\ Becomes(c, "dying")
          /\ UNCHANGED busy
       \/ /\ Head(inbox[c]) \notin {"empty"} \cup Fatal
          /\ busy' = [busy EXCEPT ![c] = Head(inbox[c])]
          /\ UNCHANGED phase
    /\ UNCHANGED <<up, accepting, target, there, answers>>

\* The client has closed the connection: None, or EOFError or OSError.
RequestEnds(c) ==
    /\ up
    /\ phase[c] = "session"
    /\ busy[c] = None
    /\ ~there[c]
    /\ \/ inbox[c] = <<>> /\ Becomes(c, "closed")
       \/ Becomes(c, "dying")
    /\ UNCHANGED <<up, accepting, target, there, session>>

AnswerTo(r) == CASE r = "clientinfo" -> "empty"
                 [] r = "query"      -> "result"
                 [] r = "other"      -> "error"

\* Mutant: no continue after the answer to a query.
ReplyOnce(c) ==
    /\ up
    /\ phase[c] = "session"
    /\ busy[c] # None
    /\ busy' = [busy EXCEPT ![c] = None]
    /\ answers' = [answers EXCEPT ![c] = Append(@, AnswerTo(busy[c]))]
    /\ IF busy[c] # "clientinfo" THEN Becomes(c, "closed") ELSE UNCHANGED phase
    /\ UNCHANGED <<up, accepting, target, there, inbox, heard>>

\* Mutant: a request interact does not understand is an exception.
ReplyRaises(c) ==
    /\ up
    /\ phase[c] = "session"
    /\ busy[c] # None
    /\ busy' = [busy EXCEPT ![c] = None]
    /\ \/ /\ answers' = [answers EXCEPT ![c] = Append(@, AnswerTo(busy[c]))]
          /\ IF busy[c] = "other" THEN Becomes(c, "dying") ELSE UNCHANGED phase
       \/ /\ ~there[c]
          /\ Becomes(c, "dying")
          /\ UNCHANGED answers
    /\ UNCHANGED <<up, accepting, target, there, inbox, heard>>

\* Mutant: the answer waits for a client that is gone.
ReplyPatient(c) ==
    /\ up
    /\ phase[c] = "session"
    /\ busy[c] # None
    /\ there[c]
    /\ busy' = [busy EXCEPT ![c] = None]
    /\ answers' = [answers EXCEPT ![c] = Append(@, AnswerTo(busy[c]))]
    /\ IF busy[c] = "other" THEN Becomes(c, "closed") ELSE UNCHANGED phase
    /\ UNCHANGED <<up, accepting, target, there, inbox, heard>>

\* conn.send, which only fails if the client is gone.  After the answer to
\* a request it does not understand interact returns, whether or not the
\* answer could be sent; elsewhere an OSError leaves the thread.
Reply(c) ==
    /\ up
    /\ phase[c] = "session"
    /\ busy[c] # None
    /\ busy' = [busy EXCEPT ![c] = None]
    /\ \/ /\ answers' = [answers EXCEPT ![c] = Append(@, AnswerTo(busy[c]))]
          /\ IF busy[c] = "other" THEN Becomes(c, "closed") ELSE UNCHANGED phase
       \/ /\ ~there[c]
          /\ Becomes(c, IF busy[c] = "other" THEN "closed" ELSE "dying")
          /\ UNCHANGED answers
    /\ UNCHANGED <<up, accepting, target, there, inbox, heard>>

-----------------------------------------------------------------------------
\* my_excepthook: os._exit ends the process with all its threads.
Exit ==
    /\ up
    /\ (\E c \in Conn : phase[c] = "dying") \/ (\E l \in Listener : apc[l] = "dying")
    /\ up' = FALSE
    /\ UNCHANGED <<accepting, connection, session>>

AcceptLoop(l) ==
    Accept(l) \/ Lock(l) \/ ReadCounter(l) \/ WriteCounter(l) \/ StartThread(l)

SessionLoop(c) == ReadRequest(c) \/ RequestEnds(c) \/ Reply(c)

Client(c) ==
    \/ \E l \in Listener : Connect(c, l)
    \/ \E r \in Request : Ask(c, r)
    \/ Leave(c)

Next ==
    \/ \E l \in Listener : AcceptLoop(l) \/ AcceptFails(l)
    \/ \E c \in Conn : LoginVerdict(c) \/ SessionLoop(c) \/ Client(c)
    \/ Exit

Spec == Init /\ [][Next]_vars

\* The threads run, each of them.  A client need not do anything: it may
\* stay silent, so that its login never comes to a verdict.
FairSpec ==
    /\ Spec
    /\ \A l \in Listener : WF_vars(AcceptLoop(l))
    /\ \A c \in Conn : WF_vars(SessionLoop(c))
    /\ WF_vars(Exit)

-----------------------------------------------------------------------------
(* Properties *)

\* A listener's thread that is at work on a connection, before and after
\* pick_connection_id has numbered it.
Numbering(l) == apc[l] \in {"lock", "read", "write"}
Working(l) == Numbering(l) \/ apc[l] = "start"

\* Only the lock's holder is between reading and writing the counter, and
\* what it has read is still what the counter says.
LockProtects ==
    \A l \in Listener :
        /\ apc[l] \in {"read", "write"} => holder = l
        /\ apc[l] = "write" => number[l] = counter

\* No two threads work on the same connection, and it has a number only
\* after pick_connection_id.
OwnConnection ==
    /\ \A l \in Listener : Working(l) => /\ sock[l] \in Conn
                                         /\ phase[sock[l]] = "accepted"
                                         /\ id[sock[l]] = None <=> Numbering(l)
    /\ \A l, m \in Listener : l # m /\ Working(l) /\ Working(m) => sock[l] # sock[m]
    /\ \A c \in Conn : phase[c] \in {"away", "queued"} => id[c] = None

\* The numbers given so far are below the counter.
BelowCounter == \A c \in Conn : id[c] # None => id[c] < counter

\* pick_connection_id gives no number twice, however the threads of two
\* listening sockets interleave, and a connection has its number before its
\* thread starts.
UniqueIds ==
    /\ \A c, d \in Conn : c # d /\ id[c] # None => id[c] # id[d]
    /\ \A c \in Conn : phase[c] \in {"login", "session", "dying", "closed"} => id[c] # None

\* The inductive invariant behind UniqueIds.
IdInv == ServerTypeOK /\ LockProtects /\ OwnConnection /\ BelowCounter /\ UniqueIds

\* In a session the client gets one answer for each of its requests, of the
\* kind it asked for and in the order it asked: the answers are those to
\* the requests read so far, but for the one at hand.
AnswersInStep ==
    \A c \in Conn :
        phase[c] = "session" =>
            /\ Len(heard[c]) = Len(answers[c]) + (IF busy[c] = None THEN 0 ELSE 1)
            /\ \A i \in DOMAIN answers[c] : answers[c][i] = AnswerTo(heard[c][i])

\* Before the session nothing has been read, and the request at hand is the
\* last one read.
RequestAtHand ==
    \A c \in Conn :
        /\ phase[c] \in {"away", "queued", "accepted", "login"} =>
              heard[c] = <<>> /\ answers[c] = <<>> /\ busy[c] = None
        /\ busy[c] # None => heard[c] # <<>> /\ heard[c][Len(heard[c])] = busy[c]

\* The inductive invariant behind AnswersInStep, EndedByOwnClient and
\* OnlyFailuresEndServer.
SessionInv == ServerTypeOK /\ RequestAtHand /\ AnswersInStep

\* A session ends only by what its own client does: it left, or it sent a
\* request that ends the session.  No other connection has a part in it
\* while the process lives.
EndedByOwnClient ==
    [][\A c \in Conn : phase[c] = "session" /\ phase'[c] # "session" =>
          ~there[c] \/ heard'[c][Len(heard'[c])] \in {"empty", "other"} \cup Fatal]_vars

\* The connection's thread has died of an exception in the login, of a client
\* that was gone, or of a request that nothing guards against.
FailedForCause(c) ==
    heard[c] = <<>> \/ ~there[c] \/ heard[c][Len(heard[c])] \in Fatal

\* What ends the process, and with it every other session, is the failure of
\* an accept thread or one FailedForCause names: never the end of a session
\* whose client said goodbye, or what interact answers with an error.
OnlyFailuresEndServer ==
    /\ \A c \in Conn : phase[c] = "dying" => FailedForCause(c)
    /\ ~up => \/ \E l \in Listener : apc[l] = "dying"
             \/ \E c \in Conn : phase[c] = "dying"

\* A connection in a backlog gets its thread, unless the process ends: one
\* that is slow to log in or silent does not keep others waiting.
ConnectionServed ==
    \A c \in Conn : phase[c] = "queued" ~> phase[c] \notin {"queued", "accepted"} \/ ~up

\* Every request is taken up and answered, unless the session or the
\* process ends first.
RequestsTakenUp ==
    \A c \in Conn :
        inbox[c] # <<>> ~> (inbox[c] = <<>> /\ busy[c] = None) \/ phase[c] # "session" \/ ~up
=============================================================================
