---------------------------- MODULE ServerProofs ----------------------------
(***************************************************************************)
(* Proofs about Server, for any number of listening sockets, connections   *)
(* and requests.                                                           *)
(***************************************************************************)
EXTENDS Server, TLAPS

USE ServerAssumption

-----------------------------------------------------------------------------
(* Types *)

LEMMA AppendOne ==
    ASSUME NEW S, NEW s \in Seq(S), NEW e \in S
    PROVE  Append(s, e) \in Seq(S)
  OBVIOUS

LEMMA HeadTail ==
    ASSUME NEW S, NEW s \in Seq(S), s # <<>>
    PROVE  Head(s) \in S /\ Tail(s) \in Seq(S)
  OBVIOUS

LEMMA InitTyped == Init => ServerTypeOK
  BY DEF Init, ServerTypeOK

LEMMA AcceptTyped ==
    ASSUME ServerTypeOK, NEW l \in Listener, AcceptLoop(l) \/ AcceptFails(l)
    PROVE  ServerTypeOK'
  <1>. USE DEF ServerTypeOK, accepting, connection, session, AcceptGoto, Becomes
  <1>1. CASE Accept(l)
    BY <1>1 DEF Accept
  <1>2. CASE Lock(l)
    BY <1>2 DEF Lock
  <1>3. CASE ReadCounter(l)
    BY <1>3 DEF ReadCounter
  <1>4. CASE WriteCounter(l)
    <2>1. id' \in [Conn -> Nat \cup {None}]
      BY <1>4 DEF WriteCounter
    <2>2. counter' \in Nat
      BY <1>4 DEF WriteCounter
    <2>3. apc' \in [Listener -> {"accept", "lock", "read", "write", "start", "dying"}]
      BY <1>4 DEF WriteCounter
    <2>. QED
      BY <1>4, <2>1, <2>2, <2>3 DEF WriteCounter
  <1>5. CASE StartThread(l)
    BY <1>5 DEF StartThread
  <1>6. CASE AcceptFails(l)
    BY <1>6 DEF AcceptFails
  <1>. QED
    BY <1>1, <1>2, <1>3, <1>4, <1>5, <1>6 DEF AcceptLoop

LEMMA SessionTyped ==
    ASSUME ServerTypeOK, NEW c \in Conn, LoginVerdict(c) \/ SessionLoop(c)
    PROVE  ServerTypeOK'
  <1>. USE DEF ServerTypeOK, accepting, connection, session, Becomes
  <1>1. CASE LoginVerdict(c)
    BY <1>1 DEF LoginVerdict
  <1>2. CASE ReadRequest(c)
    <2>1. Head(inbox[c]) \in Request /\ Tail(inbox[c]) \in Seq(Request)
      BY <1>2, HeadTail DEF ReadRequest
    <2>2. Append(heard[c], Head(inbox[c])) \in Seq(Request)
      BY <2>1, AppendOne
    <2>3. inbox' \in [Conn -> Seq(Request)] /\ heard' \in [Conn -> Seq(Request)]
      BY <1>2, <2>1, <2>2 DEF ReadRequest
    <2>4. busy' \in [Conn -> (Request \ ({"empty"} \cup Fatal)) \cup {None}]
      BY <1>2, <2>1 DEF ReadRequest
    <2>5. phase' \in [Conn -> {"away", "queued", "accepted", "login", "session", "dying", "closed"}]
      BY <1>2 DEF ReadRequest
    <2>. QED
      BY <1>2, <2>3, <2>4, <2>5 DEF ReadRequest
  <1>3. CASE RequestEnds(c)
    BY <1>3 DEF RequestEnds
  <1>4. CASE Reply(c)
    <2>1. AnswerTo(busy[c]) \in Answer
      BY <1>4 DEF Reply, AnswerTo, Request, Fatal, Answer
    <2>2. answers' \in [Conn -> Seq(Answer)]
      <3>1. Append(answers[c], AnswerTo(busy[c])) \in Seq(Answer)
        BY <2>1, AppendOne
      <3>2. \/ answers' = [answers EXCEPT ![c] = Append(@, AnswerTo(busy[c]))]
            \/ answers' = answers
        BY <1>4 DEF Reply
      <3>. HIDE DEF AnswerTo
      <3>. QED
        BY <3>1, <3>2
    <2>3. phase' \in [Conn -> {"away", "queued", "accepted", "login", "session", "dying", "closed"}]
      BY <1>4 DEF Reply
    <2>4. busy' \in [Conn -> (Request \ ({"empty"} \cup Fatal)) \cup {None}]
      BY <1>4 DEF Reply
    <2>. QED
      BY <1>4, <2>2, <2>3, <2>4 DEF Reply
  <1>. QED
    BY <1>1, <1>2, <1>3, <1>4 DEF SessionLoop

LEMMA ClientTyped ==
    ASSUME ServerTypeOK, NEW c \in Conn, Client(c)
    PROVE  ServerTypeOK'
  <1>. USE DEF ServerTypeOK, accepting, connection, session, Becomes
  <1>1. ASSUME NEW l \in Listener, Connect(c, l)
        PROVE  ServerTypeOK'
    BY <1>1 DEF Connect
  <1>2. ASSUME NEW r \in Request, Ask(c, r)
        PROVE  ServerTypeOK'
    <2>1. Append(inbox[c], r) \in Seq(Request)
      BY AppendOne
    <2>. QED
      BY <1>2, <2>1 DEF Ask
  <1>3. CASE Leave(c)
    BY <1>3 DEF Leave
  <1>. QED
    BY <1>1, <1>2, <1>3 DEF Client

LEMMA NextTyped == ServerTypeOK /\ [Next]_vars => ServerTypeOK'
  <1>. SUFFICES ASSUME ServerTypeOK, [Next]_vars
                PROVE  ServerTypeOK'
    OBVIOUS
  <1>1. CASE Exit
    BY <1>1 DEF Exit, ServerTypeOK, accepting, connection, session
  <1>2. CASE UNCHANGED vars
    BY <1>2 DEF vars, ServerTypeOK, accepting, connection, session
  <1>. QED
    BY <1>1, <1>2, AcceptTyped, SessionTyped, ClientTyped DEF Next

\* Every variable keeps its type: interact never has a request at hand that
\* should have ended the session.
THEOREM TypeCorrect == Spec => []ServerTypeOK
  BY InitTyped, NextTyped, PTL DEF Spec

-----------------------------------------------------------------------------
(* Connection numbers *)

LEMMA InitNumbered == Init => IdInv
  BY InitTyped DEF Init, IdInv, LockProtects, OwnConnection, BelowCounter, UniqueIds,
                   Working, Numbering

LEMMA AcceptNumbered ==
    ASSUME IdInv, ServerTypeOK', NEW l \in Listener, AcceptLoop(l) \/ AcceptFails(l)
    PROVE  IdInv'
  <1>. USE DEF IdInv, ServerTypeOK, LockProtects, OwnConnection, BelowCounter, UniqueIds,
               Working, Numbering, accepting, connection, session, AcceptGoto, Becomes
  <1>1. CASE Accept(l)
    <2>1. PICK c \in Conn : /\ phase[c] = "queued"
                            /\ sock' = [sock EXCEPT ![l] = c]
                            /\ phase' = [phase EXCEPT ![c] = "accepted"]
      BY <1>1 DEF Accept
    <2>2. id[c] = None /\ \A m \in Listener : Working(m) => sock[m] # c
      BY <2>1
    <2>3. UNCHANGED <<id, counter, holder, number>> /\ apc' = [apc EXCEPT ![l] = "lock"]
      BY <1>1 DEF Accept
    <2>4. LockProtects' /\ BelowCounter' /\ UniqueIds'
      BY <2>1, <2>2, <2>3
    <2>5. OwnConnection'
      BY <2>1, <2>2, <2>3
    <2>. QED
      BY <2>4, <2>5
  <1>2. CASE Lock(l)
    <2>1. LockProtects' /\ BelowCounter' /\ UniqueIds'
      BY <1>2 DEF Lock
    <2>2. OwnConnection'
      BY <1>2 DEF Lock
    <2>. QED
      BY <2>1, <2>2
  <1>3. CASE ReadCounter(l)
    <2>1. LockProtects' /\ BelowCounter' /\ UniqueIds'
      BY <1>3 DEF ReadCounter
    <2>2. OwnConnection'
      BY <1>3 DEF ReadCounter
    <2>. QED
      BY <2>1, <2>2
  <1>4. CASE WriteCounter(l)
    <2>1. sock[l] \in Conn /\ number[l] = counter
      BY <1>4 DEF WriteCounter
    <2>2. /\ id' = [id EXCEPT ![sock[l]] = counter]
          /\ counter' = counter + 1
          /\ apc' = [apc EXCEPT ![l] = "start"]
          /\ UNCHANGED <<sock, number, phase>>
      BY <1>4, <2>1 DEF WriteCounter
    <2>3. BelowCounter'
      BY <2>1, <2>2, SMTT(20)
    <2>4. UniqueIds'
      <3>1. \A c \in Conn : id'[c] = IF c = sock[l] THEN counter ELSE id[c]
        BY <2>1, <2>2
      <3>2. ASSUME NEW c \in Conn
            PROVE  id[c] # counter
        <4>1. counter \in Nat /\ counter # None
          OBVIOUS
        <4>2. id[c] # None => id[c] \in Nat /\ id[c] < counter
          OBVIOUS
        <4>. QED
          BY <4>1, <4>2
      <3>3. ASSUME NEW c \in Conn, NEW d \in Conn, c # d, id'[c] # None
            PROVE  id'[c] # id'[d]
        <4>1. CASE c = sock[l]
          BY <3>1, <3>2, <3>3, <4>1
        <4>2. CASE c # sock[l]
          BY <3>1, <3>2, <3>3, <4>2
        <4>. QED
          BY <4>1, <4>2
      <3>4. ASSUME NEW c \in Conn, phase'[c] \in {"login", "session", "dying", "closed"}
            PROVE  id'[c] # None
        BY <2>2, <3>1, <3>4
      <3>. QED
        BY <3>3, <3>4
    <2>5. LockProtects'
      \* The others are not between read and write, since l holds the lock.
      BY <1>4, <2>2 DEF WriteCounter
    <2>6. OwnConnection'
      BY <1>4, <2>1, <2>2 DEF WriteCounter
    <2>. QED
      BY <2>3, <2>4, <2>5, <2>6
  <1>5. CASE StartThread(l)
    <2>1. id[sock[l]] # None /\ sock[l] \in Conn
      BY <1>5 DEF StartThread
    <2>2. LockProtects' /\ BelowCounter'
      BY <1>5 DEF StartThread
    <2>3. UniqueIds'
      BY <1>5, <2>1 DEF StartThread
    <2>4. OwnConnection'
      BY <1>5 DEF StartThread
    <2>. QED
      BY <2>2, <2>3, <2>4
  <1>6. CASE AcceptFails(l)
    <2>1. LockProtects' /\ BelowCounter' /\ UniqueIds'
      BY <1>6 DEF AcceptFails
    <2>2. OwnConnection'
      BY <1>6 DEF AcceptFails
    <2>. QED
      BY <2>1, <2>2
  <1>. QED
    BY <1>1, <1>2, <1>3, <1>4, <1>5, <1>6 DEF AcceptLoop

\* Of what the invariant speaks of, the other steps change only the phase of
\* a connection that no accept thread works on.
LEMMA OthersNumbered ==
    ASSUME IdInv, ServerTypeOK', UNCHANGED accepting,
           \A c \in Conn : \/ phase'[c] = phase[c]
                           \/ phase[c] = "away" /\ phase'[c] = "queued"
                           \/ /\ phase[c] \in {"login", "session"}
                              /\ phase'[c] \in {"session", "dying", "closed"}
    PROVE  IdInv'
  BY DEF IdInv, LockProtects, OwnConnection, BelowCounter, UniqueIds, Working, Numbering,
         accepting

LEMMA NextNumbered == IdInv /\ [Next]_vars => IdInv'
  <1>. SUFFICES ASSUME IdInv, [Next]_vars
                PROVE  IdInv'
    OBVIOUS
  <1>1. ServerTypeOK /\ ServerTypeOK'
    BY NextTyped DEF IdInv
  <1>2. ASSUME NEW l \in Listener, AcceptLoop(l) \/ AcceptFails(l)
        PROVE  IdInv'
    BY <1>1, <1>2, AcceptNumbered
  <1>3. ASSUME NEW c \in Conn, LoginVerdict(c) \/ SessionLoop(c) \/ Client(c)
        PROVE  IdInv'
    <2>1. UNCHANGED accepting
      BY <1>3 DEF LoginVerdict, SessionLoop, ReadRequest, RequestEnds, Reply, Client,
                  Connect, Ask, Leave
    <2>2. \A d \in Conn : \/ phase'[d] = phase[d]
                          \/ phase[d] = "away" /\ phase'[d] = "queued"
                          \/ /\ phase[d] \in {"login", "session"}
                             /\ phase'[d] \in {"session", "dying", "closed"}
      <3>. USE DEF Becomes
      <3>1. DOMAIN phase = Conn /\ phase = [d \in Conn |-> phase[d]]
        BY <1>1 DEF ServerTypeOK
      <3>2. CASE LoginVerdict(c)
        BY <3>1, <3>2 DEF LoginVerdict
      <3>3. CASE ReadRequest(c)
        BY <3>1, <3>3 DEF ReadRequest
      <3>4. CASE RequestEnds(c)
        BY <3>1, <3>4 DEF RequestEnds
      <3>5. CASE Reply(c)
        BY <3>1, <3>5 DEF Reply
      <3>6. CASE Client(c)
        BY <3>1, <3>6 DEF Client, Connect, Ask, Leave, connection
      <3>. QED
        BY <1>3, <3>2, <3>3, <3>4, <3>5, <3>6 DEF SessionLoop
    <2>. QED
      BY <1>1, <2>1, <2>2, OthersNumbered
  <1>4. CASE Exit \/ UNCHANGED vars
    BY <1>1, <1>4, OthersNumbered DEF Exit, vars, accepting, connection
  <1>. QED
    BY <1>2, <1>3, <1>4 DEF Next

\* IdInv holds for any number of accept threads: the lock makes reading and
\* writing the counter one step.
THEOREM Numbered == Spec => []IdInv
  BY InitNumbered, NextNumbered, PTL DEF Spec

\* pick_connection_id gives every connection its own number, and before its
\* thread starts.
THEOREM IdsAreUnique == Spec => []UniqueIds
  <1>1. IdInv => UniqueIds
    BY DEF IdInv
  <1>. QED
    BY <1>1, Numbered, PTL

-----------------------------------------------------------------------------
(* Sessions *)

LEMMA InitAnswered == Init => SessionInv
  BY InitTyped DEF Init, SessionInv, RequestAtHand, AnswersInStep

\* The last request read is the one the last answer is for.
LEMMA ReplyAnswered ==
    ASSUME SessionInv, ServerTypeOK', NEW c \in Conn, Reply(c)
    PROVE  SessionInv'
  <1>. USE DEF SessionInv, ServerTypeOK, Becomes
  <1>1. /\ phase[c] = "session"
        /\ UNCHANGED heard
        /\ busy' = [busy EXCEPT ![c] = None]
        /\ \A d \in Conn : d # c => phase'[d] = phase[d] /\ answers'[d] = answers[d]
        /\ phase'[c] \in {"session", "closed", "dying"}
    BY DEF Reply
  <1>2. RequestAtHand'
    BY <1>1 DEF RequestAtHand
  <1>3. ASSUME NEW d \in Conn, phase'[d] = "session"
        PROVE  /\ Len(heard'[d]) = Len(answers'[d]) + (IF busy'[d] = None THEN 0 ELSE 1)
               /\ \A i \in DOMAIN answers'[d] : answers'[d][i] = AnswerTo(heard'[d][i])
    <2>1. CASE d # c
      <3>1. phase[d] = "session" /\ busy'[d] = busy[d] /\ answers'[d] = answers[d]
        BY <1>1, <1>3, <2>1
      <3>. QED
        BY <1>1, <3>1, SMTT(20) DEF AnswersInStep
    <2>2. CASE d = c
      <3>1. answers' = [answers EXCEPT ![c] = Append(@, AnswerTo(busy[c]))]
        BY <1>3, <2>2 DEF Reply
      <3>2. busy[c] # None /\ heard[c][Len(heard[c])] = busy[c]
        BY DEF Reply, RequestAtHand
      <3>3. Len(heard[c]) = Len(answers[c]) + 1 /\ answers[c] \in Seq(Answer)
        BY <1>1, <3>2 DEF AnswersInStep
      <3>4. \A i \in DOMAIN answers[c] : answers[c][i] = AnswerTo(heard[c][i])
        BY <1>1 DEF AnswersInStep
      <3>5. answers'[c] = Append(answers[c], AnswerTo(heard[c][Len(answers[c]) + 1]))
        BY <3>1, <3>2, <3>3
      <3>6. Len(answers'[c]) = Len(answers[c]) + 1 /\ DOMAIN answers'[c] = 1..(Len(answers[c]) + 1)
        BY <3>3, <3>5
      <3>7. ASSUME NEW i \in DOMAIN answers'[c]
            PROVE  answers'[c][i] = AnswerTo(heard[c][i])
        <4>1. CASE i \in 1..Len(answers[c])
          BY <3>3, <3>4, <3>5, <4>1, SMTT(20)
        <4>2. CASE i = Len(answers[c]) + 1
          BY <3>3, <3>5, <4>2
        <4>. QED
          BY <3>3, <3>6, <4>1, <4>2
      <3>. QED
        BY <1>1, <2>2, <3>3, <3>6, <3>7
    <2>. QED
      BY <2>1, <2>2
  <1>. QED
    BY <1>2, <1>3 DEF AnswersInStep

LEMMA ReadAnswered ==
    ASSUME SessionInv, ServerTypeOK', NEW c \in Conn, ReadRequest(c)
    PROVE  SessionInv'
  <1>. USE DEF SessionInv, ServerTypeOK, Becomes
  <1>1. /\ phase[c] = "session" /\ busy[c] = None /\ inbox[c] # <<>>
        /\ UNCHANGED answers
        /\ heard' = [heard EXCEPT ![c] = Append(@, Head(inbox[c]))]
        /\ \A d \in Conn : d # c => phase'[d] = phase[d] /\ busy'[d] = busy[d]
        /\ \/ phase'[c] \in {"closed", "dying"} /\ busy'[c] = None
           \/ phase'[c] = "session" /\ busy'[c] = Head(inbox[c])
    BY DEF ReadRequest
  <1>2. Head(inbox[c]) \in Request /\ Head(inbox[c]) # None
    BY <1>1, HeadTail
  <1>3. /\ heard'[c] # <<>>
        /\ heard'[c][Len(heard'[c])] = Head(inbox[c])
        /\ Len(heard'[c]) = Len(heard[c]) + 1
        /\ \A i \in 1..Len(heard[c]) : heard'[c][i] = heard[c][i]
    BY <1>1, <1>2
  <1>4. RequestAtHand'
    BY <1>1, <1>3 DEF RequestAtHand
  <1>5. ASSUME NEW d \in Conn, phase'[d] = "session"
        PROVE  /\ Len(heard'[d]) = Len(answers'[d]) + (IF busy'[d] = None THEN 0 ELSE 1)
               /\ \A i \in DOMAIN answers'[d] : answers'[d][i] = AnswerTo(heard'[d][i])
    <2>1. CASE d # c
      BY <1>1, <1>5, <2>1 DEF AnswersInStep
    <2>2. CASE d = c
      <3>1. Len(heard[c]) = Len(answers[c]) /\ DOMAIN answers[c] = 1..Len(answers[c])
        BY <1>1 DEF AnswersInStep
      <3>2. \A i \in DOMAIN answers[c] : answers[c][i] = AnswerTo(heard[c][i])
        BY <1>1 DEF AnswersInStep
      <3>. QED
        BY <1>1, <1>2, <1>3, <1>5, <2>2, <3>1, <3>2
    <2>. QED
      BY <2>1, <2>2
  <1>. QED
    BY <1>4, <1>5 DEF AnswersInStep

\* The other steps only move a connection from phase to phase, and never
\* into a session with something read.
LEMMA OthersAnswered ==
    ASSUME SessionInv, ServerTypeOK', UNCHANGED <<busy, heard, answers>>,
           \A c \in Conn :
              \/ phase'[c] = phase[c]
              \/ phase[c] \in {"away", "queued", "accepted", "login"}
              \/ phase[c] = "session" /\ phase'[c] \in {"closed", "dying"}
    PROVE  SessionInv'
  <1>. USE DEF SessionInv
  <1>1. RequestAtHand'
    BY DEF RequestAtHand
  <1>2. Len(<<>>) = 0 /\ DOMAIN <<>> = {}
    OBVIOUS
  <1>3. ASSUME NEW c \in Conn, phase'[c] = "session"
        PROVE  /\ Len(heard[c]) = Len(answers[c]) + (IF busy[c] = None THEN 0 ELSE 1)
               /\ \A i \in DOMAIN answers[c] : answers[c][i] = AnswerTo(heard[c][i])
    <2>1. CASE phase[c] = "session"
      BY <2>1 DEF AnswersInStep
    <2>2. CASE phase[c] # "session"
      <3>1. heard[c] = <<>> /\ answers[c] = <<>> /\ busy[c] = None
        BY <1>3, <2>2 DEF RequestAtHand
      <3>. QED
        BY <1>2, <3>1
    <2>. QED
      BY <2>1, <2>2
  <1>4. AnswersInStep'
    BY <1>3 DEF AnswersInStep
  <1>. QED
    BY <1>1, <1>4

\* IdInv says that an accept thread starts a thread only for a connection
\* that has none.
LEMMA NextAnswered == IdInv /\ SessionInv /\ [Next]_vars => SessionInv'
  <1>. SUFFICES ASSUME IdInv, SessionInv, [Next]_vars
                PROVE  SessionInv'
    OBVIOUS
  <1>1. ServerTypeOK /\ ServerTypeOK'
    BY NextTyped DEF SessionInv
  <1>2. ASSUME NEW l \in Listener, AcceptLoop(l) \/ AcceptFails(l)
        PROVE  SessionInv'
    <2>. USE DEF ServerTypeOK, Becomes, session, connection
    <2>1. CASE Accept(l)
      BY <1>1, <2>1, OthersAnswered DEF Accept
    <2>2. CASE Lock(l)
      BY <1>1, <2>2, OthersAnswered DEF Lock
    <2>3. CASE ReadCounter(l)
      BY <1>1, <2>3, OthersAnswered DEF ReadCounter
    <2>4. CASE WriteCounter(l)
      BY <1>1, <2>4, OthersAnswered DEF WriteCounter
    <2>5. CASE AcceptFails(l)
      BY <1>1, <2>5, OthersAnswered DEF AcceptFails
    <2>6. CASE StartThread(l)
      <3>1. sock[l] \in Conn /\ phase[sock[l]] = "accepted"
        BY <2>6 DEF StartThread, IdInv, OwnConnection, Working, Numbering
      <3>. QED
        BY <1>1, <2>6, <3>1, OthersAnswered DEF StartThread
    <2>. QED
      BY <1>2, <2>1, <2>2, <2>3, <2>4, <2>5, <2>6 DEF AcceptLoop
  <1>3. ASSUME NEW c \in Conn, LoginVerdict(c) \/ SessionLoop(c)
        PROVE  SessionInv'
    <2>1. CASE LoginVerdict(c)
      BY <1>1, <2>1, OthersAnswered DEF LoginVerdict, Becomes, session, ServerTypeOK
    <2>2. CASE RequestEnds(c)
      <3>1. /\ phase[c] = "session" /\ UNCHANGED <<busy, heard, answers>>
            /\ \/ phase' = [phase EXCEPT ![c] = "closed"]
               \/ phase' = [phase EXCEPT ![c] = "dying"]
        BY <2>2 DEF RequestEnds, Becomes, session
      <3>2. \A d \in Conn : phase'[d] = phase[d] \/ (d = c /\ phase'[d] \in {"closed", "dying"})
        BY <1>1, <3>1 DEF ServerTypeOK
      <3>. QED
        BY <1>1, <3>1, <3>2, OthersAnswered
    <2>. QED
      BY <1>1, <1>3, <2>1, <2>2, ReadAnswered, ReplyAnswered DEF SessionLoop
  <1>4. ASSUME NEW c \in Conn, Client(c)
        PROVE  SessionInv'
    <2>1. UNCHANGED <<busy, heard, answers>>
      BY <1>4 DEF Client, Connect, Ask, Leave, session
    <2>2. \A d \in Conn : phase'[d] = phase[d] \/ phase[d] = "away"
      BY <1>1, <1>4 DEF Client, Connect, Ask, Leave, Becomes, connection, ServerTypeOK
    <2>. QED
      BY <1>1, <2>1, <2>2, OthersAnswered
  <1>5. CASE Exit \/ UNCHANGED vars
    BY <1>1, <1>5, OthersAnswered DEF Exit, vars, session, connection
  <1>. QED
    BY <1>2, <1>3, <1>4, <1>5 DEF Next

\* SessionInv holds for any number of connections and requests.
THEOREM Sessions == Spec => []SessionInv
  BY InitAnswered, NextAnswered, Numbered, PTL DEF Spec

\* interact answers the requests of a session one by one and in order.
THEOREM AnswersComeInStep == Spec => []AnswersInStep
  <1>1. SessionInv => AnswersInStep
    BY DEF SessionInv
  <1>. QED
    BY <1>1, Sessions, PTL

LEMMA EndStep ==
    ASSUME IdInv, SessionInv, Next, NEW c \in Conn, phase[c] = "session", phase'[c] # "session"
    PROVE  ~there[c] \/ heard'[c][Len(heard'[c])] \in {"empty", "other"} \cup Fatal
  <1>. USE DEF ServerTypeOK, Becomes, connection
  <1>1. ServerTypeOK
    BY DEF SessionInv
  <1>2. ~Exit /\ \A d \in Conn : ~Client(d)
    BY <1>1 DEF Exit, Client, Connect, Ask, Leave
  <1>3. ASSUME NEW l \in Listener
        PROVE  ~(AcceptLoop(l) \/ AcceptFails(l))
    <2>1. ~Accept(l) /\ ~Lock(l) /\ ~ReadCounter(l) /\ ~WriteCounter(l) /\ ~AcceptFails(l)
      BY <1>1 DEF Accept, Lock, ReadCounter, WriteCounter, AcceptFails
    <2>2. ~StartThread(l)
      BY <1>1 DEF StartThread, IdInv, OwnConnection, Working, Numbering
    <2>. QED
      BY <2>1, <2>2 DEF AcceptLoop
  <1>4. LoginVerdict(c) \/ SessionLoop(c)
    <2>1. ASSUME NEW d \in Conn, d # c
          PROVE  ~LoginVerdict(d) /\ ~SessionLoop(d)
      BY <1>1, <2>1 DEF LoginVerdict, SessionLoop, ReadRequest, RequestEnds, Reply
    <2>. QED
      BY <1>2, <1>3, <2>1 DEF Next
  <1>5. CASE ReadRequest(c)
    <2>1. heard'[c] = Append(heard[c], Head(inbox[c])) /\ Head(inbox[c]) \in {"empty"} \cup Fatal
      BY <1>1, <1>5 DEF ReadRequest
    <2>. QED
      BY <1>1, <2>1
  <1>6. CASE RequestEnds(c)
    BY <1>6 DEF RequestEnds
  <1>7. CASE Reply(c)
    BY <1>1, <1>7 DEF Reply, SessionInv, RequestAtHand
  <1>. QED
    BY <1>4, <1>5, <1>6, <1>7 DEF SessionLoop, LoginVerdict

\* A session ends only by what its own client did, however many others
\* there are.
THEOREM SessionsAreSeparate == Spec => EndedByOwnClient
  <1>1. IdInv /\ SessionInv /\ [Next]_vars =>
            [\A c \in Conn : phase[c] = "session" /\ phase'[c] # "session" =>
                ~there[c] \/ heard'[c][Len(heard'[c])] \in {"empty", "other"} \cup Fatal]_vars
    BY EndStep
  <1>. QED
    BY <1>1, Numbered, Sessions, PTL DEF Spec, EndedByOwnClient

-----------------------------------------------------------------------------
(* The end of the process *)

CauseInv == \A c \in Conn : phase[c] = "dying" => FailedForCause(c)

EndInv == ~up => \/ \E l \in Listener : apc[l] = "dying"
                \/ \E c \in Conn : phase[c] = "dying"

\* A step that reads no request fails for a cause if it fails at all.
LEMMA OthersFail ==
    ASSUME CauseInv, UNCHANGED heard,
           \A c \in Conn : phase'[c] = "dying" =>
              \/ phase[c] = "dying" /\ (there'[c] => there[c])
              \/ heard[c] = <<>>
              \/ ~there'[c]
    PROVE  CauseInv'
  BY DEF CauseInv, FailedForCause

LEMMA CauseStep == SessionInv /\ CauseInv /\ [Next]_vars => CauseInv'
  <1>. SUFFICES ASSUME SessionInv, CauseInv, [Next]_vars
                PROVE  CauseInv'
    OBVIOUS
  <1>. USE DEF ServerTypeOK, Becomes, connection, session
  <1>1. ServerTypeOK
    BY DEF SessionInv
  <1>2. ASSUME NEW l \in Listener, AcceptLoop(l) \/ AcceptFails(l)
        PROVE  CauseInv'
    <2>1. UNCHANGED <<heard, there>>
      BY <1>2 DEF AcceptLoop, AcceptFails, Accept, Lock, ReadCounter, WriteCounter, StartThread
    <2>2. \A c \in Conn : phase'[c] = "dying" => phase[c] = "dying"
      BY <1>1, <1>2 DEF AcceptLoop, AcceptFails, Accept, Lock, ReadCounter, WriteCounter,
                       StartThread
    <2>. QED
      BY <2>1, <2>2, OthersFail
  <1>3. ASSUME NEW c \in Conn, LoginVerdict(c)
        PROVE  CauseInv'
    <2>1. phase[c] = "login" /\ heard[c] = <<>> /\ UNCHANGED <<heard, there>>
      BY <1>3 DEF LoginVerdict, SessionInv, RequestAtHand
    <2>2. \A d \in Conn : d # c => phase'[d] = phase[d]
      BY <1>1, <1>3 DEF LoginVerdict
    <2>. QED
      BY <2>1, <2>2, OthersFail
  <1>4. ASSUME NEW c \in Conn, ReadRequest(c)
        PROVE  CauseInv'
    <2>1. /\ UNCHANGED there
          /\ heard' = [heard EXCEPT ![c] = Append(@, Head(inbox[c]))]
          /\ \A d \in Conn : d # c => phase'[d] = phase[d] /\ heard'[d] = heard[d]
          /\ phase'[c] = "dying" => Head(inbox[c]) \in Fatal
      BY <1>1, <1>4 DEF ReadRequest
    <2>2. heard'[c][Len(heard'[c])] = Head(inbox[c])
      BY <1>1, <2>1
    <2>. QED
      BY <2>1, <2>2 DEF CauseInv, FailedForCause
  <1>5. ASSUME NEW c \in Conn, RequestEnds(c) \/ Reply(c)
        PROVE  CauseInv'
    <2>1. UNCHANGED <<heard, there>> /\ phase[c] = "session"
      BY <1>5 DEF RequestEnds, Reply
    <2>2. phase'[c] = "dying" => ~there[c]
      BY <1>1, <1>5 DEF RequestEnds, Reply
    <2>3. \A d \in Conn : d # c => phase'[d] = phase[d]
      BY <1>1, <1>5 DEF RequestEnds, Reply
    <2>. QED
      BY <2>1, <2>2, <2>3, OthersFail
  <1>6. ASSUME NEW c \in Conn, Client(c)
        PROVE  CauseInv'
    <2>1. UNCHANGED heard
      BY <1>6 DEF Client, Connect, Ask, Leave
    <2>2. \A d \in Conn : phase'[d] = "dying" => phase[d] = "dying" /\ (there'[d] => there[d])
      BY <1>1, <1>6 DEF Client, Connect, Ask, Leave
    <2>. QED
      BY <2>1, <2>2, OthersFail
  <1>7. CASE Exit \/ UNCHANGED vars
    BY <1>7, OthersFail DEF Exit, vars
  <1>. QED
    BY <1>2, <1>3, <1>4, <1>5, <1>6, <1>7 DEF Next, SessionLoop

\* Only Exit ends the process; what it found stays.
LEMMA EndInvStep == EndInv /\ [Next]_vars => EndInv'
  <1>. SUFFICES ASSUME EndInv, [Next]_vars
                PROVE  EndInv'
    OBVIOUS
  <1>1. CASE Exit
    BY <1>1 DEF Exit, EndInv, accepting, connection
  <1>2. ASSUME NEW l \in Listener, AcceptLoop(l) \/ AcceptFails(l)
        PROVE  EndInv'
    BY <1>2 DEF EndInv, AcceptLoop, AcceptFails, Accept, Lock, ReadCounter, WriteCounter,
               StartThread
  <1>3. ASSUME NEW c \in Conn, LoginVerdict(c) \/ SessionLoop(c)
        PROVE  EndInv'
    BY <1>3 DEF EndInv, LoginVerdict, SessionLoop, ReadRequest, RequestEnds, Reply
  <1>4. ASSUME NEW c \in Conn, Client(c)
        PROVE  EndInv'
    BY <1>4 DEF EndInv, Client, Connect, Ask, Leave, accepting, connection
  <1>5. CASE UNCHANGED vars
    BY <1>5 DEF EndInv, vars, accepting, connection
  <1>. QED
    BY <1>1, <1>2, <1>3, <1>4, <1>5 DEF Next

\* The process, and with it every session, ends only for the failure of an
\* accept thread, an exception in a login, a client that was gone, or a
\* request with an exception nothing guards against.
THEOREM FailuresEndServer == Spec => []OnlyFailuresEndServer
  <1>1. Init => CauseInv /\ EndInv
    BY DEF Init, CauseInv, EndInv
  <1>2. CauseInv /\ EndInv => OnlyFailuresEndServer
    BY DEF CauseInv, EndInv, OnlyFailuresEndServer
  <1>. QED
    BY <1>1, <1>2, CauseStep, EndInvStep, Sessions, PTL DEF Spec
=============================================================================
