---------------------------- MODULE ConnectProofs ----------------------------
(***************************************************************************)
(* The safety properties of Connect, for any targets, redirects, restarts, *)
(* sockets and bounds.  What a call may rely on is the layout of the       *)
(* heap: the object the innermost call owns is the last one, and the ones  *)
(* its callers own, and those they were given, lie below it in the order   *)
(* of the calls.  A call writes to its own object only.                    *)
(***************************************************************************)
EXTENDS Connect, FiniteSetTheorems, TLAPS

Socket == OwnSock \cup OtherSock

ToldValues == [database : Database, user : User]

Frame == [given : Nat, was : Target, own : Nat, inner : 0..MaxRounds,
          err : CandidateFailures \cup {None}, todo : Seq(Socket), trying : BOOLEAN,
          found : SUBSET Socket, told : ToldValues, moved : BOOLEAN]

bottom == stack[Len(stack)]

\* The layout of the heap.
Layout ==
    /\ heap \in Seq(Target)
    /\ stack \in Seq(Frame)
    /\ stack # <<>>
    /\ top.own = Len(heap)
    /\ \A k \in DOMAIN stack : stack[k].given \in 1..(stack[k].own - 1)
    /\ \A k, l \in DOMAIN stack : k < l => stack[l].own <= stack[k].given

\* Which phase goes with which exception, depth and result.
Control ==
    /\ haveUnix \in BOOLEAN
    /\ cpc \in {"round", "scan", "unix", "tcp", "noSock", "opened", "login", "answer",
                "raise", "done", "failed"}
    /\ exc \in Exceptions \cup {None}
    /\ cpc \in {"raise", "failed"} <=> exc # None
    /\ peer \in Path \cup Host \cup {None, "localhost"}
    /\ logins \in 0..MaxLogins
    /\ cpc = "done" <=> effective # None
    /\ Len(stack) <= MaxDepth + 1
    /\ cpc = "scan" => Len(stack) <= MaxDepth

Agrees(t, told) == t.database = told.database /\ t.user = told.user

\* A call connects to the database, and as the user, it was told last.
Told == \A k \in DOMAIN stack : Agrees(heap[stack[k].own], stack[k].told)

\* The socket is connected to the target at hand, unless a restart has given
\* that another address, and the latest login was for that target.
Here ==
    /\ cpc \in {"opened", "login", "answer"} /\ ~top.moved =>
          peer \in {ConnectUnix(own), ConnectTcp(own)}
    /\ cpc \in {"login", "answer"} /\ ~top.moved => ~own.at.tls
    /\ cpc = "answer" => offer.to = peer /\ offer.database = own.database
    /\ CredentialsFit
    /\ EffectiveTarget

\* Without an error so far there was nothing to try, and the reason was that
\* the target is a Unix socket.
NoErrorYet ==
    /\ cpc = "tcp" /\ top.err = None => ConnectUnix(own) = None \/ ~haveUnix
    /\ cpc = "noSock" /\ top.err = None => ~haveUnix
    /\ ErrorKnown

-----------------------------------------------------------------------------
(* Sequences and records.                                                  *)

LEMMA OneOrMore == \A n \in Nat \ {0} : n > 1 <=> n # 1
  OBVIOUS

LEMMA Push ==
    ASSUME NEW S, NEW s \in Seq(S), NEW x \in S
    PROVE  /\ <<x>> \o s \in Seq(S)
           /\ Len(<<x>> \o s) = Len(s) + 1
           /\ (<<x>> \o s)[1] = x
           /\ \A k \in 1..Len(s) : (<<x>> \o s)[k + 1] = s[k]
  OBVIOUS

LEMMA Pop ==
    ASSUME NEW S, NEW s \in Seq(S), s # <<>>
    PROVE  /\ Tail(s) \in Seq(S)
           /\ Len(Tail(s)) = Len(s) - 1
           /\ \A k \in 1..(Len(s) - 1) : Tail(s)[k] = s[k + 1]
  OBVIOUS

LEMMA Unfold ==
    ASSUME NEW S, NEW s \in Seq(S), s # <<>>
    PROVE  s = <<s[1]>> \o Tail(s)
  <1> DEFINE t == <<s[1]>> \o Tail(s)
  <1>1. /\ Tail(s) \in Seq(S)
        /\ Len(Tail(s)) = Len(s) - 1
        /\ \A k \in 1..(Len(s) - 1) : Tail(s)[k] = s[k + 1]
    BY Pop
  <1>2. /\ t \in Seq(S)
        /\ Len(t) = Len(s)
        /\ t[1] = s[1]
        /\ \A k \in 1..(Len(s) - 1) : t[k + 1] = Tail(s)[k]
    BY <1>1, Push
  <1> HIDE DEF t
  <1>3. ASSUME NEW k \in 1..Len(s) PROVE t[k] = s[k]
    <2>1. CASE k = 1
      BY <1>2, <2>1
    <2>2. CASE k # 1
      <3>1. k - 1 \in 1..(Len(s) - 1) /\ (k - 1) + 1 = k
        BY <2>2
      <3>2. t[(k - 1) + 1] = s[(k - 1) + 1]
        BY <1>1, <1>2, <3>1
      <3> QED
        BY <3>1, <3>2
    <2> QED
      BY <2>1, <2>2
  <1>4. t = s
    BY <1>2, <1>3
  <1> QED
    BY <1>4 DEF t

LEMMA Cut ==
    ASSUME NEW S, NEW s \in Seq(S), NEW n \in 1..Len(s)
    PROVE  /\ SubSeq(s, 1, n) \in Seq(S)
           /\ Len(SubSeq(s, 1, n)) = n
           /\ \A k \in 1..n : SubSeq(s, 1, n)[k] = s[k]
  OBVIOUS

LEMMA Grow ==
    ASSUME NEW S, NEW s \in Seq(S), NEW x \in S
    PROVE  /\ Append(s, x) \in Seq(S)
           /\ Len(Append(s, x)) = Len(s) + 1
           /\ Append(s, x)[Len(s) + 1] = x
           /\ \A k \in 1..Len(s) : Append(s, x)[k] = s[k]
  OBVIOUS

\* scan_sockdir returns a list of sockets.
LEMMA SocketList ==
    ASSUME NEW S \in SUBSET Socket, NEW s \in SetToSeqs(S)
    PROVE  s \in Seq(Socket)
  <1>1. IsFiniteSet(S)
    BY ConnectAssumption, FS_Subset DEF Socket
  <1>2. Cardinality(S) \in Nat
    BY <1>1, FS_CardinalityType
  <1>3. s \in [1..Cardinality(S) -> S]
    BY DEF SetToSeqs
  <1>4. s \in [1..Cardinality(S) -> Socket]
    BY <1>3
  <1> QED
    BY <1>2, <1>4

LEMMA Candidates ==
    ASSUME NEW usocks \in ScanSockdir
    PROVE  usocks \in Seq(Socket) /\ ToSet(usocks) \in SUBSET Socket
  <1>1. PICK s \in UNION {SetToSeqs(S) : S \in SUBSET OwnSock},
             t \in UNION {SetToSeqs(S) : S \in SUBSET OtherSock} : usocks = s \o t
    BY DEF ScanSockdir
  <1>2. s \in Seq(Socket) /\ t \in Seq(Socket)
    BY <1>1, SocketList DEF Socket
  <1> QED
    BY <1>1, <1>2 DEF ToSet

-----------------------------------------------------------------------------
(* What a step does to the heap and the calls.                             *)

\* The calls go on, and the innermost one may write to its own object.
Writes ==
    /\ stack' \in Seq(Frame)
    /\ Len(stack') = Len(stack)
    /\ stack'[1].given = top.given /\ stack'[1].was = top.was /\ stack'[1].own = top.own
    /\ \A k \in 2..Len(stack) : stack'[k] = stack[k]
    /\ heap' \in Seq(Target)
    /\ Len(heap') = Len(heap)
    /\ \A i \in 1..(Len(heap) - 1) : heap'[i] = heap[i]

\* The innermost call writes to its own object and calls connect with that
\* or with a new object.
Calls ==
    /\ stack' \in Seq(Frame)
    /\ Len(stack') = Len(stack) + 1
    /\ stack'[2].given = top.given /\ stack'[2].was = top.was /\ stack'[2].own = top.own
    /\ \A k \in 2..Len(stack) : stack'[k + 1] = stack[k]
    /\ heap' \in Seq(Target)
    /\ Len(heap') > Len(heap)
    /\ \A i \in 1..(Len(heap) - 1) : heap'[i] = heap[i]
    /\ \A i \in Len(heap)..Len(heap') : /\ heap'[i].user = own.user
                                        /\ heap'[i].database = own.database
    /\ stack'[1].own = Len(heap')
    /\ stack'[1].given \in Len(heap)..(Len(heap') - 1)
    /\ stack'[1].was = heap'[stack'[1].given]
    /\ stack'[1].told = top.told
    /\ stack'[2].told = top.told

\* The innermost call is over.
Returns ==
    /\ Len(stack) > 1
    /\ stack' \in Seq(Frame)
    /\ Len(stack') = Len(stack) - 1
    /\ stack'[1].given = caller.given /\ stack'[1].was = caller.was
    /\ stack'[1].own = caller.own /\ stack'[1].told = caller.told
    /\ \A k \in 3..Len(stack) : stack'[k - 1] = stack[k]
    /\ heap' \in Seq(Target)
    /\ Len(heap') = caller.own
    /\ \A i \in 1..caller.own : heap'[i] = heap[i]

LEMMA FrameFields ==
    ASSUME NEW f \in Frame
    PROVE  /\ f.given \in Nat /\ f.was \in Target /\ f.own \in Nat /\ f.inner \in 0..MaxRounds
           /\ f.err \in CandidateFailures \cup {None} /\ f.todo \in Seq(Socket)
           /\ f.trying \in BOOLEAN /\ f.found \in SUBSET Socket /\ f.told \in ToldValues
           /\ f.moved \in BOOLEAN
  BY DEF Frame

LEMMA OwnTarget ==
    ASSUME Layout
    PROVE  /\ own \in Target /\ top \in Frame /\ Len(heap) \in Nat \ {0} /\ Len(stack) \in Nat \ {0}
           /\ Tail(stack) \in Seq(Frame)
           /\ heap[Len(heap)] = own
  <1>1. heap \in Seq(Target) /\ stack \in Seq(Frame) /\ stack # <<>> /\ top.own = Len(heap)
    BY DEF Layout
  <1>2. Len(stack) \in Nat \ {0} /\ Tail(stack) \in Seq(Frame) /\ top \in Frame
    BY <1>1, Pop DEF top
  <1>3. Len(heap) \in Nat \ {0}
    BY <1>1, <1>2 DEF Layout, top
  <1> QED
    BY <1>1, <1>2, <1>3 DEF own

LEMMA UpdateWrites ==
    ASSUME Layout, NEW f \in Frame, Update(f),
           f.given = top.given, f.was = top.was, f.own = top.own, heap' = heap
    PROVE  Writes /\ top' = f
  <1>1. /\ Tail(stack) \in Seq(Frame)
        /\ Len(Tail(stack)) = Len(stack) - 1
        /\ \A k \in 1..(Len(stack) - 1) : Tail(stack)[k] = stack[k + 1]
    BY Pop DEF Layout
  <1>2. /\ stack' \in Seq(Frame)
        /\ Len(stack') = Len(stack)
        /\ stack'[1] = f
        /\ \A k \in 1..(Len(stack) - 1) : stack'[k + 1] = Tail(stack)[k]
    BY <1>1, Push, OwnTarget DEF Update
  <1>3. \A k \in 2..Len(stack) : stack'[k] = stack[k]
    <2> TAKE k \in 2..Len(stack)
    <2>1. k - 1 \in 1..(Len(stack) - 1) /\ k = (k - 1) + 1
      BY OwnTarget
    <2> QED
      BY <1>1, <1>2, <2>1
  <1> QED
    BY <1>2, <1>3, OwnTarget DEF Writes, Layout, own, top

LEMMA CallCalls ==
    ASSUME Layout, NEW h \in Seq(Target), NEW ref \in Len(heap)..Len(h),
           NEW frames \in Seq(Frame), Call(h, ref, frames),
           Len(frames) = Len(stack),
           frames[1].given = top.given, frames[1].was = top.was,
           frames[1].own = top.own, frames[1].told = top.told,
           \A k \in 2..Len(stack) : frames[k] = stack[k],
           \A i \in 1..(Len(heap) - 1) : h[i] = heap[i],
           \A i \in Len(heap)..Len(h) : /\ h[i].user = own.user
                                        /\ h[i].database = own.database
    PROVE  /\ Calls
           /\ top'.was = h[ref] /\ top'.inner = 0 /\ own' = h[ref]
           /\ stack'[2] = frames[1]
           /\ heap'[Len(heap)] = h[Len(heap)]
  <1> DEFINE frame == [given |-> ref, was |-> h[ref], own |-> Len(heap'), inner |-> 0,
                       err |-> None, todo |-> <<>>, trying |-> FALSE, found |-> {},
                       told |-> Head(frames).told, moved |-> FALSE]
  <1>0. ref \in 1..Len(h) /\ h[ref] \in Target
    BY OwnTarget
  <1>1. /\ heap' \in Seq(Target)
        /\ Len(heap') = Len(h) + 1
        /\ heap'[Len(h) + 1] = h[ref]
        /\ \A i \in 1..Len(h) : heap'[i] = h[i]
    BY <1>0, Grow DEF Call, Entered
  <1>2. stack' = <<frame>> \o frames
    BY DEF Call
  <1>3. Head(frames) = frames[1] /\ frames[1] \in Frame
    BY OwnTarget
  <1>4. frame \in Frame
    <2>1. frames[1].told \in ToldValues
      BY <1>3 DEF Frame
    <2>2. Len(heap') \in Nat /\ ref \in Nat
      BY <1>0, <1>1
    <2>3. 0 \in 0..MaxRounds /\ None \in CandidateFailures \cup {None}
          /\ <<>> \in Seq(Socket) /\ {} \in SUBSET Socket
      BY ConnectAssumption
    <2> QED
      BY <1>0, <1>3, <2>1, <2>2, <2>3 DEF Frame
  <1>5. /\ stack' \in Seq(Frame)
        /\ Len(stack') = Len(stack) + 1
        /\ stack'[1] = frame
        /\ \A k \in 1..Len(stack) : stack'[k + 1] = frames[k]
    <2> DEFINE pushed == <<frame>> \o frames
    <2> HIDE DEF frame
    <2>1. /\ pushed \in Seq(Frame)
          /\ Len(pushed) = Len(frames) + 1
          /\ pushed[1] = frame
          /\ \A k \in 1..Len(frames) : pushed[k + 1] = frames[k]
      BY <1>4, Push
    <2>2. stack' = pushed
      BY <1>2
    <2> HIDE DEF pushed
    <2> QED
      BY <2>1, <2>2
  <1>6. stack'[2] = frames[1]
    <2>1. 1 \in 1..Len(stack) /\ 1 + 1 = 2
      BY OwnTarget
    <2>2. stack'[1 + 1] = frames[1]
      BY <1>5, <2>1
    <2> QED
      BY <2>2
  <1>7. \A k \in 2..Len(stack) : stack'[k + 1] = stack[k]
    BY <1>5
  <1>8. \A i \in Len(heap)..Len(heap') : /\ heap'[i].user = own.user
                                         /\ heap'[i].database = own.database
    <2>1. \A i \in Len(heap)..Len(h) : heap'[i] = h[i]
      BY <1>1, OwnTarget
    <2>2. \A i \in Len(heap)..Len(heap') : i \in Len(heap)..Len(h) \/ i = Len(h) + 1
      BY <1>1, OwnTarget
    <2>3. heap'[Len(h) + 1].user = own.user /\ heap'[Len(h) + 1].database = own.database
      BY <1>1
    <2> QED
      BY <2>1, <2>2, <2>3
  <1>9. \A i \in 1..(Len(heap) - 1) : heap'[i] = heap[i]
    <2>1. \A i \in 1..(Len(heap) - 1) : i \in 1..Len(h)
      BY <1>0, OwnTarget
    <2> QED
      BY <1>1, <2>1
  <1>10. /\ Len(heap') > Len(heap)
         /\ ref \in Len(heap)..(Len(heap') - 1)
         /\ heap'[ref] = h[ref]
    BY <1>0, <1>1, OwnTarget
  <1>11. Calls
    BY <1>1, <1>3, <1>5, <1>6, <1>7, <1>8, <1>9, <1>10 DEF Calls
  <1>12. top'.was = h[ref] /\ top'.inner = 0 /\ own' = h[ref]
    BY <1>1, <1>5 DEF top, own
  <1>13. heap'[Len(heap)] = h[Len(heap)]
    <2>1. Len(heap) \in 1..Len(h)
      BY <1>0, OwnTarget
    <2> QED
      BY <1>1, <2>1
  <1> QED
    BY <1>6, <1>11, <1>12, <1>13

LEMMA LeaveReturns ==
    ASSUME Layout, Len(stack) > 1, heap' = SubSeq(heap, 1, caller.own),
           NEW f \in Frame, stack' = <<f>> \o Tail(Tail(stack)),
           f.given = caller.given, f.was = caller.was, f.own = caller.own,
           f.told = caller.told
    PROVE  Returns /\ top' = f
  <1>1. caller \in Frame /\ caller.own \in 1..Len(heap)
    <2>1. 1 \in DOMAIN stack /\ 2 \in DOMAIN stack
      BY OwnTarget DEF Layout
    <2>2. caller \in Frame /\ caller.own \in Nat /\ top.given \in Nat
      BY <2>1, OwnTarget, FrameFields DEF Layout, caller
    <2>3. /\ caller.own <= top.given
          /\ top.given \in 1..(top.own - 1)
          /\ caller.given \in 1..(caller.own - 1)
          /\ top.own = Len(heap)
      BY <2>1 DEF Layout, caller, top
    <2> QED
      BY <2>2, <2>3, OwnTarget
  <1>2. /\ heap' \in Seq(Target)
        /\ Len(heap') = caller.own
        /\ \A i \in 1..caller.own : heap'[i] = heap[i]
    BY <1>1, Cut DEF Layout
  <1>3. /\ Tail(Tail(stack)) \in Seq(Frame)
        /\ Len(Tail(Tail(stack))) = Len(stack) - 2
        /\ \A k \in 1..(Len(stack) - 2) : Tail(Tail(stack))[k] = stack[k + 2]
    <2> DEFINE rest == Tail(stack)
    <2>1. /\ rest \in Seq(Frame)
          /\ Len(rest) = Len(stack) - 1
          /\ \A k \in 1..(Len(stack) - 1) : rest[k] = stack[k + 1]
      BY Pop DEF Layout
    <2> HIDE DEF rest
    <2>2. rest # <<>>
      BY <2>1, OwnTarget
    <2>3. /\ Tail(rest) \in Seq(Frame)
          /\ Len(Tail(rest)) = Len(rest) - 1
          /\ \A k \in 1..(Len(rest) - 1) : Tail(rest)[k] = rest[k + 1]
      BY <2>1, <2>2, Pop
    <2>4. /\ Len(Tail(rest)) = Len(stack) - 2
          /\ \A k \in 1..(Len(stack) - 2) : Tail(rest)[k] = stack[k + 2]
      BY <2>1, <2>3, OwnTarget
    <2> QED
      BY <2>3, <2>4 DEF rest
  <1>4. /\ stack' \in Seq(Frame)
        /\ Len(stack') = Len(stack) - 1
        /\ stack'[1] = f
        /\ \A k \in 1..(Len(stack) - 2) : stack'[k + 1] = stack[k + 2]
    BY <1>3, Push, OwnTarget, SMTT(20)
  <1>5. \A k \in 3..Len(stack) : stack'[k - 1] = stack[k]
    <2> TAKE k \in 3..Len(stack)
    <2>1. k - 2 \in 1..(Len(stack) - 2) /\ (k - 2) + 1 = k - 1 /\ (k - 2) + 2 = k
      BY OwnTarget
    <2> QED
      BY <1>4, <2>1
  <1> QED
    BY <1>2, <1>4, <1>5 DEF Returns, top

\* A write of the innermost call to its own object.
LEMMA OwnWrites ==
    ASSUME Layout, NEW f \in Frame, Update(f),
           f.given = top.given, f.was = top.was, f.own = top.own,
           NEW t \in Target, heap' = [heap EXCEPT ![top.own] = t]
    PROVE  Writes /\ top' = f /\ heap'[Len(heap)] = t
  <1>1. /\ heap \in Seq(Target) /\ top.own = Len(heap) /\ Len(heap) \in 1..Len(heap)
    BY OwnTarget DEF Layout
  <1>2. /\ heap' \in Seq(Target)
        /\ Len(heap') = Len(heap)
        /\ \A i \in 1..(Len(heap) - 1) : heap'[i] = heap[i]
        /\ heap'[Len(heap)] = t
    BY <1>1
  <1>3. /\ Tail(stack) \in Seq(Frame)
        /\ Len(Tail(stack)) = Len(stack) - 1
        /\ \A k \in 1..(Len(stack) - 1) : Tail(stack)[k] = stack[k + 1]
    BY Pop DEF Layout
  <1>4. /\ stack' \in Seq(Frame)
        /\ Len(stack') = Len(stack)
        /\ stack'[1] = f
        /\ \A k \in 1..(Len(stack) - 1) : stack'[k + 1] = Tail(stack)[k]
    BY <1>3, Push, OwnTarget DEF Update
  <1>5. \A k \in 2..Len(stack) : stack'[k] = stack[k]
    <2> TAKE k \in 2..Len(stack)
    <2>1. k - 1 \in 1..(Len(stack) - 1) /\ k = (k - 1) + 1
      BY OwnTarget
    <2> QED
      BY <1>3, <1>4, <2>1
  <1> QED
    BY <1>2, <1>4, <1>5 DEF Writes, top

-----------------------------------------------------------------------------
(* The actions, one by one.                                                *)

LEMMA NextRoundFrame ==
    ASSUME Layout, RoundAllowed, NEW err \in CandidateFailures \cup {None},
           NEW usocks \in Seq(Socket), ToSet(usocks) \in SUBSET Socket
    PROVE  /\ NextRound(err, usocks) \in Frame
           /\ NextRound(err, usocks).given = top.given
           /\ NextRound(err, usocks).was = top.was
           /\ NextRound(err, usocks).own = top.own
  <1>1. top \in Frame
    BY OwnTarget
  <1>2. top.inner + 1 \in 0..MaxRounds
    BY <1>1, FrameFields, ConnectAssumption DEF RoundAllowed
  <1> QED
    BY <1>1, <1>2 DEF NextRound, Frame

LEMMA StartRoundStep ==
    ASSUME Layout, StartRound
    PROVE  Writes /\ top' = NextRound(None, <<>>) /\ heap' = heap
  <1>1. <<>> \in Seq(Socket) /\ ToSet(<<>>) \in SUBSET Socket
    BY DEF ToSet
  <1>2. RoundAllowed /\ Update(NextRound(None, <<>>)) /\ heap' = heap
    BY DEF StartRound
  <1> QED
    BY <1>1, <1>2, NextRoundFrame, UpdateWrites

LEMMA ScanStep ==
    ASSUME Layout, Scan
    PROVE  \E err \in CandidateFailures \cup {None}, usocks \in Seq(Socket) :
              /\ Writes /\ top' = NextRound(err, usocks) /\ heap' = heap
              /\ ToSet(usocks) \in SUBSET Socket
  <1>1. <<>> \in Seq(Socket) /\ ToSet(<<>>) \in SUBSET Socket
    BY DEF ToSet
  <1>2. PICK err \in CandidateFailures \cup {None}, usocks \in Seq(Socket) :
            Update(NextRound(err, usocks)) /\ ToSet(usocks) \in SUBSET Socket
    BY <1>1, Candidates DEF Scan, CandidateFailures
  <1>3. RoundAllowed /\ heap' = heap
    BY DEF Scan
  <1> QED
    BY <1>2, <1>3, NextRoundFrame, UpdateWrites

LEMMA FailedStep ==
    ASSUME Layout, heap' = heap, NEW next, Failed("OSError", next)
    PROVE  Writes /\ top' = [top EXCEPT !.err = "OSError"]
  <1>1. [top EXCEPT !.err = "OSError"] \in Frame
    BY OwnTarget DEF Frame, CandidateFailures
  <1> QED
    BY <1>1, OwnTarget, UpdateWrites DEF Failed, Frame

\* What a server names of the target at hand.
LEMMA NamedTarget ==
    ASSUME NEW t \in Target, NEW told \in ToldValues, NEW r \in Redirect \cup Restart
    PROVE  /\ Named(t, r) \in Target
           /\ Heard(told, r) \in ToldValues
           /\ Agrees(t, told) => Agrees(Named(t, r), Heard(told, r))
           /\ r.at = None => Named(t, r).at = t.at
  <1>1. /\ r.at \in Address \cup {None}
        /\ r.database \in Database \cup {None}
        /\ r.user \in User \cup {None}
    BY ConnectAssumption
  <1>2. /\ OrElse(r.at, t.at) \in Address
        /\ OrElse(r.database, t.database) \in Database
        /\ OrElse(r.user, t.user) \in User
    BY <1>1 DEF OrElse, Target
  <1>3. /\ OrElse(r.database, told.database) \in Database
        /\ OrElse(r.user, told.user) \in User
    BY <1>1 DEF OrElse, ToldValues
  <1>4. Named(t, r) \in Target /\ Heard(told, r) \in ToldValues
    BY <1>2, <1>3 DEF Named, Heard, Target, ToldValues
  <1>5. Agrees(t, told) => Agrees(Named(t, r), Heard(told, r))
    BY DEF Agrees, Named, Heard
  <1>6. r.at = None => Named(t, r).at = t.at
    BY DEF Named, OrElse
  <1> QED
    BY <1>4, <1>5, <1>6

LEMMA LoginRestartsStep ==
    ASSUME Layout, NEW r \in Restart,
           heap' = [heap EXCEPT ![top.own] = Named(own, r)],
           Update([top EXCEPT !.told = Heard(@, r), !.moved = @ \/ r.at # None])
    PROVE  /\ Writes
           /\ top'.told = Heard(top.told, r)
           /\ top'.moved = (top.moved \/ r.at # None)
           /\ heap'[Len(heap)] = Named(own, r)
  <1> DEFINE f == [top EXCEPT !.told = Heard(@, r), !.moved = @ \/ r.at # None]
  <1>1. own \in Target /\ top \in Frame /\ top.told \in ToldValues /\ top.moved \in BOOLEAN
    BY OwnTarget, FrameFields
  <1>2. Named(own, r) \in Target /\ Heard(top.told, r) \in ToldValues
    BY <1>1, NamedTarget
  <1>3. /\ f \in Frame
        /\ f.given = top.given /\ f.was = top.was /\ f.own = top.own
        /\ f.told = Heard(top.told, r) /\ f.moved = (top.moved \/ r.at # None)
    BY <1>1, <1>2 DEF Frame
  <1>4. Update(f)
    OBVIOUS
  <1> HIDE DEF f
  <1>5. Writes /\ top' = f /\ heap'[Len(heap)] = Named(own, r)
    BY <1>2, <1>3, <1>4, OwnWrites
  <1> QED
    BY <1>3, <1>5

LEMMA LoginRedirectsStep ==
    ASSUME Layout, NEW r \in Redirect, Update([top EXCEPT !.told = Heard(@, r)]),
           heap' = [heap EXCEPT ![top.own] = Named(own, r)]
    PROVE  /\ Writes
           /\ top'.told = Heard(top.told, r)
           /\ heap'[Len(heap)] = Named(own, r)
  <1> DEFINE f == [top EXCEPT !.told = Heard(@, r)]
  <1>1. own \in Target /\ top \in Frame /\ top.told \in ToldValues
    BY OwnTarget, FrameFields
  <1>2. Named(own, r) \in Target /\ Heard(top.told, r) \in ToldValues
    BY <1>1, NamedTarget
  <1>3. /\ f \in Frame
        /\ f.given = top.given /\ f.was = top.was /\ f.own = top.own
        /\ f.told = Heard(top.told, r)
    BY <1>1, <1>2 DEF Frame
  <1>4. Update(f)
    OBVIOUS
  <1> HIDE DEF f
  <1>5. Writes /\ top' = f /\ heap'[Len(heap)] = Named(own, r)
    BY <1>2, <1>3, <1>4, OwnWrites
  <1> QED
    BY <1>3, <1>5

Subtarget == [own EXCEPT !.at.host = None, !.at.sock = Head(top.todo)]

LEMMA TryCandidateStep ==
    ASSUME Layout, TryCandidate
    PROVE  /\ Calls
           /\ Subtarget \in Target /\ Head(top.todo) \in Socket
           /\ top'.was = Subtarget /\ top'.inner = 0 /\ own' = Subtarget
           /\ stack'[2] = [top EXCEPT !.todo = Tail(@), !.trying = TRUE]
           /\ heap'[Len(heap)] = own
  <1> DEFINE waiting == [top EXCEPT !.todo = Tail(@), !.trying = TRUE]
             h == Append(heap, Subtarget)
             frames == <<waiting>> \o Tail(stack)
  <1>1. own \in Target /\ top \in Frame /\ top.todo # <<>>
    BY OwnTarget DEF TryCandidate
  <1>2. Head(top.todo) \in Socket /\ Tail(top.todo) \in Seq(Socket)
    BY <1>1, FrameFields
  <1>3. /\ Subtarget \in Target
        /\ Subtarget.user = own.user /\ Subtarget.database = own.database
    <2>1. own.at \in Address /\ Head(top.todo) \in Path
      BY <1>1, <1>2 DEF Target, Socket, Path
    <2>2. [own.at EXCEPT !.host = None, !.sock = Head(top.todo)] \in Address
      BY <2>1 DEF Address
    <2> QED
      BY <1>1, <2>2 DEF Target, Subtarget
  <1>4. /\ waiting \in Frame
        /\ waiting.given = top.given /\ waiting.was = top.was
        /\ waiting.own = top.own /\ waiting.told = top.told
    BY <1>1, <1>2 DEF Frame
  <1>5. /\ h \in Seq(Target)
        /\ Len(h) = Len(heap) + 1
        /\ h[Len(heap) + 1] = Subtarget
        /\ \A i \in 1..Len(heap) : h[i] = heap[i]
    BY <1>3, Grow DEF Layout
  <1>6. /\ frames \in Seq(Frame)
        /\ Len(frames) = Len(stack)
        /\ frames[1] = waiting
        /\ \A k \in 2..Len(stack) : frames[k] = stack[k]
    <2>1. /\ Tail(stack) \in Seq(Frame)
          /\ Len(Tail(stack)) = Len(stack) - 1
          /\ \A k \in 1..(Len(stack) - 1) : Tail(stack)[k] = stack[k + 1]
      BY Pop DEF Layout
    <2> HIDE DEF waiting
    <2>2. /\ frames \in Seq(Frame)
          /\ Len(frames) = (Len(stack) - 1) + 1
          /\ frames[1] = waiting
          /\ \A k \in 1..(Len(stack) - 1) : frames[k + 1] = stack[k + 1]
      BY <1>4, <2>1, Push
    <2> HIDE DEF frames
    <2>3. \A k \in 2..Len(stack) : k - 1 \in 1..(Len(stack) - 1) /\ (k - 1) + 1 = k
      BY OwnTarget
    <2>4. ASSUME NEW k \in 2..Len(stack) PROVE frames[k] = stack[k]
      <3>1. frames[(k - 1) + 1] = stack[(k - 1) + 1]
        BY <2>2, <2>3
      <3> QED
        BY <2>3, <3>1
    <2> QED
      BY <2>2, <2>4, OwnTarget
  <1>7. Call(h, Len(heap) + 1, frames)
    BY DEF TryCandidate, Subtarget
  <1>8. heap[Len(heap)] = own /\ Len(heap) \in Nat \ {0}
    BY OwnTarget
  <1> HIDE DEF waiting, h, frames
  <1>9. \A i \in Len(heap)..Len(h) : /\ h[i].user = own.user
                                     /\ h[i].database = own.database
    BY <1>3, <1>5, <1>8
  <1>10. Len(heap) + 1 \in Len(heap)..Len(h) /\ h[Len(heap)] = own
    BY <1>5, <1>8
  <1>11. \A i \in 1..(Len(heap) - 1) : h[i] = heap[i]
    BY <1>5, <1>8
  <1>12. /\ Calls
         /\ top'.was = Subtarget /\ top'.inner = 0 /\ own' = Subtarget
         /\ stack'[2] = waiting
         /\ heap'[Len(heap)] = own
    BY <1>4, <1>5, <1>6, <1>7, <1>9, <1>10, <1>11, CallCalls
  <1> QED
    BY <1>2, <1>3, <1>12 DEF waiting

FallBackTarget == [own EXCEPT !.at.sock = None, !.at.host = "localhost"]

LEMMA FallBackStep ==
    ASSUME Layout, FallBack
    PROVE  /\ Calls
           /\ FallBackTarget \in Target
           /\ top'.was = FallBackTarget /\ top'.inner = 0 /\ own' = FallBackTarget
           /\ stack'[2] = top
  <1> DEFINE h == [heap EXCEPT ![top.own].at.sock = None, ![top.own].at.host = "localhost"]
  <1>1. /\ own \in Target /\ heap \in Seq(Target) /\ stack \in Seq(Frame)
        /\ top.own = Len(heap) /\ Len(heap) \in Nat \ {0} /\ heap[Len(heap)] = own
    BY OwnTarget DEF Layout
  <1>2. /\ FallBackTarget \in Target
        /\ FallBackTarget.user = own.user /\ FallBackTarget.database = own.database
    <2>1. own.at \in Address
      BY <1>1 DEF Target
    <2>2. [own.at EXCEPT !.sock = None, !.host = "localhost"] \in Address
      BY <2>1 DEF Address
    <2> QED
      BY <1>1, <2>2 DEF Target, FallBackTarget
  <1>3. h = [heap EXCEPT ![Len(heap)] = FallBackTarget]
    BY <1>1 DEF FallBackTarget
  <1>4. /\ h \in Seq(Target)
        /\ Len(h) = Len(heap)
        /\ h[Len(heap)] = FallBackTarget
        /\ \A i \in 1..(Len(heap) - 1) : h[i] = heap[i]
    <2> HIDE DEF h
    <2> QED
      BY <1>1, <1>2, <1>3
  <1>5. Call(h, Len(heap), stack)
    BY <1>1 DEF FallBack
  <1> HIDE DEF h
  <1>6. \A i \in Len(heap)..Len(h) : /\ h[i].user = own.user
                                     /\ h[i].database = own.database
    BY <1>1, <1>2, <1>4
  <1>7. Len(heap) \in Len(heap)..Len(h)
    BY <1>1, <1>4
  <1>8. /\ Calls
        /\ top'.was = FallBackTarget /\ top'.inner = 0 /\ own' = FallBackTarget
        /\ stack'[2] = top
    BY <1>1, <1>4, <1>5, <1>6, <1>7, CallCalls DEF top
  <1> QED
    BY <1>2, <1>8

LEMMA AttemptLoginStep ==
    ASSUME Layout, NEW servertype, AttemptLogin(servertype)
    PROVE  UNCHANGED <<heap, stack>>
  <1>1. heap \in Seq(Target) /\ top.own = Len(heap) /\ own \in Target
    BY OwnTarget DEF Layout
  <1>2. SubSeq(heap, 1, Len(heap)) = heap
    BY <1>1
  <1>3. ASSUME NEW t PROVE SubSeq(Append(heap, t), 1, Len(heap)) = heap
    BY <1>1
  <1> QED
    BY <1>1, <1>2, <1>3 DEF AttemptLogin, AttemptTarget, Release

LEMMA CatchStep ==
    ASSUME Layout, Catch
    PROVE  Returns /\ top' = [caller EXCEPT !.err = exc, !.trying = FALSE]
  <1>1. 2 \in DOMAIN stack /\ stack \in Seq(Frame)
    BY OwnTarget DEF Layout, Catch
  <1>2. caller \in Frame
    BY <1>1 DEF caller
  <1>3. [caller EXCEPT !.err = exc, !.trying = FALSE] \in Frame
    BY <1>2 DEF Frame, Catch
  <1> QED
    BY <1>2, <1>3, LeaveReturns DEF Catch, Frame

LEMMA UnwindStep ==
    ASSUME Layout, Unwind
    PROVE  Returns /\ top' = caller
  <1>1. 2 \in DOMAIN stack /\ stack \in Seq(Frame)
    BY OwnTarget DEF Layout, Unwind
  <1>2. caller \in Frame
    BY <1>1 DEF caller
  <1>3. Tail(stack) = <<caller>> \o Tail(Tail(stack))
    <2> DEFINE rest == Tail(stack)
    <2>1. rest \in Seq(Frame) /\ Len(rest) = Len(stack) - 1 /\ rest[1] = stack[2]
      BY <1>1, Pop DEF Unwind
    <2> HIDE DEF rest
    <2>2. rest # <<>> /\ rest = <<rest[1]>> \o Tail(rest)
      BY <1>1, <2>1, Unfold DEF Unwind
    <2> QED
      BY <2>1, <2>2 DEF rest, caller
  <1> QED
    BY <1>2, <1>3, LeaveReturns DEF Unwind

LEMMA StackStep ==
    ASSUME Layout, [Next]_vars
    PROVE  UNCHANGED <<heap, stack>> \/ Writes \/ Calls \/ Returns
  <1>1. CASE Rounds
    <2>1. CASE RefuseRound
      BY <2>1 DEF RefuseRound
    <2> QED
      BY <1>1, <2>1, StartRoundStep, ScanStep, TryCandidateStep, FallBackStep DEF Rounds
  <1>2. CASE Sockets
    <2>1. CASE OpenUnix
      BY <2>1, FailedStep DEF OpenUnix, Connected
    <2>2. CASE OpenTcp
      BY <2>2, FailedStep DEF OpenTcp, Connected
    <2>3. CASE SkipUnix \/ SkipTcp \/ ReportErrors \/ CheckTls
      BY <2>3 DEF SkipUnix, SkipTcp, ReportErrors, CheckTls
    <2> QED
      BY <1>2, <2>1, <2>2, <2>3 DEF Sockets
  <1>3. CASE Logins
    <2>1. CASE TooManyLogins \/ LoginFails \/ LoginSucceeds
      BY <2>1 DEF TooManyLogins, LoginFails, LoginSucceeds
    <2>2. CASE LoginRestarts
      BY <2>2, LoginRestartsStep DEF LoginRestarts
    <2>3. CASE LoginRedirects
      BY <2>3, LoginRedirectsStep DEF LoginRedirects
    <2> QED
      BY <1>3, <2>1, <2>2, <2>3, AttemptLoginStep DEF Logins
  <1>4. CASE GiveUp \/ Ended \/ UNCHANGED vars
    BY <1>4 DEF GiveUp, Ended, vars
  <1> QED
    BY <1>1, <1>2, <1>3, <1>4, CatchStep, UnwindStep DEF Next

\* Every call's objects are in the heap, and only the innermost call owns
\* the last one.
LEMMA InHeap ==
    ASSUME Layout, NEW k \in 1..Len(stack)
    PROVE  /\ stack[k] \in Frame
           /\ stack[k].own \in 2..Len(heap)
           /\ stack[k].given \in 1..(Len(heap) - 1)
           /\ stack[k].given \in 1..(stack[k].own - 1)
           /\ k # 1 => stack[k].own \in 2..(Len(heap) - 1)
  <1>1. /\ stack[k] \in Frame /\ top \in Frame /\ top.own = Len(heap)
        /\ stack[k].given \in 1..(stack[k].own - 1)
        /\ top.given \in 1..(top.own - 1)
        /\ 1 < k => stack[k].own <= top.given
    BY OwnTarget, SMTT(20) DEF Layout, top
  <1>2. stack[k].own \in Nat /\ stack[k].given \in Nat /\ top.given \in Nat /\ top.own \in Nat
    BY <1>1, FrameFields
  <1>3. CASE k = 1
    BY <1>1, <1>2, <1>3 DEF top
  <1>4. CASE k # 1
    BY <1>1, <1>2, <1>4
  <1> QED
    BY <1>1, <1>3, <1>4

LEMMA InHeapPrimed ==
    ASSUME Layout', NEW k \in 1..Len(stack')
    PROVE  stack'[k].own \in 1..Len(heap')
  <1>1. /\ stack' \in Seq(Frame) /\ stack' # <<>> /\ stack'[1].own = Len(heap')
        /\ \A l \in DOMAIN stack' : stack'[l].given \in 1..(stack'[l].own - 1)
        /\ \A l, m \in DOMAIN stack' : l < m => stack'[m].own <= stack'[l].given
    BY DEF Layout, top
  <1>2. 1 \in DOMAIN stack' /\ k \in DOMAIN stack'
    BY <1>1
  <1>3. stack'[1] \in Frame /\ stack'[k] \in Frame
    BY <1>1, <1>2
  <1>4. /\ stack'[1].own \in Nat /\ stack'[k].own \in Nat
        /\ stack'[1].given \in Nat /\ stack'[k].given \in Nat
    BY <1>3, FrameFields
  <1>5. CASE k = 1
    BY <1>1, <1>2, <1>4, <1>5
  <1>6. CASE k # 1
    <2>1. stack'[k].own <= stack'[1].given
      BY <1>1, <1>2, <1>6
    <2> QED
      BY <1>1, <1>2, <1>4, <2>1
  <1> QED
    BY <1>5, <1>6

LEMMA WritesSame ==
    ASSUME Layout, Writes, NEW k \in 1..Len(stack)
    PROVE  /\ stack'[k].given = stack[k].given /\ stack'[k].was = stack[k].was
           /\ stack'[k].own = stack[k].own
  <1>1. k = 1 \/ k \in 2..Len(stack)
    OBVIOUS
  <1> QED
    BY <1>1 DEF Writes, top

LEMMA CallsSame ==
    ASSUME Layout, Calls, NEW k \in 2..Len(stack')
    PROVE  /\ k - 1 \in 1..Len(stack)
           /\ stack'[k].given = stack[k - 1].given /\ stack'[k].was = stack[k - 1].was
           /\ stack'[k].own = stack[k - 1].own /\ stack'[k].told = stack[k - 1].told
  <1>1. k - 1 \in 1..Len(stack)
    BY OwnTarget DEF Calls
  <1>2. CASE k = 2
    BY <1>1, <1>2 DEF Calls, top
  <1>3. CASE k # 2
    <2>1. k - 1 \in 2..Len(stack) /\ (k - 1) + 1 = k
      BY <1>1, <1>3
    <2>2. stack'[(k - 1) + 1] = stack[k - 1]
      BY <2>1 DEF Calls
    <2> QED
      BY <1>1, <2>1, <2>2
  <1> QED
    BY <1>2, <1>3

LEMMA ReturnsSame ==
    ASSUME Layout, Returns, NEW k \in 1..Len(stack')
    PROVE  /\ k + 1 \in 2..Len(stack)
           /\ stack'[k].given = stack[k + 1].given /\ stack'[k].was = stack[k + 1].was
           /\ stack'[k].own = stack[k + 1].own /\ stack'[k].told = stack[k + 1].told
  <1>1. k + 1 \in 2..Len(stack)
    BY OwnTarget DEF Returns
  <1>2. CASE k = 1
    BY <1>1, <1>2 DEF Returns, caller
  <1>3. CASE k # 1
    <2>1. k + 1 \in 3..Len(stack) /\ (k + 1) - 1 = k
      BY <1>1, <1>3
    <2>2. stack'[(k + 1) - 1] = stack[k + 1]
      BY <2>1 DEF Returns
    <2> QED
      BY <1>1, <2>1, <2>2
  <1> QED
    BY <1>2, <1>3

-----------------------------------------------------------------------------
(* The layout of the heap.                                                 *)

LEMMA LayoutWrites == ASSUME Layout, Writes PROVE Layout'
  <1>1. \A k \in 1..Len(stack) : stack'[k].given = stack[k].given /\ stack'[k].own = stack[k].own
    BY WritesSame
  <1>2. Len(stack') = Len(stack) /\ Len(stack) \in Nat \ {0} /\ stack' \in Seq(Frame)
    BY OwnTarget DEF Writes
  <1>3. DOMAIN stack' = 1..Len(stack) /\ DOMAIN stack = 1..Len(stack)
    BY <1>2 DEF Layout
  <1>4. heap' \in Seq(Target) /\ top'.own = Len(heap')
    BY DEF Writes, Layout, top
  <1> QED
    BY <1>1, <1>2, <1>3, <1>4 DEF Layout

LEMMA LayoutCalls == ASSUME Layout, Calls PROVE Layout'
  <1>1. /\ heap' \in Seq(Target) /\ stack' \in Seq(Frame)
        /\ Len(stack') = Len(stack) + 1 /\ Len(stack) \in Nat \ {0} /\ Len(heap) \in Nat \ {0}
        /\ stack'[1].own = Len(heap') /\ Len(heap') > Len(heap)
        /\ stack'[1].given \in Len(heap)..(Len(heap') - 1)
    BY OwnTarget DEF Calls
  <1>2. DOMAIN stack' = 1..Len(stack') /\ DOMAIN stack = 1..Len(stack) /\ stack' # <<>>
    BY <1>1 DEF Layout
  <1>3. top'.own = Len(heap')
    BY <1>1 DEF top
  <1>4. ASSUME NEW k \in 1..Len(stack')
        PROVE  stack'[k].given \in 1..(stack'[k].own - 1)
    <2>1. CASE k = 1
      BY <1>1, <2>1
    <2>2. CASE k # 1
      <3>1. k \in 2..Len(stack')
        BY <2>2
      <3> QED
        BY <3>1, CallsSame, InHeap
    <2> QED
      BY <2>1, <2>2
  <1>5. ASSUME NEW k \in 1..Len(stack'), NEW l \in 1..Len(stack'), k < l
        PROVE  stack'[l].own <= stack'[k].given
    <2>1. l \in 2..Len(stack') /\ l - 1 \in 1..Len(stack) /\ stack'[l].own = stack[l - 1].own
      BY <1>5, CallsSame
    <2>2. CASE k = 1
      <3>1. stack[l - 1].own \in 2..Len(heap)
        BY <2>1, InHeap
      <3> QED
        BY <1>1, <2>1, <2>2, <3>1
    <2>3. CASE k # 1
      <3>1. k \in 2..Len(stack')
        BY <2>3
      <3>2. k - 1 \in 1..Len(stack) /\ stack'[k].given = stack[k - 1].given
        BY <3>1, CallsSame
      <3>3. k - 1 < l - 1
        BY <1>5
      <3> QED
        BY <1>2, <2>1, <3>2, <3>3 DEF Layout
    <2> QED
      BY <2>2, <2>3
  <1> QED
    BY <1>1, <1>2, <1>3, <1>4, <1>5 DEF Layout

LEMMA LayoutReturns == ASSUME Layout, Returns PROVE Layout'
  <1>1. /\ heap' \in Seq(Target) /\ stack' \in Seq(Frame)
        /\ Len(stack') = Len(stack) - 1 /\ Len(stack) > 1 /\ Len(stack) \in Nat \ {0}
        /\ Len(heap') = caller.own
    BY OwnTarget DEF Returns
  <1>2. DOMAIN stack' = 1..Len(stack') /\ DOMAIN stack = 1..Len(stack) /\ stack' # <<>>
    BY <1>1 DEF Layout
  <1>3. top'.own = Len(heap')
    BY <1>1 DEF top, Returns
  <1>4. ASSUME NEW k \in 1..Len(stack')
        PROVE  stack'[k].given \in 1..(stack'[k].own - 1)
    <2>1. k + 1 \in 1..Len(stack)
      BY ReturnsSame
    <2> QED
      BY <2>1, ReturnsSame, InHeap
  <1>5. ASSUME NEW k \in 1..Len(stack'), NEW l \in 1..Len(stack'), k < l
        PROVE  stack'[l].own <= stack'[k].given
    <2>1. k + 1 \in 1..Len(stack) /\ l + 1 \in 1..Len(stack) /\ k + 1 < l + 1
      BY <1>5, ReturnsSame
    <2>2. stack[l + 1].own <= stack[k + 1].given
      BY <1>2, <2>1 DEF Layout
    <2> QED
      BY <2>2, ReturnsSame
  <1> QED
    BY <1>1, <1>2, <1>3, <1>4, <1>5 DEF Layout

LEMMA LayoutStep == Layout /\ [Next]_vars => Layout'
  <1> SUFFICES ASSUME Layout, [Next]_vars PROVE Layout'
    OBVIOUS
  <1>1. CASE UNCHANGED <<heap, stack>>
    BY <1>1 DEF Layout, top
  <1> QED
    BY <1>1, StackStep, LayoutWrites, LayoutCalls, LayoutReturns

LEMMA Single ==
    ASSUME NEW S, NEW t \in S
    PROVE  /\ Append(<<t>>, <<t>>[1]) \in Seq(S)
           /\ Len(Append(<<t>>, <<t>>[1])) = 2
           /\ \A i \in 1..2 : Append(<<t>>, <<t>>[1])[i] = t
  <1>1. ASSUME NEW h \in Seq(S), Len(h) = 1, h[1] = t
        PROVE  /\ Append(h, h[1]) \in Seq(S)
               /\ Len(Append(h, h[1])) = 2
               /\ \A i \in 1..2 : Append(h, h[1])[i] = t
    <2>1. /\ Append(h, t) \in Seq(S)
          /\ Len(Append(h, t)) = Len(h) + 1
          /\ Append(h, t)[Len(h) + 1] = t
          /\ \A k \in 1..Len(h) : Append(h, t)[k] = h[k]
      BY Grow
    <2>2. ASSUME NEW i \in 1..2 PROVE Append(h, t)[i] = t
      <3>1. i = 1 \/ i = 2
        OBVIOUS
      <3> QED
        BY <1>1, <2>1, <3>1
    <2> QED
      BY <1>1, <2>1, <2>2
  <1>2. <<t>> \in Seq(S) /\ Len(<<t>>) = 1 /\ <<t>>[1] = t
    OBVIOUS
  <1> QED
    BY <1>1, <1>2

\* democlient's own call of connect.
FirstCall(t) ==
    [given |-> 1, was |-> t, own |-> 2, inner |-> 0, err |-> None, todo |-> <<>>,
     trying |-> FALSE, found |-> {}, told |-> [database |-> t.database, user |-> t.user],
     moved |-> FALSE]

LEMMA InitHeap ==
    ASSUME Init
    PROVE  \E t \in Start :
              /\ heap \in Seq(Target) /\ Len(heap) = 2 /\ \A i \in 1..2 : heap[i] = t
              /\ stack = <<FirstCall(t)>>
  <1>1. ASSUME NEW t \in Target
        PROVE  /\ Entered(<<t>>, 1) \in Seq(Target) /\ Len(Entered(<<t>>, 1)) = 2
               /\ \A i \in 1..2 : Entered(<<t>>, 1)[i] = t
    BY <1>1, Single DEF Entered
  <1>2. PICK t \in Start :
            /\ heap = Entered(<<t>>, 1)
            /\ stack = <<[given |-> 1, was |-> t, own |-> Len(Entered(<<t>>, 1)),
                          inner |-> 0, err |-> None, todo |-> <<>>, trying |-> FALSE,
                          found |-> {},
                          told |-> [database |-> t.database, user |-> t.user],
                          moved |-> FALSE]>>
    BY DEF Init
  <1>3. t \in Target
    BY ConnectAssumption
  <1> QED
    BY <1>1, <1>2, <1>3 DEF FirstCall

LEMMA InitLayout == Init => Layout
  <1> SUFFICES ASSUME Init PROVE Layout
    OBVIOUS
  <1>1. PICK t \in Start :
              /\ heap \in Seq(Target) /\ Len(heap) = 2 /\ \A i \in 1..2 : heap[i] = t
              /\ stack = <<FirstCall(t)>>
    BY InitHeap
  <1>2. t \in Target /\ t.database \in Database /\ t.user \in User
    BY ConnectAssumption DEF Target
  <1>3. top = FirstCall(t)
    BY <1>1 DEF top
  <1>4. top \in Frame
    <2>1. 0 \in 0..MaxRounds
      BY ConnectAssumption
    <2> QED
      BY <1>2, <1>3, <2>1 DEF Frame, FirstCall, ToldValues
  <1>5. stack = <<top>> /\ top.own = 2 /\ top.given = 1
    BY <1>1, <1>3 DEF FirstCall
  <1>6. stack \in Seq(Frame) /\ Len(stack) = 1 /\ stack # <<>> /\ stack[1] = top
    BY <1>4, <1>5
  <1>7. heap \in Seq(Target) /\ Len(heap) = 2
    BY <1>1, <1>2
  <1> QED
    BY <1>5, <1>6, <1>7 DEF Layout

\* The calls of connect have the targets they were given to themselves.
LEMMA UntouchedStep == Layout /\ CallerUntouched /\ [Next]_vars => CallerUntouched'
  <1> SUFFICES ASSUME Layout, CallerUntouched, [Next]_vars PROVE CallerUntouched'
    OBVIOUS
  <1>0. /\ DOMAIN stack = 1..Len(stack) /\ DOMAIN stack' = 1..Len(stack')
        /\ Len(stack) \in Nat \ {0}
    BY OwnTarget, LayoutStep DEF Layout
  <1>1. CASE UNCHANGED <<heap, stack>>
    BY <1>1 DEF CallerUntouched
  <1>2. CASE Writes
    <2> SUFFICES ASSUME NEW k \in 1..Len(stack)
                 PROVE  heap'[stack'[k].given] = stack'[k].was
      BY <1>0, <1>2 DEF CallerUntouched, Writes
    <2>1. stack[k].given \in 1..(Len(heap) - 1)
      BY InHeap
    <2>2. heap'[stack[k].given] = heap[stack[k].given]
      BY <1>2, <2>1 DEF Writes
    <2> QED
      BY <1>0, <1>2, <2>2, WritesSame DEF CallerUntouched
  <1>3. CASE Calls
    <2> SUFFICES ASSUME NEW k \in 1..Len(stack')
                 PROVE  heap'[stack'[k].given] = stack'[k].was
      BY <1>0 DEF CallerUntouched
    <2>1. CASE k = 1
      BY <1>3, <2>1 DEF Calls
    <2>2. CASE k # 1
      <3>1. k \in 2..Len(stack')
        BY <2>2
      <3>2. /\ k - 1 \in 1..Len(stack)
            /\ stack'[k].given = stack[k - 1].given /\ stack'[k].was = stack[k - 1].was
        BY <1>3, <3>1, CallsSame
      <3>3. stack[k - 1].given \in 1..(Len(heap) - 1)
        BY <3>2, InHeap
      <3>4. heap'[stack[k - 1].given] = heap[stack[k - 1].given]
        BY <1>3, <3>3 DEF Calls
      <3> QED
        BY <1>0, <3>2, <3>4 DEF CallerUntouched
    <2> QED
      BY <2>1, <2>2
  <1>4. CASE Returns
    <2> SUFFICES ASSUME NEW k \in 1..Len(stack')
                 PROVE  heap'[stack'[k].given] = stack'[k].was
      BY <1>0 DEF CallerUntouched
    <2>1. /\ k + 1 \in 2..Len(stack)
          /\ stack'[k].given = stack[k + 1].given /\ stack'[k].was = stack[k + 1].was
      BY <1>4, ReturnsSame
    <2>2. stack[k + 1].given \in 1..(stack[k + 1].own - 1)
      BY <2>1, InHeap
    <2>3. stack[k + 1].own <= caller.own /\ stack[k + 1].own \in Nat /\ caller.own \in Nat
      <3>1. stack[2].own \in Nat /\ stack[2].given \in 1..(stack[2].own - 1)
        BY <1>0, <2>1, InHeap
      <3>2. stack[k + 1].own \in Nat
        BY <2>1, InHeap
      <3>3. CASE k = 1
        BY <3>1, <3>2, <3>3 DEF caller
      <3>4. CASE k # 1
        <4>1. 2 < k + 1 /\ 2 \in 1..Len(stack) /\ k + 1 \in 1..Len(stack)
          BY <2>1, <3>4
        <4>2. stack[k + 1].own <= stack[2].given
          BY <1>0, <4>1 DEF Layout
        <4> QED
          BY <3>1, <3>2, <4>2 DEF caller
      <3> QED
        BY <3>3, <3>4
    <2>4. stack[k + 1].given \in 1..caller.own
      BY <2>2, <2>3
    <2>5. heap'[stack[k + 1].given] = heap[stack[k + 1].given]
      BY <1>4, <2>4 DEF Returns
    <2> QED
      BY <1>0, <2>1, <2>5 DEF CallerUntouched
  <1> QED
    BY <1>1, <1>2, <1>3, <1>4, StackStep

\* "do not accidentally update the caller's Target": connect works on a
\* clone, and so do the calls below it, however often they write to it.
THEOREM TargetsUntouched == Spec => []CallerUntouched
  <1>1. Init => CallerUntouched
    <2> SUFFICES ASSUME Init PROVE CallerUntouched
      OBVIOUS
    <2>1. PICK t \in Start :
              /\ heap \in Seq(Target) /\ Len(heap) = 2 /\ \A i \in 1..2 : heap[i] = t
              /\ stack = <<FirstCall(t)>>
      BY InitHeap
    <2>2. heap[1] = t
      BY <2>1
    <2> QED
      BY <2>1, <2>2 DEF CallerUntouched, FirstCall
  <1> QED
    BY <1>1, InitLayout, LayoutStep, UntouchedStep, PTL DEF Spec

-----------------------------------------------------------------------------
(* Types.                                                                  *)

LEMMA Places ==
    ASSUME NEW t \in Target
    PROVE  /\ ConnectUnix(t) \in Path \cup {None}
           /\ ConnectTcp(t) \in Host \cup {None, "localhost"}
  BY DEF ConnectUnix, ConnectTcp, Target, Address, Path

LEMMA ControlRounds == ASSUME Layout, Control, Rounds PROVE Control'
  <1> USE DEF Control
  <1>0. None \notin Exceptions /\ Len(stack) \in Nat
    BY ConnectAssumption, OwnTarget
  <1>1. CASE RefuseRound
    BY <1>0, <1>1 DEF RefuseRound, Raise, Exceptions
  <1>2. CASE StartRound
    <2>1. Len(stack') = Len(stack)
      BY <1>2, StartRoundStep DEF Writes
    <2> QED
      BY <1>0, <1>2, <2>1 DEF StartRound, Goto
  <1>3. CASE Scan
    <2>1. Len(stack') = Len(stack) /\ Len(stack) <= MaxDepth
      BY <1>3, ScanStep DEF Writes, Scan, RoundAllowed
    <2> QED
      BY <1>0, <1>3, <2>1 DEF Scan, Goto
  <1>4. CASE TryCandidate
    <2>1. Len(stack') = Len(stack) + 1
      BY <1>4, TryCandidateStep DEF Calls
    <2> QED
      BY <1>0, <1>4, <2>1, ConnectAssumption DEF TryCandidate, Call, Goto
  <1>5. CASE FallBack
    <2>1. Len(stack') = Len(stack) + 1
      BY <1>5, FallBackStep DEF Calls
    <2> QED
      BY <1>0, <1>5, <2>1, ConnectAssumption DEF FallBack, Call, Goto
  <1> QED
    BY <1>1, <1>2, <1>3, <1>4, <1>5 DEF Rounds

LEMMA ControlSockets == ASSUME Layout, Control, Sockets PROVE Control'
  <1> USE DEF Control
  <1>0. /\ None \notin Exceptions /\ Len(stack) \in Nat /\ 0 \in 0..MaxLogins
        /\ top \in Frame /\ own \in Target
    BY ConnectAssumption, OwnTarget
  <1>1. CASE OpenUnix
    <2>1. ConnectUnix(own) \in Path
      BY <1>0, <1>1, Places DEF OpenUnix
    <2>2. CASE Connected(ConnectUnix(own))
      BY <1>0, <1>1, <2>1, <2>2 DEF OpenUnix, Connected, Goto
    <2>3. CASE Failed("OSError", "tcp")
      <3>1. Len(stack') = Len(stack)
        BY <1>1, <2>3, FailedStep DEF Writes, OpenUnix
      <3> QED
        BY <1>0, <1>1, <2>3, <3>1 DEF OpenUnix, Failed, Goto
    <2> QED
      BY <1>1, <2>2, <2>3 DEF OpenUnix
  <1>2. CASE OpenTcp
    <2>1. ConnectTcp(own) \in Host \cup {"localhost"}
      BY <1>0, <1>2, Places DEF OpenTcp
    <2>2. CASE Connected(ConnectTcp(own))
      BY <1>0, <1>2, <2>1, <2>2 DEF OpenTcp, Connected, Goto
    <2>3. CASE Failed("OSError", "noSock")
      <3>1. Len(stack') = Len(stack)
        BY <1>2, <2>3, FailedStep DEF Writes, OpenTcp
      <3> QED
        BY <1>0, <1>2, <2>3, <3>1 DEF OpenTcp, Failed, Goto
    <2> QED
      BY <1>2, <2>2, <2>3 DEF OpenTcp
  <1>3. CASE SkipUnix \/ SkipTcp
    BY <1>0, <1>3 DEF SkipUnix, SkipTcp, Goto
  <1>4. CASE ReportErrors
    <2>1. top.err \in CandidateFailures \cup {None}
      BY <1>0, FrameFields
    <2> QED
      BY <1>0, <1>4, <2>1 DEF ReportErrors, Raise, CandidateFailures, Exceptions
  <1>5. CASE CheckTls
    BY <1>0, <1>5 DEF CheckTls, Goto, Raise, Exceptions
  <1> QED
    BY <1>1, <1>2, <1>3, <1>4, <1>5 DEF Sockets

LEMMA ControlLogins == ASSUME Layout, Control, Logins PROVE Control'
  <1> USE DEF Control
  <1>0. /\ None \notin Exceptions /\ Len(stack) \in Nat /\ own \in Target /\ None \notin Target
        /\ MaxLogins \in Nat
    BY ConnectAssumption, OwnTarget
  <1>1. CASE TooManyLogins \/ LoginFails
    BY <1>0, <1>1 DEF TooManyLogins, LoginFails, Raise, Exceptions
  <1>2. ASSUME NEW servertype, AttemptLogin(servertype) PROVE Control'
    BY <1>0, <1>2 DEF AttemptLogin, Goto
  <1>3. CASE LoginRestarts
    <2>1. Len(stack') = Len(stack)
      BY <1>3, LoginRestartsStep DEF LoginRestarts, Writes
    <2> QED
      BY <1>0, <1>3, <2>1 DEF LoginRestarts, Goto, Raise, Exceptions
  <1>4. CASE LoginRedirects
    <2>1. Len(stack') = Len(stack)
      BY <1>4, LoginRedirectsStep DEF LoginRedirects, Writes
    <2> QED
      BY <1>0, <1>4, <2>1 DEF LoginRedirects, Goto, Raise, Exceptions
  <1>5. CASE LoginSucceeds
    BY <1>0, <1>5 DEF LoginSucceeds, Goto
  <1> QED
    BY <1>1, <1>2, <1>3, <1>4, <1>5 DEF Logins

LEMMA ControlStep == Layout /\ Control /\ [Next]_vars => Control'
  <1> SUFFICES ASSUME Layout, Control, [Next]_vars PROVE Control'
    OBVIOUS
  <1>0. None \notin Exceptions /\ Len(stack) \in Nat /\ MaxDepth \in Nat
    BY ConnectAssumption, OwnTarget
  <1>1. CASE Catch
    <2>1. Len(stack') = Len(stack) - 1
      BY <1>1, CatchStep DEF Returns
    <2> QED
      BY <1>0, <1>1, <2>1 DEF Catch, Control
  <1>2. CASE Unwind
    <2>1. Len(stack') = Len(stack) - 1
      BY <1>2, UnwindStep DEF Returns
    <2> QED
      BY <1>0, <1>2, <2>1 DEF Unwind, Control
  <1>3. CASE GiveUp
    BY <1>3 DEF GiveUp, Control
  <1>4. CASE Ended \/ UNCHANGED vars
    BY <1>4 DEF Ended, vars, Control
  <1> QED
    BY <1>1, <1>2, <1>3, <1>4, ControlRounds, ControlSockets, ControlLogins DEF Next

LEMMA InitControl == Init => Control
  <1> SUFFICES ASSUME Init PROVE Control
    OBVIOUS
  <1>1. Len(stack) = 1
    BY InitHeap
  <1> QED
    BY <1>1, ConnectAssumption DEF Init, Control

\* The phases, the calls and the heap are what they are meant to be; there
\* is an exception exactly when one is on its way and a result exactly when
\* connect has returned, and no chain of redirects exceeds the bounds.
THEOREM ConnectTypeCorrect == Spec => []ConnectTypeOK
  <1>1. Layout /\ Control => ConnectTypeOK
    <2> SUFFICES ASSUME Layout, Control PROVE ConnectTypeOK
      OBVIOUS
    <2>1. Len(stack) \in 1..(MaxDepth + 1) /\ heap \in Seq(Target)
          /\ DOMAIN stack = 1..Len(stack) /\ DOMAIN heap = 1..Len(heap)
      BY OwnTarget, ConnectAssumption DEF Layout, Control
    <2>2. ASSUME NEW k \in DOMAIN stack
          PROVE  /\ stack[k].given \in DOMAIN heap
                 /\ stack[k].own \in DOMAIN heap
                 /\ stack[k].inner \in 0..MaxRounds
                 /\ stack[k].err \in Exceptions \cup {None}
                 /\ stack[k].todo \in Seq(OwnSock \cup OtherSock)
                 /\ stack[k].told \in ToldValues
                 /\ stack[k].moved \in BOOLEAN
      <3>1. stack[k] \in Frame /\ stack[k].given \in 1..Len(heap) /\ stack[k].own \in 1..Len(heap)
        BY <2>1, InHeap, OwnTarget
      <3> QED
        BY <2>1, <3>1, FrameFields DEF CandidateFailures, Exceptions, Socket
    <2> QED
      BY <2>1, <2>2 DEF ConnectTypeOK, Control, ToldValues
  <1> QED
    BY <1>1, InitControl, InitLayout, LayoutStep, ControlStep, PTL DEF Spec

-----------------------------------------------------------------------------
(* assert err.                                                             *)

LEMMA SomewhereToGo ==
    ASSUME NEW t \in Target, ConnectTcp(t) = None
    PROVE  ConnectUnix(t) # None
  BY ConnectAssumption DEF ConnectUnix, ConnectTcp

LEMMA NoErrorYetStep == Layout /\ NoErrorYet /\ [Next]_vars => NoErrorYet'
  <1> SUFFICES ASSUME Layout, NoErrorYet, [Next]_vars PROVE NoErrorYet'
    OBVIOUS
  <1> USE DEF NoErrorYet, ErrorKnown
  <1>0. None \notin Exceptions /\ "OSError" # None /\ top \in Frame /\ own \in Target
    BY ConnectAssumption, OwnTarget DEF Exceptions
  <1>1. CASE OpenUnix
    <2>1. CASE Connected(ConnectUnix(own))
      BY <1>1, <2>1 DEF OpenUnix, Connected, Goto
    <2>2. CASE Failed("OSError", "tcp")
      <3>1. top'.err = "OSError"
        BY <1>0, <1>1, <2>2, FailedStep DEF OpenUnix, Frame
      <3> QED
        BY <1>0, <1>1, <2>2, <3>1 DEF OpenUnix, Failed, Goto
    <2> QED
      BY <1>1, <2>1, <2>2 DEF OpenUnix
  <1>2. CASE OpenTcp
    <2>1. CASE Connected(ConnectTcp(own))
      BY <1>2, <2>1 DEF OpenTcp, Connected, Goto
    <2>2. CASE Failed("OSError", "noSock")
      <3>1. top'.err = "OSError"
        BY <1>0, <1>2, <2>2, FailedStep DEF OpenTcp, Frame
      <3> QED
        BY <1>0, <1>2, <2>2, <3>1 DEF OpenTcp, Failed, Goto
    <2> QED
      BY <1>2, <2>1, <2>2 DEF OpenTcp
  <1>3. CASE SkipUnix
    BY <1>3 DEF SkipUnix, Goto, own, top
  <1>4. CASE SkipTcp
    BY <1>0, <1>4, SomewhereToGo DEF SkipTcp, Goto, top
  <1>5. CASE ReportErrors
    <2>1. top.err \in CandidateFailures \cup {None}
      BY <1>0, FrameFields
    <2> QED
      BY <1>5, <2>1 DEF ReportErrors, Raise, CandidateFailures
  <1>6. CASE Rounds \/ CheckTls
    BY <1>6 DEF Rounds, RefuseRound, StartRound, Scan, TryCandidate, FallBack, CheckTls,
                Call, Goto, Raise
  <1>7. CASE Logins
    <2>1. CASE TooManyLogins \/ LoginFails \/ LoginSucceeds
      BY <2>1 DEF TooManyLogins, LoginFails, LoginSucceeds, Goto, Raise
    <2>2. CASE LoginRestarts \/ LoginRedirects
      <3>1. /\ cpc = "answer" /\ cpc' \in {"login", "round", "raise"} /\ haveUnix' = haveUnix
            /\ exc' = exc \/ exc' = "other"
        BY <2>2 DEF LoginRestarts, LoginRedirects, Goto, Raise
      <3> QED
        BY <3>1
    <2>3. ASSUME NEW servertype, AttemptLogin(servertype) PROVE NoErrorYet'
      BY <2>3 DEF AttemptLogin, Goto
    <2> QED
      BY <1>7, <2>1, <2>2, <2>3 DEF Logins
  <1>8. CASE Catch
    BY <1>0, <1>8 DEF Catch, Exceptions
  <1>9. CASE Unwind \/ GiveUp
    BY <1>9 DEF Unwind, GiveUp
  <1>10. CASE Ended \/ UNCHANGED vars
    BY <1>10 DEF Ended, vars, own, top
  <1> QED
    BY <1>1, <1>2, <1>3, <1>4, <1>5, <1>6, <1>7, <1>8, <1>9, <1>10 DEF Next, Sockets

\* 'assert err' holds on every host that has Unix sockets, wherever the
\* redirects lead.
THEOREM ErrorsKnown == Spec => []ErrorKnown
  <1>1. Init => NoErrorYet
    BY ConnectAssumption DEF Init, NoErrorYet, ErrorKnown, Exceptions
  <1>2. NoErrorYet => ErrorKnown
    BY DEF NoErrorYet
  <1> QED
    BY <1>1, <1>2, InitLayout, LayoutStep, NoErrorYetStep, PTL DEF Spec

-----------------------------------------------------------------------------
(* Credentials and the effective target.                                   *)

LEMMA AttemptOffer ==
    ASSUME Layout, NEW servertype, AttemptLogin(servertype)
    PROVE  /\ offer'.servertype = servertype /\ offer'.to = peer
           /\ offer'.database = own.database
           /\ offer'.user = IF servertype = Merovingian THEN Merovingian ELSE own.user
  <1>1. heap \in Seq(Target) /\ own \in Target /\ heap[Len(heap)] = own
    BY OwnTarget DEF Layout
  <1>2. CASE servertype = Merovingian
    <2> DEFINE t == [own EXCEPT !.user = Merovingian]
               h == Append(heap, t)
    <2>1. t \in Target /\ t.user = Merovingian /\ t.database = own.database
      BY <1>1, ConnectAssumption DEF Target
    <2>2. h[Len(h)] = t
      BY <1>1, <2>1, Grow
    <2>3. offer' = [servertype |-> servertype, user |-> h[Len(h)].user,
                    database |-> h[Len(h)].database, to |-> peer]
      BY <1>2 DEF AttemptLogin, AttemptTarget
    <2> QED
      BY <1>2, <2>1, <2>2, <2>3
  <1>3. CASE servertype # Merovingian
    BY <1>1, <1>3 DEF AttemptLogin, AttemptTarget
  <1> QED
    BY <1>2, <1>3

LEMMA ToldStep == Layout /\ Told /\ [Next]_vars => Told'
  <1> SUFFICES ASSUME Layout, Told, [Next]_vars PROVE Told'
    OBVIOUS
  <1>0. /\ DOMAIN stack = 1..Len(stack) /\ Len(stack) \in Nat \ {0}
        /\ DOMAIN stack' = 1..Len(stack') /\ Len(stack') \in Nat
        /\ own = heap[Len(heap)] /\ top.own = Len(heap) /\ top \in Frame /\ own \in Target
        /\ Agrees(own, top.told)
    <2>1. DOMAIN stack = 1..Len(stack) /\ DOMAIN stack' = 1..Len(stack') /\ Len(stack') \in Nat
      BY LayoutStep DEF Layout
    <2>2. Agrees(own, top.told)
      BY <2>1, OwnTarget DEF Told, own, top
    <2> QED
      BY <2>1, <2>2, OwnTarget DEF Layout
  <1>1. CASE UNCHANGED <<heap, stack>>
    BY <1>1 DEF Told
  <1>2. ASSUME Writes, Agrees(heap'[Len(heap)], top'.told) PROVE Told'
    <2> SUFFICES ASSUME NEW k \in 1..Len(stack)
                 PROVE  Agrees(heap'[stack'[k].own], stack'[k].told)
      BY <1>0, <1>2 DEF Told, Writes
    <2>1. CASE k = 1
      BY <1>0, <1>2, <2>1 DEF Writes, top
    <2>2. CASE k # 1
      <3>1. k \in 2..Len(stack) /\ stack[k].own \in 1..(Len(heap) - 1)
        BY <2>2, InHeap
      <3>2. stack'[k] = stack[k] /\ heap'[stack[k].own] = heap[stack[k].own]
        BY <1>2, <3>1 DEF Writes
      <3> QED
        BY <1>0, <3>2 DEF Told
    <2> QED
      BY <2>1, <2>2
  <1>3. CASE Calls
    <2> SUFFICES ASSUME NEW k \in 1..Len(stack')
                 PROVE  Agrees(heap'[stack'[k].own], stack'[k].told)
      BY <1>0 DEF Told
    <2>0. Len(heap) \in Nat /\ Len(heap') \in Nat /\ Len(heap') > Len(heap)
      BY <1>3, OwnTarget, LayoutStep DEF Calls, Layout
    <2>1. CASE k = 1
      BY <1>0, <1>3, <2>0, <2>1, SMTT(20) DEF Calls, Agrees
    <2>2. CASE k # 1
      <3>1. k \in 2..Len(stack')
        BY <2>2
      <3>2. /\ k - 1 \in 1..Len(stack)
            /\ stack'[k].own = stack[k - 1].own /\ stack'[k].told = stack[k - 1].told
        BY <1>3, <3>1, CallsSame
      <3>3. stack[k - 1].own \in 1..Len(heap)
        BY <3>2, InHeap
      <3>4. CASE stack[k - 1].own = Len(heap)
        <4>1. heap'[Len(heap)].database = own.database /\ heap'[Len(heap)].user = own.user
          BY <1>3, <2>0 DEF Calls
        <4> QED
          BY <1>0, <3>2, <3>4, <4>1 DEF Told, Agrees
      <3>5. CASE stack[k - 1].own # Len(heap)
        <4>1. stack[k - 1].own \in 1..(Len(heap) - 1)
          BY <2>0, <3>3, <3>5
        <4>2. heap'[stack[k - 1].own] = heap[stack[k - 1].own]
          BY <1>3, <4>1 DEF Calls
        <4> QED
          BY <1>0, <3>2, <4>2 DEF Told
      <3> QED
        BY <3>4, <3>5
    <2> QED
      BY <2>1, <2>2
  <1>4. CASE Returns
    <2> SUFFICES ASSUME NEW k \in 1..Len(stack')
                 PROVE  Agrees(heap'[stack'[k].own], stack'[k].told)
      BY <1>0 DEF Told
    <2>1. /\ k + 1 \in 2..Len(stack)
          /\ stack'[k].own = stack[k + 1].own /\ stack'[k].told = stack[k + 1].told
      BY <1>4, ReturnsSame
    <2>2. stack'[k].own \in 1..Len(heap')
      BY <1>0, LayoutStep, InHeapPrimed
    <2>3. heap'[stack[k + 1].own] = heap[stack[k + 1].own]
      BY <1>4, <2>1, <2>2 DEF Returns
    <2> QED
      BY <1>0, <2>1, <2>3 DEF Told
  <1>5. CASE StartRound
    BY <1>0, <1>2, <1>5, StartRoundStep DEF NextRound, Frame, own
  <1>6. CASE Scan
    <2>1. PICK err \in CandidateFailures \cup {None}, usocks \in Seq(Socket) :
              Writes /\ top' = NextRound(err, usocks) /\ heap' = heap
      BY <1>6, ScanStep
    <2> QED
      BY <1>0, <1>2, <2>1 DEF NextRound, Frame
  <1>7. ASSUME NEW next, Failed("OSError", next), heap' = heap PROVE Told'
    BY <1>0, <1>2, <1>7, FailedStep DEF Frame
  <1>8. CASE LoginRestarts
    <2>1. PICK r \in Restart : /\ Writes
                               /\ top'.told = Heard(top.told, r)
                               /\ heap'[Len(heap)] = Named(own, r)
      BY <1>8, LoginRestartsStep DEF LoginRestarts
    <2> QED
      BY <1>0, <1>2, <2>1, NamedTarget, FrameFields
  <1>9. CASE LoginRedirects
    <2>1. PICK r \in Redirect : /\ Writes
                                /\ top'.told = Heard(top.told, r)
                                /\ heap'[Len(heap)] = Named(own, r)
      BY <1>9, LoginRedirectsStep DEF LoginRedirects
    <2> QED
      BY <1>0, <1>2, <2>1, NamedTarget, FrameFields
  <1>10. CASE OpenUnix \/ OpenTcp
    BY <1>1, <1>7, <1>10 DEF OpenUnix, OpenTcp, Connected
  <1>11. CASE TryCandidate \/ FallBack
    BY <1>3, <1>11, TryCandidateStep, FallBackStep
  <1>12. CASE Catch \/ Unwind
    BY <1>4, <1>12, CatchStep, UnwindStep
  <1>13. ASSUME NEW servertype, AttemptLogin(servertype) PROVE Told'
    BY <1>1, <1>13, AttemptLoginStep
  <1>14. CASE UNCHANGED vars \/ Ended
    BY <1>1, <1>14 DEF vars, Ended
  <1>15. CASE RefuseRound \/ SkipUnix \/ SkipTcp \/ ReportErrors \/ CheckTls \/ TooManyLogins
              \/ LoginFails \/ LoginSucceeds \/ GiveUp
    BY <1>1, <1>15 DEF RefuseRound, SkipUnix, SkipTcp, ReportErrors, CheckTls, TooManyLogins,
       LoginFails, LoginSucceeds, GiveUp
  <1> QED
    BY <1>5, <1>6, <1>8, <1>9, <1>10, <1>11, <1>12, <1>13, <1>14, <1>15
       DEF Next, Rounds, Sockets, Logins

LEMMA HereStep == Layout /\ Told /\ Here /\ [Next]_vars => Here'
  <1> SUFFICES ASSUME Layout, Told, Here, [Next]_vars PROVE Here'
    OBVIOUS
  <1> USE DEF Here, CredentialsFit, EffectiveTarget
  <1>0. own.database = top.told.database /\ own.user = top.told.user /\ own \in Target
    <2>1. 1 \in DOMAIN stack
      BY OwnTarget DEF Layout
    <2> QED
      BY <2>1, OwnTarget DEF Told, Agrees, own, top
  <1>1. CASE OpenUnix
    BY <1>1 DEF OpenUnix, Connected, Failed, Goto, own, top
  <1>2. CASE OpenTcp
    BY <1>2 DEF OpenTcp, Connected, Failed, Goto, own, top
  <1>3. CASE CheckTls
    BY <1>3 DEF CheckTls, Goto, Raise, own, top
  <1>4. ASSUME NEW servertype, AttemptLogin(servertype) PROVE Here'
    <2>1. /\ own' = own /\ top' = top /\ peer' = peer
          /\ cpc = "login" /\ cpc' = "answer"
      BY <1>4, AttemptLoginStep DEF AttemptLogin, Goto, own, top
    <2> QED
      BY <1>0, <1>4, <2>1, AttemptOffer
  <1>5. CASE LoginRestarts
    <2>1. PICK r \in Restart : /\ Writes
                               /\ top'.moved = (top.moved \/ r.at # None)
                               /\ heap'[Len(heap)] = Named(own, r)
      BY <1>5, LoginRestartsStep DEF LoginRestarts
    <2>2. top'.own = Len(heap)
      BY <2>1 DEF Writes, Layout, top
    <2>3. own' = Named(own, r)
      BY <2>1, <2>2 DEF own
    <2>4. ~top'.moved => ~top.moved /\ own'.at = own.at
      BY <2>1, <2>3 DEF Named, OrElse
    <2>5. own'.at = own.at => /\ ConnectUnix(own') = ConnectUnix(own)
                             /\ ConnectTcp(own') = ConnectTcp(own)
      BY DEF ConnectUnix, ConnectTcp
    <2>6. cpc = "answer" /\ cpc' \in {"login", "raise"} /\ peer' = peer
      BY <1>5 DEF LoginRestarts, Goto, Raise
    <2> QED
      BY <2>4, <2>5, <2>6
  <1>6. CASE LoginSucceeds
    BY <1>0, <1>6 DEF LoginSucceeds, Goto, top
  <1>7. CASE Rounds
    BY <1>7 DEF Rounds, RefuseRound, StartRound, Scan, TryCandidate, FallBack, Call, Goto, Raise
  <1>8. CASE SkipUnix \/ SkipTcp \/ ReportErrors
    BY <1>8 DEF SkipUnix, SkipTcp, ReportErrors, Goto, Raise
  <1>9. CASE TooManyLogins \/ LoginFails \/ LoginRedirects
    BY <1>9 DEF TooManyLogins, LoginFails, LoginRedirects, Goto, Raise
  <1>10. CASE Catch \/ Unwind \/ GiveUp
    BY <1>10 DEF Catch, Unwind, GiveUp
  <1>11. CASE Ended \/ UNCHANGED vars
    BY <1>11 DEF Ended, vars, own, top
  <1> QED
    BY <1>1, <1>2, <1>3, <1>4, <1>5, <1>6, <1>7, <1>8, <1>9, <1>10, <1>11
       DEF Next, Sockets, Logins

LEMMA InitTold == Init => Told
  <1> SUFFICES ASSUME Init PROVE Told
    OBVIOUS
  <1>1. PICK t \in Start :
            /\ heap \in Seq(Target) /\ Len(heap) = 2 /\ \A i \in 1..2 : heap[i] = t
            /\ stack = <<FirstCall(t)>>
    BY InitHeap
  <1>2. heap[2] = t
    BY <1>1
  <1> QED
    BY <1>1, <1>2 DEF Told, Agrees, FirstCall

LEMMA InitHere == Init => Here
  BY DEF Init, Here, CredentialsFit, EffectiveTarget

\* Whoever the servers on the way say they are, and whatever users they name,
\* merovingian's built-in credentials are what merovingian is offered, and
\* every other server is offered the user that was named last.
THEOREM CredentialsForTheirServer == Spec => []CredentialsFit
  <1>1. Here => CredentialsFit
    BY DEF Here
  <1> QED
    BY <1>1, InitLayout, InitTold, InitHere, LayoutStep, ToldStep, HereStep, PTL DEF Spec

\* The docstring of connect: what it returns is the target after all
\* redirects.  The session is on the database that was named last on the way
\* there, for the user that was; and the target stands for the place the
\* socket is connected to, unless a restart on it has named another address.
THEOREM EffectiveTargetReturned == Spec => []EffectiveTarget
  <1>1. Here => EffectiveTarget
    BY DEF Here
  <1> QED
    BY <1>1, InitLayout, InitTold, InitHere, LayoutStep, ToldStep, HereStep, PTL DEF Spec

-----------------------------------------------------------------------------
(* Nobody is skipped.                                                      *)

\* The call democlient made keeps the target it was given.
LEMMA BottomStep ==
    ASSUME Layout, [Next]_vars
    PROVE  bottom'.was = bottom.was
  <1>0. Len(stack) \in Nat \ {0}
    BY OwnTarget
  <1>1. CASE UNCHANGED <<heap, stack>>
    BY <1>1 DEF bottom
  <1>2. CASE Writes
    <2>1. Len(stack') = Len(stack) /\ Len(stack) \in 1..Len(stack)
      BY <1>0, <1>2 DEF Writes
    <2> QED
      BY <1>2, <2>1, WritesSame DEF bottom
  <1>3. CASE Calls
    <2>1. /\ Len(stack') = Len(stack) + 1 /\ Len(stack') \in 2..Len(stack')
          /\ Len(stack') - 1 = Len(stack)
      BY <1>0, <1>3 DEF Calls
    <2> QED
      BY <1>3, <2>1, CallsSame DEF bottom
  <1>4. CASE Returns
    <2>1. /\ Len(stack') = Len(stack) - 1 /\ Len(stack') \in 1..Len(stack')
          /\ Len(stack') + 1 = Len(stack)
      BY <1>0, <1>4 DEF Returns
    <2> QED
      BY <1>4, <2>1, ReturnsSame DEF bottom
  <1> QED
    BY <1>1, <1>2, <1>3, <1>4, StackStep

Scanning == bottom.was.at.valid /\ ConnectScan(bottom.was)

\* The call directly below democlient's, for a candidate or for the
\* fallback, and the place it is to connect to.
sub == stack[Len(stack) - 1]

Place == IF bottom.trying THEN sub.was.at.sock ELSE "localhost"

\* That call has tried its place, has died of an assertion, or is on its way.
Underway ==
    \/ Place \in tried
    \/ exc = "AssertionError"
    \/ /\ Len(stack) = 2
       /\ own.at = sub.was.at
       /\ \/ sub.inner = 0 /\ cpc = "round"
          \/ /\ sub.inner = 1 /\ sub.err = None
             /\ cpc \in {"unix", "tcp"} \/ (bottom.trying /\ cpc = "noSock")

\* The scan waits for the call below it.
Below ==
    /\ bottom.inner = 1
    /\ sub.was.at.valid
    /\ IF bottom.trying
       THEN /\ heap[bottom.own].at.valid /\ ConnectScan(heap[bottom.own])
            /\ sub.was.at.host = None /\ sub.was.at.sock \in Socket
            /\ bottom.found \subseteq tried \cup ToSet(bottom.todo) \cup {Place}
       ELSE /\ sub.was.at.host = "localhost" /\ sub.was.at.sock = None
            /\ bottom.found \subseteq tried
    /\ Underway

AllTried == bottom.found \cup {"localhost"} \subseteq tried

\* The scan is about to begin, between two candidates, or over.
AtBottom ==
    \/ /\ bottom.inner = 0 /\ cpc = "round"
       /\ own.at = bottom.was.at /\ ~bottom.trying
    \/ /\ bottom.inner = 1 /\ cpc = "scan"
       /\ own.at.valid /\ ConnectScan(own) /\ ~bottom.trying
       /\ bottom.found \subseteq tried \cup ToSet(bottom.todo)
    \/ /\ bottom.inner = 1 /\ cpc \in {"raise", "failed"}
       /\ exc \in CandidateFailures => AllTried

NobodyYet ==
    /\ cpc = "failed" => Len(stack) = 1
    /\ Scanning => IF Len(stack) = 1 THEN AtBottom ELSE Below

LEMMA TriedGrows == [Next]_vars => tried \subseteq tried'
  BY DEF Next, vars, Rounds, Sockets, Logins, RefuseRound, StartRound, Scan, TryCandidate,
         FallBack, OpenUnix, SkipUnix, OpenTcp, SkipTcp, ReportErrors, CheckTls,
         TooManyLogins, AttemptLogin, LoginFails, LoginRestarts, LoginRedirects,
         LoginSucceeds, Catch, Unwind, GiveUp, Ended, Trying

LEMMA AssertionStays ==
    ASSUME Control, [Next]_vars, exc = "AssertionError"
    PROVE  exc' = "AssertionError"
  <1>1. cpc \in {"raise", "failed"}
    BY ConnectAssumption DEF Control, Exceptions
  <1> QED
    BY <1>1 DEF Next, vars, Rounds, Sockets, Logins, RefuseRound, StartRound, Scan,
         TryCandidate, FallBack, OpenUnix, SkipUnix, OpenTcp, SkipTcp, ReportErrors, CheckTls,
         TooManyLogins, AttemptLogin, LoginFails, LoginRestarts, LoginRedirects,
         LoginSucceeds, Catch, Unwind, GiveUp, Ended, CandidateFailures

LEMMA Lengths ==
    /\ Writes => Len(stack') = Len(stack)
    /\ Calls => Len(stack') = Len(stack) + 1
    /\ Returns => Len(stack') = Len(stack) - 1
    /\ UNCHANGED <<heap, stack>> => Len(stack') = Len(stack)
  BY DEF Writes, Calls, Returns

\* What is below the innermost call stays.
LEMMA BelowSame ==
    ASSUME Layout, [Next]_vars, Len(stack) > 1, Len(stack') > 1
    PROVE  bottom' = bottom /\ sub'.was = sub.was /\ heap'[bottom'.own] = heap[bottom.own]
  <1> DEFINE n == Len(stack)
  <1>0. /\ n \in 2..n /\ n - 1 \in 1..n /\ Len(heap) \in Nat
        /\ stack[n].own \in 1..(Len(heap) - 1)
    BY OwnTarget, InHeap
  <1>1. CASE UNCHANGED <<heap, stack>>
    BY <1>1 DEF bottom, sub
  <1>2. CASE Writes
    BY <1>0, <1>2, WritesSame DEF Writes, bottom, sub
  <1>3. CASE Calls
    <2>1. Len(stack') = n + 1 /\ stack'[n + 1] = stack[n]
      BY <1>0, <1>3 DEF Calls
    <2>2. stack'[n].was = stack[n - 1].was
      BY <1>0, <1>3, <2>1, CallsSame
    <2>3. heap'[stack[n].own] = heap[stack[n].own]
      BY <1>0, <1>3 DEF Calls
    <2>4. Len(stack') - 1 = n
      BY <1>0, <2>1
    <2> QED
      BY <2>1, <2>2, <2>3, <2>4 DEF bottom, sub
  <1>4. CASE Returns
    <2>1. Len(stack') = n - 1 /\ n \in 3..n
      BY <1>0, <1>4 DEF Returns
    <2>2. stack'[n - 1] = stack[n]
      BY <1>4, <2>1 DEF Returns
    <2>3. /\ n - 2 \in 1..Len(stack') /\ (n - 2) + 1 = n - 1 /\ Len(stack') - 1 = n - 2
      BY <2>1
    <2>4. stack'[n - 2].was = stack[n - 1].was
      BY <1>4, <2>3, ReturnsSame
    <2>5. stack[n].own \in 1..caller.own
      <3>1. 2 < n /\ 2 \in 1..n /\ n \in 1..n /\ DOMAIN stack = 1..n
        BY <2>1 DEF Layout
      <3>2. stack[n].own <= stack[2].given
        BY <3>1 DEF Layout
      <3>3. stack[2].given \in 1..(stack[2].own - 1) /\ stack[2].own \in Nat
        BY <3>1, InHeap
      <3> QED
        BY <1>0, <3>2, <3>3 DEF caller
    <2>6. heap'[stack[n].own] = heap[stack[n].own]
      BY <1>4, <2>5 DEF Returns
    <2> QED
      BY <2>1, <2>2, <2>3, <2>4, <2>6 DEF bottom, sub
  <1> QED
    BY <1>1, <1>2, <1>3, <1>4, StackStep

\* A call on its way to its place gets there.
LEMMA UnderwayStep ==
    ASSUME Layout, Control, Below, [Next]_vars, Len(stack) > 1, Len(stack') > 1
    PROVE  Underway'
  <1>0. bottom' = bottom /\ sub'.was = sub.was /\ Place' = Place
    BY BelowSame DEF Place
  <1>1. CASE Place \in tried
    BY <1>0, <1>1, TriedGrows DEF Underway
  <1>2. CASE exc = "AssertionError"
    BY <1>2, AssertionStays DEF Underway
  <1>3. CASE /\ Len(stack) = 2
             /\ own.at = sub.was.at
             /\ \/ sub.inner = 0 /\ cpc = "round"
                \/ /\ sub.inner = 1 /\ sub.err = None
                   /\ cpc \in {"unix", "tcp"} \/ (bottom.trying /\ cpc = "noSock")
    <2>0. /\ sub = top /\ top \in Frame /\ own \in Target /\ heap[Len(heap)] = own
          /\ top.own = Len(heap)
      BY <1>3, OwnTarget DEF sub, top, Layout
    <2>1. /\ own.at.valid
          /\ bottom.trying => own.at.host = None /\ own.at.sock = Place /\ Place \in Socket
          /\ ~bottom.trying => own.at.host = Place /\ own.at.sock = None
      BY <1>3 DEF Below, Place
    <2>2. /\ None \notin Socket /\ None # "localhost" /\ 0 < MaxRounds /\ 2 <= MaxDepth
      BY ConnectAssumption DEF Socket, Path
    <2>3. ~ConnectScan(own)
      BY <2>1, <2>2 DEF ConnectScan, Place
    <2>4. /\ bottom.trying => ConnectUnix(own) = Place
          /\ ~bottom.trying => ConnectUnix(own) = None /\ ConnectTcp(own) = Place
      BY <2>1, <2>2 DEF ConnectUnix, ConnectTcp, Place
    <2>5. ASSUME sub.inner = 1, UNCHANGED <<heap, stack, exc>>,
                 cpc' \in {"unix", "tcp"} \/ (bottom.trying /\ cpc' = "noSock")
          PROVE  Underway'
      <3>0. sub.err = None
        BY <1>3, <2>5
      <3>1. Len(stack') = 2 /\ sub' = sub /\ own' = own /\ sub.err = None
        BY <1>3, <2>5, <3>0 DEF sub, own, top
      <3> QED
        BY <1>0, <1>3, <2>5, <3>1 DEF Underway
    <2>6. CASE RefuseRound
      BY <1>3, <2>0, <2>1, <2>2, <2>6 DEF RefuseRound, RoundAllowed
    <2>7. CASE StartRound
      <3>1. Writes /\ top' = NextRound(None, <<>>) /\ heap' = heap
        BY <2>7, StartRoundStep
      <3>2. Len(stack') = 2 /\ sub' = top'
        BY <1>3, <3>1 DEF Writes, sub, top
      <3>3. own' = own
        BY <2>0, <3>1 DEF own, NextRound, Frame
      <3>4. sub.inner = 0
        BY <1>3, <2>7 DEF StartRound
      <3>5. top'.inner = 1 /\ top'.err = None
        BY <2>0, <3>1, <3>4 DEF NextRound, Frame
      <3> QED
        BY <1>0, <1>3, <2>7, <3>2, <3>3, <3>5 DEF Underway, StartRound, Goto
    <2>8. CASE Scan
      BY <2>3, <2>8 DEF Scan
    <2>9. CASE OpenUnix
      BY <1>0, <1>3, <2>0, <2>4, <2>9 DEF OpenUnix, Trying, Underway
    <2>10. CASE SkipUnix
      BY <1>3, <2>5, <2>10 DEF SkipUnix, Goto
    <2>11. CASE OpenTcp
      <3>1. ConnectTcp(own) = Place
        <4>1. bottom.trying => ConnectTcp(own) = None
          BY <2>1, <2>2 DEF ConnectTcp
        <4> QED
          BY <2>4, <2>11, <4>1 DEF OpenTcp
      <3> QED
        BY <1>0, <1>3, <2>0, <2>11, <3>1 DEF OpenTcp, Trying, Underway
    <2>12. CASE SkipTcp
      <3>1. bottom.trying
        BY <2>2, <2>4, <2>12 DEF SkipTcp, Place
      <3> QED
        BY <1>3, <2>5, <2>12, <3>1 DEF SkipTcp, Goto
    <2>13. CASE ReportErrors
      BY <1>3, <2>0, <2>13 DEF ReportErrors, Raise, Underway
    <2>14. CASE UNCHANGED vars
      BY <1>0, <1>3, <2>14 DEF vars, Underway, sub, own, top
    <2>15. cpc \in {"round", "unix", "tcp", "noSock"}
      BY <1>3
    <2> QED
      BY <2>6, <2>7, <2>8, <2>9, <2>10, <2>11, <2>12, <2>13, <2>14, <2>15
         DEF Next, Rounds, Sockets, Logins, TryCandidate, FallBack, CheckTls, TooManyLogins,
             AttemptLogin, LoginFails, LoginRestarts, LoginRedirects, LoginSucceeds, Catch,
             Unwind, GiveUp, Ended
  <1> QED
    BY <1>1, <1>2, <1>3 DEF Below, Underway

LEMMA BelowStep ==
    ASSUME Layout, Control, Below, [Next]_vars, Len(stack) > 1, Len(stack') > 1
    PROVE  Below'
  <1>1. /\ bottom' = bottom /\ sub'.was = sub.was /\ Place' = Place
        /\ heap'[bottom'.own] = heap[bottom.own]
    BY BelowSame DEF Place
  <1> QED
    BY <1>1, TriedGrows, UnderwayStep DEF Below

\* The first step, the steps of the scan itself, and the end.
LEMMA BottomStaysStep ==
    ASSUME Layout, Control, Scanning, AtBottom, [Next]_vars,
           Len(stack) = 1, Len(stack') = 1
    PROVE  AtBottom'
  <1>0. /\ bottom = top /\ top \in Frame /\ bottom' = top' /\ own \in Target
        /\ 0 < MaxRounds /\ 1 <= MaxDepth
    BY OwnTarget, ConnectAssumption DEF bottom, top
  <1>1. CASE /\ bottom.inner = 0 /\ cpc = "round"
             /\ own.at = bottom.was.at /\ ~bottom.trying
    <2>1. ConnectScan(own) /\ RoundAllowed
      BY <1>0, <1>1 DEF Scanning, ConnectScan, RoundAllowed
    <2>2. CASE Scan
      <3>1. PICK err \in CandidateFailures \cup {None}, usocks \in Seq(Socket) :
                Writes /\ top' = NextRound(err, usocks) /\ heap' = heap
        BY <2>2, ScanStep
      <3>2. /\ top'.inner = 1 /\ top'.own = top.own /\ top'.found = ToSet(usocks)
            /\ top'.todo = usocks /\ ~top'.trying
        BY <1>0, <1>1, <3>1 DEF NextRound, Frame
      <3>3. own' = own
        BY <3>1, <3>2 DEF own
      <3>4. own.at.valid
        BY <2>1 DEF RoundAllowed
      <3> QED
        BY <1>0, <2>1, <2>2, <3>2, <3>3, <3>4 DEF AtBottom, Scan, Goto
    <2>3. CASE RefuseRound \/ StartRound
      BY <2>1, <2>3 DEF RefuseRound, StartRound
    <2>4. CASE UNCHANGED vars
      BY <2>4 DEF vars, AtBottom, bottom, own, top, AllTried
    <2> QED
      BY <1>1, <2>2, <2>3, <2>4
         DEF Next, Rounds, Sockets, Logins, TryCandidate, FallBack, OpenUnix, SkipUnix,
             OpenTcp, SkipTcp, ReportErrors, CheckTls, TooManyLogins,
             AttemptLogin, LoginFails, LoginRestarts, LoginRedirects, LoginSucceeds, Catch,
             Unwind, GiveUp, Ended
  <1>2. CASE bottom.inner = 1 /\ cpc = "scan"
    <2>1. CASE TryCandidate \/ FallBack
      BY <2>1, TryCandidateStep, FallBackStep DEF Calls
    <2>2. CASE UNCHANGED vars
      BY <2>2 DEF vars, AtBottom, bottom, own, top, AllTried
    <2> QED
      BY <1>2, <2>1, <2>2
         DEF Next, Rounds, Sockets, Logins, RefuseRound, StartRound, Scan, OpenUnix, SkipUnix,
             OpenTcp, SkipTcp, ReportErrors, CheckTls, TooManyLogins,
             AttemptLogin, LoginFails, LoginRestarts, LoginRedirects, LoginSucceeds, Catch,
             Unwind, GiveUp, Ended
  <1>3. CASE /\ bottom.inner = 1 /\ cpc \in {"raise", "failed"}
             /\ exc \in CandidateFailures => AllTried
    <2>1. CASE GiveUp
      BY <1>3, <2>1 DEF GiveUp, AtBottom, bottom, AllTried
    <2>2. CASE UNCHANGED vars \/ Ended
      BY <1>3, <2>2 DEF vars, Ended, AtBottom, bottom, AllTried
    <2>3. ~(Rounds \/ Sockets)
      BY <1>3 DEF Rounds, Sockets, RefuseRound, StartRound, Scan, TryCandidate, FallBack,
         OpenUnix, SkipUnix, OpenTcp, SkipTcp, ReportErrors, CheckTls
    <2>4. ~Logins
      BY <1>3 DEF Logins, TooManyLogins, AttemptLogin, LoginFails, LoginRestarts,
         LoginRedirects, LoginSucceeds
    <2>5. ~(Catch \/ Unwind)
      BY DEF Catch, Unwind
    <2> QED
      BY <2>1, <2>2, <2>3, <2>4, <2>5 DEF Next
  <1> QED
    BY <1>1, <1>2, <1>3 DEF AtBottom

\* The scan calls connect.
LEMMA BottomCallsStep ==
    ASSUME Layout, Control, Scanning, AtBottom, [Next]_vars,
           Len(stack) = 1, Len(stack') > 1
    PROVE  Below'
  <1>0. /\ bottom = top /\ top \in Frame /\ own \in Target
        /\ top.todo \in Seq(Socket) /\ top.found \in SUBSET Socket
    BY OwnTarget, FrameFields DEF bottom, top
  <1>1. TryCandidate \/ FallBack
    <2>1. ~(Writes \/ Returns \/ UNCHANGED <<heap, stack>>)
      <3>1. ASSUME Writes PROVE FALSE
        <4>1. Len(stack') = Len(stack)
          BY <3>1, Lengths
        <4> QED
          BY <4>1
      <3>2. ASSUME Returns PROVE FALSE
        BY <3>2 DEF Returns
      <3>3. ASSUME UNCHANGED <<heap, stack>> PROVE FALSE
        BY <3>3
      <3> QED
        BY <3>1, <3>2, <3>3
    <2>2. CASE Rounds
      BY <2>1, <2>2, StartRoundStep, ScanStep DEF Rounds, RefuseRound
    <2>3. CASE Sockets
      BY <2>1, <2>3, FailedStep DEF Sockets, OpenUnix, SkipUnix, OpenTcp, SkipTcp,
         ReportErrors, CheckTls, Connected
    <2>4. CASE Logins
      BY <2>1, <2>4, AttemptLoginStep, LoginRestartsStep, LoginRedirectsStep
         DEF Logins, TooManyLogins, LoginFails, LoginRestarts, LoginRedirects, LoginSucceeds
    <2>5. CASE Catch \/ Unwind
      BY <2>1, <2>5, CatchStep, UnwindStep
    <2>6. CASE GiveUp \/ Ended \/ UNCHANGED vars
      BY <2>1, <2>6 DEF GiveUp, Ended, vars
    <2> QED
      BY <2>2, <2>3, <2>4, <2>5, <2>6 DEF Next
  <1>2. cpc = "scan" /\ cpc' = "round" /\ tried' = tried
    BY <1>1 DEF TryCandidate, FallBack, Call, Goto
  <1>3. /\ bottom.inner = 1 /\ own.at.valid /\ ConnectScan(own)
        /\ bottom.found \subseteq tried \cup ToSet(bottom.todo)
    BY <1>2 DEF AtBottom
  <1>4. CASE TryCandidate
    <2>1. /\ Calls
          /\ Subtarget \in Target /\ Head(top.todo) \in Socket
          /\ top'.was = Subtarget /\ top'.inner = 0 /\ own' = Subtarget
          /\ stack'[2] = [top EXCEPT !.todo = Tail(@), !.trying = TRUE]
          /\ heap'[Len(heap)] = own
      BY <1>4, TryCandidateStep
    <2>2. Len(stack') = 2 /\ sub' = top' /\ bottom' = stack'[2]
      BY <2>1 DEF Calls, sub, top, bottom
    <2>3. /\ bottom'.inner = 1 /\ bottom'.trying /\ bottom'.found = top.found
          /\ bottom'.todo = Tail(top.todo) /\ bottom'.own = top.own
      BY <1>0, <1>3, <2>1, <2>2 DEF Frame
    <2>4. heap'[bottom'.own] = own
      BY <2>1, <2>3 DEF Layout
    <2>5. Subtarget.at.host = None /\ Subtarget.at.sock = Head(top.todo) /\ Subtarget.at.valid
      BY <1>0, <1>3 DEF Subtarget, Target, Address
    <2>6. ToSet(top.todo) \subseteq ToSet(Tail(top.todo)) \cup {Head(top.todo)}
      <3> SUFFICES ASSUME NEW i \in DOMAIN top.todo
                   PROVE  top.todo[i] \in ToSet(Tail(top.todo)) \cup {Head(top.todo)}
        BY DEF ToSet
      <3>1. top.todo # <<>>
        BY <1>4 DEF TryCandidate
      <3>2. CASE i = 1
        BY <1>0, <3>1, <3>2
      <3>3. CASE i # 1
        <4>1. /\ i - 1 \in 1..(Len(top.todo) - 1) /\ (i - 1) + 1 = i
              /\ DOMAIN Tail(top.todo) = 1..(Len(top.todo) - 1)
          BY <1>0, <3>1, <3>3
        <4>2. Tail(top.todo)[i - 1] = top.todo[i]
          BY <1>0, <3>1, <4>1, Pop
        <4> QED
          BY <4>1, <4>2 DEF ToSet
      <3> QED
        BY <3>2, <3>3
    <2>7. Place' = Head(top.todo)
      BY <2>1, <2>2, <2>3, <2>5 DEF Place
    <2>8. Underway'
      BY <1>2, <2>1, <2>2 DEF Underway
    <2> QED
      BY <1>0, <1>2, <1>3, <2>1, <2>2, <2>3, <2>4, <2>5, <2>6, <2>7, <2>8 DEF Below
  <1>5. CASE FallBack
    <2>1. /\ Calls
          /\ FallBackTarget \in Target
          /\ top'.was = FallBackTarget /\ top'.inner = 0 /\ own' = FallBackTarget
          /\ stack'[2] = top
      BY <1>5, FallBackStep
    <2>2. Len(stack') = 2 /\ sub' = top' /\ bottom' = bottom
      BY <1>0, <2>1 DEF Calls, sub, top, bottom
    <2>3. /\ FallBackTarget.at.host = "localhost" /\ FallBackTarget.at.sock = None
          /\ FallBackTarget.at.valid
      BY <1>0, <1>3 DEF FallBackTarget, Target, Address
    <2>4. ~bottom.trying /\ bottom.found \subseteq tried
      <3>1. ToSet(top.todo) = {}
        BY <1>5 DEF FallBack, ToSet
      <3> QED
        BY <1>0, <1>2, <1>3, <3>1 DEF AtBottom
    <2>5. Underway'
      BY <1>2, <2>1, <2>2 DEF Underway
    <2> QED
      BY <1>2, <1>3, <2>1, <2>2, <2>3, <2>4, <2>5 DEF Below
  <1> QED
    BY <1>1, <1>4, <1>5

\* The call the scan has made fails.
LEMMA BelowReturnsStep ==
    ASSUME Layout, Control, Below, [Next]_vars, Len(stack) > 1, Len(stack') = 1
    PROVE  AtBottom'
  <1>0. Len(stack) \in Nat \ {0} /\ Len(stack) # 1
    BY OwnTarget, OneOrMore
  <1>1. Catch \/ Unwind
    <2>1. ~(Writes \/ Calls \/ UNCHANGED <<heap, stack>>)
      <3>1. ASSUME Writes PROVE FALSE
        <4>1. Len(stack') = Len(stack)
          BY <3>1, Lengths
        <4> QED
          BY <1>0, <4>1
      <3>2. ASSUME Calls PROVE FALSE
        <4>1. Len(stack') = Len(stack) + 1
          BY <3>2, Lengths
        <4> QED
          BY <1>0, <4>1
      <3>3. ASSUME UNCHANGED <<heap, stack>> PROVE FALSE
        BY <1>0, <3>3
      <3> QED
        BY <3>1, <3>2, <3>3
    <2>2. CASE Rounds
      BY <2>1, <2>2, StartRoundStep, ScanStep, TryCandidateStep, FallBackStep
         DEF Rounds, RefuseRound
    <2>3. CASE Sockets
      BY <2>1, <2>3, FailedStep DEF Sockets, OpenUnix, SkipUnix, OpenTcp, SkipTcp,
         ReportErrors, CheckTls, Connected
    <2>4. CASE Logins
      BY <2>1, <2>4, AttemptLoginStep, LoginRestartsStep, LoginRedirectsStep
         DEF Logins, TooManyLogins, LoginFails, LoginRestarts, LoginRedirects, LoginSucceeds
    <2>5. CASE GiveUp \/ Ended \/ UNCHANGED vars
      BY <2>1, <2>5 DEF GiveUp, Ended, vars
    <2> QED
      BY <2>2, <2>3, <2>4, <2>5 DEF Next
  <1>2. /\ Returns /\ cpc = "raise" /\ tried' = tried
        /\ exc \in CandidateFailures => Place \in tried
    <2>1. Returns
      BY <1>1, CatchStep, UnwindStep
    <2> QED
      BY <1>1, <2>1 DEF Catch, Unwind, Below, Underway, CandidateFailures
  <1>3. /\ Len(stack) = 2 /\ bottom = caller /\ caller \in Frame /\ bottom' = top'
        /\ caller.own \in 1..Len(heap)
    <2>1. Len(stack) = 2 /\ 2 \in 1..Len(stack)
      BY <1>0, <1>2, Lengths
    <2> QED
      BY <2>1, InHeap, OwnTarget DEF bottom, caller, top
  <1>4. CASE Catch
    <2>1. top' = [caller EXCEPT !.err = exc, !.trying = FALSE]
      BY <1>4, CatchStep
    <2>2. /\ bottom'.inner = 1 /\ ~bottom'.trying /\ bottom'.found = bottom.found
          /\ bottom'.todo = bottom.todo /\ bottom'.own = bottom.own
      BY <1>3, <2>1 DEF Frame, Below
    <2>3. own' = heap[bottom.own]
      BY <1>2, <1>3, <2>2 DEF own, Returns
    <2>4. bottom.trying /\ exc \in CandidateFailures /\ cpc' = "scan"
      BY <1>3, <1>4 DEF Catch
    <2> QED
      BY <1>2, <2>2, <2>3, <2>4 DEF AtBottom, Below
  <1>5. CASE Unwind
    <2>1. top' = caller /\ cpc' = "raise" /\ exc' = exc
      BY <1>2, <1>5, UnwindStep DEF Unwind
    <2>2. ~(bottom.trying /\ exc \in CandidateFailures)
      BY <1>3, <1>5 DEF Unwind
    <2>3. exc \in CandidateFailures => AllTried
      BY <1>2, <2>2 DEF Below, AllTried, Place
    <2> QED
      BY <1>2, <1>3, <2>1, <2>3 DEF AtBottom, Below, AllTried
  <1> QED
    BY <1>1, <1>4, <1>5

LEMMA NobodyYetStep == Layout /\ Control /\ NobodyYet /\ [Next]_vars => NobodyYet'
  <1> SUFFICES ASSUME Layout, Control, NobodyYet, [Next]_vars PROVE NobodyYet'
    OBVIOUS
  <1>0. Len(stack) \in Nat \ {0} /\ Len(stack') \in Nat \ {0}
    <2>1. stack' \in Seq(Frame) /\ stack' # <<>>
      BY LayoutStep DEF Layout
    <2> QED
      BY <2>1, OwnTarget
  <1>1. cpc' = "failed" => Len(stack') = 1
    <2>1. CASE GiveUp
      BY <2>1 DEF GiveUp
    <2>2. CASE UNCHANGED vars \/ Ended
      BY <2>2 DEF vars, Ended, NobodyYet
    <2>3. CASE Unwind
      BY <2>3 DEF Unwind
    <2>4. CASE Rounds \/ Sockets \/ Logins \/ Catch
      BY <2>4 DEF Rounds, Sockets, Logins, RefuseRound, StartRound, Scan, TryCandidate,
             FallBack, OpenUnix, SkipUnix,
             OpenTcp, SkipTcp, ReportErrors, CheckTls, TooManyLogins,
             AttemptLogin, LoginFails, LoginRestarts, LoginRedirects, LoginSucceeds, Catch,
             Call, Goto, Raise, Connected, Failed
    <2> QED
      BY <2>1, <2>2, <2>3, <2>4 DEF Next
  <1>2. Scanning' <=> Scanning
    BY BottomStep DEF Scanning
  <1>3. ASSUME Scanning PROVE IF Len(stack') = 1 THEN AtBottom' ELSE Below'
    <2>1. CASE Len(stack) = 1
      <3>1. AtBottom /\ (Len(stack') = 1 \/ Len(stack') > 1)
        BY <1>0, <1>3, <2>1 DEF NobodyYet
      <3> QED
        BY <1>3, <2>1, <3>1, BottomStaysStep, BottomCallsStep
    <2>2. CASE Len(stack) # 1
      <3>1. Below /\ Len(stack) > 1 /\ (Len(stack') = 1 \/ Len(stack') > 1)
        <4>1. Len(stack) > 1 /\ (Len(stack') = 1 \/ Len(stack') > 1)
          BY <1>0, <2>2, OneOrMore
        <4> QED
          BY <1>3, <2>2, <4>1 DEF NobodyYet
      <3> QED
        BY <3>1, BelowReturnsStep, BelowStep
    <2> QED
      BY <2>1, <2>2
  <1> QED
    BY <1>1, <1>2, <1>3 DEF NobodyYet

\* A scan that ends in a connect or login error has been everywhere: at
\* every socket it found, and at localhost.
THEOREM ScanSkipsNobody == Spec => []NobodySkipped
  <1>1. Init => NobodyYet
    <2> SUFFICES ASSUME Init PROVE NobodyYet
      OBVIOUS
    <2>1. PICK t \in Start :
              /\ heap \in Seq(Target) /\ Len(heap) = 2 /\ \A i \in 1..2 : heap[i] = t
              /\ stack = <<FirstCall(t)>>
      BY InitHeap
    <2>2. heap[2] = t
      BY <2>1
    <2>3. Len(stack) = 1 /\ bottom.inner = 0 /\ own.at = bottom.was.at /\ ~bottom.trying
      BY <2>1, <2>2 DEF bottom, own, top, FirstCall
    <2> QED
      BY <2>3 DEF Init, NobodyYet, AtBottom
  <1>2. NobodyYet => NobodySkipped
    <2> SUFFICES ASSUME NobodyYet, cpc = "failed", exc \in {"ErrorMessage", "OSError"},
                        stack[1].was.at.valid, ConnectScan(stack[1].was)
                 PROVE  stack[1].found \cup {"localhost"} \subseteq tried
      BY DEF NobodySkipped
    <2>1. Len(stack) = 1 /\ bottom = stack[1]
      BY DEF NobodyYet, bottom
    <2>2. AtBottom
      BY <2>1 DEF NobodyYet, Scanning
    <2> QED
      BY <2>1, <2>2 DEF AtBottom, AllTried, CandidateFailures
  <1> QED
    BY <1>1, <1>2, InitLayout, InitControl, LayoutStep, ControlStep, NobodyYetStep, PTL DEF Spec
=============================================================================
