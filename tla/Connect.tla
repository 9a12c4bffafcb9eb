------------------------------ MODULE Connect ------------------------------
(***************************************************************************)
(* democlient.py from connect down to the outcome of a login: the rounds   *)
(* of redirects, the scan of the directory of Unix sockets with the        *)
(* fallback to TCP, and the logins that restart on the same connection.    *)
(* connect calls itself, so there is a stack of its calls, innermost       *)
(* first.  Targets are mutable objects that are handed around: they live   *)
(* in a heap, which grows with every clone and shrinks when an exception   *)
(* leaves a call; a reference is an index into it.  What a server does in  *)
(* a login is its own choice; module Login has one with demoserver.        *)
(***************************************************************************)
EXTENDS Integers, Sequences, FiniteSets, SequencesExt

CONSTANTS
    None,        \* no exception, or '' for a host or a socket
    Start,       \* the targets democlient can be started with
    Redirect,    \* what a redirect of a server can name
    Restart,     \* what the options of a restart can name
    Host,        \* TCP hosts other than localhost
    OwnSock,     \* the sockets of this user that can be in the directory
    OtherSock,   \* and those of others
    User,        \* user names, each with a password: another password is
                 \* another user
    Database,
    MaxRounds,   \* range(1, 11) in connect: 10
    MaxDepth,    \* len(round) > 3: 3
    MaxLogins    \* range(10) in login: 10

Path == OwnSock \cup OtherSock \cup {"default"}    \* default: .s.monetdb.PORT

\* What connect uses of a Target.  scannable: it names a database and no
\* port.  valid: validate does not raise ValueError.
Address == [host : Host \cup {None, "localhost"}, sock : Path \cup {None},
            scannable : BOOLEAN, tls : BOOLEAN, valid : BOOLEAN]

Target == [at : Address, database : Database, user : User]

\* What a server names; None is what it leaves as it was.
OrElse(named, before) == IF named = None THEN before ELSE named

\* The target t with what a server names.
Named(t, r) == [at |-> OrElse(r.at, t.at), database |-> OrElse(r.database, t.database),
                user |-> OrElse(r.user, t.user)]

Merovingian == "merovingian"

Exceptions == {"ErrorMessage", "OSError", "AssertionError", "other"}

ASSUME ConnectAssumption ==
    /\ Start \subseteq Target
    /\ Redirect \subseteq [at : Address, database : Database, user : User \cup {None}]
    /\ Restart \subseteq [at : Address \cup {None}, database : Database \cup {None},
                          user : User \cup {None}]
    /\ Merovingian \in User
    /\ OwnSock \cap OtherSock = {}
    /\ "default" \notin OwnSock \cup OtherSock
    /\ "localhost" \notin Host
    /\ None \notin Host \cup Path \cup {"localhost"} \cup Target \cup Exceptions
    /\ None \notin Address \cup Database \cup User
    /\ IsFiniteSet(OwnSock \cup OtherSock)
    /\ MaxRounds \in Nat \ {0}
    /\ MaxDepth \in Nat \ {0, 1}
    /\ MaxLogins \in Nat \ {0}

VARIABLES
    haveUnix,   \* hasattr(socket, 'AF_UNIX')
    heap,       \* the Target objects
    stack,      \* the calls of connect; was, found, told and moved are
                \* history: the target as it was given, the candidates, the
                \* database and the user that the command line or, in this
                \* call or an enclosing one, a server named last, and whether
                \* a restart in this round has named another address
    cpc,        \* where the innermost call is
    exc,        \* the class of the exception that is on its way out
    peer,       \* what the socket is connected to
    logins,     \* login: how many attempts it has made
    offer,      \* history: the latest login message and what it answers
    tried,      \* history: what the calls below the first one connected to
    effective   \* the Target connect has returned

vars == <<haveUnix, heap, stack, cpc, exc, peer, logins, offer, tried, effective>>

ConnectTypeOK ==
    /\ haveUnix \in BOOLEAN
    /\ heap \in Seq(Target)
    /\ Len(stack) \in 1..(MaxDepth + 1)
    /\ \A k \in DOMAIN stack :
          /\ stack[k].given \in DOMAIN heap
          /\ stack[k].own \in DOMAIN heap
          /\ stack[k].inner \in 0..MaxRounds
          /\ stack[k].err \in Exceptions \cup {None}
          /\ stack[k].todo \in Seq(OwnSock \cup OtherSock)
          /\ stack[k].told \in [database : Database, user : User]
          /\ stack[k].moved \in BOOLEAN
    /\ cpc \in {"round", "scan", "unix", "tcp", "noSock", "opened", "login", "answer",
                "raise", "done", "failed"}
    /\ exc \in Exceptions \cup {None}
    /\ cpc \in {"raise", "failed"} <=> exc # None
    /\ peer \in Path \cup Host \cup {None, "localhost"}
    /\ logins \in 0..MaxLogins
    /\ cpc = "done" <=> effective # None

\* connect_scan, connect_unix and connect_tcp of a Target.
ConnectScan(t) == t.at.scannable /\ t.at.host = None /\ t.at.sock = None /\ ~t.at.tls

ConnectUnix(t) ==
    IF t.at.sock # None THEN t.at.sock
    ELSE IF t.at.host = None /\ ~t.at.tls THEN "default" ELSE None

ConnectTcp(t) ==
    IF t.at.sock # None THEN None
    ELSE IF t.at.host = None THEN "localhost" ELSE t.at.host

top == stack[1]
own == heap[top.own]    \* target, in the innermost call

Goto(next) == cpc' = next /\ UNCHANGED exc
Raise(e) == cpc' = "raise" /\ exc' = e

\* Mutant: target is the caller's.
EnteredNoClone(h, ref) == h

\* The first statement of connect: the heap with a clone of the caller's
\* target at its end.
Entered(h, ref) == Append(h, h[ref])

\* A call of connect with reference ref, from the calls in frames.
Call(h, ref, frames) ==
    LET entered == Entered(h, ref)
    IN  /\ heap' = entered
        /\ stack' = <<[given |-> ref, was |-> h[ref], own |-> Len(entered), inner |-> 0,
                       err |-> None, todo |-> <<>>, trying |-> FALSE, found |-> {},
                       told |-> Head(frames).told, moved |-> FALSE]>> \o frames
        /\ Goto("round")

Init ==
    /\ haveUnix \in BOOLEAN
    /\ \E t \in Start :
          LET entered == Entered(<<t>>, 1)
          IN  /\ heap = entered
              /\ stack = <<[given |-> 1, was |-> t, own |-> Len(entered), inner |-> 0,
                            err |-> None, todo |-> <<>>, trying |-> FALSE, found |-> {},
                            told |-> [database |-> t.database, user |-> t.user],
                            moved |-> FALSE]>>
    /\ cpc = "round"
    /\ exc = None
    /\ peer = None
    /\ logins = 0
    /\ offer = None
    /\ tried = {}
    /\ effective = None

-----------------------------------------------------------------------------
(* A round of connect. *)

\* The innermost call becomes frame.
Update(frame) == stack' = <<frame>> \o Tail(stack)

\* Mutant: one call too deep.
RoundAllowedDeeper == top.inner < MaxRounds /\ Len(stack) <= MaxDepth + 1 /\ own.at.valid

RoundAllowed == top.inner < MaxRounds /\ Len(stack) <= MaxDepth /\ own.at.valid

NextRound(err, usocks) ==
    [top EXCEPT !.inner = @ + 1, !.err = err, !.todo = usocks, !.found = ToSet(usocks),
                !.moved = FALSE]

\* Too many redirects, recursion too deep, or an invalid target.
RefuseRound ==
    /\ cpc = "round"
    /\ ~RoundAllowed
    /\ Raise("ErrorMessage")
    /\ UNCHANGED <<haveUnix, heap, stack, peer, logins, offer, tried, effective>>

\* No scan: steps 3 and up.
StartRound ==
    /\ cpc = "round"
    /\ RoundAllowed
    /\ ~ConnectScan(own)
    /\ Update(NextRound(None, <<>>))
    /\ Goto("unix")
    /\ UNCHANGED <<haveUnix, heap, peer, logins, offer, tried, effective>>

\* scan_sockdir: this user's sockets first, either part in any order.  Which
\* of them exist may be different every time.
ScanSockdir ==
    {my_socks \o other_socks :
        my_socks    \in UNION {SetToSeqs(S) : S \in SUBSET OwnSock},
        other_socks \in UNION {SetToSeqs(S) : S \in SUBSET OtherSock}}

\* Step 2, up to its loop; listdir may raise OSError.
Scan ==
    /\ cpc = "round"
    /\ RoundAllowed
    /\ ConnectScan(own)
    /\ \/ \E usocks \in ScanSockdir : Update(NextRound(None, usocks))
       \/ Update(NextRound("OSError", <<>>))
    /\ Goto("scan")
    /\ UNCHANGED <<haveUnix, heap, peer, logins, offer, tried, effective>>

\* The next candidate, in a call of its own.
TryCandidate ==
    /\ cpc = "scan"
    /\ top.todo # <<>>
    /\ LET subtarget == [own EXCEPT !.at.host = None, !.at.sock = Head(top.todo)]
           waiting == [top EXCEPT !.todo = Tail(@), !.trying = TRUE]
       IN  Call(Append(heap, subtarget), Len(heap) + 1, <<waiting>> \o Tail(stack))
    /\ UNCHANGED <<haveUnix, peer, logins, offer, tried, effective>>

\* return connect(target, round, args), with this call's own target.
FallBack ==
    /\ cpc = "scan"
    /\ top.todo = <<>>
    /\ Call([heap EXCEPT ![top.own].at.sock = None,
                         ![top.own].at.host = "localhost"], top.own, stack)
    /\ UNCHANGED <<haveUnix, peer, logins, offer, tried, effective>>

-----------------------------------------------------------------------------
(* Steps 3 to 6: a connected socket. *)

\* What the calls directly below the first one try, before any redirect.
Trying(p) == tried' = IF Len(stack) = 2 /\ top.inner = 1 THEN tried \cup {p} ELSE tried

Connected(p) == peer' = p /\ Goto("opened") /\ UNCHANGED stack

\* Mutant: the exception is only logged.
FailedSilently(e, next) == Goto(next) /\ UNCHANGED <<stack, peer>>

Failed(e, next) == Update([top EXCEPT !.err = e]) /\ Goto(next) /\ UNCHANGED peer

OpenUnix ==
    /\ cpc = "unix"
    /\ ConnectUnix(own) # None
    /\ haveUnix
    /\ Trying(ConnectUnix(own))
    /\ Connected(ConnectUnix(own)) \/ Failed("OSError", "tcp")
    /\ UNCHANGED <<haveUnix, heap, logins, offer, effective>>

SkipUnix ==
    /\ cpc = "unix"
    /\ ConnectUnix(own) = None \/ ~haveUnix
    /\ Goto("tcp")
    /\ UNCHANGED <<haveUnix, heap, stack, peer, logins, offer, tried, effective>>

\* One of the addresses of the host accepts; or none does, or the host is
\* not known.
OpenTcp ==
    /\ cpc = "tcp"
    /\ ConnectTcp(own) # None
    /\ Trying(ConnectTcp(own))
    /\ Connected(ConnectTcp(own)) \/ Failed("OSError", "noSock")
    /\ UNCHANGED <<haveUnix, heap, logins, offer, effective>>

SkipTcp ==
    /\ cpc = "tcp"
    /\ ConnectTcp(own) = None
    /\ Goto("noSock")
    /\ UNCHANGED <<haveUnix, heap, stack, peer, logins, offer, tried, effective>>

\* assert err, raise err
ReportErrors ==
    /\ cpc = "noSock"
    /\ Raise(IF top.err = None THEN "AssertionError" ELSE top.err)
    /\ UNCHANGED <<haveUnix, heap, stack, peer, logins, offer, tried, effective>>

\* Step 6, and the call of login.
CheckTls ==
    /\ cpc = "opened"
    /\ IF own.at.tls THEN Raise("ErrorMessage") ELSE Goto("login")
    /\ logins' = 0
    /\ UNCHANGED <<haveUnix, heap, stack, peer, offer, tried, effective>>

-----------------------------------------------------------------------------
(* login and attempt_login.  The exchange with the server is one step up   *)
(* to the login message and one for what comes of it.                      *)

TooManyLogins ==
    /\ cpc = "login"
    /\ logins = MaxLogins
    /\ Raise("ErrorMessage")
    /\ UNCHANGED <<haveUnix, heap, stack, peer, logins, offer, tried, effective>>

\* Mutant: target is login's.
AttemptTargetNoClone(servertype) ==
    IF servertype = Merovingian THEN [heap EXCEPT ![top.own].user = Merovingian] ELSE heap

\* The heap while attempt_login runs: its target is the last one.
AttemptTarget(servertype) ==
    IF servertype = Merovingian THEN Append(heap, [own EXCEPT !.user = Merovingian])
                                ELSE heap

\* The clone is of no use after attempt_login.
Release(h) == SubSeq(h, 1, top.own)

AttemptLogin(servertype) ==
    /\ cpc = "login"
    /\ logins < MaxLogins
    /\ logins' = logins + 1
    /\ LET h == AttemptTarget(servertype)
       IN  /\ heap' = Release(h)
           /\ offer' = [servertype |-> servertype, user |-> h[Len(h)].user,
                        database |-> h[Len(h)].database, to |-> peer]
    /\ Goto("answer")
    /\ UNCHANGED <<haveUnix, stack, peer, tried, effective>>

\* Before or after the login message: an error of the server, no mechanism,
\* a closed connection; a reset; or what no code expects, such as EOFError,
\* ValueError, AssertionError or GSSError.
LoginFails ==
    /\ cpc \in {"login", "answer"}
    /\ logins < MaxLogins \/ cpc = "answer"
    /\ \E e \in {"ErrorMessage", "OSError", "other"} : Raise(e)
    /\ UNCHANGED <<haveUnix, heap, stack, peer, logins, offer, tried, effective>>

\* History: told, and what the server names.
Heard(told, r) == [database |-> OrElse(r.database, told.database),
                   user |-> OrElse(r.user, told.user)]

\* '^mapi:merovingian://proxy?': the options, whichever they are, are set in
\* login's target, and the next login is on the same connection.  One that
\* is no option, or not a value of it, ends it all, after those before it.
LoginRestarts ==
    /\ cpc = "answer"
    /\ \E r \in Restart :
          /\ heap' = [heap EXCEPT ![top.own] = Named(own, r)]
          /\ Update([top EXCEPT !.told = Heard(@, r), !.moved = @ \/ r.at # None])
    /\ Goto("login") \/ Raise("other")
    /\ UNCHANGED <<haveUnix, peer, logins, offer, tried, effective>>

\* Mutant: a redirect starts the rounds anew.
LoginRedirectsAnew ==
    /\ cpc = "answer"
    /\ \E r \in Redirect :
          /\ heap' = [heap EXCEPT ![top.own] = Named(own, r)]
          /\ Update([top EXCEPT !.told = Heard(@, r), !.inner = 0])
    /\ Goto("round") \/ Raise("other")
    /\ UNCHANGED <<haveUnix, peer, logins, offer, tried, effective>>

\* Any other '^': a new round with the target as it says, unless it is no URL.
LoginRedirects ==
    /\ cpc = "answer"
    /\ \E r \in Redirect :
          /\ heap' = [heap EXCEPT ![top.own] = Named(own, r)]
          /\ Update([top EXCEPT !.told = Heard(@, r)])
    /\ Goto("round") \/ Raise("other")
    /\ UNCHANGED <<haveUnix, peer, logins, offer, tried, effective>>

\* Mutant: every call returns its own target.
LoginSucceedsOuter ==
    /\ cpc = "answer"
    /\ effective' = heap[stack[Len(stack)].own]
    /\ Goto("done")
    /\ UNCHANGED <<haveUnix, heap, stack, peer, logins, offer, tried>>

\* return (mapi, target), which the calls around this one return in turn.
LoginSucceeds ==
    /\ cpc = "answer"
    /\ effective' = own
    /\ Goto("done")
    /\ UNCHANGED <<haveUnix, heap, stack, peer, logins, offer, tried>>

-----------------------------------------------------------------------------
(* An exception leaves the innermost call. *)

\* Mutant: except ErrorMessage
CandidateFailuresFew == {"ErrorMessage"}

\* except (ErrorMessage, OSError)
CandidateFailures == {"ErrorMessage", "OSError"}

caller == stack[2]

\* In the loop over the candidates.
Catch ==
    /\ cpc = "raise"
    /\ Len(stack) > 1
    /\ caller.trying /\ exc \in CandidateFailures
    /\ heap' = SubSeq(heap, 1, caller.own)
    /\ stack' = <<[caller EXCEPT !.err = exc, !.trying = FALSE]>> \o Tail(Tail(stack))
    /\ cpc' = "scan"
    /\ exc' = None
    /\ UNCHANGED <<haveUnix, peer, logins, offer, tried, effective>>

Unwind ==
    /\ cpc = "raise"
    /\ Len(stack) > 1
    /\ ~(caller.trying /\ exc \in CandidateFailures)
    /\ heap' = SubSeq(heap, 1, caller.own)
    /\ stack' = Tail(stack)
    /\ UNCHANGED <<haveUnix, cpc, exc, peer, logins, offer, tried, effective>>

GiveUp ==
    /\ cpc = "raise"
    /\ Len(stack) = 1
    /\ cpc' = "failed"
    /\ UNCHANGED <<haveUnix, heap, stack, exc, peer, logins, offer, tried, effective>>

Ended == cpc \in {"done", "failed"} /\ UNCHANGED vars

-----------------------------------------------------------------------------
Rounds == RefuseRound \/ StartRound \/ Scan \/ TryCandidate \/ FallBack

Sockets == OpenUnix \/ SkipUnix \/ OpenTcp \/ SkipTcp \/ ReportErrors \/ CheckTls

Logins ==
    \/ TooManyLogins
    \/ \E servertype \in {Merovingian, "mserver"} : AttemptLogin(servertype)
    \/ LoginFails \/ LoginRestarts \/ LoginRedirects \/ LoginSucceeds

Next == Rounds \/ Sockets \/ Logins \/ Catch \/ Unwind \/ GiveUp \/ Ended

Spec == Init /\ [][Next]_vars

\* One thread, which runs; and every server it talks to says something or
\* closes the connection in the end, for democlient has no timeouts.
FairSpec == Spec /\ WF_vars(Next)

-----------------------------------------------------------------------------
(* Properties *)

\* "do not accidentally update the caller's Target": as long as a call of
\* connect runs, and after the first one has failed or returned, the target
\* it was given is what it was.
CallerUntouched ==
    \A k \in DOMAIN stack : heap[stack[k].given] = stack[k].was

\* The built-in credentials of merovingian are offered to servers that say
\* they are merovingian, and to no others, also when both turn up on the same
\* connection or in a chain of redirects.  The others are offered the user
\* that was named last, on the command line or by a server on the way there:
\* what a candidate named that failed does not count.
CredentialsFit ==
    cpc \in {"answer", "done"} =>
        offer.user = IF offer.servertype = Merovingian THEN Merovingian
                                                       ELSE top.told.user

\* connect's docstring: it returns "the effective target, that is, the
\* target after all redirects have been applied".  Its database and its user
\* are those named last on the way there, and the login was for that
\* database; and the connection is to a place it stands for, without TLS,
\* unless a restart on that connection has named another address, which the
\* code then puts in the target without going there.
EffectiveTarget ==
    cpc = "done" =>
        /\ ~top.moved => /\ peer \in {ConnectUnix(effective), ConnectTcp(effective)}
                         /\ ~effective.at.tls
        /\ offer.to = peer
        /\ effective.database = top.told.database
        /\ effective.user = top.told.user
        /\ offer.database = top.told.database

\* A scan does not give up with a connect or login error before every
\* candidate it found and TCP have been tried.
NobodySkipped ==
    cpc = "failed" /\ exc \in {"ErrorMessage", "OSError"} /\ stack[1].was.at.valid
    /\ ConnectScan(stack[1].was) => stack[1].found \cup {"localhost"} \subseteq tried

\* 'assert err' can only fail where Unix sockets are not available: elsewhere
\* one of the steps 3 and 4 is tried, and leaves an error if it fails.
ErrorKnown ==
    exc = "AssertionError" => ~haveUnix

\* However servers redirect, connect comes to an end.
ConnectEnds == <>(cpc \in {"done", "failed"})
=============================================================================
