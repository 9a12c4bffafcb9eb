# TLA+ for the demo server

A specification of `demoserver.py`, `democlient.py` and what they share, with
TLC runs on small instances and TLAPS proofs.

    tlc -workers 2 -config MCHandshake.cfg MCHandshake
    tlc -workers 2 -config MCLogin.cfg MCLogin
    tlc -workers 2 -config MCMapi.cfg MCMapi
    tlc -workers 2 -config MCServer.cfg MCServer
    tlc -workers 2 -config MCConnect.cfg MCConnect
    tlc -workers 2 -config MCDialogue.cfg MCDialogue
    tlc -workers 2 -config MCSelection.cfg MCSelection
    tlapm HandshakeProofs.tla
    tlapm LoginProofs.tla
    tlapm MapiProofs.tla
    tlapm ServerProofs.tla
    tlapm RenderingProofs.tla
    tlapm ConnectProofs.tla
    tlapm DialogueProofs.tla
    tlapm SelectionProofs.tla

## The system

| part | source | state | operations |
|---|---|---|---|
| Credential store | `credentials.py` | per user and kind, a list of credentials | `add`, `set`, `get_all`, `get_last`, `default` |
| Server handshake | `handshake.py`, `demoserver.py:85-153` | user, mechanism, reply, round, the result | `execute`, `execute_modern`, `execute_classic`, `authorize_connection`, `handle_connection` |
| Server mechanisms | `mechanisms/*.py` | how far the exchange is, who the peer is | `start_server`, `initial_challenge`, `next_challenge` |
| Client login | `democlient.py:225-307`, `mechanisms/*.py` | mechanism, stage, loop counter | `attempt_login*`, `respond`, `wrap_up` |
| Client connect | `democlient.py:37-222` | targets, some of them shared, nested rounds | `connect`, `scan_sockdir`, `login` |
| Mechanism selection | `mechanisms/__init__.py:67-116`, `democlient.py:310-358` | none | `pick_mechanisms`, `pick_mechanism`, `expand_password` |
| Message framing | `framing.py:13-81` | the socket | `send`, `receive_binary`, `_recvbytes` |
| Server process | `demoserver.py:61-82, 222-248` | connection counter, threads | `main`, `accept_connections`, `pick_connection_id`, the excepthook |
| Session | `demoserver.py:156-219`, `framing.py:84-149` | `sys.stdout`, while a table is rendered | `interact`, `interact_sql`, `ResultSet` |
| Test dialogue | `t.py` | both sides of one mechanism | `dialogue` |

The server runs one thread per connection.  The thread builds a `CredStore`
from the command line, sends a challenge, reads the login message, runs the
mechanism the client picked and authorizes the result; then the connection is
in session or refused.  Threads share the connection counter, the
process and its standard output: an exception that is not `Reject` leaves the thread, and the
excepthook ends the process with it.  Client and server share the socket, on
which `Mapi` cuts messages into blocks.  The client finds its server by a scan
of Unix sockets, by TCP and by the redirects servers answer a login with;
`connect` calls itself for each candidate of the scan.

What is hard to get right:

* five mechanisms carry the same login in one to ten rounds, and each of them
  learns who is asking, what it proved and whom it wants to act as in another
  order; the client chooses what comes next;
* several credentials for one user, some of which replace each other, and one
  that the server invents during a login;
* the line between a refused login and a dead server: which exceptions are
  turned into `Reject`, and what an assertion takes for granted;
* two loops of ten rounds, one on each side, and no timeouts: a disagreement
  on whose turn it is leaves both waiting;
* targets that are changed by redirects, restarts and the fallback to TCP
  while calls of `connect` further out still use theirs; credentials that
  depend on what the server says it is; and the errors that one candidate of a
  scan may end with;
* what is global to the process and used by the thread of each session;
* the stream: partial reads and writes, an end at any byte, a reset that takes
  unread data with it.

PROJECT.json lists these as hazards, each at its line, with the properties
that cover it.

## The modules

| module | models | remarks |
|---|---|---|
| `Credentials` | `credentials.py`, `parse_credentials` | data only.  `IsPassword` and `IsPrincipal` say what the operator configured, over the options and not over the store |
| `Mechanisms` | what travels between the two sides | tokens and replies as terms; what a token shows (`Shows`) and asks (`Asks`) |
| `Handshake` | the server's thread for one connection | one action per step of the thread, one per branch of every `next_challenge` |
| `LoginContract` | nothing: the promise | status, user and claims; implemented by `Handshake` |
| `HandshakeProofs` | | the theorems about `Handshake` |
| `DemoClient` | `attempt_login*` and the `ClientSide` classes | one action per message read |
| `Login` | the two with a socket between them | `Handshake`'s inputs come from `DemoClient` |
| `LoginProofs` | | the theorems about `Login`; builds on `HandshakeProofs` |
| `Channel` | nothing: the promise | whole messages, in order, each once |
| `Mapi` | `framing.py` | byte by byte; implements `Channel` |
| `MapiProofs` | | the theorems about `Mapi` |
| `Server` | accept threads, connection threads, `interact`, the excepthook | a login is one step with the verdicts of `LoginContract` |
| `ServerProofs` | | the theorems about `Server` |
| `Rendering` | `ResultSet` in several threads | what `Server`'s answers contain |
| `RenderingProofs` | | what is true of `Rendering` where renders do not overlap |
| `Connect` | `connect`, `scan_sockdir`, `login` | a stack of calls and a heap of targets; servers answer anything |
| `ConnectProofs` | | the theorems about `Connect` |
| `Dialogue` | `t.py` | the client side of `DemoClient`, the server side in another loop |
| `DialogueProofs` | | the theorems about `Dialogue` |
| `Selection` | `pick_mechanisms`, `pick_mechanism` | what each of the two command lines, the URL and the installed modules have a say in |
| `SelectionProofs` | | the theorems about `Selection` |
| `MC...` | | constants for TLC |

### Handshake

`pc` is the phase of the thread.  `OpenStore` and `LoadCredential` are the
first lines of `handle_connection`, `SendChallenge` and `ReceiveLogin` those
of `execute`.  `CheckClassic` is `execute_classic` with
`ClassicServer.next_challenge`.  In `execute_modern` the loop is split where
it waits: `ReceiveToken` reads `client_token_str`, and from phase "token"
either `GiveUp` leaves the loop or `next_challenge` of the mechanism runs:
`PlainNext`; `ScramInitial` and `ScramFinish`; `GssNegotiate`, `GssOffer` and
`GssConclude`.  Each of these ends with `Done`, `Continue` or `Refuse`, which
are what `execute_modern` does with the result.  `Authorize` is
`authorize_connection`; `SendWelcome` and `SendError` are the rest of
`handle_connection`.  `Raise` sends an exception where the source does: to
`except Reject`, or out of the thread.

Every send can fail and every receive can find the stream ended, cut or reset.
The client is not modelled here: `Next` takes any message.  A login message
in the place of a later one is covered, being a text without `+`.

Two history variables record what the client's messages establish: `shown`,
the passwords and Kerberos identities a message proves, and `asked`, the user
it wants to act as.  They are computed from the message and the nonce alone,
never from what the server concludes, so that the properties can compare the
two.

Tokens are terms.  A hash is equal to another only if computed from the same
algorithm, nonce and password.  `scramp` and `python-gssapi` are external:
`ScramVerifies` accepts a proof over this connection's nonce for the stored
key; a GSSAPI token either needs another round (`GssMore`) or completes the
context with the peer, target and flags it carries (`GssLast`).  The nonce
that SCRAM uses is scramp's own; the model has one nonce per connection for
all mechanisms.  A SCRAM proof is taken to be independent of the gs2 header.

### Login

`toServer` and the unread part of `toClient` are the two directions of the
socket; that they are FIFO channels of whole messages is what `Mapi`
implements, for messages of up to one block.  A closed end lets the other
side read what was sent, or find the connection reset.  `Killed` ends the
client whenever it waits.  `legs` is the number of tokens a GSSAPI context
needs before its last one: up to 8, which is one more than fits in ten rounds;
the client's loop then ends before the server's.

### Mapi

One action for the header and one for the data of each block, since `send`
calls `sendall` twice; `Interrupted` writes any part of either.  `Recv` takes
any number of the bytes under way, up to what `_recvbytes` still wants.
`Radix` is the number of values of a byte, 256 in the code; `Fits` says that
the header of a block, `2 * len(chunk) + is_last`, fits in two bytes, for
otherwise `struct.pack` would raise: with `CHUNK_SIZE` it does.  There are two
writers: `send`, and any other MAPI implementation, which cuts messages into
blocks as it likes.  `send` is only checked with messages of up to one block,
beyond which it fails (`MCMapiLong`); the blocks of the other writer exercise
the reader with messages of several.

### Server

`apc` is the phase of a listener's thread in `accept_connections`.
`pick_connection_id` is three steps, `Lock`, `ReadCounter` and `WriteCounter`,
so that two threads can be in it together if the lock lets them.  The counter
starts at 10, as in the code.  A connection's thread is `LoginVerdict`, which
stands for `Handshake` up to its three outcomes, then `ReadRequest` and
`Reply` in turn: `interact`.  A request is known by what `interact` does with
it, not by its text; `Fatal` are the requests that raise where nothing
guards: one that is not UTF-8, and a SELECT of a number with more digits than
`int` takes.  Any uncaught exception makes the thread "dying", and
`Exit` is the excepthook: it ends the process sometime after, so that other
threads may still take steps.  A client connects, may send requests before it
has its answers, and leaves when it likes.  What a reset does to unread
requests is left to the choice in `RequestEnds`.

An answer is known by its kind and its request.  What is in it is the subject
of `Rendering`: `render` prints its lines while `redirect_stdout` has put a
buffer in the place of `sys.stdout`, which is the process's.  `Render` reads
the old value, `Redirect` sets the new one and `Restore` puts the old one
back; between them each `print` is a step and goes where `sys.stdout` then
points.

### Connect

`stack` has the calls of `connect`, the innermost first, and `cpc` is where
that one is: at the top of its loop ("round"), among the candidates ("scan"),
before step 3, 4, 5 or 6, in `login`, or left by an exception ("raise").  A
`Target` is an object that several of them may hold, so targets live in
`heap` and the calls have references: `given` is the caller's, `own` the
clone that the first statement makes.  Leaving a call drops the targets made
in it, which keeps the state space small.  Of a target the model has what
`connect` uses: host, socket, whether it can be scanned for, TLS, database,
and the user, which stands for the password too.

A server is anything that speaks MAPI: it says it is merovingian or not, and
a login ends in a session, an error, a restart on the same connection, a
redirect, or an exception.  A restart sets whatever the server names: the
database, the user, or an option of the address, which `connect` then puts in
the target without going there; a redirect is a URL, which may name a user
too; and what either names may not parse.  `Catch` is the `except` in
the loop over the candidates, `Unwind` every other way out of a nested call.
`was`, `found`, `told`, `moved`, `offer` and `tried` are history: the target
as given, what the scan found, the database and the user named last, whether a
restart has named another address for the connection at hand, the latest login
message, and where the candidates of the outermost scan led.

The directory is different at every scan, sockets refuse or not, and hosts
have any address or none.

### Dialogue

`dpc` is the place in `dialogue`.  The client side is `DemoClient`'s, by an
INSTANCE.  The server side repeats the mechanisms of `Handshake` as functions
of a stage, because there they are part of the loop of `execute_modern`, and
the point of this module is another loop: `AfterReject` is "loop" where the
source forgets to return.  `Start` is what comes before the loop; `t.py` asks
for the default Kerberos identity whatever the mechanism, so with gssapi
installed and no ticket any dialogue can end there.  Then the client answers the challenge it had
before and the server side is called again in the stage it was left in;
`Taken` says that a GSSAPI context refuses a token it has seen.

### Selection

No state but the settings: `Offer` is the server's `pick_mechanisms`, `Pick`
the client's `pick_mechanism`.  The properties are stated over the names as
the user wrote them; the code works on lists in which PASSWORD is expanded.
`DemoClient` and `Mechanisms` use the result as `prefers` and `Available`.

## What the runs show

| run | bounds | shows |
|---|---|---|
| `MCHandshake` | 2 users and the empty name, 3 passwords, 2 principals, 2 nonces (symmetric), 3 options, all mechanisms but one, 2 flag sets | `SessionEarned`, `ActingRespected`, `WelcomeMeansSession`, `AssertionOnlyForEmptyName`, `Handshake` implements `LoginContract`, `IInv` |
| `MCLogin` | the same store; 95 ways to start the client; 0 to 8 legs | `Agreement`, `HalfDuplex`, `QualifiedNotRejected`, `NoCrashByClient`, `LoginEnds`, `SessionReachesClient` |
| `MCMapi` | blocks of 2, bytes 0..3; from `send` 3 messages of 0, 1 and 2 bytes, from the other writer 2 of 1, 3 and 5, cut anywhere | `Mapi` implements `Channel`; nothing left over; every finished message arrives |
| `MCServer` | 2 listeners, 2 connections, 2 requests in all | `UniqueIds`, `IdInv`, `ConnectionServed`, `AnswersInStep`, `OnlyFailuresEndServer`, `EndedByOwnClient`, `RequestsTakenUp` |
| `MCConnect` | 4 targets to start with, 3 redirects and 3 restarts, between them all options a server can name, a socket of each kind, 2 rounds in each call, 3 nested calls, 2 logins per connection | `CallerUntouched`, `CredentialsFit`, `EffectiveTarget`, `NobodySkipped`, `ErrorKnown`, `ConnectEnds` |
| `MCDialogue` | 3 users, 2 passwords, 0 to 8 legs, the 10 rounds of the code | `HappyIsEarned`, `QualifiedIsHappy` |
| `MCSelection` | lists of 1 or 2 of 4 names or no list, all sets of modules on both hosts | `UrlDecidesCommandLineRestricts`, `PlainIsLastResort` |

Why these bounds are enough to be interesting.  With two users, one of them
built in, and an old and a new password, every confusion of user, order and
kind of credential shows.  Two nonces are this connection's and another's.
The loop bounds are the code's own.  In the framing runs a message is empty,
shorter than a block, exactly a block, or longer; one of them looks like a
header.  Two accept threads with a connection each is what a race on the
counter takes, and a second connection at one listener is what it takes to
keep somebody waiting; two requests are one at hand and one ahead, or one in
each session.  In `MCConnect` the ten rounds and ten logins are two: what one
round hands to the next shows with two, and the first has nothing before it
and the last nothing after it.  The depth of three is the code's; the scan, a
redirect back to a scan in a candidate, and the fallback use all of it.  In the lists of names the first can decide, fail to match, or stand
for several.

Five runs end in a violation, each of a sentence of the source:

* `MCMapiLong`, `Intact`: `send` cuts a message longer than `CHUNK_SIZE`
  wrongly (`start = i * self.CHUNK_SIZE`, `framing.py:24`, where `i` already
  counts bytes).
* `MCMapiBoundary`, `NoneAtBlockBoundary`: the docstring of `receive_binary`
  promises None at a block boundary; between two blocks of one message it is
  an `EOFError`.
* `MCAssertions`, `AssertionsHold`: an empty user name in the login message
  makes `assert self.authcid` or `assert hs.user` fail, which ends the
  server.  `AssertionOnlyForEmptyName` shows that there is no other cause.
* `MCAuthzid`, `SupportedAuthzid`: SCRAM's authzid is stored as `a=USER` and
  never equals the handshake user, although the comment in
  `authorize_connection` calls that case supported.
* `MCRendering`, `OwnLines`: the tables that clients "use to retrieve env
  settings" (`demoserver.py:177`) can lose lines to, or get lines from, a
  session that renders at the same time.  Two threads, two header lines and a
  row are enough.

Not runs, since there is nothing to check or the properties say it already:

* the comment in `democlient.py:264` says the user field is left empty, and
  the line fills it;
* `NobodySkipped` has to except everything but `ErrorMessage` and `OSError`:
  a candidate of the scan that ends the stream inside a message, or whose
  challenge cannot be parsed, ends the whole `connect`, since line 101 catches
  neither `EOFError` nor `ValueError` nor `AssertionError`.  The length check
  in line 232 asks for three parts and the next line unpacks six;
* `EffectiveTarget` has to except a restart that names a host, a socket or TLS
  (`moved`): `login` sets it in the target (`democlient.py:217`) and logs in
  again on the old connection, so `connect` returns a target that is not where
  the socket leads.  It also shows that what `CredentialsFit` calls the user
  may be one the server named;
* `OnlyFailuresEndServer` has to name the requests in `Fatal`: `SELECT` with a
  number of more than 4300 digits raises a `ValueError` in `interact_sql`
  (`demoserver.py:215`), which ends the server with every session in it, and so
  does a message that is not UTF-8;
* `NoCrashByClient` has to except a client that is gone and a `GSSError`: a
  client that leaves during its login, or a token GSSAPI does not take, ends
  the server, and the sessions of others with it;
* `ErrorKnown` shows the one case in which `assert err` fails: on a system
  without Unix sockets, where steps 3 and 4 can both be skipped;
* `main` of democlient takes None for an answer to its query: it exits with
  success when the server ends between the login and the answer;
* a connection on which the login fails is not closed when the next candidate
  is tried;
* in `t.py`, `QualifiedIsHappy` has to except the classic mechanisms:
  `ClassicClient` has no `wrap_up`, and a dialogue that reaches it stops the
  script with a `NotImplementedError`; a classic dialogue with the wrong
  password is rejected ten times and then raises.

### Fairness

`FairLogin`: weak fairness of the server's steps together and of the client's
steps together.  Each side is a thread that blocks only in a receive, and the
operating system runs a thread that can run.  Being killed is not fair.
`FairSpec` of `Mapi`: weak fairness of the reader, and of the writer in the
middle of a message; it may stay away between messages forever.
`FairSpec` of `Server`: weak fairness of each accept thread, of each session
and of the excepthook, each a thread of its own.  None is assumed for
`LoginVerdict`, since a client may stay silent in its login, nor for failures
and clients.  That a session's answers are sent takes for granted that they
fit in the socket's buffer or that the client reads them: `sendall` has no
timeout.
`FairSpec` of `Connect`: weak fairness of its one thread.  It waits in
`connect` and in `receive`, neither of which has a timeout, so this assumes
that each server accepts or refuses, and answers or closes, in the end; what
it answers is free.

## What is proved

Every safety property of the passing runs is a theorem, for all values of the
constants that satisfy the assumptions.

| module | theorem | states |
|---|---|---|
| `HandshakeProofs` | `Invariance`, `TypeCorrect` | `IInv`, `TypeOK` |
| | `SessionsAreEarned`, `ActingIsRespected` | `SessionEarned`, `ActingRespected` |
| | `WelcomeWithSession` | `WelcomeMeansSession` |
| | `AssertionsFailForEmptyNames` | `AssertionOnlyForEmptyName` |
| | `HandshakeImplementsContract` | `Spec => ImplementsContract` |
| `LoginProofs` | `LoginTypeCorrect` | `LoginTypeOK` |
| | `LoginFollowsHandshake` | `LoginSpec => Spec` |
| | `StaysInStep` | the invariant `Base /\ InStep` |
| | `HappyClientsAgree`, `TheyTakeTurns` | `Agreement`, `HalfDuplex` |
| | `QualifiedGetIn`, `ClientDoesNotCrash` | `QualifiedNotRejected`, `NoCrashByClient` |
| `MapiProofs` | `MapiTypeCorrect` | `MapiTypeOK` |
| | `MessagesIntact`, `NothingLeftOver` | `Intact`, `BlockedMeansUpToDate` |
| | `MapiImplementsChannel` | `Spec => ImplementsChannel` |
| `ServerProofs` | `TypeCorrect` | `ServerTypeOK` |
| | `Numbered`, `IdsAreUnique` | `IdInv`, `UniqueIds` |
| | `Sessions`, `AnswersComeInStep` | `SessionInv`, `AnswersInStep` |
| | `SessionsAreSeparate` | `Spec => EndedByOwnClient` |
| | `FailuresEndServer` | `OnlyFailuresEndServer` |
| `RenderingProofs` | `TablesKeptApart` | `Spec /\ []OneAtATime => []OwnLines` |
| | `StdoutIsRestored` | `Spec /\ []OneAtATime => []StdoutRestored` |
| `ConnectProofs` | `ConnectTypeCorrect` | `ConnectTypeOK` |
| | `TargetsUntouched`, `CredentialsForTheirServer` | `CallerUntouched`, `CredentialsFit` |
| | `EffectiveTargetReturned` | `EffectiveTarget` |
| | `ScanSkipsNobody`, `ErrorsKnown` | `NobodySkipped`, `ErrorKnown` |
| `DialogueProofs` | `DialogueTypeCorrect` | `DialogueTypeOK` |
| | `HappyWasEarned`, `QualifiedEndsHappy` | `HappyIsEarned`, `QualifiedIsHappy` |
| `SelectionProofs` | `SelectionTypeCorrect` | `SelectionTypeOK` |
| | `RuleFollowed`, `PlainComesLast` | `UrlDecidesCommandLineRestricts`, `PlainIsLastResort` |

### Assumptions

`CredentialsAssumption` and `MechanismsAssumption`: the empty name and None
are not names, principals or credentials, the built-in user and its
credentials are among the others, a reply is not None, and `a=USER` is not a
user name.  `ExceptionAssumption` and the assumptions of `Server` and
`Connect` say that None and the special hosts and paths are none of the other
values; `Connect`'s also that a host has finitely many sockets and that each
loop runs at least once.  `DemoClientAssumption` and `DialogueAssumption`: the flags democlient
asks for are among those a context can have.  `MapiAssumption`: a full block
fits in a header.  `SelectionAssumption`: a list that was given has a name in
it.  The number of users, passwords, principals, listeners, connections,
requests, sockets, GSSAPI legs, messages, rounds and nested calls is free,
and so is the length of a list of mechanisms or of a message.

Three theorems about `Mapi` have the hypothesis `ShortMessages`: what `send`
is called with fits in one block.  Without it `Intact` is false, as
`MCMapiLong` shows.  The other writer's messages may have any number of blocks.  `MCMapi`
satisfies the hypothesis.

The theorems about `Rendering` have the hypothesis that renders do not
overlap, `OneAtATime`; `MCRendering` shows what happens when they do.  So the
overlap is the only way to `OwnLines` being violated, and a lock around the
`with` statement in `render` would be enough.  `RenderingConstants` says that
the terminal is not one of the buffers and that the bounds are numbers.

### Handshake

`SessionEarned` is not inductive: that a session is earned depends on what
`Done` saw several rounds earlier, and on the store.  `IInv` adds

* `StoreFaithful`: the store holds what the options loaded so far say, and a
  SCRAM entry is made from the user's valid password;
* `ContextFaithful`: the keys scramp was given belong to the user of the
  login, and a completed GSSAPI context stands for an identity the client
  holds;
* `ReplyHeard`: what the waiting reply shows and asks is in the history;
* `ScramAsked`: the authzid SCRAM stored in its first round is still what the
  client asked last;
* `LoginKnown`, `Earned`, `Authorized`: what is known in each phase.

Each action has a lemma `...Step`, with one step per conjunct it can disturb.
The refinement proof maps every action to `Hear`, `Grant`, `Refuse` or a
stutter.  For the assertions, `NamesKnown` adds whom SCRAM was told it talks
to and that a mechanism that is done says who the client is.

### Login

`LoginFollowsHandshake` makes `Login` an instance of `Handshake`: what the
client sends is one of the messages `Handshake` takes from anybody.  So `IInv`
holds.  For the rest it is not enough that the store is faithful, which only
keeps false credentials out: `StoreComplete` says that it has everything that
was configured and that `get_last` finds the password that counts.  `InStep`
lists the phases of the two sides together, such as `Challenged`, `Asked` or
`Deciding`, each with the one message that is under way, whose turn it is, how
the stages of the two mechanism objects and the counters of the two loops
compare, and what has been shown.  Every action leads from one of them to
another.  It holds as long as the client is there; one that was killed or has
given up sends nothing more, and nothing is claimed for it.

### Mapi

What has been written is a sequence of bytes `log` that falls into `pieces`,
one for each block begun, each with the part of a message it carries.
`Stream` says that there are such a `log` and `pieces`, that `wire` is the end
of `log`, and that the reader is at a byte of it that is where its phase says:
at a boundary of two pieces for the header, inside of one for the data, with
`parts` the earlier pieces of the same message.  Neither is a variable of the
code, so the invariant says they exist; a write adds to them, a read moves the
place.  `Intact`, `BlockedMeansUpToDate` and the steps of `Channel` follow
from it.

### Server

`IdInv` adds to `UniqueIds` that only the holder of the lock is between
reading and writing the counter, which is still what it read
(`LockProtects`), that accept threads work on different connections, which
have no number before `pick_connection_id` (`OwnConnection`), and that all
numbers given are below the counter (`BelowCounter`).  `SessionInv` adds to
`AnswersInStep` that the request at hand is the last one read and that nothing
is read before the session; that a session is not started a second time comes
from `IdInv`.  `OnlyFailuresEndServer` is shown in two parts: a thread that
dies has a cause (`CauseInv`), for which `SessionInv` says that the request
that killed it is the last one read and that nothing was read in a login; and
only `Exit` ends the process, which leaves the thread it found where it was
(`EndInv`).

### Rendering

`IInv` says, while one thread is within the `with` statement, that `sys.stdout`
is its buffer from `Redirect` on and that it has saved the server's own; that
the buffer of each thread has the lines it has printed and the later ones are
empty.  `Render` is where the hypothesis is used: what it saves is the
server's `sys.stdout` only if nobody else is within.

### Connect

`Layout`: each call's own target comes later in the heap than the one it was
given, and the targets of a call come later than those of the calls around it;
so what the innermost call writes to belongs to no caller.  `Told`
says of every call that the database and the user in its own target are those
it was told last, by its caller or by a server; the login that offers
merovingian's credentials writes to a clone and so does not disturb it.
`Here` relates the target at hand to the socket, unless a restart has moved
it, and to the latest login; `CredentialsFit` and `EffectiveTarget` follow
from the two.
`NoErrorYet` says when there may be no error to report.  `NobodyYet` follows
the outermost call through its scan: what was found has been tried or is still
to do, and the failures on their way out of a nested call do not lose any.

### Dialogue

`Phase` has one disjunct per situation of client and server side.  The one
that matters is `Refused`, after a Reject, where the loop goes on: the server
side is not done, the client does not qualify, and its next turn finds SCRAM's
exchange at an end or shows the GSSAPI context a token it has seen (`~fresh`),
so that no way leads from there to HAPPY.

### Selection

The definitions use `FlattenSeq`, which is recursive.  `Least` proves from the
well-foundedness of `<` that a set of numbers has a least one, `Induction`
that a set with 0 and all successors has all numbers, and `FlattenExists` with
it that the recursive function exists; `FlattenJoins` and `FlattenOrder` say
that its result consists of its sequences one after the other.  From that
follow the elements and the order of the lists with PASSWORD expanded, and
what the first fitting one of them is.

### Only model-checked

Liveness: `LoginEnds`, `SessionReachesClient`, `Arrives`, `ConnectionServed`,
`RequestsTakenUp` and `ConnectEnds`.  Fairness and ENABLED are out of the
prover's reach.  The five violated properties are refuted by TLC; two
of them, `Intact` and `OwnLines`, are proved under a hypothesis.  The induction theorems of the library take an operator as a
parameter, which the provers cannot instantiate; where an induction over data
is needed, as in `Selection`, it is done with sets.

## Not modelled yet, and the plan

1. `Server` with `Handshake` in place of the verdicts, for two connections:
   `HandshakeImplementsContract` is what lets `Server` use the verdicts alone,
   and the connections share nothing that a login changes.
2. Proofs: that a login of one connection does not disturb another, once 1 is
   there; `Spec => ImplementsChannel` for messages of any length, should `send`
   cut them as it means to.

Left out for good: wording of messages and logs, the layout of a line in
`ResultSet.render`, the texts `interact_sql` knows, what `t.py` prints,
command line parsing beyond `-c`, Kerberos set-up, the tests.
