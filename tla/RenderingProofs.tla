-------------------------- MODULE RenderingProofs --------------------------
(***************************************************************************)
(* What render gives its session as long as the sessions render one at a   *)
(* time.  OwnLines is false otherwise: see the run on MCRendering.cfg.     *)
(* That it is true for any number of threads that never overlap shows that *)
(* the process-wide redirection is the only cause, that it is enough to    *)
(* have each render in a critical section, and which part of it: from the  *)
(* value redirect_stdout saves to the one it restores.                     *)
(***************************************************************************)
EXTENDS Rendering, SequenceTheorems, TLAPS

\* The standard output is no StringIO, and the layout has so many lines.
RenderingConstants ==
    /\ Terminal \notin Buffer
    /\ Headers \in Nat
    /\ MaxRows \in Nat
    /\ MaxRendered \in Nat

\* t is inside of the with statement.
Within(t) == step[t] \in {"redirect", "print"}

\* No two threads render at the same time.
OneAtATime == \A t, u \in Thread : Within(t) /\ Within(u) => t = u

\* The first k lines printed into buffer b.
Front(b, k) == [i \in 1..k |-> <<b, i>>]

-----------------------------------------------------------------------------
(* The inductive invariant *)

Table == Seq(Buffer \X Nat)

Types ==
    /\ stdout \in Buffer \cup {Terminal}
    /\ step \in [Thread -> {"idle", "fill", "redirect", "print", "return"}]
    /\ w \in [Thread -> Thread \X (0..MaxRendered)]
    /\ \A t \in Thread : w[t] = <<t, w[t][2]>>
    /\ nrows \in [Thread -> 0..MaxRows]
    /\ saved \in [Thread -> Buffer \cup {Terminal}]
    /\ printed \in [Thread -> Nat]
    /\ contents \in [Buffer \cup {Terminal} -> Table]
    /\ rendered \in [Thread -> Seq(Table)]

\* Before a thread has set sys.stdout, and after it has put it back, it is
\* the server's own.
Diverted ==
    /\ (\A t \in Thread : step[t] # "print") => stdout = Terminal
    /\ \A t \in Thread : step[t] = "print" => stdout = w[t]
    /\ \A t \in Thread : Within(t) => saved[t] = Terminal

\* How many calls of render are over.
Returned(t) == IF step[t] \in {"idle", "fill"} THEN w[t][2] ELSE w[t][2] - 1

\* What thread t has printed so far, and what it has returned.
Filled(t) ==
    /\ step[t] \in {"redirect", "print", "return"} => w[t][2] \in 1..MaxRendered
    /\ step[t] = "fill" => w[t][2] < MaxRendered
    /\ \A n \in (w[t][2] + 1)..MaxRendered : contents[<<t, n>>] = <<>>
    /\ Within(t) => contents[w[t]] = Front(w[t], printed[t])
    /\ step[t] = "redirect" => printed[t] = 0
    /\ step[t] = "print" => printed[t] <= Headers + nrows[t]
    /\ step[t] = "return" => contents[w[t]] = Lines(w[t], nrows[t])
    /\ Len(rendered[t]) = Returned(t)
    /\ \A i \in DOMAIN rendered[t] :
          \E n \in 0..MaxRows : rendered[t][i] = Lines(<<t, i>>, n)

IInv == Types /\ Diverted /\ \A t \in Thread : Filled(t)

-----------------------------------------------------------------------------
(* Lines and buffers *)

LEMMA FrontGrows ==
    ASSUME NEW b \in Buffer, NEW k \in Nat
    PROVE  /\ Front(b, k) \in Table
           /\ Append(Front(b, k), <<b, k + 1>>) = Front(b, k + 1)
           /\ Front(b, 0) = <<>>
<1> DEFINE S == Buffer \X Nat
<1>1. \A i \in 1..(k + 1) : <<b, i>> \in S
  OBVIOUS
<1>2. Front(b, k) \in Seq(S) /\ Len(Front(b, k)) = k
  BY <1>1 DEF Front
<1>3. Append(Front(b, k), <<b, k + 1>>) = Front(b, k + 1)
  BY <1>1, <1>2 DEF Front
<1>4. Front(b, 0) = <<>>
  <2>1. Front(b, 0) \in Seq(S) /\ Len(Front(b, 0)) = 0
    BY <1>1 DEF Front
  <2> QED
    BY <2>1, EmptySeq
<1> QED
  BY <1>2, <1>3, <1>4 DEF Table

\* The buffer of a thread that is on its way through render.
LEMMA OwnBuffer ==
    ASSUME Types, NEW t \in Thread, Filled(t), step[t] \in {"redirect", "print", "return"}
    PROVE  /\ w[t] = <<t, w[t][2]>> /\ w[t][2] \in 1..MaxRendered
           /\ w[t] \in Buffer
  BY DEF Types, Filled, Buffer

\* A thread is as it was if nobody wrote to what is its own.
LEMMA OtherFilled ==
    ASSUME Types, NEW u \in Thread, Filled(u),
           step'[u] = step[u], w'[u] = w[u], nrows'[u] = nrows[u],
           printed'[u] = printed[u], rendered'[u] = rendered[u],
           \A n \in 1..MaxRendered : contents'[<<u, n>>] = contents[<<u, n>>]
    PROVE  Filled(u)'
<1>1. step[u] \in {"redirect", "print", "return"} => contents'[w[u]] = contents[w[u]]
  <2> SUFFICES ASSUME step[u] \in {"redirect", "print", "return"}
               PROVE  contents'[w[u]] = contents[w[u]]
    OBVIOUS
  <2>1. w[u] = <<u, w[u][2]>> /\ w[u][2] \in 1..MaxRendered
    BY OwnBuffer
  <2>2. contents'[<<u, w[u][2]>>] = contents[<<u, w[u][2]>>]
    BY <2>1
  <2> QED
    BY <2>1, <2>2
<1>2. w[u][2] \in 0..MaxRendered
  BY DEF Types
<1>3. \A n \in (w[u][2] + 1)..MaxRendered : n \in 1..MaxRendered
  BY <1>2
<1> QED
  BY <1>1, <1>3 DEF Filled, Within, Returned

-----------------------------------------------------------------------------
(* One lemma for each action *)

LEMMA InitInv ==
    ASSUME RenderingConstants, Init
    PROVE  IInv
<1>1. Types
  BY DEF RenderingConstants, Init, Types, Table
<1>2. Diverted
  BY DEF Init, Diverted, Within
<1>3. ASSUME NEW t \in Thread
      PROVE  Filled(t)
  <2>1. \A n \in 1..MaxRendered : <<t, n>> \in Buffer
    BY DEF Buffer
  <2> QED
    BY <2>1 DEF RenderingConstants, Init, Filled, Within, Returned
<1> QED
  BY <1>1, <1>2, <1>3 DEF IInv

LEMMA NewResultSetStep ==
    ASSUME RenderingConstants, IInv, NEW t \in Thread, NewResultSet(t)
    PROVE  IInv'
<1>1. Types'
  BY DEF RenderingConstants, IInv, Types, NewResultSet, Goto
<1>2. Diverted'
  BY DEF IInv, Types, Diverted, Within, NewResultSet, Goto
<1>3. ASSUME NEW u \in Thread
      PROVE  Filled(u)'
  <2>1. CASE u = t
    BY <2>1 DEF IInv, Types, Filled, Within, Returned, NewResultSet, Goto
  <2>2. CASE u # t
    BY <2>2, OtherFilled DEF IInv, Types, NewResultSet, Goto
  <2> QED
    BY <2>1, <2>2
<1> QED
  BY <1>1, <1>2, <1>3 DEF IInv

LEMMA AddRowStep ==
    ASSUME RenderingConstants, IInv, NEW t \in Thread, AddRow(t)
    PROVE  IInv'
<1>1. Types'
  BY DEF RenderingConstants, IInv, Types, AddRow
<1>2. Diverted'
  BY DEF IInv, Diverted, Within, AddRow
<1>3. ASSUME NEW u \in Thread
      PROVE  Filled(u)'
  <2>1. CASE u = t
    BY <2>1 DEF IInv, Types, Filled, Within, Returned, AddRow
  <2>2. CASE u # t
    BY <2>2, OtherFilled DEF IInv, Types, AddRow
  <2> QED
    BY <2>1, <2>2
<1> QED
  BY <1>1, <1>2, <1>3 DEF IInv

\* The thread finds the server's own sys.stdout: the others are not rendering.
LEMMA RenderStep ==
    ASSUME RenderingConstants, IInv, OneAtATime', NEW t \in Thread, Render(t)
    PROVE  IInv'
<1>0. Types /\ Diverted /\ Filled(t)
  BY DEF IInv
<1>1. /\ step[t] = "fill" /\ step' = [step EXCEPT ![t] = "redirect"]
      /\ w[t][2] \in Nat /\ w[t][2] < MaxRendered /\ w[t] = <<t, w[t][2]>>
  BY <1>0 DEF Types, Filled, Render, Goto
<1>2. w' = [w EXCEPT ![t] = <<t, w[t][2] + 1>>]
  <2>1. [w[t] EXCEPT ![2] = w[t][2] + 1] = <<t, w[t][2] + 1>>
    BY <1>1
  <2> QED
    BY <2>1 DEF Render
<1>3. w[t][2] + 1 \in 1..MaxRendered /\ <<t, w[t][2] + 1>> \in Buffer
  BY <1>1 DEF RenderingConstants, Buffer
<1>4. \A u \in Thread : step[u] # "print"
  BY <1>0, <1>1 DEF OneAtATime, Within, Types
<1>5. Types'
  <2>1. /\ w' \in [Thread -> Thread \X (0..MaxRendered)]
        /\ w'[t] = <<t, w[t][2] + 1>> /\ \A u \in Thread : u # t => w'[u] = w[u]
    BY <1>0, <1>2, <1>3 DEF Types
  <2>2. \A u \in Thread : w'[u] = <<u, w'[u][2]>>
    <3>1. <<t, w[t][2] + 1>>[2] = w[t][2] + 1
      OBVIOUS
    <3> QED
      BY <1>0, <2>1, <3>1 DEF Types
  <2>3. /\ saved' = [saved EXCEPT ![t] = stdout] /\ printed' = [printed EXCEPT ![t] = 0]
        /\ UNCHANGED <<stdout, nrows, contents, rendered>>
    BY DEF Render
  <2> QED
    BY <1>0, <1>1, <2>1, <2>2, <2>3 DEF Types
<1>6. Diverted'
  BY <1>0, <1>1, <1>4 DEF Types, Diverted, Within, Render
<1>7. ASSUME NEW u \in Thread
      PROVE  Filled(u)'
  <2>1. CASE u = t
    <3>1. contents[<<t, w[t][2] + 1>>] = <<>>
      BY <1>0, <1>1, <1>3 DEF Filled
    <3>2. Front(<<t, w[t][2] + 1>>, 0) = <<>>
      BY <1>3, FrontGrows
    <3>3. /\ w'[t] = <<t, w[t][2] + 1>> /\ w'[t][2] = w[t][2] + 1
          /\ step'[t] = "redirect" /\ printed'[t] = 0
          /\ contents' = contents /\ rendered' = rendered
      <4>1. w'[t] = <<t, w[t][2] + 1>>
        BY <1>0, <1>2 DEF Types
      <4>2. w'[t][2] = w[t][2] + 1
        BY <4>1
      <4>3. step'[t] = "redirect" /\ printed'[t] = 0
        BY <1>0, <1>1 DEF Types, Render
      <4> QED
        BY <4>1, <4>2, <4>3 DEF Render
    <3> QED
      BY <1>0, <1>1, <1>3, <2>1, <3>1, <3>2, <3>3 DEF Filled, Within, Returned
  <2>2. CASE u # t
    BY <1>0, <1>1, <1>2, <2>2, OtherFilled DEF IInv, Types, Render
  <2> QED
    BY <2>1, <2>2
<1> QED
  BY <1>5, <1>6, <1>7 DEF IInv

LEMMA RedirectStep ==
    ASSUME RenderingConstants, IInv, OneAtATime, NEW t \in Thread, Redirect(t)
    PROVE  IInv'
<1>0. Types /\ Diverted /\ Filled(t)
  BY DEF IInv
<1>1. step[t] = "redirect" /\ step' = [step EXCEPT ![t] = "print"] /\ w[t] \in Buffer
  BY <1>0, OwnBuffer DEF Redirect, Goto
<1>2. \A u \in Thread : u # t => ~Within(u)
  BY <1>1 DEF OneAtATime, Within
<1>3. Types'
  BY <1>0, <1>1 DEF Types, Redirect
<1>4. Diverted'
  BY <1>0, <1>1, <1>2 DEF Types, Diverted, Within, Redirect
<1>5. ASSUME NEW u \in Thread
      PROVE  Filled(u)'
  <2>1. CASE u = t
    BY <1>0, <1>1, <2>1 DEF RenderingConstants, Types, Filled, Within, Returned, Redirect
  <2>2. CASE u # t
    BY <1>1, <2>2, OtherFilled DEF IInv, Types, Redirect
  <2> QED
    BY <2>1, <2>2
<1> QED
  BY <1>3, <1>4, <1>5 DEF IInv

\* The line goes to the thread's own buffer.
LEMMA PrintLineStep ==
    ASSUME RenderingConstants, IInv, NEW t \in Thread, PrintLine(t)
    PROVE  IInv'
<1>0. Types /\ Diverted /\ Filled(t)
  BY DEF IInv
<1>1. /\ step[t] = "print" /\ stdout = w[t] /\ w[t] \in Buffer /\ w[t] = <<t, w[t][2]>>
      /\ w[t][2] \in 1..MaxRendered
      /\ printed[t] \in Nat /\ printed[t] < Headers + nrows[t]
      /\ contents[w[t]] = Front(w[t], printed[t])
      /\ printed' = [printed EXCEPT ![t] = printed[t] + 1]
  BY <1>0, OwnBuffer DEF Types, Diverted, Filled, Within, PrintLine
<1>2. /\ contents' = [contents EXCEPT ![w[t]] = Front(w[t], printed[t] + 1)]
      /\ Front(w[t], printed[t] + 1) \in Table
  <2>1. contents' = [contents EXCEPT ![w[t]] = Append(contents[w[t]], <<w[t], printed'[t]>>)]
    BY <1>1 DEF PrintLine
  <2>2. printed'[t] = printed[t] + 1
    BY <1>0, <1>1 DEF Types
  <2>3. /\ Append(Front(w[t], printed[t]), <<w[t], printed[t] + 1>>) = Front(w[t], printed[t] + 1)
        /\ Front(w[t], printed[t] + 1) \in Table
    <3>1. w[t] \in Buffer /\ printed[t] \in Nat /\ printed[t] + 1 \in Nat
      BY <1>1
    <3> QED
      BY <3>1, FrontGrows
  <2>4. contents[w[t]] = Front(w[t], printed[t])
    BY <1>1
  <2> QED
    BY <2>1, <2>2, <2>3, <2>4
<1>3. Types'
  <2>1. contents' \in [Buffer \cup {Terminal} -> Table]
    BY <1>0, <1>1, <1>2 DEF Types
  <2>2. printed' \in [Thread -> Nat]
    BY <1>0, <1>1 DEF Types
  <2>3. UNCHANGED <<stdout, step, w, nrows, saved, rendered>>
    BY DEF PrintLine
  <2> QED
    BY <1>0, <2>1, <2>2, <2>3 DEF Types
<1>4. Diverted'
  BY <1>0, <1>1 DEF Types, Diverted, Within, PrintLine
<1>5. ASSUME NEW u \in Thread
      PROVE  Filled(u)'
  <2>1. \A n \in 1..MaxRendered : <<u, n>> # w[t] => contents'[<<u, n>>] = contents[<<u, n>>]
    BY <1>0, <1>2 DEF Types, Buffer
  <2>2. CASE u = t
    <3>1. \A n \in (w[t][2] + 1)..MaxRendered : n \in 1..MaxRendered /\ <<t, n>> # w[t]
      BY <1>1 DEF RenderingConstants
    <3>2. contents'[w[t]] = Front(w[t], printed[t] + 1) /\ printed'[t] = printed[t] + 1
      <4>1. w[t] \in DOMAIN contents /\ t \in DOMAIN printed
        BY <1>0, <1>1 DEF Types
      <4> QED
        BY <1>1, <1>2, <4>1
    <3>3. nrows[t] \in Nat
      BY <1>0 DEF Types, RenderingConstants
    <3>4. \A n \in (w[t][2] + 1)..MaxRendered : contents'[<<t, n>>] = contents[<<t, n>>]
      BY <2>1, <2>2, <3>1
    <3>5. printed'[t] <= Headers + nrows[t]
      BY <1>1, <3>2, <3>3 DEF RenderingConstants
    <3>6. step' = step /\ w' = w /\ nrows' = nrows /\ rendered' = rendered
      BY DEF PrintLine
    <3> QED
      BY <1>0, <1>1, <2>2, <3>2, <3>4, <3>5, <3>6 DEF Filled, Within, Returned
  <2>3. CASE u # t
    BY <1>0, <1>1, <2>1, <2>3, OtherFilled, SMTT(20) DEF IInv, Types, PrintLine
  <2> QED
    BY <2>2, <2>3
<1> QED
  BY <1>3, <1>4, <1>5 DEF IInv

\* All lines are in the buffer, and sys.stdout is the server's own again.
LEMMA RestoreStep ==
    ASSUME RenderingConstants, IInv, OneAtATime, NEW t \in Thread, Restore(t)
    PROVE  IInv'
<1>0. Types /\ Diverted /\ Filled(t)
  BY DEF IInv
<1>1. /\ step[t] = "print" /\ step' = [step EXCEPT ![t] = "return"]
      /\ stdout' = Terminal
      /\ contents[w[t]] = Lines(w[t], nrows[t])
  BY <1>0 DEF Diverted, Filled, Within, Restore, Goto, Front, Lines
<1>2. \A u \in Thread : u # t => ~Within(u)
  BY <1>1 DEF OneAtATime, Within
<1>3. Types'
  BY <1>0, <1>1 DEF Types, Restore
<1>4. Diverted'
  BY <1>0, <1>1, <1>2 DEF Types, Diverted, Within, Restore
<1>5. ASSUME NEW u \in Thread
      PROVE  Filled(u)'
  <2>1. CASE u = t
    BY <1>0, <1>1, <2>1 DEF RenderingConstants, Types, Filled, Within, Returned, Restore
  <2>2. CASE u # t
    BY <1>1, <2>2, OtherFilled DEF IInv, Types, Restore
  <2> QED
    BY <2>1, <2>2
<1> QED
  BY <1>3, <1>4, <1>5 DEF IInv

LEMMA ReturnStep ==
    ASSUME RenderingConstants, IInv, NEW t \in Thread, Return(t)
    PROVE  IInv'
<1>0. Types /\ Diverted /\ Filled(t)
  BY DEF IInv
<1>1. /\ step[t] = "return" /\ step' = [step EXCEPT ![t] = "idle"]
      /\ w[t] = <<t, w[t][2]>> /\ w[t][2] \in 1..MaxRendered /\ w[t] \in Buffer
      /\ contents[w[t]] = Lines(w[t], nrows[t]) /\ contents[w[t]] \in Table
      /\ nrows[t] \in 0..MaxRows
      /\ rendered' = [rendered EXCEPT ![t] = Append(rendered[t], contents[w[t]])]
      /\ rendered[t] \in Seq(Table) /\ Len(rendered[t]) = w[t][2] - 1
  BY <1>0, OwnBuffer DEF Types, Filled, Returned, Return, Goto
<1>2. Types'
  BY <1>0, <1>1 DEF Types, Return
<1>3. Diverted'
  BY <1>0, <1>1 DEF Types, Diverted, Within, Return
<1>4. ASSUME NEW u \in Thread
      PROVE  Filled(u)'
  <2>1. CASE u = t
    <3>1. rendered'[t] = Append(rendered[t], Lines(<<t, w[t][2]>>, nrows[t]))
      BY <1>0, <1>1 DEF Types
    <3>2. Len(rendered'[t]) = w[t][2]
      BY <1>1, <3>1
    <3>3. ASSUME NEW i \in DOMAIN rendered'[t]
          PROVE  \E n \in 0..MaxRows : rendered'[t][i] = Lines(<<t, i>>, n)
      <4>1. i \in 1..w[t][2]
        BY <1>1, <3>1
      <4>2. CASE i = w[t][2]
        BY <1>1, <3>1, <4>2
      <4>3. CASE i < w[t][2]
        <5>1. i \in DOMAIN rendered[t] /\ rendered'[t][i] = rendered[t][i]
          BY <1>1, <3>1, <4>1, <4>3
        <5> QED
          BY <1>0, <5>1 DEF Filled
      <4> QED
        <5>1. PICK m \in Nat : m = w[t][2]
          BY <1>1
        <5>2. i = m \/ i < m
          BY <4>1, <5>1
        <5> QED
          BY <4>2, <4>3, <5>1, <5>2
    <3>4. step'[t] = "idle" /\ w' = w /\ contents' = contents
      BY <1>0, <1>1 DEF Types, Return
    <3> QED
      BY <1>0, <2>1, <3>2, <3>3, <3>4 DEF Filled, Within, Returned
  <2>2. CASE u # t
    BY <1>0, <1>1, <2>2, OtherFilled DEF IInv, Types, Return
  <2> QED
    BY <2>1, <2>2
<1> QED
  BY <1>2, <1>3, <1>4 DEF IInv

LEMMA NextInv ==
    ASSUME RenderingConstants, IInv, OneAtATime, OneAtATime', [Next]_vars
    PROVE  IInv'
<1>1. CASE UNCHANGED vars
  BY <1>1 DEF vars, IInv, Types, Diverted, Filled, Within, Returned
<1>2. ASSUME NEW t \in Thread,
             \/ NewResultSet(t) \/ AddRow(t) \/ Render(t) \/ Redirect(t)
             \/ PrintLine(t) \/ Restore(t) \/ Return(t)
      PROVE  IInv'
  BY <1>2, NewResultSetStep, AddRowStep, RenderStep, RedirectStep, PrintLineStep, RestoreStep,
     ReturnStep
<1> QED
  BY <1>1, <1>2 DEF Next

LEMMA Invariant ==
    ASSUME RenderingConstants
    PROVE  Spec /\ []OneAtATime => []IInv
<1>1. Init => IInv
  BY InitInv
<1>2. IInv /\ OneAtATime /\ OneAtATime' /\ [Next]_vars => IInv'
  BY NextInv
<1> QED
  BY <1>1, <1>2, PTL DEF Spec

-----------------------------------------------------------------------------
(* The theorems *)

\* Sessions that do not render at the same time get their own tables, whole
\* and in order, whatever else their threads do at the same time.
THEOREM TablesKeptApart ==
    ASSUME RenderingConstants
    PROVE  Spec /\ []OneAtATime => []OwnLines
<1>1. IInv => OwnLines
  BY DEF IInv, Filled, OwnLines
<1> QED
  BY <1>1, Invariant, PTL

\* When nobody renders, what the server prints goes where it did at the start:
\* no buffer is left behind in sys.stdout.
StdoutRestored == (\A t \in Thread : ~Within(t)) => stdout = Terminal

\* redirect_stdout leaves nothing behind if its uses do not overlap.
THEOREM StdoutIsRestored ==
    ASSUME RenderingConstants
    PROVE  Spec /\ []OneAtATime => []StdoutRestored
<1>1. IInv => StdoutRestored
  BY DEF IInv, Diverted, StdoutRestored, Within
<1> QED
  BY <1>1, Invariant, PTL
=============================================================================
