----------------------------- MODULE Rendering -----------------------------
(***************************************************************************)
(* ResultSet in the threads of several sessions.  render prints into a     *)
(* buffer of its own by way of contextlib.redirect_stdout, which saves     *)
(* sys.stdout, sets it, and puts the saved value back at the end.          *)
(* sys.stdout belongs to the process, so the threads of all sessions share *)
(* it.  Module Server has the answers of a session by their kind; this     *)
(* module has what is in them: a line is known by the result set it is of  *)
(* and its place in it.                                                    *)
(***************************************************************************)
EXTENDS Integers, Sequences

CONSTANTS
    Thread,       \* the threads of the connections that are in a session
    Terminal,     \* the file that is sys.stdout when the server starts, no Buffer
    Headers,      \* 5: the lines '&1', table_name, name, type and length
    MaxRows,      \* bound: rows of a result set
    MaxRendered   \* bound: how many result sets a thread renders

\* The StringIO of a thread's n-th call of render.
Buffer == Thread \X (1..MaxRendered)

VARIABLES
    stdout,    \* sys.stdout
    step,      \* per thread, where it is in interact_sql and render
    w,         \* per thread, the buffer of its latest call of render
    nrows,     \* per thread, the rows of its ResultSet
    saved,     \* per thread, what its redirect_stdout has saved
    printed,   \* per thread, how many lines this call of render has printed
    contents,  \* per file, the lines that were written to it, in order
    rendered   \* per thread, what its calls of render returned

vars == <<stdout, step, w, nrows, saved, printed, contents, rendered>>

Init ==
    /\ stdout = Terminal
    /\ step = [t \in Thread |-> "idle"]
    /\ w = [t \in Thread |-> <<t, 0>>]
    /\ nrows = [t \in Thread |-> 0]
    /\ saved = [t \in Thread |-> Terminal]
    /\ printed = [t \in Thread |-> 0]
    /\ contents = [f \in Buffer \cup {Terminal} |-> <<>>]
    /\ rendered = [t \in Thread |-> <<>>]

Goto(t, next) == step' = [step EXCEPT ![t] = next]

\* The lines of a result set with n rows that is rendered into buffer b.
Lines(b, n) == [i \in 1..(Headers + n) |-> <<b, i>>]

-----------------------------------------------------------------------------
\* rs = ResultSet(...): no rows yet.
NewResultSet(t) ==
    /\ step[t] = "idle"
    /\ w[t][2] < MaxRendered
    /\ nrows' = [nrows EXCEPT ![t] = 0]
    /\ Goto(t, "fill")
    /\ UNCHANGED <<stdout, w, saved, printed, contents, rendered>>

\* rs.add(...)
AddRow(t) ==
    /\ step[t] = "fill"
    /\ nrows[t] < MaxRows
    /\ nrows' = [nrows EXCEPT ![t] = @ + 1]
    /\ UNCHANGED <<stdout, step, w, saved, printed, contents, rendered>>

\* rs.render(), up to the value redirect_stdout reads: its _old_targets.
Render(t) ==
    /\ step[t] = "fill"
    /\ w' = [w EXCEPT ![t][2] = @ + 1]
    /\ saved' = [saved EXCEPT ![t] = stdout]
    /\ printed' = [printed EXCEPT ![t] = 0]
    /\ Goto(t, "redirect")
    /\ UNCHANGED <<stdout, nrows, contents, rendered>>

\* The rest of redirect_stdout's __enter__.
Redirect(t) ==
    /\ step[t] = "redirect"
    /\ stdout' = w[t]
    /\ Goto(t, "print")
    /\ UNCHANGED <<w, nrows, saved, printed, contents, rendered>>

\* One call of print, which looks up sys.stdout.
PrintLine(t) ==
    /\ step[t] = "print"
    /\ printed[t] < Headers + nrows[t]
    /\ printed' = [printed EXCEPT ![t] = @ + 1]
    /\ contents' = [contents EXCEPT ![stdout] = Append(@, <<w[t], printed'[t]>>)]
    /\ UNCHANGED <<stdout, step, w, nrows, saved, rendered>>

\* redirect_stdout's __exit__
Restore(t) ==
    /\ step[t] = "print"
    /\ printed[t] = Headers + nrows[t]
    /\ stdout' = saved[t]
    /\ Goto(t, "return")
    /\ UNCHANGED <<w, nrows, saved, printed, contents, rendered>>

\* return w.getvalue()
Return(t) ==
    /\ step[t] = "return"
    /\ rendered' = [rendered EXCEPT ![t] = Append(@, contents[w[t]])]
    /\ Goto(t, "idle")
    /\ UNCHANGED <<stdout, w, nrows, saved, printed, contents>>

Next ==
    \E t \in Thread :
        \/ NewResultSet(t) \/ AddRow(t) \/ Render(t) \/ Redirect(t)
        \/ PrintLine(t) \/ Restore(t) \/ Return(t)

Spec == Init /\ [][Next]_vars

-----------------------------------------------------------------------------
(* Properties *)

\* The table a session gets is the one interact_sql made for it: all of its
\* lines, in order, and no line of another session's.  The comments in
\* interact_sql say that clients use these tables to retrieve settings.
OwnLines ==
    \A t \in Thread : step[t] = "idle" =>
        \A i \in DOMAIN rendered[t] :
            \E n \in 0..MaxRows : rendered[t][i] = Lines(<<t, i>>, n)
=============================================================================
