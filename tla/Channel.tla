------------------------------ MODULE Channel ------------------------------
(***************************************************************************)
(* What one direction of a Mapi connection promises: whole messages, in    *)
(* order, unchanged, each once.  If the reader is told that the stream     *)
(* ended then every message whose send returned has been delivered; if it  *)
(* broke, a tail of them may be lost.                                      *)
(***************************************************************************)
EXTENDS Naturals, Sequences

CONSTANT Message

VARIABLES
    sent,       \* the messages the writer started to send
    finished,   \* of how many of them send has returned
    received,   \* what receive has returned
    status      \* "open", or how the stream ended for the reader

vars == <<sent, finished, received, status>>

Init == sent = <<>> /\ finished = 0 /\ received = <<>> /\ status = "open"

Begin(m) ==
    /\ finished = Len(sent)
    /\ sent' = Append(sent, m)
    /\ UNCHANGED <<finished, received, status>>

Finish ==
    /\ finished < Len(sent)
    /\ finished' = Len(sent)
    /\ UNCHANGED <<sent, received, status>>

Deliver ==
    /\ status = "open"
    /\ Len(received) < Len(sent)
    /\ received' = Append(received, sent[Len(received) + 1])
    /\ UNCHANGED <<sent, finished, status>>

Stop ==
    /\ status = "open"
    /\ Len(received) >= finished
    /\ status' = "stopped"
    /\ UNCHANGED <<sent, finished, received>>

Break ==
    /\ status = "open"
    /\ status' = "broken"
    /\ UNCHANGED <<sent, finished, received>>

Next == (\E m \in Message : Begin(m)) \/ Finish \/ Deliver \/ Stop \/ Break

Spec == Init /\ [][Next]_vars
=============================================================================
