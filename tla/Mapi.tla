-------------------------------- MODULE Mapi --------------------------------
(***************************************************************************)
(* framing.py: one direction of a connection, Mapi.send on one side and    *)
(* Mapi.receive_binary on the other, with the bytes under way in between.  *)
(* A message is cut into blocks; a block is a header of two bytes and its  *)
(* data.  The socket can hand over the bytes in pieces of any size.  The   *)
(* writer can also be another MAPI implementation, for instance mclient,   *)
(* that cuts its messages elsewhere.                                       *)
(***************************************************************************)
EXTENDS Integers, Sequences

CONSTANTS
    CHUNK_SIZE,   \* 8190
    Radix,        \* how many values a byte has
    Writer,       \* who may write: "framing" for framing.py, "foreign" for others
    Message,      \* per writer, the messages it can send
    MaxSent       \* bound, per writer: how many messages it sends

Byte == 0..(Radix - 1)

\* A block of n bytes has a header of two bytes.
Fits(n) == 2 * n + 1 < Radix * Radix

ASSUME MapiAssumption ==
    /\ CHUNK_SIZE \in Nat \ {0}
    /\ Radix \in Nat \ {0}
    /\ Fits(CHUNK_SIZE)
    /\ Writer \subseteq {"framing", "foreign"}
    /\ Message \in [Writer -> SUBSET Seq(Byte)]
    /\ MaxSent \in [Writer -> Nat]

VARIABLES
    writer,     \* who writes
    sphase,     \* sender: "idle", about to write a "header" or a "chunk", or "gone"
    i,          \* i of the next iteration of the loop in send
    block,      \* the block whose header was written last
    wire,       \* the bytes that were written and not yet read
    rphase,     \* receiver: reads a "header" or a "body", or got "none", "eof" or "reset"
    wanted,     \* _recvbytes: nbytes
    buf,        \* _recvbytes: msg
    is_last,    \* of the latest block; before the first one, TRUE
    parts,      \* receive_binary: parts, joined
    sent,       \* history: the messages send was called with
    finished,   \* history: of how many of them send has returned
    received    \* history: the messages receive_binary returned

sender   == <<writer, sphase, i, block, sent, finished>>
receiver == <<rphase, wanted, buf, is_last, parts, received>>
vars     == <<sender, wire, receiver>>

NoBlock == [chunk |-> <<>>, is_last |-> TRUE, next |-> 0, more |-> FALSE]

Reading == rphase \in {"header", "body"}

MapiTypeOK ==
    /\ writer \in Writer
    /\ sphase \in {"idle", "header", "chunk", "gone"}
    /\ i \in Nat
    /\ block \in [chunk : Seq(Byte), is_last : BOOLEAN, next : Nat, more : BOOLEAN]
    /\ wire \in Seq(Byte)
    /\ rphase \in {"header", "body", "none", "eof", "reset"}
    /\ wanted \in 0..(Radix * Radix)
    /\ Len(buf) <= wanted /\ buf \in Seq(Byte)
    /\ is_last \in BOOLEAN
    /\ parts \in Seq(Byte)
    /\ sent \in Seq(Message[writer]) /\ Len(sent) <= MaxSent[writer]
    /\ finished \in 0..Len(sent)
    /\ received \in Seq(Seq(Byte))

Init ==
    /\ writer \in Writer
    /\ sphase = "idle"
    /\ i = 0
    /\ block = NoBlock
    /\ wire = <<>>
    /\ rphase = "header"
    /\ wanted = 2
    /\ buf = <<>>
    /\ is_last = TRUE
    /\ parts = <<>>
    /\ sent = <<>>
    /\ finished = 0
    /\ received = <<>>

-----------------------------------------------------------------------------
(* Mapi.send *)

msg == sent[Len(sent)]

\* Mutant: a block that ends with the message is not the last one.
MapiBlockNotLast ==
    [chunk   |-> SubSeq(msg, i + 1, Len(msg)),
     is_last |-> i + CHUNK_SIZE > Len(msg),
     next    |-> i + CHUNK_SIZE,
     more    |-> i + CHUNK_SIZE < Len(msg)]

\* The iteration of the loop with this i: start and end are Python indices,
\* and range(0, len(msg) or 1, CHUNK_SIZE) may have another value for i.
start == i * CHUNK_SIZE
end == start + CHUNK_SIZE
MapiBlock ==
    [chunk   |-> SubSeq(msg, start + 1, IF end < Len(msg) THEN end ELSE Len(msg)),
     is_last |-> end >= Len(msg),
     next    |-> i + CHUNK_SIZE,
     more    |-> i + CHUNK_SIZE < Len(msg)]

\* Any other way to cut what is left of the message, into blocks that
\* have room for their size; the last block may be an empty one of its own.
ForeignBlock ==
    {[chunk |-> SubSeq(msg, i + 1, n), is_last |-> FALSE, next |-> n, more |-> TRUE] :
        n \in {n \in (i + 1)..Len(msg) : Fits(n - i)}}
    \cup {[chunk |-> SubSeq(msg, i + 1, n), is_last |-> TRUE, next |-> n, more |-> FALSE] :
        n \in {n \in {Len(msg)} : Fits(n - i)}}

Block == IF writer = "foreign" THEN ForeignBlock ELSE {MapiBlock}

\* struct.pack and struct.unpack of '<H'
Pack(n) == <<n % Radix, n \div Radix>>
Unpack(h) == h[1] + Radix * h[2]

Header(b) == Pack(2 * Len(b.chunk) + (IF b.is_last THEN 1 ELSE 0))

\* Mutant: no blocks for an empty message.
SendNoEmpty(m) ==
    /\ sphase = "idle"
    /\ Len(sent) < MaxSent[writer]
    /\ sent' = Append(sent, m)
    /\ i' = 0
    /\ IF m = <<>> THEN finished' = Len(sent') /\ UNCHANGED sphase
                   ELSE sphase' = "header" /\ UNCHANGED finished
    /\ UNCHANGED <<writer, block, wire, receiver>>

Send(m) ==
    /\ sphase = "idle"
    /\ Len(sent) < MaxSent[writer]
    /\ sent' = Append(sent, m)
    /\ i' = 0
    /\ sphase' = "header"
    /\ UNCHANGED <<writer, block, wire, receiver, finished>>

SendHeader ==
    /\ sphase = "header"
    /\ block' \in Block
    /\ i' = block'.next
    /\ wire' = wire \o Header(block')
    /\ sphase' = "chunk"
    /\ UNCHANGED <<writer, sent, finished, receiver>>

SendChunk ==
    /\ sphase = "chunk"
    /\ wire' = wire \o block.chunk
    /\ IF block.more
       THEN sphase' = "header" /\ UNCHANGED finished
       ELSE sphase' = "idle" /\ finished' = Len(sent)
    /\ UNCHANGED <<writer, i, block, sent, receiver>>

Close ==
    /\ sphase = "idle"
    /\ sphase' = "gone"
    /\ UNCHANGED <<writer, i, block, sent, finished, wire, receiver>>

\* The process ends, or sendall fails after part of the bytes got out.
Interrupted ==
    /\ sphase \in {"header", "chunk"}
    /\ \E bytes \in IF sphase = "header" THEN {Header(b) : b \in Block} ELSE {block.chunk} :
          \E k \in 0..Len(bytes) :
              /\ k < Len(bytes) \/ k = 0
              /\ wire' = wire \o SubSeq(bytes, 1, k)
    /\ sphase' = "gone"
    /\ UNCHANGED <<writer, i, block, sent, finished, receiver>>

-----------------------------------------------------------------------------
(* Mapi.receive_binary and Mapi._recvbytes *)

\* receive_binary has just been called: eof_allowed.
AtBoundary == rphase = "header" /\ is_last

\* Mutant: reads nbytes, whatever has been read already.
RecvTooMuch ==
    /\ Reading
    /\ Len(buf) < wanted
    /\ \E k \in 1..wanted :
          /\ k <= Len(wire)
          /\ buf' = buf \o SubSeq(wire, 1, k)
          /\ wire' = SubSeq(wire, k + 1, Len(wire))
    /\ UNCHANGED <<sender, rphase, wanted, is_last, parts, received>>

Recv ==
    /\ Reading
    /\ \E k \in 1..(wanted - Len(buf)) :
          /\ k <= Len(wire)
          /\ buf' = buf \o SubSeq(wire, 1, k)
          /\ wire' = SubSeq(wire, k + 1, Len(wire))
    /\ UNCHANGED <<sender, rphase, wanted, is_last, parts, received>>

\* Mutant: a reset looks like an orderly close.
RecvEndQuiet ==
    /\ Reading
    /\ Len(buf) < wanted
    /\ sphase = "gone"
    /\ rphase' = IF AtBoundary /\ buf = <<>> THEN "none" ELSE "eof"
    /\ wire' = <<>>
    /\ UNCHANGED <<sender, wanted, buf, is_last, parts, received>>

RecvEnd ==
    /\ Reading
    /\ Len(buf) < wanted
    /\ sphase = "gone"
    /\ \/ /\ wire = <<>>
          /\ rphase' = IF AtBoundary /\ buf = <<>> THEN "none" ELSE "eof"
          /\ UNCHANGED wire
       \/ /\ rphase' = "reset"
          /\ wire' = <<>>
    /\ UNCHANGED <<sender, wanted, buf, is_last, parts, received>>

HeaderDone ==
    /\ rphase = "header"
    /\ Len(buf) = wanted
    /\ LET n == Unpack(buf)
       IN  /\ wanted' = n \div 2
           /\ is_last' = (n % 2 = 1)
    /\ rphase' = "body"
    /\ buf' = <<>>
    /\ UNCHANGED <<sender, wire, parts, received>>

BodyDone ==
    /\ rphase = "body"
    /\ Len(buf) = wanted
    /\ IF is_last
       THEN received' = Append(received, parts \o buf) /\ parts' = <<>>
       ELSE parts' = parts \o buf /\ UNCHANGED received
    /\ rphase' = "header"
    /\ wanted' = 2
    /\ buf' = <<>>
    /\ UNCHANGED <<sender, wire, is_last>>

-----------------------------------------------------------------------------
ReceiverStep == Recv \/ RecvEnd \/ HeaderDone \/ BodyDone

Terminated == sphase = "gone" /\ ~Reading /\ UNCHANGED vars

Next ==
    \/ \E m \in Message[writer] : Send(m)
    \/ SendHeader \/ SendChunk \/ Close \/ Interrupted
    \/ ReceiverStep
    \/ Terminated

Spec == Init /\ [][Next]_vars

\* The reader blocks in recv and runs when there is something to read; the
\* writer may stay away between two messages, or die.
FairSpec == Spec /\ WF_vars(ReceiverStep) /\ WF_vars(SendHeader \/ SendChunk)

-----------------------------------------------------------------------------
(* Properties *)

\* What receive_binary returns is what send was called with: the same
\* messages, whole and in the same order.
Intact ==
    /\ Len(received) <= Len(sent)
    /\ \A k \in DOMAIN received : received[k] = sent[k]

\* If the writer is between two messages, and the reader is blocked with
\* nothing on its way, then the reader is between messages too and has got
\* everything: no byte is left over and none is missing.
BlockedMeansUpToDate ==
    sphase = "idle" /\ wire = <<>> /\ Reading /\ Len(buf) < wanted
    => AtBoundary /\ buf = <<>> /\ parts = <<>> /\ received = sent

\* receive_binary's docstring: None if the socket was closed at a block
\* boundary, so no EOFError before the first byte of a header.
NoneAtBlockBoundary == [][rphase = "header" /\ buf = <<>> => rphase' # "eof"]_vars

\* Mapi keeps the promise of Channel.
Status == IF Reading THEN "open" ELSE IF rphase = "none" THEN "stopped" ELSE "broken"

AnyMessage == UNION {Message[w] : w \in Writer}

Promise == INSTANCE Channel WITH status <- Status, Message <- AnyMessage

ImplementsChannel == Promise!Spec

\* A message whose send has returned arrives, unless the stream breaks.
Arrives ==
    \A w \in Writer : \A n \in 1..MaxSent[w] :
        writer = w /\ finished >= n ~> Len(received) >= n \/ rphase \in {"eof", "reset"}
=============================================================================
