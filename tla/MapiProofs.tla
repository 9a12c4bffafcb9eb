----------------------------- MODULE MapiProofs -----------------------------
(***************************************************************************)
(* Proofs about Mapi, for blocks, bytes and messages of any size: its      *)
(* types, and, as long as framing.py sends no message that is longer than  *)
(* a block, that messages arrive intact, that a blocked reader is up to    *)
(* date and that every step is one of Channel.                             *)
(*                                                                         *)
(* What is under way is explained by two sequences that no variable holds: *)
(* log, all bytes that were ever written, and pieces, what each block in   *)
(* it is a piece of.  The writer only adds to them; the reader is between  *)
(* two of the pieces or inside of one.                                     *)
(***************************************************************************)
EXTENDS Mapi, SequenceTheorems, TLAPS

\* framing.py's messages fit in a block.  Without this the properties are
\* false: see the runs on MCMapiLong.cfg.
ShortMessages == "framing" \in Writer => \A m \in Message["framing"] : Len(m) <= CHUNK_SIZE

-----------------------------------------------------------------------------
(* The inductive invariant *)

\* Block number such of the stream: bytes from + 1 to to of message msg, and
\* before its header there are at bytes in the log.
Piece == [msg : Nat \ {0}, from : Nat, to : Nat, last : BOOLEAN, at : Nat]

Size(p) == p.to - p.from
PieceEnd(p) == p.at + 2 + Size(p)
HeaderOf(p) == Pack(2 * Size(p) + (IF p.last THEN 1 ELSE 0))

\* Where piece j begins: in the log, and in which message at which byte.
AtOf(pieces, j) == IF j = 1 THEN 0 ELSE PieceEnd(pieces[j - 1])
MsgOf(pieces, j) ==
    IF j = 1 THEN 1
    ELSE IF pieces[j - 1].last THEN pieces[j - 1].msg + 1 ELSE pieces[j - 1].msg
FromOf(pieces, j) ==
    IF j = 1 THEN 0
    ELSE IF pieces[j - 1].last THEN 0 ELSE pieces[j - 1].to

\* A piece is of a message that was sent, to its end if it is the last one.
Cut(p) ==
    /\ p.msg <= Len(sent)
    /\ p.from <= p.to
    /\ p.to <= Len(sent[p.msg])
    /\ Fits(Size(p))
    /\ IF p.last THEN p.to = Len(sent[p.msg]) ELSE p.from < p.to

\* As far as a piece was written, the log has its header and its data.
Carried(log, p) ==
    /\ \A q \in 1..2 : p.at + q <= Len(log) => log[p.at + q] = HeaderOf(p)[q]
    /\ \A q \in 1..Size(p) :
          p.at + 2 + q <= Len(log) => log[p.at + 2 + q] = sent[p.msg][p.from + q]

Placed(pieces, j) ==
    /\ pieces[j].at = AtOf(pieces, j)
    /\ pieces[j].msg = MsgOf(pieces, j)
    /\ pieces[j].from = FromOf(pieces, j)

\* Only the last piece can be incomplete, and not if its send has returned.
Complete(log, pieces, j) ==
    j < Len(pieces) \/ pieces[j].msg <= finished => PieceEnd(pieces[j]) <= Len(log)

Written(log, pieces) ==
    /\ log \in Seq(Byte)
    /\ pieces \in Seq(Piece)
    /\ \A j \in 1..Len(pieces) :
          /\ Placed(pieces, j)
          /\ Cut(pieces[j])
          /\ Carried(log, pieces[j])
          /\ Complete(log, pieces, j)
    /\ Len(log) <= AtOf(pieces, Len(pieces) + 1)
    /\ finished < MsgOf(pieces, Len(pieces) + 1)

\* Where the writer is.
BetweenBlocks(log, pieces) == Len(log) = AtOf(pieces, Len(pieces) + 1)

Idle(log, pieces) ==
    /\ BetweenBlocks(log, pieces)
    /\ MsgOf(pieces, Len(pieces) + 1) = Len(sent) + 1
    /\ FromOf(pieces, Len(pieces) + 1) = 0
    /\ finished = Len(sent)

BeforeHeader(log, pieces) ==
    /\ BetweenBlocks(log, pieces)
    /\ MsgOf(pieces, Len(pieces) + 1) = Len(sent)
    /\ FromOf(pieces, Len(pieces) + 1) = i
    /\ i <= Len(msg)
    /\ writer = "framing" => i = 0
    /\ finished = Len(sent) - 1

BeforeChunk(log, pieces) ==
    /\ pieces # <<>>
    /\ LET p == pieces[Len(pieces)]
       IN  /\ Len(log) = p.at + 2
           /\ p.msg = Len(sent)
           /\ Len(block.chunk) = Size(p)
           /\ \A q \in 1..Size(p) : block.chunk[q] = msg[p.from + q]
           /\ block.more <=> ~p.last
           /\ block.more => i = p.to
    /\ writer = "framing" => ~block.more
    /\ finished = Len(sent) - 1

Writing(log, pieces) ==
    /\ sphase = "idle" => Idle(log, pieces)
    /\ sphase = "header" => BeforeHeader(log, pieces)
    /\ sphase = "chunk" => BeforeChunk(log, pieces)

\* Where the reader is: r is the piece it reads, or the next one to come.
Pending == buf \o wire

ReadTo(log, pieces, r) ==
    /\ r \in 1..(Len(pieces) + 1)
    /\ Len(received) + 1 = MsgOf(pieces, r)
    /\ Len(parts) = FromOf(pieces, r)
    /\ \A q \in 1..Len(parts) : parts[q] = sent[Len(received) + 1][q]
    /\ rphase = "header" => wanted = 2 /\ (is_last <=> parts = <<>>)
    /\ rphase = "body" =>
          r <= Len(pieces) /\ wanted = Size(pieces[r]) /\ is_last = pieces[r].last
    /\ LET base == AtOf(pieces, r) + (IF rphase = "body" THEN 2 ELSE 0)
       IN  /\ base + Len(Pending) = Len(log)
           /\ \A q \in 1..Len(Pending) : Pending[q] = log[base + q]

Explained(log, pieces) ==
    /\ Written(log, pieces)
    /\ Writing(log, pieces)
    /\ Reading => \E r \in Nat : ReadTo(log, pieces, r)

Stream == \E log \in Seq(Byte), pieces \in Seq(Piece) : Explained(log, pieces)

-----------------------------------------------------------------------------
(* Headers and blocks *)

\* A number below Radix * Radix has two digits.
LEMMA TwoDigits ==
    ASSUME NEW n \in Nat, n < Radix * Radix
    PROVE  /\ n % Radix \in Byte
           /\ n \div Radix \in Byte
           /\ (n % Radix) + Radix * (n \div Radix) = n
<1> DEFINE q == n \div Radix
           r == n % Radix
<1>1. Radix \in Nat \ {0}
  BY MapiAssumption
<1>2. q \in Int /\ r \in 0..(Radix - 1) /\ n = Radix * q + r
  BY <1>1
<1> HIDE DEF q, r
<1>3. q >= 0
  <2>1. SUFFICES ASSUME q <= -1
                 PROVE  FALSE
    BY <1>2
  <2>2. Radix * q <= Radix * (-1)
    BY <1>1, <1>2, <2>1
  <2> QED
    BY <1>1, <1>2, <2>2
<1>4. q < Radix
  <2>1. SUFFICES ASSUME q >= Radix
                 PROVE  FALSE
    BY <1>1, <1>2
  <2>2. Radix * q >= Radix * Radix
    BY <1>1, <1>2, <2>1
  <2> QED
    BY <1>1, <1>2, <2>2
<1> QED
  BY <1>1, <1>2, <1>3, <1>4 DEF q, r, Byte

\* unpack gives back what pack was given.
LEMMA PackUnpack ==
    ASSUME NEW n \in Nat, n < Radix * Radix
    PROVE  /\ Pack(n) \in Seq(Byte)
           /\ Len(Pack(n)) = 2
           /\ Unpack(Pack(n)) = n
<1> DEFINE low == n % Radix
           high == n \div Radix
<1>1. low \in Byte /\ high \in Byte /\ low + Radix * high = n
  BY TwoDigits
<1>2. Pack(n) = <<low, high>>
  BY DEF Pack
<1> HIDE DEF low, high
<1> QED
  BY <1>1, <1>2 DEF Unpack

\* Any two bytes are the header of a block that fits.
LEMMA UnpackBound ==
    ASSUME NEW h \in Seq(Byte), Len(h) = 2
    PROVE  Unpack(h) \in Nat /\ Unpack(h) < Radix * Radix
<1> DEFINE low == h[1]
           high == h[2]
<1>1. Radix \in Nat \ {0} /\ low \in 0..(Radix - 1) /\ high \in 0..(Radix - 1)
  <2>1. low \in Byte /\ high \in Byte
    OBVIOUS
  <2> HIDE DEF low, high
  <2> QED
    BY <2>1, MapiAssumption DEF Byte
<1>2. Unpack(h) = low + Radix * high
  BY DEF Unpack
<1> HIDE DEF low, high
<1>3. Radix * high <= Radix * (Radix - 1) /\ Radix * high >= 0 /\ Radix * high \in Int
  BY <1>1
<1>4. Radix * (Radix - 1) = Radix * Radix - Radix
  BY <1>1
<1> QED
  BY <1>1, <1>2, <1>3, <1>4

\* The number in a header: twice the size, plus the flag.
Coded(n, flag) == 2 * n + (IF flag THEN 1 ELSE 0)

LEMMA CodedFits ==
    ASSUME NEW n \in Nat, NEW flag \in BOOLEAN, Fits(n)
    PROVE  /\ Coded(n, flag) \in Nat
           /\ Coded(n, flag) < Radix * Radix
           /\ Coded(n, flag) \div 2 = n
           /\ Coded(n, flag) % 2 = 1 <=> flag
<1> DEFINE square == Radix * Radix
<1>1. square \in Nat /\ 2 * n + 1 < square
  BY MapiAssumption DEF Fits
<1> DEFINE c == Coded(n, flag)
<1>2. \/ flag /\ c = 2 * n + 1
      \/ ~flag /\ c = 2 * n
  BY DEF Coded
<1> HIDE DEF square, c
<1>3. c \in Nat /\ c < square /\ c \div 2 = n
  BY <1>1, <1>2
<1>4. c % 2 = 1 <=> flag
  <2>1. CASE flag /\ c = 2 * n + 1
    <3>1. c % 2 = 1
      BY <2>1
    <3> QED
      BY <2>1, <3>1
  <2>2. CASE ~flag /\ c = 2 * n
    <3>1. c % 2 = 0
      BY <2>2
    <3> QED
      BY <2>2, <3>1
  <2> QED
    BY <1>2, <2>1, <2>2
<1> QED
  BY <1>3, <1>4 DEF square, c

-----------------------------------------------------------------------------
(* Types *)

\* The loop of send has a message.
HasMessage == sphase \in {"header", "chunk"} => sent # <<>>

TypeInv ==
    /\ MapiTypeOK
    /\ HasMessage
    /\ rphase = "header" => wanted = 2

LEMMA CurrentMessage ==
    ASSUME TypeInv, sphase \in {"header", "chunk"}
    PROVE  /\ Len(sent) \in Nat \ {0}
           /\ msg \in Message[writer]
           /\ msg \in Seq(Byte)
<1>1. sent \in Seq(Message[writer]) /\ sent # <<>> /\ writer \in Writer
  BY DEF TypeInv, MapiTypeOK, HasMessage
<1>2. Len(sent) \in Nat \ {0} /\ msg \in Message[writer]
  BY <1>1 DEF msg
<1>3. Message[writer] \subseteq Seq(Byte)
  BY <1>1, MapiAssumption
<1> QED
  BY <1>2, <1>3

\* A slice of a sequence.
LEMMA Slice ==
    ASSUME NEW S, NEW s \in Seq(S), NEW a \in Nat, NEW b \in Nat, b <= Len(s)
    PROVE  /\ SubSeq(s, a + 1, b) \in Seq(S)
           /\ Len(SubSeq(s, a + 1, b)) = IF a <= b THEN b - a ELSE 0
           /\ \A q \in 1..(b - a) : SubSeq(s, a + 1, b)[q] = s[a + q]
  OBVIOUS

\* What a block has in it.
LEMMA BlockTypes ==
    ASSUME TypeInv, sphase = "header", NEW b \in Block
    PROVE  /\ b \in [chunk : Seq(Byte), is_last : BOOLEAN, next : Nat, more : BOOLEAN]
           /\ Fits(Len(b.chunk))
<1>1. msg \in Seq(Byte) /\ i \in Nat
  BY CurrentMessage DEF TypeInv, MapiTypeOK
<1>2. CHUNK_SIZE \in Nat \ {0} /\ Fits(CHUNK_SIZE) /\ Radix * Radix \in Nat
  BY MapiAssumption
<1>3. CASE b \in ForeignBlock
  <2>1. PICK n \in Nat : /\ n <= Len(msg)
                         /\ b.chunk = SubSeq(msg, i + 1, n)
                         /\ b.is_last \in BOOLEAN /\ b.next = n /\ b.more = ~b.is_last
                         /\ b = [chunk |-> b.chunk, is_last |-> b.is_last,
                                 next |-> b.next, more |-> b.more]
                         /\ Fits(n - i)
    <3>1. Len(msg) \in Nat
      BY <1>1
    <3>2. CASE \E n \in (i + 1)..Len(msg) :
                  /\ Fits(n - i)
                  /\ b = [chunk |-> SubSeq(msg, i + 1, n), is_last |-> FALSE,
                          next |-> n, more |-> TRUE]
      <4>1. PICK n \in (i + 1)..Len(msg) :
                  /\ Fits(n - i)
                  /\ b = [chunk |-> SubSeq(msg, i + 1, n), is_last |-> FALSE,
                          next |-> n, more |-> TRUE]
        BY <3>2
      <4>2. n \in Nat /\ n <= Len(msg)
        BY <1>1, <3>1
      <4> QED
        BY <4>1, <4>2
    <3>3. CASE \E n \in {Len(msg)} :
                  /\ Fits(n - i)
                  /\ b = [chunk |-> SubSeq(msg, i + 1, n), is_last |-> TRUE,
                          next |-> n, more |-> FALSE]
      <4>1. PICK n \in {Len(msg)} :
                  /\ Fits(n - i)
                  /\ b = [chunk |-> SubSeq(msg, i + 1, n), is_last |-> TRUE,
                          next |-> n, more |-> FALSE]
        BY <3>3
      <4>2. n \in Nat /\ n <= Len(msg)
        BY <3>1
      <4> QED
        BY <4>1, <4>2
    <3> QED
      BY <1>3, <3>2, <3>3 DEF ForeignBlock
  <2>2. b.chunk \in Seq(Byte) /\ Len(b.chunk) = IF i <= n THEN n - i ELSE 0
    BY <1>1, <2>1, Slice
  <2>3. Fits(Len(b.chunk))
    BY <1>1, <1>2, <2>1, <2>2 DEF Fits
  <2> QED
    BY <2>1, <2>2, <2>3
<1>4. CASE b = MapiBlock
  <2>1. start \in Nat /\ end = start + CHUNK_SIZE
    BY <1>1, <1>2 DEF start, end
  <2> DEFINE stop == IF end < Len(msg) THEN end ELSE Len(msg)
  <2>2. stop \in Nat /\ stop <= Len(msg) /\ stop - start <= CHUNK_SIZE
    BY <1>1, <1>2, <2>1
  <2>3. b.chunk = SubSeq(msg, start + 1, stop)
    BY <1>4 DEF MapiBlock
  <2> HIDE DEF stop
  <2>4. b.chunk \in Seq(Byte) /\ Len(b.chunk) <= CHUNK_SIZE
    BY <1>1, <1>2, <2>1, <2>2, <2>3, Slice
  <2>5. b \in [chunk : {b.chunk}, is_last : BOOLEAN, next : Nat, more : BOOLEAN]
    BY <1>1, <1>2, <1>4 DEF MapiBlock
  <2>6. Fits(Len(b.chunk))
    BY <1>2, <2>4 DEF Fits
  <2> QED
    BY <2>4, <2>5, <2>6
<1> QED
  BY <1>3, <1>4 DEF Block

LEMMA HeaderTypes ==
    ASSUME TypeInv, sphase = "header", NEW b \in Block
    PROVE  Header(b) \in Seq(Byte) /\ Len(Header(b)) = 2
<1>1. /\ b.chunk \in Seq(Byte)
      /\ b.is_last \in BOOLEAN
      /\ Fits(Len(b.chunk))
  BY BlockTypes
<1>2. Header(b) = Pack(Coded(Len(b.chunk), b.is_last))
  BY DEF Header, Coded
<1> QED
  BY <1>1, <1>2, CodedFits, PackUnpack

\* What Interrupted can leave on the wire.
Torn == IF sphase = "header" THEN {Header(b) : b \in Block} ELSE {block.chunk}

LEMMA TornTypes ==
    ASSUME TypeInv, sphase \in {"header", "chunk"}, NEW bytes \in Torn
    PROVE  bytes \in Seq(Byte)
  BY HeaderTypes DEF Torn, TypeInv, MapiTypeOK

\* Every step keeps the types.
LEMMA TypeStep == TypeInv /\ [Next]_vars => TypeInv'
<1> SUFFICES ASSUME TypeInv, [Next]_vars
             PROVE  TypeInv'
  OBVIOUS
<1> USE DEF TypeInv, HasMessage
<1> DEFINE square == Radix * Radix
<1>1. square \in Nat /\ 2 <= square
  BY MapiAssumption DEF Fits
<1>2. MapiTypeOK /\ HasMessage /\ (rphase = "header" => wanted = 2)
  OBVIOUS
<1> HIDE DEF square
<1>3. ASSUME NEW m \in Message[writer], Send(m)
      PROVE  TypeInv'
  <2>1. /\ writer' \in Writer
        /\ sent' \in Seq(Message[writer]) /\ Len(sent') = Len(sent) + 1
        /\ Len(sent') <= MaxSent[writer]
    BY <1>2, <1>3, MapiAssumption DEF MapiTypeOK, Send
  <2>2. finished' \in 0..Len(sent')
    BY <1>2, <1>3, <2>1 DEF MapiTypeOK, Send
  <2>3. /\ UNCHANGED <<writer, block, wire, receiver>>
        /\ i' = 0 /\ sphase' = "header" /\ sent' # <<>>
    BY <1>2, <1>3, <2>1 DEF MapiTypeOK, Send
  <2> QED
    BY <1>2, <2>1, <2>2, <2>3 DEF MapiTypeOK, receiver
<1>4. CASE SendHeader
  <2>1. block' \in [chunk : Seq(Byte), is_last : BOOLEAN, next : Nat, more : BOOLEAN]
    BY <1>4, BlockTypes DEF SendHeader
  <2>2. Header(block') \in Seq(Byte)
    BY <1>4, HeaderTypes DEF SendHeader
  <2>3. wire' \in Seq(Byte) /\ i' \in Nat
    BY <1>2, <1>4, <2>1, <2>2 DEF SendHeader, MapiTypeOK
  <2>4. UNCHANGED <<writer, sent, finished, receiver>> /\ sphase = "header" /\ sphase' = "chunk"
    BY <1>4 DEF SendHeader
  <2> QED
    BY <1>2, <2>1, <2>3, <2>4 DEF MapiTypeOK, receiver
<1>5. CASE SendChunk
  <2>1. wire' \in Seq(Byte)
    BY <1>2, <1>5 DEF SendChunk, MapiTypeOK
  <2>2. finished' \in 0..Len(sent)
    BY <1>2, <1>5 DEF SendChunk, MapiTypeOK
  <2>3. /\ UNCHANGED <<writer, i, block, sent, receiver>>
        /\ sphase = "chunk" /\ sphase' \in {"header", "idle"}
    BY <1>5 DEF SendChunk
  <2> QED
    BY <1>2, <2>1, <2>2, <2>3 DEF MapiTypeOK, receiver
<1>6. CASE Close
  BY <1>2, <1>6 DEF Close, MapiTypeOK, receiver
<1>7. CASE Interrupted
  <2>1. PICK bytes \in Torn :
           \E k \in 0..Len(bytes) : wire' = wire \o SubSeq(bytes, 1, k)
    BY <1>7 DEF Interrupted, Torn
  <2>2. bytes \in Seq(Byte)
    BY <1>7, TornTypes DEF Interrupted
  <2>3. PICK k \in 0..Len(bytes) : wire' = wire \o SubSeq(bytes, 1, k)
    BY <2>1
  <2>4. wire' \in Seq(Byte)
    <3>1. SubSeq(bytes, 1, k) \in Seq(Byte)
      BY <2>2
    <3> QED
      BY <1>2, <2>3, <3>1 DEF MapiTypeOK
  <2>5. sphase' = "gone" /\ UNCHANGED <<writer, i, block, sent, finished, receiver>>
    BY <1>7 DEF Interrupted
  <2> QED
    BY <1>2, <2>4, <2>5 DEF MapiTypeOK, receiver
<1>8. CASE Recv
  <2>1. PICK k \in 1..(wanted - Len(buf)) :
           /\ k <= Len(wire)
           /\ buf' = buf \o SubSeq(wire, 1, k)
           /\ wire' = SubSeq(wire, k + 1, Len(wire))
    BY <1>8 DEF Recv
  <2>2. /\ wire \in Seq(Byte) /\ buf \in Seq(Byte)
        /\ wanted \in Nat /\ Len(buf) <= wanted
    BY <1>1, <1>2 DEF MapiTypeOK, square
  <2>3. SubSeq(wire, 1, k) \in Seq(Byte) /\ Len(SubSeq(wire, 1, k)) = k
    BY <2>1, <2>2, Slice
  <2>4. buf' \in Seq(Byte) /\ Len(buf') <= wanted
    BY <2>1, <2>2, <2>3
  <2>5. wire' \in Seq(Byte)
    BY <2>1, <2>2, Slice
  <2>6. UNCHANGED <<sender, rphase, wanted, is_last, parts, received>>
    BY <1>8 DEF Recv
  <2> QED
    BY <1>2, <2>4, <2>5, <2>6 DEF MapiTypeOK, sender
<1>9. CASE RecvEnd
  <2>1. /\ UNCHANGED <<sender, wanted, buf, is_last, parts, received>>
        /\ rphase' \in {"none", "eof", "reset"}
    BY <1>9 DEF RecvEnd
  <2>2. wire' \in Seq(Byte)
    <3>1. wire' = wire \/ wire' = <<>>
      BY <1>9 DEF RecvEnd
    <3>2. wire \in Seq(Byte) /\ <<>> \in Seq(Byte)
      BY <1>2 DEF MapiTypeOK
    <3> QED
      BY <3>1, <3>2
  <2> QED
    BY <1>2, <2>1, <2>2 DEF MapiTypeOK, sender
<1>10. CASE HeaderDone
  <2>1. buf \in Seq(Byte) /\ wanted \in 0..square /\ Len(buf) = wanted
    BY <1>2, <1>10 DEF MapiTypeOK, HeaderDone, square
  <2>2. wanted' \in 0..square
    <3>1. PICK n \in Nat : n < square /\ wanted' = n \div 2
      BY <1>2, <1>10, <2>1, UnpackBound DEF HeaderDone, square
    <3> QED
      BY <1>1, <3>1
  <2>3. is_last' \in BOOLEAN
    BY <1>10 DEF HeaderDone
  <2>4. /\ UNCHANGED <<sender, wire, parts, received>>
        /\ rphase' = "body" /\ buf' = <<>>
    BY <1>10 DEF HeaderDone
  <2> QED
    BY <1>1, <1>2, <2>2, <2>3, <2>4 DEF MapiTypeOK, sender, square
<1>11. CASE BodyDone
  <2>1. parts \o buf \in Seq(Byte)
    BY <1>2 DEF MapiTypeOK
  <2>2. parts' \in Seq(Byte) /\ received' \in Seq(Seq(Byte))
    <3> DEFINE whole == parts \o buf
               Bytes == Seq(Byte)
    <3>1. \/ parts' = <<>> /\ received' = Append(received, whole)
          \/ parts' = whole /\ received' = received
      BY <1>11 DEF BodyDone
    <3>2. whole \in Bytes /\ <<>> \in Bytes /\ received \in Seq(Bytes)
      BY <1>2, <2>1 DEF MapiTypeOK
    <3> HIDE DEF whole, Bytes
    <3>3. parts' \in Bytes /\ received' \in Seq(Bytes)
      BY <3>1, <3>2
    <3> QED
      BY <3>3 DEF Bytes
  <2>3. /\ UNCHANGED <<sender, wire, is_last>>
        /\ rphase' = "header" /\ wanted' = 2 /\ buf' = <<>>
    BY <1>11 DEF BodyDone
  <2> QED
    BY <1>1, <1>2, <2>2, <2>3 DEF MapiTypeOK, sender, square
<1>12. CASE UNCHANGED vars
  BY <1>2, <1>12 DEF MapiTypeOK, vars, sender, receiver
<1> QED
  BY <1>3, <1>4, <1>5, <1>6, <1>7, <1>8, <1>9, <1>10, <1>11, <1>12
     DEF Next, ReceiverStep, Terminated

LEMMA TypeInit == Init => TypeInv
<1> SUFFICES ASSUME Init
             PROVE  TypeInv
  OBVIOUS
<1>1. Radix * Radix \in Nat /\ 2 <= Radix * Radix
  BY MapiAssumption DEF Fits
<1>2. writer \in Writer /\ MaxSent[writer] \in Nat
  BY MapiAssumption DEF Init
<1>3. /\ wire \in Seq(Byte) /\ buf \in Seq(Byte) /\ parts \in Seq(Byte)
      /\ sent \in Seq(Message[writer]) /\ received \in Seq(Seq(Byte))
      /\ Len(sent) = 0 /\ Len(buf) = 0
  BY DEF Init
<1>4. block \in [chunk : Seq(Byte), is_last : BOOLEAN, next : Nat, more : BOOLEAN]
  BY DEF Init, NoBlock
<1> DEFINE square == Radix * Radix
<1>5. wanted \in 0..square
  <2>1. square \in Nat /\ 2 <= square /\ wanted = 2
    BY <1>1 DEF Init
  <2> HIDE DEF square
  <2> QED
    BY <2>1
<1> QED
  BY <1>2, <1>3, <1>4, <1>5 DEF Init, TypeInv, MapiTypeOK, HasMessage

\* Whatever the messages and the sizes of a block and a byte are, the state
\* of send and of receive_binary has its types: in particular every header
\* consists of two bytes, and recv is never asked for more than is wanted.
THEOREM MapiTypeCorrect == Spec => []MapiTypeOK
<1>1. TypeInv => MapiTypeOK
  BY DEF TypeInv
<1> QED
  BY TypeInit, TypeStep, <1>1, PTL DEF Spec

-----------------------------------------------------------------------------
(* Pieces *)

\* What is known of a piece in the log.
LEMMA PieceFacts ==
    ASSUME NEW log, NEW pieces, Written(log, pieces), NEW j \in 1..Len(pieces)
    PROVE  /\ pieces[j] \in Piece
           /\ Placed(pieces, j)
           /\ Cut(pieces[j])
           /\ Carried(log, pieces[j])
           /\ Complete(log, pieces, j)
           /\ Size(pieces[j]) \in Nat
           /\ PieceEnd(pieces[j]) \in Nat
<1>1. /\ pieces[j] \in Piece
      /\ Placed(pieces, j)
      /\ Cut(pieces[j])
      /\ Carried(log, pieces[j])
      /\ Complete(log, pieces, j)
  BY DEF Written
<1> QED
  BY <1>1 DEF Piece, Cut, Size, PieceEnd

\* Where a piece, or the next one to come, begins.
LEMMA PlaceFacts ==
    ASSUME NEW log, NEW pieces, Written(log, pieces), NEW j \in 1..(Len(pieces) + 1)
    PROVE  /\ AtOf(pieces, j) \in Nat
           /\ MsgOf(pieces, j) \in Nat \ {0}
           /\ FromOf(pieces, j) \in Nat
<1>1. CASE j = 1
  BY <1>1 DEF AtOf, MsgOf, FromOf
<1>2. CASE j # 1
  <2>1. j - 1 \in 1..Len(pieces)
    BY <1>2 DEF Written
  <2>2. pieces[j - 1] \in Piece /\ PieceEnd(pieces[j - 1]) \in Nat
    BY <2>1, PieceFacts
  <2> QED
    BY <1>2, <2>2 DEF AtOf, MsgOf, FromOf, Piece
<1> QED
  BY <1>1, <1>2

\* The places of the pieces do not change when there are more of them.
LEMMA PlacesKept ==
    ASSUME NEW pieces, NEW more, NEW j \in 1..(Len(pieces) + 1), Len(pieces) \in Nat,
           \A k \in 1..Len(pieces) : more[k] = pieces[k]
    PROVE  /\ AtOf(more, j) = AtOf(pieces, j)
           /\ MsgOf(more, j) = MsgOf(pieces, j)
           /\ FromOf(more, j) = FromOf(pieces, j)
<1>1. j = 1 \/ j - 1 \in 1..Len(pieces)
  OBVIOUS
<1> QED
  BY <1>1 DEF AtOf, MsgOf, FromOf

\* A header in the log says how long its piece is and whether it is the last.
LEMMA HeaderFacts ==
    ASSUME NEW p \in Piece, Size(p) \in Nat, Fits(Size(p))
    PROVE  /\ HeaderOf(p) \in Seq(Byte)
           /\ Len(HeaderOf(p)) = 2
           /\ Unpack(HeaderOf(p)) \div 2 = Size(p)
           /\ Unpack(HeaderOf(p)) % 2 = 1 <=> p.last
<1>1. p.last \in BOOLEAN /\ HeaderOf(p) = Pack(Coded(Size(p), p.last))
  BY DEF Piece, HeaderOf, Coded
<1> QED
  BY <1>1, CodedFits, PackUnpack

-----------------------------------------------------------------------------
(* The writer adds to the log *)

\* Block b is the front of what is left of the message from i on.
FrontOfRest(b) ==
    /\ i + Len(b.chunk) <= Len(msg)
    /\ \A q \in 1..Len(b.chunk) : b.chunk[q] = msg[i + q]
    /\ IF b.is_last THEN i + Len(b.chunk) = Len(msg) ELSE Len(b.chunk) > 0
    /\ b.more <=> ~b.is_last
    /\ b.more => b.next = i + Len(b.chunk)
    /\ writer = "framing" => b.is_last

LEMMA BlockCut ==
    ASSUME ShortMessages, TypeInv, sphase = "header", NEW b \in Block,
           i <= Len(msg), writer = "framing" => i = 0
    PROVE  FrontOfRest(b)
<1>1. /\ msg \in Seq(Byte) /\ Len(msg) \in Nat /\ i \in Nat
      /\ msg \in Message[writer] /\ writer \in Writer
  BY CurrentMessage DEF TypeInv, MapiTypeOK
<1>2. ASSUME NEW n \in Nat, i <= n, n <= Len(msg),
             b.chunk = SubSeq(msg, i + 1, n),
             IF b.is_last THEN n = Len(msg) ELSE i < n,
             b.more <=> ~b.is_last,
             b.more => b.next = n,
             writer = "framing" => b.is_last
      PROVE  FrontOfRest(b)
  <2> DEFINE slice == SubSeq(msg, i + 1, n)
  <2>1. /\ Len(slice) = IF i <= n THEN n - i ELSE 0
        /\ \A q \in 1..(n - i) : slice[q] = msg[i + q]
    <3>1. msg \in Seq(Byte) /\ i \in Nat /\ n \in Nat /\ n <= Len(msg)
      BY <1>1, <1>2
    <3> QED
      BY <3>1, Slice
  <2> HIDE DEF slice
  <2>2. b.chunk = slice
    BY <1>2 DEF slice
  <2>3. Len(b.chunk) = n - i /\ \A q \in 1..(n - i) : b.chunk[q] = msg[i + q]
    BY <1>1, <1>2, <2>1, <2>2
  <2> QED
    BY <1>1, <1>2, <2>3 DEF FrontOfRest
<1>3. CASE writer = "foreign"
  <2>1. CASE \E n \in (i + 1)..Len(msg) :
                b = [chunk |-> SubSeq(msg, i + 1, n), is_last |-> FALSE,
                     next |-> n, more |-> TRUE]
    <3>1. PICK n \in (i + 1)..Len(msg) :
                b = [chunk |-> SubSeq(msg, i + 1, n), is_last |-> FALSE,
                     next |-> n, more |-> TRUE]
      BY <2>1
    <3>2. n \in Nat /\ i < n /\ i <= n /\ n <= Len(msg)
      BY <1>1
    <3>3. b.chunk = SubSeq(msg, i + 1, n)
      BY <3>1
    <3>4. ~b.is_last /\ b.more /\ b.next = n
      BY <3>1
    <3> QED
      BY <1>2, <1>3, <3>2, <3>3, <3>4
  <2>2. CASE b = [chunk |-> SubSeq(msg, i + 1, Len(msg)), is_last |-> TRUE,
                  next |-> Len(msg), more |-> FALSE]
    <3>1. b.chunk = SubSeq(msg, i + 1, Len(msg)) /\ b.is_last /\ ~b.more
      BY <2>2
    <3> QED
      BY <1>1, <1>2, <1>3, <3>1
  <2>3. b \in ForeignBlock
    BY <1>3 DEF Block
  <2> QED
    BY <2>1, <2>2, <2>3 DEF ForeignBlock
<1>4. CASE writer # "foreign"
  <2>1. writer = "framing" /\ b = MapiBlock /\ i = 0
    BY <1>1, <1>4, MapiAssumption DEF Block
  <2>2. CHUNK_SIZE \in Nat \ {0} /\ Len(msg) <= CHUNK_SIZE
    BY <1>1, <2>1, MapiAssumption DEF ShortMessages
  <2>3. start = 0 /\ end = CHUNK_SIZE
    BY <2>1, <2>2 DEF start, end
  <2>4. (IF end < Len(msg) THEN end ELSE Len(msg)) = Len(msg)
    BY <1>1, <2>2, <2>3
  <2>5. b.chunk = SubSeq(msg, i + 1, Len(msg))
    BY <2>1, <2>3, <2>4 DEF MapiBlock
  <2>6. b.is_last
    <3>1. b.is_last = (end >= Len(msg))
      BY <2>1 DEF MapiBlock
    <3> QED
      BY <1>1, <2>2, <2>3, <3>1
  <2>7. ~b.more
    <3>1. (i + CHUNK_SIZE < Len(msg)) = FALSE
      BY <1>1, <2>1, <2>2
    <3>2. b.more = (i + CHUNK_SIZE < Len(msg))
      BY <2>1 DEF MapiBlock
    <3> QED
      BY <3>1, <3>2
  <2> QED
    BY <1>1, <1>2, <2>1, <2>5, <2>6, <2>7
<1> QED
  BY <1>3, <1>4

\* A message that was sent stays what it is.
SentKept == \A k \in 1..Len(sent) : k <= Len(sent') /\ sent'[k] = sent[k]

LEMMA PieceKept ==
    ASSUME SentKept, Len(sent) \in Nat, NEW log, NEW p \in Piece, Cut(p), Carried(log, p)
    PROVE  Cut(p)' /\ Carried(log, p)'
<1>1. p.msg \in 1..Len(sent)
  BY DEF Piece, Cut
<1>2. p.msg <= Len(sent') /\ sent'[p.msg] = sent[p.msg]
  BY <1>1 DEF SentKept
<1> QED
  BY <1>2 DEF Cut, Carried

\* Written is about what was sent and how much of that was finished.
LEMMA WrittenKept ==
    ASSUME SentKept, Len(sent) \in Nat, NEW log, NEW pieces, Written(log, pieces),
           \A j \in 1..Len(pieces) :
              pieces[j].msg <= finished' =>
                 pieces[j].msg <= finished \/ PieceEnd(pieces[j]) <= Len(log),
           finished' < MsgOf(pieces, Len(pieces) + 1)
    PROVE  Written(log, pieces)'
<1>1. ASSUME NEW j \in 1..Len(pieces)
      PROVE  /\ Placed(pieces, j)
             /\ Cut(pieces[j])'
             /\ Carried(log, pieces[j])'
             /\ Complete(log, pieces, j)'
  <2>1. /\ pieces[j] \in Piece
        /\ Placed(pieces, j)
        /\ Cut(pieces[j])
        /\ Carried(log, pieces[j])
        /\ Complete(log, pieces, j)
    BY PieceFacts
  <2>2. Cut(pieces[j])' /\ Carried(log, pieces[j])'
    BY <2>1, PieceKept
  <2>3. Complete(log, pieces, j)'
    BY <2>1 DEF Complete
  <2> QED
    BY <2>1, <2>2, <2>3
<1>2. /\ log \in Seq(Byte)
      /\ pieces \in Seq(Piece)
      /\ Len(log) <= AtOf(pieces, Len(pieces) + 1)
  BY DEF Written
<1> QED
  BY <1>1, <1>2 DEF Written

\* A complete piece is carried by every longer log.
LEMMA CarriedLonger ==
    ASSUME NEW log, NEW log2, Len(log) \in Nat, NEW p \in Piece, Size(p) \in Nat,
           \A q \in 1..Len(log) : log2[q] = log[q],
           PieceEnd(p) <= Len(log), Carried(log, p)
    PROVE  Carried(log2, p)
<1> DEFINE len == Len(log)
           size == Size(p)
           at == p.at
<1>1. at \in Nat /\ size \in Nat /\ len \in Nat /\ at + 2 + size <= len
  BY DEF PieceEnd, Piece
<1> HIDE DEF len, size, at
<1>2. ASSUME NEW q \in 1..2
      PROVE  log2[at + q] = HeaderOf(p)[q]
  <2>1. at + q \in 1..len /\ at + q <= len
    BY <1>1
  <2> QED
    BY <2>1 DEF Carried, at, len
<1>3. ASSUME NEW q \in 1..size
      PROVE  log2[at + 2 + q] = sent[p.msg][p.from + q]
  <2>1. at + 2 + q \in 1..len /\ at + 2 + q <= len
    BY <1>1
  <2> QED
    BY <2>1 DEF Carried, at, len, size
<1> QED
  BY <1>2, <1>3 DEF Carried, at, size

\* The piece that a block is.
PieceOf(b, at) ==
    [msg |-> Len(sent), from |-> i, to |-> i + Len(b.chunk), last |-> b.is_last, at |-> at]

\* The header of a block, or its first byte, begins a new piece.
LEMMA NewPiece ==
    ASSUME ShortMessages, TypeInv, sphase = "header", NEW b \in Block,
           NEW log, NEW pieces, Written(log, pieces), BeforeHeader(log, pieces),
           NEW h \in Seq(Byte), Len(h) \in 1..2, \A q \in 1..Len(h) : h[q] = Header(b)[q]
    PROVE  Written(log \o h, Append(pieces, PieceOf(b, Len(log))))
<1> DEFINE n == Len(pieces)
           p == PieceOf(b, Len(log))
           log2 == log \o h
           pieces2 == Append(pieces, p)
<1>1. /\ log \in Seq(Byte) /\ Len(log) \in Nat
      /\ pieces \in Seq(Piece) /\ n \in Nat
      /\ finished < MsgOf(pieces, n + 1)
  BY DEF Written
<1>2. /\ Len(log) = AtOf(pieces, n + 1)
      /\ MsgOf(pieces, n + 1) = Len(sent)
      /\ FromOf(pieces, n + 1) = i
      /\ finished = Len(sent) - 1
      /\ i <= Len(msg)
  BY DEF BeforeHeader, BetweenBlocks
<1>3. /\ Len(sent) \in Nat \ {0} /\ msg = sent[Len(sent)]
      /\ msg \in Seq(Byte) /\ Len(msg) \in Nat /\ i \in Nat
  BY CurrentMessage DEF msg, TypeInv, MapiTypeOK
<1>4. /\ b.chunk \in Seq(Byte) /\ Len(b.chunk) \in Nat
      /\ b.is_last \in BOOLEAN
      /\ Fits(Len(b.chunk))
  BY BlockTypes
<1>5. FrontOfRest(b)
  BY BlockCut DEF BeforeHeader
<1>6. /\ p.msg = Len(sent) /\ p.from = i /\ p.to = i + Len(b.chunk)
      /\ p.last = b.is_last /\ p.at = Len(log)
      /\ p \in Piece
  BY <1>1, <1>3, <1>4 DEF PieceOf, Piece
<1> HIDE DEF p
<1>7. Size(p) = Len(b.chunk) /\ PieceEnd(p) = Len(log) + 2 + Len(b.chunk)
  <2>1. i \in Nat /\ Len(b.chunk) \in Nat /\ Len(log) \in Nat
    BY <1>1, <1>3, <1>4
  <2>2. p.from = i /\ p.to = i + Len(b.chunk) /\ p.at = Len(log)
    BY <1>6
  <2> QED
    BY <2>1, <2>2 DEF Size, PieceEnd
<1> DEFINE lenLog == Len(log)
           lenH == Len(h)
           lenChunk == Len(b.chunk)
<1>sizes. /\ lenLog \in Nat /\ lenH \in 1..2 /\ lenChunk \in Nat
      /\ Size(p) = lenChunk /\ PieceEnd(p) = lenLog + 2 + lenChunk /\ p.at = lenLog
  BY <1>1, <1>4, <1>6, <1>7
<1>8. /\ log2 \in Seq(Byte) /\ Len(log2) = Len(log) + Len(h)
      /\ \A q \in 1..Len(log) : log2[q] = log[q]
      /\ \A q \in 1..Len(h) : log2[Len(log) + q] = h[q]
  BY <1>1
<1>9. /\ pieces2 \in Seq(Piece) /\ Len(pieces2) = n + 1
      /\ \A j \in 1..n : pieces2[j] = pieces[j]
      /\ pieces2[n + 1] = p
  BY <1>1, <1>6
<1> HIDE DEF log2, pieces2, n
<1>length. Len(log2) = lenLog + lenH
  BY <1>8
<1> HIDE DEF lenLog, lenH, lenChunk
<1>10. ASSUME NEW j \in 1..n
       PROVE  /\ Placed(pieces2, j)
              /\ Cut(pieces2[j])
              /\ Carried(log2, pieces2[j])
              /\ Complete(log2, pieces2, j)
  <2>1. /\ pieces[j] \in Piece
        /\ Placed(pieces, j)
        /\ Cut(pieces[j])
        /\ Carried(log, pieces[j])
        /\ PieceEnd(pieces[j]) \in Nat
        /\ Size(pieces[j]) \in Nat
    BY PieceFacts DEF n
  <2>2. PieceEnd(pieces[j]) <= Len(log)
    <3>1. CASE j < n
      BY <3>1, PieceFacts DEF Complete, n
    <3>2. CASE j = n
      BY <1>1, <1>2, <3>2 DEF AtOf
    <3> QED
      BY <1>1, <3>1, <3>2
  <2>3. Placed(pieces2, j)
    <3>1. j \in 1..(Len(pieces) + 1)
      BY <1>1 DEF n
    <3>2. Len(pieces) \in Nat /\ \A k \in 1..Len(pieces) : pieces2[k] = pieces[k]
      BY <1>1, <1>9 DEF n
    <3>3. /\ AtOf(pieces2, j) = AtOf(pieces, j)
          /\ MsgOf(pieces2, j) = MsgOf(pieces, j)
          /\ FromOf(pieces2, j) = FromOf(pieces, j)
      BY <3>1, <3>2, PlacesKept
    <3> QED
      BY <1>9, <2>1, <3>3 DEF Placed
  <2>4. Carried(log2, pieces[j])
    BY <1>1, <1>8, <2>1, <2>2, CarriedLonger
  <2>5. Complete(log2, pieces2, j)
    BY <1>1, <1>8, <1>9, <2>1, <2>2 DEF Complete
  <2>6. pieces2[j] = pieces[j]
    BY <1>9
  <2> QED
    BY <2>1, <2>3, <2>4, <2>5, <2>6
<1>11. /\ Placed(pieces2, n + 1)
       /\ Cut(p)
       /\ Carried(log2, p)
       /\ Complete(log2, pieces2, n + 1)
  <2>1. n + 1 \in 1..(Len(pieces) + 1)
    BY <1>1 DEF n
  <2>2. Placed(pieces2, n + 1)
    BY <1>1, <1>2, <1>6, <1>9, <2>1, PlacesKept DEF Placed, n
  <2>3. Cut(p)
    BY <1>3, <1>4, <1>5, <1>6, <1>7 DEF Cut, FrontOfRest
  <2>4. Carried(log2, p)
    <3>1. HeaderOf(p) = Header(b)
      BY <1>6, <1>7 DEF HeaderOf, Header
    <3>2. ASSUME NEW q \in 1..2, p.at + q <= Len(log2)
          PROVE  log2[p.at + q] = HeaderOf(p)[q]
      <4>1. q \in 1..Len(h) /\ p.at = Len(log)
        BY <1>1, <1>6, <1>8, <3>2
      <4> QED
        BY <1>8, <3>1, <4>1
    <3>3. ASSUME NEW q \in 1..Size(p)
          PROVE  ~(p.at + 2 + q <= Len(log2))
      BY <1>sizes, <1>length
    <3> QED
      BY <3>2, <3>3 DEF Carried
  <2>5. Complete(log2, pieces2, n + 1)
    BY <1>2, <1>3, <1>6, <1>9 DEF Complete
  <2> QED
    BY <2>2, <2>3, <2>4, <2>5
<1>12. /\ Len(log2) <= AtOf(pieces2, n + 1 + 1)
       /\ finished < MsgOf(pieces2, n + 1 + 1)
  <2>1. AtOf(pieces2, n + 1 + 1) = PieceEnd(p)
    BY <1>1, <1>9 DEF AtOf
  <2>2. MsgOf(pieces2, n + 1 + 1) = IF p.last THEN p.msg + 1 ELSE p.msg
    BY <1>1, <1>9 DEF MsgOf
  <2>3. Len(log2) <= PieceEnd(p)
    BY <1>sizes, <1>length
  <2>4. finished < (IF p.last THEN p.msg + 1 ELSE p.msg)
    BY <1>2, <1>3, <1>6
  <2> QED
    BY <2>1, <2>2, <2>3, <2>4
<1>13. ASSUME NEW j \in 1..Len(pieces2)
       PROVE  /\ Placed(pieces2, j)
              /\ Cut(pieces2[j])
              /\ Carried(log2, pieces2[j])
              /\ Complete(log2, pieces2, j)
  BY <1>1, <1>9, <1>10, <1>11
<1>14. Written(log2, pieces2)
  BY <1>8, <1>9, <1>12, <1>13 DEF Written
<1> QED
  BY <1>14 DEF log2, pieces2, p

\* The data of a block, or the front of it, goes on with the last piece.
LEMMA MoreOfPiece ==
    ASSUME TypeInv, sphase = "chunk",
           NEW log, NEW pieces, Written(log, pieces), BeforeChunk(log, pieces),
           NEW h \in Seq(Byte), Len(h) <= Len(block.chunk),
           \A q \in 1..Len(h) : h[q] = block.chunk[q]
    PROVE  Written(log \o h, pieces)
<1> DEFINE n == Len(pieces)
           p == pieces[n]
           log2 == log \o h
           lenLog == Len(log)
           lenH == Len(h)
           size == Size(p)
           at == p.at
<1>1. /\ log \in Seq(Byte) /\ lenLog \in Nat /\ lenH \in Nat
      /\ pieces \in Seq(Piece) /\ n \in Nat \ {0}
  BY DEF Written, BeforeChunk
<1>2. /\ log2 \in Seq(Byte) /\ Len(log2) = lenLog + lenH
      /\ \A q \in 1..lenLog : log2[q] = log[q]
      /\ \A q \in 1..lenH : log2[lenLog + q] = h[q]
  BY <1>1
<1> HIDE DEF log2
<1>3. /\ p \in Piece
      /\ Placed(pieces, n) /\ Cut(p) /\ Carried(log, p)
      /\ size \in Nat
      /\ at \in Nat
  BY <1>1, PieceFacts DEF Piece
<1>4. /\ lenLog = at + 2
      /\ Len(block.chunk) = size
      /\ \A q \in 1..size : block.chunk[q] = sent[p.msg][p.from + q]
      /\ p.msg = Len(sent) /\ finished = Len(sent) - 1
  BY DEF BeforeChunk, msg
<1>5. Len(sent) \in Nat
  BY DEF TypeInv, MapiTypeOK
<1>6. PieceEnd(p) = at + 2 + size
  BY DEF PieceEnd
<1> HIDE DEF n, p, lenLog, lenH, size, at
<1>7. lenH <= size
  BY <1>4 DEF lenH
<1>8. ASSUME NEW j \in 1..n
      PROVE  /\ Placed(pieces, j)
             /\ Cut(pieces[j])
             /\ Carried(log2, pieces[j])
             /\ Complete(log2, pieces, j)
  <2>1. CASE j < n
    <3>1. /\ pieces[j] \in Piece
          /\ Placed(pieces, j)
          /\ Cut(pieces[j])
          /\ Carried(log, pieces[j])
          /\ PieceEnd(pieces[j]) \in Nat
          /\ Size(pieces[j]) \in Nat
          /\ Complete(log, pieces, j)
      BY PieceFacts DEF n
    <3>2. PieceEnd(pieces[j]) <= lenLog
      BY <2>1, <3>1 DEF Complete, n, lenLog
    <3>3. Carried(log2, pieces[j])
      BY <1>1, <1>2, <3>1, <3>2, CarriedLonger DEF lenLog
    <3>4. PieceEnd(pieces[j]) <= Len(log2)
      BY <1>1, <1>2, <3>1, <3>2
    <3> QED
      BY <3>1, <3>3, <3>4 DEF Complete
  <2>2. CASE j = n
    <3>1. ASSUME NEW q \in 1..2
          PROVE  log2[at + q] = HeaderOf(p)[q]
      <4>1. at + q \in 1..lenLog /\ at + q <= lenLog
        BY <1>3, <1>4
      <4> QED
        BY <1>2, <1>3, <4>1 DEF Carried, at, lenLog
    <3>2. ASSUME NEW q \in 1..size, at + 2 + q <= Len(log2)
          PROVE  log2[at + 2 + q] = sent[p.msg][p.from + q]
      <4>1. q \in 1..lenH /\ at + 2 + q = lenLog + q
        BY <1>1, <1>2, <1>3, <1>4, <3>2
      <4> QED
        BY <1>2, <1>4, <4>1 DEF lenH
    <3>3. Carried(log2, p)
      BY <3>1, <3>2 DEF Carried, at, size
    <3>4. ~(p.msg <= finished)
      BY <1>4, <1>5
    <3>5. Complete(log2, pieces, n)
      BY <1>1, <3>4 DEF Complete, n, p
    <3> QED
      BY <1>3, <2>2, <3>3, <3>5 DEF p
  <2> QED
    BY <1>1, <2>1, <2>2
<1>9. Len(log2) <= AtOf(pieces, n + 1)
  <2>1. AtOf(pieces, n + 1) = at + 2 + size
    BY <1>1, <1>6 DEF AtOf, p
  <2> QED
    BY <1>1, <1>2, <1>3, <1>4, <1>7, <2>1
<1>10. finished < MsgOf(pieces, n + 1)
  BY DEF Written, n
<1> QED
  BY <1>1, <1>2, <1>8, <1>9, <1>10 DEF Written, log2, n

\* What a writer's step does to log and pieces.
Longer(log, log2, pieces, pieces2) ==
    /\ \E more \in Seq(Byte) : log2 = log \o more /\ wire' = wire \o more
    /\ Len(pieces) <= Len(pieces2)
    /\ \A j \in 1..Len(pieces) : pieces2[j] = pieces[j]

Goes(log, pieces) ==
    \E log2 \in Seq(Byte), pieces2 \in Seq(Piece) :
        /\ Written(log2, pieces2)'
        /\ Writing(log2, pieces2)'
        /\ Longer(log, log2, pieces, pieces2)

LEMMA SendGoes ==
    ASSUME TypeInv, NEW m \in Message[writer], Send(m),
           NEW log, NEW pieces, Written(log, pieces), Writing(log, pieces)
    PROVE  SentKept /\ Goes(log, pieces)
<1>1. /\ log \in Seq(Byte) /\ pieces \in Seq(Piece)
      /\ Idle(log, pieces)
  BY DEF Written, Writing, Send
<1>2. sent \in Seq(Message[writer]) /\ Len(sent) \in Nat /\ wire \in Seq(Byte)
  BY DEF TypeInv, MapiTypeOK
<1>3. /\ sent' = Append(sent, m) /\ i' = 0 /\ sphase' = "header"
      /\ finished' = finished /\ wire' = wire
  BY DEF Send
<1>4. Len(sent') = Len(sent) + 1 /\ \A k \in 1..Len(sent) : sent'[k] = sent[k]
  BY <1>2, <1>3
<1>5. SentKept
  BY <1>2, <1>4 DEF SentKept
<1>6. Written(log, pieces)'
  BY <1>2, <1>3, <1>5, WrittenKept DEF Written
<1>7. Writing(log, pieces)'
  <2>1. msg' = m
    BY <1>2, <1>3 DEF msg
  <2>2. writer' = writer /\ m \in Seq(Byte)
    BY MapiAssumption DEF Send, TypeInv, MapiTypeOK
  <2>3. 0 <= Len(m)
    BY <2>2
  <2>4. finished = Len(sent) /\ MsgOf(pieces, Len(pieces) + 1) = Len(sent) + 1
    BY <1>1 DEF Idle
  <2>5. BeforeHeader(log, pieces)'
    BY <1>1, <1>2, <1>3, <1>4, <2>1, <2>3, <2>4 DEF Idle, BeforeHeader, BetweenBlocks
  <2> QED
    BY <1>3, <2>5 DEF Writing
<1>8. Longer(log, log, pieces, pieces)
  <2> DEFINE none == <<>>
  <2>1. log = log \o none /\ wire' = wire \o none /\ none \in Seq(Byte)
    BY <1>1, <1>2, <1>3
  <2> HIDE DEF none
  <2>2. Len(pieces) \in Nat
    BY <1>1
  <2> QED
    BY <2>1, <2>2, SMTT(20) DEF Longer
<1> QED
  BY <1>1, <1>5, <1>6, <1>7, <1>8 DEF Goes

LEMMA SendHeaderGoes ==
    ASSUME ShortMessages, TypeInv, SendHeader,
           NEW log, NEW pieces, Written(log, pieces), Writing(log, pieces)
    PROVE  Goes(log, pieces)
<1> PICK b \in Block : b = block'
  BY DEF SendHeader
<1> PICK p : p = PieceOf(b, Len(log))
  OBVIOUS
<1> DEFINE h == Header(b)
           n == Len(pieces)
           log2 == log \o h
           pieces2 == Append(pieces, p)
<1>1. /\ log \in Seq(Byte) /\ pieces \in Seq(Piece)
      /\ BeforeHeader(log, pieces)
      /\ sphase = "header"
  BY DEF Written, Writing, SendHeader
<1>2. h \in Seq(Byte) /\ Len(h) = 2
  BY <1>1, HeaderTypes
<1>3. /\ wire' = wire \o h /\ sphase' = "chunk"
      /\ i' = b.next /\ block' = b
      /\ UNCHANGED <<writer, sent, finished>>
  BY DEF SendHeader
<1>4. Written(log2, pieces2)
  BY <1>1, <1>2, NewPiece
<1>5. Written(log2, pieces2)'
  <2>1. SentKept /\ Len(sent) \in Nat
    BY <1>3 DEF SentKept, TypeInv, MapiTypeOK
  <2>2. finished' = finished /\ finished < MsgOf(pieces2, Len(pieces2) + 1)
    BY <1>3, <1>4 DEF Written
  <2> HIDE DEF log2, pieces2
  <2> QED
    BY <1>4, <2>1, <2>2, WrittenKept
<1>6. FrontOfRest(b)
  BY <1>1, BlockCut DEF BeforeHeader
<1>7. /\ i \in Nat /\ Len(b.chunk) \in Nat /\ Len(log) \in Nat /\ n \in Nat
      /\ b.is_last \in BOOLEAN
  BY <1>1, BlockTypes DEF TypeInv, MapiTypeOK
<1>8. /\ p.msg = Len(sent) /\ p.from = i /\ p.to = i + Len(b.chunk)
      /\ p.last = b.is_last /\ p.at = Len(log)
  BY DEF PieceOf
<1>9. p \in Piece
  BY <1>1, <1>7, CurrentMessage DEF PieceOf, Piece
<1>10. Size(p) = Len(b.chunk)
  BY <1>7, <1>8 DEF Size
<1>11. /\ pieces2 \in Seq(Piece) /\ Len(pieces2) = n + 1 /\ pieces2[n + 1] = p
       /\ \A j \in 1..n : pieces2[j] = pieces[j]
  BY <1>1, <1>9
<1> HIDE DEF h
<1>12. log2 \in Seq(Byte) /\ Len(log2) = Len(log) + 2
  <2>1. log \in Seq(Byte) /\ h \in Seq(Byte)
    BY <1>1, <1>2
  <2>2. log2 \in Seq(Byte) /\ Len(log2) = Len(log) + Len(h)
    BY <2>1
  <2> QED
    BY <1>2, <2>2
<1> HIDE DEF log2, pieces2
<1>13. BeforeChunk(log2, pieces2)'
  <2>1. pieces2 # <<>> /\ pieces2[Len(pieces2)] = p
    BY <1>7, <1>11
  <2>2. msg' = msg
    BY <1>3 DEF msg
  <2>3. Len(log2) = p.at + 2 /\ p.msg = Len(sent)
    BY <1>8, <1>12
  <2>4. \A q \in 1..Size(p) : b.chunk[q] = msg[p.from + q]
    BY <1>6, <1>8, <1>10 DEF FrontOfRest
  <2>5. (b.more <=> ~p.last) /\ (b.more => b.next = p.to)
    BY <1>6, <1>8 DEF FrontOfRest
  <2>6. writer = "framing" => ~b.more
    BY <1>6 DEF FrontOfRest
  <2>7. finished = Len(sent) - 1
    BY <1>1 DEF BeforeHeader
  <2> QED
    BY <1>3, <1>10, <2>1, <2>2, <2>3, <2>4, <2>5, <2>6, <2>7 DEF BeforeChunk
<1>14. Writing(log2, pieces2)'
  BY <1>3, <1>13 DEF Writing
<1>15. Longer(log, log2, pieces, pieces2)
  <2>1. log2 = log \o h /\ wire' = wire \o h /\ h \in Seq(Byte)
    BY <1>2, <1>3 DEF log2
  <2>2. Len(pieces) <= Len(pieces2)
    BY <1>7, <1>11
  <2> QED
    BY <1>11, <2>1, <2>2 DEF Longer
<1> QED
  BY <1>5, <1>11, <1>12, <1>14, <1>15 DEF Goes

LEMMA SendChunkGoes ==
    ASSUME TypeInv, SendChunk,
           NEW log, NEW pieces, Written(log, pieces), Writing(log, pieces)
    PROVE  Goes(log, pieces)
<1> PICK h : h = block.chunk
  OBVIOUS
<1> DEFINE n == Len(pieces)
           p == pieces[n]
           log2 == log \o h
<1>1. /\ log \in Seq(Byte) /\ pieces \in Seq(Piece)
      /\ BeforeChunk(log, pieces)
      /\ sphase = "chunk"
  BY DEF Written, Writing, SendChunk
<1>2. h \in Seq(Byte) /\ n \in Nat \ {0} /\ n \in 1..Len(pieces)
  BY <1>1 DEF TypeInv, MapiTypeOK, BeforeChunk
<1>3. /\ wire' = wire \o h
      /\ UNCHANGED <<writer, i, sent>>
      /\ \/ block.more /\ sphase' = "header" /\ finished' = finished
         \/ ~block.more /\ sphase' = "idle" /\ finished' = Len(sent)
  BY DEF SendChunk
<1>4. Written(log2, pieces)
  BY <1>1, <1>2, MoreOfPiece
<1>5. /\ p \in Piece /\ Placed(pieces, n) /\ Cut(p)
      /\ Size(p) \in Nat
  BY <1>2, <1>4, PieceFacts
<1>6. /\ Len(log) = p.at + 2 /\ p.msg = Len(sent)
      /\ Len(h) = Size(p)
      /\ block.more <=> ~p.last
      /\ block.more => i = p.to
      /\ writer = "framing" => ~block.more
      /\ finished = Len(sent) - 1
  BY <1>1 DEF BeforeChunk
<1>7. log2 \in Seq(Byte) /\ Len(log2) = Len(log) + Len(h)
  BY <1>1, <1>2
<1> HIDE DEF log2
<1>8. Len(log2) = PieceEnd(p)
  BY <1>6, <1>7 DEF PieceEnd
<1>9. /\ AtOf(pieces, n + 1) = PieceEnd(p)
      /\ MsgOf(pieces, n + 1) = IF p.last THEN p.msg + 1 ELSE p.msg
      /\ FromOf(pieces, n + 1) = IF p.last THEN 0 ELSE p.to
  BY <1>2 DEF AtOf, MsgOf, FromOf
<1>10. Len(sent) \in Nat \ {0} /\ SentKept
  BY <1>1, <1>3, CurrentMessage DEF SentKept
<1>11. Written(log2, pieces)'
  <2>1. ASSUME NEW j \in 1..Len(pieces)
        PROVE  PieceEnd(pieces[j]) <= Len(log2)
    <3>1. CASE j = n
      BY <1>2, <1>4, <1>7, <1>8, <3>1, PieceFacts
    <3>2. CASE j # n
      BY <1>2, <1>4, <3>2, PieceFacts DEF Complete
    <3> QED
      BY <3>1, <3>2
  <2>2. finished' < MsgOf(pieces, n + 1)
    BY <1>3, <1>6, <1>9, <1>10
  <2> QED
    BY <1>4, <1>10, <2>1, <2>2, WrittenKept
<1>12. Longer(log, log2, pieces, pieces)
  <2>1. log2 = log \o h /\ wire' = wire \o h /\ h \in Seq(Byte)
    BY <1>2, <1>3 DEF log2
  <2>2. Len(pieces) <= Len(pieces)
    BY <1>2
  <2> HIDE DEF n
  <2> QED
    BY <2>1, <2>2 DEF Longer
<1> HIDE DEF p
<1>13. CASE ~p.last
  <2>1. p.to <= Len(msg)
    BY <1>5, <1>6 DEF Cut, msg
  <2>2. msg' = msg
    BY <1>3 DEF msg
  <2>3. BeforeHeader(log2, pieces)'
    BY <1>3, <1>6, <1>8, <1>9, <1>13, <2>1, <2>2 DEF BeforeHeader, BetweenBlocks
  <2>4. sphase' = "header"
    BY <1>3, <1>6, <1>13
  <2>5. Writing(log2, pieces)'
    BY <2>3, <2>4 DEF Writing
  <2> QED
    BY <1>1, <1>7, <1>11, <1>12, <2>5 DEF Goes
<1>14. CASE p.last
  <2>1. Idle(log2, pieces)'
    BY <1>3, <1>6, <1>8, <1>9, <1>14 DEF Idle, BetweenBlocks
  <2>2. sphase' = "idle"
    BY <1>3, <1>6, <1>14
  <2>3. Writing(log2, pieces)'
    BY <2>1, <2>2 DEF Writing
  <2> QED
    BY <1>1, <1>7, <1>11, <1>12, <2>3 DEF Goes
<1> QED
  BY <1>13, <1>14

LEMMA InterruptedGoes ==
    ASSUME ShortMessages, TypeInv, Interrupted,
           NEW log, NEW pieces, Written(log, pieces), Writing(log, pieces)
    PROVE  Goes(log, pieces)
<1>1. PICK bytes \in Torn : \E k \in 0..Len(bytes) :
         /\ k < Len(bytes) \/ k = 0
         /\ wire' = wire \o SubSeq(bytes, 1, k)
  BY DEF Interrupted, Torn
<1>2. PICK k \in 0..Len(bytes) :
         /\ k < Len(bytes) \/ k = 0
         /\ wire' = wire \o SubSeq(bytes, 1, k)
  BY <1>1
<1> DEFINE h == SubSeq(bytes, 1, k)
           log2 == log \o h
<1>3. sphase \in {"header", "chunk"} /\ sphase' = "gone" /\ UNCHANGED <<sent, finished>>
  BY DEF Interrupted
<1>4. log \in Seq(Byte) /\ pieces \in Seq(Piece) /\ Len(pieces) \in Nat
  BY DEF Written
<1>5. bytes \in Seq(Byte)
  BY <1>3, TornTypes
<1>6. /\ h \in Seq(Byte) /\ Len(h) = k
      /\ \A q \in 1..k : h[q] = bytes[q]
  BY <1>5
<1> HIDE DEF h
<1>7. log2 \in Seq(Byte)
  BY <1>4, <1>6
<1> HIDE DEF log2
<1>8. ASSUME NEW pieces2 \in Seq(Piece), Written(log2, pieces2),
             Len(pieces) <= Len(pieces2), \A j \in 1..Len(pieces) : pieces2[j] = pieces[j]
      PROVE  Goes(log, pieces)
  <2>1. SentKept /\ Len(sent) \in Nat
    BY <1>3 DEF SentKept, TypeInv, MapiTypeOK
  <2>2. finished' = finished /\ finished < MsgOf(pieces2, Len(pieces2) + 1)
    BY <1>3, <1>8 DEF Written
  <2>3. Written(log2, pieces2)'
    BY <1>8, <2>1, <2>2, WrittenKept
  <2>4. Writing(log2, pieces2)'
    BY <1>3 DEF Writing
  <2>5. Longer(log, log2, pieces, pieces2)
    BY <1>2, <1>6, <1>8 DEF Longer, log2, h
  <2> QED
    BY <1>7, <2>3, <2>4, <2>5 DEF Goes
<1>9. CASE sphase = "chunk"
  <2>1. bytes = block.chunk /\ BeforeChunk(log, pieces)
    BY <1>9 DEF Torn, Writing
  <2>2. Written(log2, pieces)
    BY <1>2, <1>6, <1>9, <2>1, MoreOfPiece DEF log2
  <2> QED
    BY <1>4, <1>8, <2>2
<1>10. CASE sphase = "header" /\ k = 0
  <2>1. log2 = log
    BY <1>4, <1>6, <1>10 DEF log2
  <2> QED
    BY <1>4, <1>8, <2>1
<1>11. CASE sphase = "header" /\ k # 0
  <2>1. PICK b \in Block : bytes = Header(b)
    BY <1>11 DEF Torn
  <2>2. Len(h) \in 1..2 /\ \A q \in 1..Len(h) : h[q] = Header(b)[q]
    BY <1>2, <1>6, <1>11, <2>1, HeaderTypes
  <2>3. PICK p : p = PieceOf(b, Len(log))
    OBVIOUS
  <2> DEFINE pieces2 == Append(pieces, p)
  <2>4. BeforeHeader(log, pieces)
    BY <1>11 DEF Writing
  <2>5. Written(log2, pieces2)
    BY <1>6, <1>11, <2>2, <2>3, <2>4, NewPiece DEF log2
  <2>6. pieces2 \in Seq(Piece)
    BY <2>5 DEF Written
  <2>7. Len(pieces) <= Len(pieces2) /\ \A j \in 1..Len(pieces) : pieces2[j] = pieces[j]
    BY <1>4
  <2> HIDE DEF pieces2
  <2> QED
    BY <1>8, <2>5, <2>6, <2>7
<1> QED
  BY <1>3, <1>9, <1>10, <1>11

-----------------------------------------------------------------------------
(* The reader goes along the log *)

\* What the writer adds does not change where the reader is.
LEMMA ReadKept ==
    ASSUME TypeInv, SentKept, UNCHANGED receiver,
           NEW log, NEW pieces, Written(log, pieces),
           NEW log2, NEW pieces2, Longer(log, log2, pieces, pieces2), Len(pieces2) \in Nat,
           NEW r \in Nat, ReadTo(log, pieces, r)
    PROVE  ReadTo(log2, pieces2, r)'
<1>1. /\ UNCHANGED <<rphase, wanted, buf, is_last, parts, received>>
      /\ log \in Seq(Byte) /\ pieces \in Seq(Piece)
      /\ Len(log) \in Nat /\ Len(pieces) \in Nat
      /\ wire \in Seq(Byte) /\ buf \in Seq(Byte) /\ Len(sent) \in Nat
      /\ Len(received) \in Nat
  BY DEF receiver, Written, TypeInv, MapiTypeOK
<1>2. PICK more \in Seq(Byte) : log2 = log \o more /\ wire' = wire \o more
  BY DEF Longer
<1>3. /\ Len(pieces) <= Len(pieces2)
      /\ \A j \in 1..Len(pieces) : pieces2[j] = pieces[j]
  BY DEF Longer
<1>4. /\ r \in 1..(Len(pieces) + 1) /\ r \in 1..(Len(pieces2) + 1)
      /\ AtOf(pieces2, r) = AtOf(pieces, r)
      /\ MsgOf(pieces2, r) = MsgOf(pieces, r)
      /\ FromOf(pieces2, r) = FromOf(pieces, r)
  <2>1. r \in 1..(Len(pieces) + 1)
    BY DEF ReadTo
  <2>2. r \in 1..(Len(pieces2) + 1)
    BY <1>1, <1>3, <2>1
  <2>3. Len(pieces) \in Nat /\ \A j \in 1..Len(pieces) : pieces2[j] = pieces[j]
    BY <1>1, <1>3
  <2> QED
    BY <2>1, <2>2, <2>3, PlacesKept, Zenon
<1>5. AtOf(pieces, r) \in Nat
  BY <1>4, PlaceFacts
<1> DEFINE base == AtOf(pieces, r) + (IF rphase = "body" THEN 2 ELSE 0)
           pend == buf \o wire
           pend2 == buf \o (wire \o more)
<1>6. /\ base \in Nat
      /\ base + Len(pend) = Len(log)
      /\ \A q \in 1..Len(pend) : pend[q] = log[base + q]
  <2>1. base \in Nat
    BY <1>5
  <2>2. Pending = pend
    BY DEF Pending
  <2> QED
    BY <2>1, <2>2 DEF ReadTo
<1>7. /\ Len(pend) \in Nat
      /\ pend2 = pend \o more /\ pend \in Seq(Byte)
  BY <1>1, SMTT(20)
<1> HIDE DEF base, pend, pend2
<1>8. /\ Len(pend2) = Len(pend) + Len(more) /\ Len(more) \in Nat
      /\ \A q \in 1..Len(pend) : pend2[q] = pend[q]
      /\ \A q \in 1..Len(more) : pend2[Len(pend) + q] = more[q]
  BY <1>7
<1>9. /\ Len(log2) = Len(log) + Len(more)
      /\ \A q \in 1..Len(log) : log2[q] = log[q]
      /\ \A q \in 1..Len(more) : log2[Len(log) + q] = more[q]
  BY <1>1, <1>2
<1> DEFINE len == Len(pend)
           lenMore == Len(more)
           lenLog == Len(log)
<1>lengths. /\ len \in Nat /\ lenMore \in Nat /\ lenLog \in Nat /\ base \in Nat
      /\ base + len = lenLog
      /\ Len(pend2) = len + lenMore /\ Len(log2) = lenLog + lenMore
  BY <1>1, <1>6, <1>7, <1>8, <1>9
<1> HIDE DEF len, lenMore, lenLog
<1>10. base + Len(pend2) = Len(log2)
  BY <1>lengths
<1>11. ASSUME NEW q \in 1..Len(pend2)
       PROVE  pend2[q] = log2[base + q]
  <2>1. q \in 1..(len + lenMore)
    BY <1>lengths
  <2>2. CASE q <= len
    <3>1. q \in 1..len /\ base + q \in 1..lenLog
      BY <1>lengths, <2>1, <2>2
    <3> QED
      BY <1>6, <1>8, <1>9, <3>1 DEF len, lenLog
  <2>3. CASE q > len
    <3>1. q - len \in 1..lenMore /\ q = len + (q - len) /\ base + q = lenLog + (q - len)
      BY <1>lengths, <2>1, <2>3
    <3>2. pend2[len + (q - len)] = more[q - len] /\ log2[lenLog + (q - len)] = more[q - len]
      BY <1>8, <1>9, <3>1 DEF len, lenLog, lenMore
    <3> QED
      BY <3>1, <3>2
  <2> QED
    BY <1>lengths, <2>1, <2>2, <2>3
<1>12. Pending' = pend2
  BY <1>1, <1>2 DEF Pending, pend2
<1>13. /\ Len(received) + 1 = MsgOf(pieces, r)
       /\ Len(parts) = FromOf(pieces, r)
       /\ \A q \in 1..Len(parts) : parts[q] = sent[Len(received) + 1][q]
       /\ rphase = "header" => wanted = 2 /\ (is_last <=> parts = <<>>)
       /\ rphase = "body" =>
             r <= Len(pieces) /\ wanted = Size(pieces[r]) /\ is_last = pieces[r].last
  BY DEF ReadTo
<1>14. \A q \in 1..Len(parts') : parts'[q] = sent'[Len(received') + 1][q]
  <2>1. CASE r = 1
    BY <1>1, <1>13, <2>1 DEF FromOf
  <2>2. CASE r # 1 /\ pieces[r - 1].last
    BY <1>1, <1>13, <2>2 DEF FromOf
  <2>3. CASE r # 1 /\ ~pieces[r - 1].last
    <3>1. r - 1 \in 1..Len(pieces)
      BY <1>1, <1>4, <2>3
    <3>2. pieces[r - 1].msg = Len(received) + 1 /\ pieces[r - 1].msg <= Len(sent)
      BY <1>13, <2>3, <3>1, PieceFacts DEF MsgOf, Cut
    <3>3. Len(received) + 1 \in 1..Len(sent)
      BY <1>1, <3>2
    <3> QED
      BY <1>1, <1>13, <3>3 DEF SentKept
  <2> QED
    BY <2>1, <2>2, <2>3
<1>15. rphase = "body" => r <= Len(pieces2) /\ pieces2[r] = pieces[r]
  BY <1>1, <1>3, <1>4, <1>13
<1>16. base = AtOf(pieces2, r) + (IF rphase' = "body" THEN 2 ELSE 0)
  BY <1>1, <1>4 DEF base
<1>17. \A q \in 1..Len(pend2) : pend2[q] = log2[base + q]
  BY <1>11
<1> QED
  BY <1>1, <1>4, <1>10, <1>12, <1>13, <1>14, <1>15, <1>16, <1>17 DEF ReadTo

\* Where the writer is, does not depend on the reader.
LEMMA WrittenSame ==
    ASSUME UNCHANGED sender, NEW log, NEW pieces, Written(log, pieces), Writing(log, pieces)
    PROVE  Written(log, pieces)' /\ Writing(log, pieces)'
<1>1. UNCHANGED <<writer, sphase, i, block, sent, finished>>
  BY DEF sender
<1>2. \A p : Cut(p)' <=> Cut(p)
  BY <1>1 DEF Cut
<1>3. \A p : Carried(log, p)' <=> Carried(log, p)
  BY <1>1 DEF Carried
<1>4. \A j : Complete(log, pieces, j)' <=> Complete(log, pieces, j)
  BY <1>1 DEF Complete
<1>5. Written(log, pieces)'
  BY <1>1, <1>2, <1>3, <1>4 DEF Written
<1>6. msg' = msg
  BY <1>1 DEF msg
<1>7. Writing(log, pieces)'
  BY <1>1, <1>6 DEF Writing, Idle, BeforeHeader, BeforeChunk, BetweenBlocks
<1> QED
  BY <1>5, <1>7

LEMMA RecvReads ==
    ASSUME TypeInv, Recv, NEW log, NEW pieces, NEW r, ReadTo(log, pieces, r)
    PROVE  ReadTo(log, pieces, r)'
<1>1. PICK k \in 1..(wanted - Len(buf)) :
         /\ k <= Len(wire)
         /\ buf' = buf \o SubSeq(wire, 1, k)
         /\ wire' = SubSeq(wire, k + 1, Len(wire))
  BY DEF Recv
<1>2. UNCHANGED <<rphase, wanted, is_last, parts, received, sent>>
  BY DEF Recv, sender
<1> DEFINE got == SubSeq(wire, 1, k)
           rest == SubSeq(wire, k + 1, Len(wire))
<1>3. /\ buf \in Seq(Byte) /\ wire \in Seq(Byte)
      /\ wanted \in Int /\ Len(buf) \in Nat
  BY MapiAssumption DEF TypeInv, MapiTypeOK
<1>4. k \in Nat \ {0} /\ k <= Len(wire)
  BY <1>1, <1>3
<1>5. got \in Seq(Byte) /\ rest \in Seq(Byte)
  BY <1>3, <1>4
<1>6. got \o rest = wire
  BY <1>3, <1>4, ConcatAdjacentSubSeq, SubSeqFull
<1>7. (buf \o got) \o rest = buf \o (got \o rest)
  <2> HIDE DEF got, rest
  <2> QED
    BY <1>3, <1>5, ConcatAssociative
<1>8. Pending' = Pending
  BY <1>1, <1>6, <1>7 DEF Pending
<1> QED
  BY <1>2, <1>8 DEF ReadTo

\* What was read into buf is in the log where the reader is, and what is on
\* the wire comes right after it.
LEMMA BufAndWire ==
    ASSUME TypeInv, NEW log, NEW base \in Nat, base + Len(Pending) = Len(log),
           \A q \in 1..Len(Pending) : Pending[q] = log[base + q]
    PROVE  /\ base + Len(buf) + Len(wire) = Len(log)
           /\ \A q \in 1..Len(buf) : buf[q] = log[base + q]
           /\ \A q \in 1..Len(wire) : wire[q] = log[base + Len(buf) + q]
<1> DEFINE a == Len(buf)
           b == Len(wire)
           pend == buf \o wire
<1>1. buf \in Seq(Byte) /\ wire \in Seq(Byte) /\ a \in Nat /\ b \in Nat
  BY DEF TypeInv, MapiTypeOK
<1>2. /\ Len(pend) = a + b
      /\ \A q \in 1..(a + b) : pend[q] = IF q <= a THEN buf[q] ELSE wire[q - a]
  BY <1>1, ConcatProperties
<1>3. base + Len(pend) = Len(log) /\ \A q \in 1..Len(pend) : pend[q] = log[base + q]
  BY DEF Pending
<1> HIDE DEF a, b, pend
<1>4. ASSUME NEW q \in 1..a
      PROVE  buf[q] = log[base + q]
  <2>1. q \in 1..(a + b) /\ q <= a
    BY <1>1
  <2> QED
    BY <1>2, <1>3, <2>1
<1>5. ASSUME NEW q \in 1..b
      PROVE  wire[q] = log[base + a + q]
  <2>1. a + q \in 1..(a + b) /\ ~(a + q <= a) /\ (a + q) - a = q
    BY <1>1
  <2>2. base + (a + q) = base + a + q
    BY <1>1
  <2> QED
    BY <1>2, <1>3, <2>1, <2>2
<1>6. base + a + b = Len(log)
  <2>1. base + (a + b) = base + a + b
    BY <1>1
  <2> QED
    BY <1>2, <1>3, <2>1
<1> QED
  BY <1>4, <1>5, <1>6 DEF a, b

\* Where the reader's next byte is in the log.
Base(pieces, r) == AtOf(pieces, r) + (IF rphase = "body" THEN 2 ELSE 0)

\* A byte of the data of a piece that has arrived is in the log.
LEMMA InsideData ==
    ASSUME NEW base \in Nat, NEW size \in Nat, NEW len \in Nat, NEW at \in Nat,
           NEW length \in Nat, NEW d \in 1..size,
           base + size + len = length, base = at + 2
    PROVE  base + d <= length /\ base + d = at + 2 + d
  OBVIOUS

\* ReadTo in terms of Base.
LEMMA BaseFacts ==
    ASSUME TypeInv, NEW log, NEW pieces, Written(log, pieces), NEW r, ReadTo(log, pieces, r)
    PROVE  /\ r \in 1..(Len(pieces) + 1) /\ Len(pieces) \in Nat /\ Len(log) \in Nat
           /\ AtOf(pieces, r) \in Nat /\ Base(pieces, r) \in Nat
           /\ Base(pieces, r) + Len(buf) + Len(wire) = Len(log)
           /\ \A q \in 1..Len(buf) : buf[q] = log[Base(pieces, r) + q]
           /\ \A q \in 1..Len(wire) : wire[q] = log[Base(pieces, r) + Len(buf) + q]
<1>1. r \in 1..(Len(pieces) + 1) /\ Len(pieces) \in Nat /\ Len(log) \in Nat
  BY DEF ReadTo, Written
<1>2. AtOf(pieces, r) \in Nat /\ Base(pieces, r) \in Nat
  BY <1>1, PlaceFacts DEF Base
<1>3. /\ Base(pieces, r) + Len(Pending) = Len(log)
      /\ \A q \in 1..Len(Pending) : Pending[q] = log[Base(pieces, r) + q]
  BY DEF ReadTo, Base
<1> QED
  BY <1>1, <1>2, <1>3, BufAndWire

LEMMA HeaderDoneReads ==
    ASSUME TypeInv, HeaderDone, NEW log, NEW pieces, Written(log, pieces),
           NEW r, ReadTo(log, pieces, r)
    PROVE  ReadTo(log, pieces, r)'
<1> DEFINE base == Base(pieces, r)
           p == pieces[r]
           n == Len(pieces)
           len == Len(wire)
<1>1. /\ buf \in Seq(Byte) /\ wire \in Seq(Byte) /\ len \in Nat
      /\ rphase = "header" /\ Len(buf) = 2
      /\ rphase' = "body" /\ buf' = <<>>
      /\ wanted' = Unpack(buf) \div 2
      /\ is_last' = (Unpack(buf) % 2 = 1)
      /\ UNCHANGED <<sent, wire, parts, received>>
  BY DEF TypeInv, MapiTypeOK, HeaderDone, sender
<1>2. /\ r \in 1..(n + 1) /\ n \in Nat /\ Len(log) \in Nat
      /\ base \in Nat /\ base = AtOf(pieces, r)
      /\ base + 2 + len = Len(log)
      /\ \A q \in 1..2 : buf[q] = log[base + q]
      /\ \A q \in 1..len : wire[q] = log[base + 2 + q]
  BY <1>1, BaseFacts DEF Base
<1>3. r \in 1..n
  <2>1. CASE r = n + 1
    <3>1. Len(log) <= base
      BY <1>2, <2>1 DEF Written
    <3> HIDE DEF base, len
    <3> QED
      BY <1>1, <1>2, <3>1
  <2> QED
    BY <1>2, <2>1
<1>4. /\ p \in Piece /\ Placed(pieces, r) /\ Cut(p) /\ Carried(log, p)
      /\ Size(p) \in Nat
  BY <1>3, PieceFacts
<1>5. p.at = base
  BY <1>2, <1>4 DEF Placed
<1> HIDE DEF base, p, len, n
<1>6. buf = HeaderOf(p)
  <2>1. HeaderOf(p) \in Seq(Byte) /\ Len(HeaderOf(p)) = 2
    BY <1>4, HeaderFacts DEF Cut
  <2>2. \A q \in 1..2 : base + q <= Len(log)
    BY <1>1, <1>2
  <2>3. \A q \in 1..2 : log[base + q] = HeaderOf(p)[q]
    BY <1>4, <1>5, <2>2 DEF Carried
  <2>4. \A q \in 1..Len(buf) : buf[q] = HeaderOf(p)[q]
    BY <1>1, <1>2, <2>3
  <2> QED
    BY <1>1, <2>1, <2>4, SeqEqual
<1>7. wanted' = Size(p) /\ (is_last' <=> p.last)
  BY <1>1, <1>4, <1>6, HeaderFacts DEF Cut
<1>8. is_last' = p.last
  BY <1>1, <1>4, <1>7 DEF Piece
<1>9. Pending' = wire
  BY <1>1 DEF Pending
<1>10. /\ Len(received) + 1 = MsgOf(pieces, r)
       /\ Len(parts) = FromOf(pieces, r)
       /\ \A q \in 1..Len(parts) : parts[q] = sent[Len(received) + 1][q]
       /\ r \in 1..(Len(pieces) + 1) /\ r <= Len(pieces)
  BY <1>1, <1>2, <1>3 DEF ReadTo, n
<1>11. AtOf(pieces, r) + (IF rphase' = "body" THEN 2 ELSE 0) = base + 2
  BY <1>1, <1>2
<1> QED
  BY <1>1, <1>2, <1>7, <1>8, <1>9, <1>10, <1>11 DEF ReadTo, p, len

\* The end of a block: the reader goes on to the next piece; if it was the
\* last one of its message then what is returned is that message.
LEMMA BodyDoneReads ==
    ASSUME TypeInv, BodyDone, NEW log, NEW pieces, Written(log, pieces),
           NEW r, ReadTo(log, pieces, r)
    PROVE  /\ r + 1 \in Nat
           /\ ReadTo(log, pieces, r + 1)'
           /\ is_last => /\ Len(received) < Len(sent)
                         /\ parts \o buf = sent[Len(received) + 1]
<1> DEFINE base == Base(pieces, r)
           p == pieces[r]
           n == Len(pieces)
           len == Len(wire)
           size == Size(p)
           whole == parts \o buf
           m == sent[p.msg]
<1>1. /\ buf \in Seq(Byte) /\ wire \in Seq(Byte) /\ parts \in Seq(Byte)
      /\ len \in Nat /\ received \in Seq(Seq(Byte)) /\ Len(received) \in Nat
      /\ rphase = "body" /\ Len(buf) = wanted
      /\ rphase' = "header" /\ buf' = <<>> /\ wanted' = 2
      /\ UNCHANGED <<sent, wire, is_last>>
      /\ \/ is_last /\ received' = Append(received, whole) /\ parts' = <<>>
         \/ ~is_last /\ received' = received /\ parts' = whole
  BY SMTT(20) DEF TypeInv, MapiTypeOK, BodyDone, sender
<1>2. /\ r \in 1..n /\ n \in Nat /\ wanted = size /\ is_last = p.last
      /\ Len(received) + 1 = MsgOf(pieces, r)
      /\ Len(parts) = FromOf(pieces, r)
      /\ \A q \in 1..Len(parts) : parts[q] = sent[Len(received) + 1][q]
  <2>1. r \in 1..(n + 1) /\ n \in Nat
    BY BaseFacts, Zenon
  <2>2. r <= n /\ wanted = size /\ is_last = p.last
    BY <1>1 DEF ReadTo
  <2>3. r \in 1..n
    BY <2>1, <2>2
  <2> QED
    BY <2>1, <2>2, <2>3 DEF ReadTo
<1>3. /\ Len(log) \in Nat
      /\ base \in Nat /\ base = AtOf(pieces, r) + 2
      /\ base + size + len = Len(log)
      /\ \A q \in 1..size : buf[q] = log[base + q]
      /\ \A q \in 1..len : wire[q] = log[base + size + q]
  <2>1. /\ base \in Nat /\ Len(log) \in Nat
        /\ base + Len(buf) + len = Len(log)
        /\ \A q \in 1..Len(buf) : buf[q] = log[base + q]
        /\ \A q \in 1..len : wire[q] = log[base + Len(buf) + q]
    BY BaseFacts
  <2>2. base = AtOf(pieces, r) + 2
    BY <1>1 DEF Base
  <2>3. Len(buf) = size
    BY <1>1, <1>2
  <2> HIDE DEF base, len, size
  <2> QED
    BY <2>1, <2>2, <2>3
<1>4. /\ p \in Piece /\ Placed(pieces, r) /\ Cut(p) /\ Carried(log, p)
      /\ size \in Nat /\ p.from \in Nat /\ p.to \in Nat /\ p.at \in Nat
      /\ p.msg \in Nat \ {0}
  BY <1>2, PieceFacts DEF Piece
<1>5. /\ base = p.at + 2 /\ p.msg = Len(received) + 1 /\ p.from = Len(parts)
      /\ p.to = p.from + size
  <2>1. p.at = AtOf(pieces, r) /\ p.msg = MsgOf(pieces, r) /\ p.from = FromOf(pieces, r)
    BY <1>4 DEF Placed
  <2>2. p.to = p.from + size
    BY <1>4 DEF Size
  <2> QED
    BY <1>2, <1>3, <2>1, <2>2
<1>6. m \in Seq(Byte) /\ p.msg \in 1..Len(sent) /\ p.to <= Len(m) /\ Len(sent) \in Nat
  <2>1. /\ sent \in Seq(Message[writer]) /\ Message[writer] \subseteq Seq(Byte)
        /\ Len(sent) \in Nat
    BY MapiAssumption DEF TypeInv, MapiTypeOK
  <2>2. p.msg \in 1..Len(sent)
    BY <1>4, <2>1 DEF Cut
  <2> QED
    BY <1>4, <2>1, <2>2 DEF Cut
<1> HIDE DEF base, p, len, n, size, m
<1>7. /\ whole \in Seq(Byte) /\ Len(whole) = p.to
      /\ \A q \in 1..Len(whole) : whole[q] = m[q]
  <2>1. /\ whole \in Seq(Byte) /\ Len(whole) = Len(parts) + Len(buf)
        /\ \A q \in 1..(Len(parts) + Len(buf)) :
              whole[q] = IF q <= Len(parts) THEN parts[q] ELSE buf[q - Len(parts)]
    BY <1>1, ConcatProperties
  <2> HIDE DEF whole
  <2>2. Len(parts) = p.from /\ Len(buf) = size
    BY <1>1, <1>2, <1>5
  <2>3. ASSUME NEW q \in 1..p.to
        PROVE  whole[q] = m[q]
    <3>1. CASE q <= p.from
      <4>1. q \in 1..Len(parts) /\ q \in 1..(Len(parts) + Len(buf))
        BY <1>4, <1>5, <2>2, <3>1
      <4> QED
        BY <1>2, <1>5, <2>1, <2>2, <3>1, <4>1 DEF m
    <3>2. CASE q > p.from
      <4> DEFINE d == q - p.from
      <4>1. /\ d \in 1..size /\ p.from + d = q
            /\ q \in 1..(Len(parts) + Len(buf)) /\ ~(q <= p.from)
        BY <1>4, <1>5, <2>2, <3>2
      <4>2. whole[q] = buf[d]
        BY <2>1, <2>2, <4>1
      <4> HIDE DEF d
      <4>3. buf[d] = log[base + d]
        BY <1>3, <4>1
      <4>4. base + d <= Len(log) /\ base + d = p.at + 2 + d
        <5>1. /\ base \in Nat /\ size \in Nat /\ len \in Nat /\ p.at \in Nat
              /\ base + size + len = Len(log) /\ base = p.at + 2 /\ d \in 1..size
              /\ Len(log) \in Nat
          BY <1>1, <1>3, <1>4, <1>5, <4>1
        <5> QED
          BY <5>1, InsideData
      <4>5. log[p.at + 2 + d] = m[p.from + d]
        BY <1>4, <4>1, <4>4 DEF Carried, size, m
      <4> QED
        BY <4>1, <4>2, <4>3, <4>4, <4>5
    <3> QED
      BY <1>4, <3>1, <3>2
  <2> QED
    BY <1>5, <2>1, <2>2, <2>3
<1> HIDE DEF whole
<1>8. /\ AtOf(pieces, r + 1) = base + size
      /\ MsgOf(pieces, r + 1) = IF p.last THEN p.msg + 1 ELSE p.msg
      /\ FromOf(pieces, r + 1) = IF p.last THEN 0 ELSE p.to
      /\ r + 1 \in 1..(n + 1) /\ r + 1 \in Nat
  <2>1. r + 1 # 1 /\ (r + 1) - 1 = r
    BY <1>2
  <2>2. AtOf(pieces, r + 1) = PieceEnd(p)
    BY <2>1 DEF AtOf, p
  <2>3. PieceEnd(p) = base + size
    BY <1>5 DEF PieceEnd, size
  <2> QED
    BY <1>2, <2>1, <2>2, <2>3 DEF MsgOf, FromOf, p
<1>9. LET b == AtOf(pieces, r + 1) + (IF rphase' = "body" THEN 2 ELSE 0)
      IN  /\ b + Len(Pending') = Len(log)
          /\ \A q \in 1..Len(Pending') : Pending'[q] = log[b + q]
  <2>1. Pending' = wire
    BY <1>1 DEF Pending
  <2>2. AtOf(pieces, r + 1) + (IF rphase' = "body" THEN 2 ELSE 0) = base + size
    BY <1>1, <1>3, <1>4, <1>8
  <2> QED
    BY <1>3, <2>1, <2>2 DEF len
<1> DEFINE Lands ==
              /\ Len(received') + 1 = MsgOf(pieces, r + 1)
              /\ Len(parts') = FromOf(pieces, r + 1)
              /\ \A q \in 1..Len(parts') : parts'[q] = sent'[Len(received') + 1][q]
              /\ is_last' <=> parts' = <<>>
<1>lands. ASSUME Lands
      PROVE  ReadTo(log, pieces, r + 1)'
  BY <1>1, <1>8, <1>9, <1>lands DEF ReadTo, n
<1>10. CASE p.last
  <2>1. p.to = Len(m)
    BY <1>4, <1>10 DEF Cut, m
  <2>2. whole = m
    BY <1>6, <1>7, <2>1, SeqEqual
  <2>3. /\ is_last /\ Len(received') = Len(received) + 1 /\ parts' = <<>>
        /\ Len(parts') = 0
    <3>1. whole \in Seq(Byte) /\ is_last /\ received' = Append(received, whole) /\ parts' = <<>>
      BY <1>1, <1>2, <1>7, <1>10
    <3> QED
      BY <1>1, <3>1
  <2>4. Lands
    BY <1>1, <1>5, <1>8, <1>10, <2>3
  <2> QED
    BY <1>1, <1>5, <1>6, <1>8, <1>lands, <2>2, <2>4 DEF whole, m
<1>11. CASE ~p.last
  <2>1. p.from < p.to
    BY <1>4, <1>11 DEF Cut
  <2>2. ~is_last /\ received' = received /\ parts' = whole
    BY <1>1, <1>2, <1>11
  <2>3. parts' # <<>>
    BY <1>4, <1>7, <2>1, <2>2
  <2>4. \A q \in 1..Len(parts') : parts'[q] = sent'[Len(received') + 1][q]
    BY <1>1, <1>5, <1>7, <2>2 DEF m
  <2>5. Lands
    BY <1>1, <1>5, <1>7, <1>8, <1>11, <2>2, <2>3, <2>4
  <2> QED
    BY <1>8, <1>lands, <2>2, <2>5
<1> QED
  BY <1>10, <1>11

-----------------------------------------------------------------------------
(* Every step *)

WriterStep == (\E m \in Message[writer] : Send(m)) \/ SendHeader \/ SendChunk \/ Close \/ Interrupted

LEMMA WriterGoes ==
    ASSUME ShortMessages, TypeInv, WriterStep,
           NEW log, NEW pieces, Written(log, pieces), Writing(log, pieces)
    PROVE  SentKept /\ UNCHANGED receiver /\ Goes(log, pieces)
<1>1. UNCHANGED receiver
  BY DEF WriterStep, Send, SendHeader, SendChunk, Close, Interrupted
<1>2. CASE \E m \in Message[writer] : Send(m)
  BY <1>1, <1>2, SendGoes
<1>3. Len(sent) \in Nat
  BY DEF TypeInv, MapiTypeOK
<1>4. CASE SendHeader
  <2>1. SentKept
    BY <1>3, <1>4 DEF SendHeader, SentKept
  <2> QED
    BY <1>1, <1>4, <2>1, SendHeaderGoes
<1>5. CASE SendChunk
  <2>1. SentKept
    BY <1>3, <1>5 DEF SendChunk, SentKept
  <2> QED
    BY <1>1, <1>5, <2>1, SendChunkGoes
<1>6. CASE Close
  <2>1. /\ UNCHANGED <<writer, i, block, sent, finished, wire>>
        /\ sphase' = "gone"
    BY <1>6 DEF Close
  <2>2. SentKept
    BY <1>3, <2>1 DEF SentKept
  <2>3. finished' = finished /\ finished < MsgOf(pieces, Len(pieces) + 1)
    BY <2>1 DEF Written
  <2>4. Written(log, pieces)'
    BY <1>3, <2>2, <2>3, WrittenKept
  <2>5. Writing(log, pieces)'
    BY <2>1 DEF Writing
  <2> DEFINE none == <<>>
  <2>6. /\ log \in Seq(Byte) /\ pieces \in Seq(Piece) /\ wire \in Seq(Byte)
        /\ Len(pieces) <= Len(pieces)
    BY DEF Written, TypeInv, MapiTypeOK
  <2>7. log = log \o none /\ wire' = wire \o none /\ none \in Seq(Byte)
    BY <2>1, <2>6
  <2> HIDE DEF none
  <2>8. Longer(log, log, pieces, pieces)
    BY <2>6, <2>7 DEF Longer
  <2> QED
    BY <1>1, <2>2, <2>4, <2>5, <2>6, <2>8 DEF Goes
<1>7. CASE Interrupted
  <2>1. SentKept
    BY <1>3, <1>7 DEF Interrupted, SentKept
  <2> QED
    BY <1>1, <1>7, <2>1, InterruptedGoes
<1> QED
  BY <1>2, <1>4, <1>5, <1>6, <1>7 DEF WriterStep

LEMMA StreamStep == ShortMessages /\ TypeInv /\ Stream /\ [Next]_vars => Stream'
<1> SUFFICES ASSUME ShortMessages, TypeInv, Stream, [Next]_vars
             PROVE  Stream'
  OBVIOUS
<1>1. PICK log \in Seq(Byte), pieces \in Seq(Piece) : Explained(log, pieces)
  BY DEF Stream
<1>2. Written(log, pieces) /\ Writing(log, pieces)
  BY <1>1 DEF Explained
<1>3. Reading => \E r \in Nat : ReadTo(log, pieces, r)
  BY <1>1 DEF Explained
<1>4. CASE WriterStep
  <2>1. SentKept /\ UNCHANGED receiver /\ Goes(log, pieces)
    BY <1>2, <1>4, WriterGoes
  <2>2. PICK log2 \in Seq(Byte), pieces2 \in Seq(Piece) :
           /\ Written(log2, pieces2)'
           /\ Writing(log2, pieces2)'
           /\ Longer(log, log2, pieces, pieces2)
    BY <2>1 DEF Goes
  <2>3. ASSUME Reading'
        PROVE  \E r \in Nat : ReadTo(log2, pieces2, r)'
    <3>1. Reading
      BY <2>1, <2>3 DEF Reading, receiver
    <3>2. PICK r \in Nat : ReadTo(log, pieces, r)
      BY <1>3, <3>1
    <3>3. ReadTo(log2, pieces2, r)'
      BY <1>2, <2>1, <2>2, <3>2, ReadKept
    <3> QED
      BY <3>3
  <2>4. Explained(log2, pieces2)'
    BY <2>2, <2>3 DEF Explained
  <2> QED
    BY <2>4 DEF Stream
<1>5. CASE UNCHANGED sender /\ ReceiverStep
  <2>1. Written(log, pieces)' /\ Writing(log, pieces)'
    BY <1>2, <1>5, WrittenSame
  <2>2. ASSUME Reading'
        PROVE  \E r \in Nat : ReadTo(log, pieces, r)'
    <3>1. Reading /\ ~RecvEnd
      BY <1>5, <2>2 DEF ReceiverStep, Reading, Recv, RecvEnd, HeaderDone, BodyDone
    <3>2. PICK r \in Nat : ReadTo(log, pieces, r)
      BY <1>3, <3>1
    <3>3. CASE Recv
      BY <3>2, <3>3, RecvReads
    <3>4. CASE HeaderDone
      BY <1>2, <3>2, <3>4, HeaderDoneReads
    <3>5. CASE BodyDone
      BY <1>2, <3>2, <3>5, BodyDoneReads
    <3> QED
      BY <1>5, <3>1, <3>3, <3>4, <3>5 DEF ReceiverStep
  <2>3. Explained(log, pieces)'
    BY <2>1, <2>2 DEF Explained
  <2> QED
    BY <2>3 DEF Stream
<1>6. CASE UNCHANGED vars
  <2>1. Written(log, pieces)' /\ Writing(log, pieces)'
    BY <1>2, <1>6, WrittenSame DEF vars
  <2>2. Reading' => \E r \in Nat : ReadTo(log, pieces, r)'
    <3>1. UNCHANGED <<sent, wire, rphase, wanted, buf, is_last, parts, received>>
      BY <1>6 DEF vars, sender, receiver
    <3> QED
      BY <1>3, <3>1 DEF Reading, ReadTo, Pending
  <2>3. Explained(log, pieces)'
    BY <2>1, <2>2 DEF Explained
  <2> QED
    BY <2>3 DEF Stream
<1>7. ReceiverStep => UNCHANGED sender
  BY DEF ReceiverStep, Recv, RecvEnd, HeaderDone, BodyDone
<1> QED
  BY <1>4, <1>5, <1>6, <1>7 DEF Next, WriterStep, Terminated

LEMMA StreamInit == Init => Stream
<1> SUFFICES ASSUME Init
             PROVE  Stream
  OBVIOUS
<1> DEFINE none == <<>>
<1>1. none \in Seq(Byte) /\ none \in Seq(Piece) /\ Len(none) = 0
  OBVIOUS
<1>2. /\ AtOf(none, 1) = 0 /\ MsgOf(none, 1) = 1 /\ FromOf(none, 1) = 0
  BY DEF AtOf, MsgOf, FromOf
<1>3. /\ sphase = "idle" /\ rphase = "header" /\ wanted = 2 /\ is_last /\ parts = <<>>
      /\ Len(sent) = 0 /\ finished = 0 /\ Len(received) = 0 /\ Pending = none
      /\ Len(parts) = 0
  BY DEF Init, Pending
<1> HIDE DEF none
<1>4. Written(none, none)
  BY <1>1, <1>2, <1>3 DEF Written
<1>5. Writing(none, none)
  BY <1>1, <1>2, <1>3 DEF Writing, Idle, BetweenBlocks
<1>6. ReadTo(none, none, 1)
  BY <1>1, <1>2, <1>3 DEF ReadTo
<1>7. Explained(none, none)
  BY <1>4, <1>5, <1>6 DEF Explained
<1> QED
  BY <1>1, <1>7 DEF Stream

-----------------------------------------------------------------------------
(* What follows from it *)

LEMMA DeliveryStep ==
    ASSUME TypeInv, Stream, BodyDone, is_last
    PROVE  Len(received) < Len(sent) /\ parts \o buf = sent[Len(received) + 1]
<1>1. PICK log \in Seq(Byte), pieces \in Seq(Piece) : Explained(log, pieces)
  BY DEF Stream
<1>2. PICK r \in Nat : ReadTo(log, pieces, r)
  BY <1>1 DEF Explained, BodyDone, Reading
<1> QED
  BY <1>1, <1>2, BodyDoneReads DEF Explained

LEMMA IntactStep == TypeInv /\ Stream /\ Intact /\ [Next]_vars => Intact'
<1> SUFFICES ASSUME TypeInv, Stream, Intact, [Next]_vars
             PROVE  Intact'
  OBVIOUS
<1>1. /\ received \in Seq(Seq(Byte)) /\ Len(received) \in Nat
      /\ sent \in Seq(Message[writer]) /\ Len(sent) \in Nat
      /\ DOMAIN received = 1..Len(received)
  BY DEF TypeInv, MapiTypeOK
<1>2. Len(received) <= Len(sent) /\ \A k \in 1..Len(received) : received[k] = sent[k]
  BY <1>1 DEF Intact
<1>3. CASE received' = received /\ sent' = sent
  BY <1>3 DEF Intact
<1>4. ASSUME NEW m \in Message[writer], Send(m)
      PROVE  Intact'
  <2>1. sent' = Append(sent, m) /\ received' = received
    BY <1>4 DEF Send, receiver
  <2>2. Len(sent') = Len(sent) + 1 /\ \A k \in 1..Len(sent) : sent'[k] = sent[k]
    BY <1>1, <2>1
  <2> QED
    BY <1>1, <1>2, <2>1, <2>2 DEF Intact
<1>5. CASE BodyDone /\ is_last
  <2>1. Len(received) < Len(sent) /\ parts \o buf = sent[Len(received) + 1]
    BY <1>5, DeliveryStep
  <2>2. /\ received' = Append(received, parts \o buf) /\ sent' = sent
        /\ parts \o buf \in Seq(Byte)
    BY <1>5 DEF BodyDone, sender, TypeInv, MapiTypeOK
  <2> DEFINE S == Seq(Byte)
             whole == parts \o buf
  <2>3. received \in Seq(S) /\ whole \in S /\ received' = Append(received, whole)
    BY <1>1, <2>2
  <2> HIDE DEF S, whole
  <2>4. /\ Len(received') = Len(received) + 1 /\ DOMAIN received' = 1..(Len(received) + 1)
        /\ \A k \in 1..Len(received) : received'[k] = received[k]
        /\ received'[Len(received) + 1] = whole
    BY <2>3
  <2> QED
    BY <1>1, <1>2, <2>1, <2>2, <2>4 DEF Intact, whole
<1> QED
  BY <1>3, <1>4, <1>5
     DEF Next, ReceiverStep, Terminated, SendHeader, SendChunk, Close, Interrupted, Recv, RecvEnd,
         HeaderDone, BodyDone, vars, sender, receiver

LEMMA IntactInit == Init => Intact
<1> SUFFICES ASSUME Init
             PROVE  Intact
  OBVIOUS
<1>1. sent = <<>> /\ received = <<>>
  BY DEF Init
<1> QED
  BY <1>1 DEF Intact

IInv == TypeInv /\ Stream /\ Intact

LEMMA Inductive ==
    ASSUME ShortMessages
    PROVE  Spec => []IInv
<1>1. Init => IInv
  BY TypeInit, StreamInit, IntactInit DEF IInv
<1>2. IInv /\ [Next]_vars => IInv'
  BY TypeStep, StreamStep, IntactStep DEF IInv
<1> QED
  BY <1>1, <1>2, PTL DEF Spec

\* What receive_binary returns are the messages that send was called with,
\* whole and in this order, however their bytes are cut into blocks and into
\* the pieces that recv hands over, and whatever becomes of the writer.
THEOREM MessagesIntact ==
    ASSUME ShortMessages
    PROVE  Spec => []Intact
<1>1. IInv => Intact
  BY DEF IInv
<1> QED
  BY Inductive, <1>1, PTL

LEMMA UpToDate == IInv => BlockedMeansUpToDate
<1> SUFFICES ASSUME IInv, sphase = "idle", wire = <<>>, Reading, Len(buf) < wanted
             PROVE  AtBoundary /\ buf = <<>> /\ parts = <<>> /\ received = sent
  BY DEF BlockedMeansUpToDate
<1>1. TypeInv /\ Stream /\ Intact
  BY DEF IInv
<1>2. PICK log \in Seq(Byte), pieces \in Seq(Piece) : Explained(log, pieces)
  BY <1>1 DEF Stream
<1>3. PICK r \in Nat : ReadTo(log, pieces, r)
  BY <1>2 DEF Explained
<1> DEFINE n == Len(pieces)
           p == pieces[r]
           base == Base(pieces, r)
           len == Len(buf)
<1>4. Written(log, pieces) /\ Idle(log, pieces)
  BY <1>2 DEF Explained, Writing
<1>5. /\ r \in 1..(n + 1) /\ n \in Nat /\ base \in Nat /\ Len(log) \in Nat
      /\ buf \in Seq(Byte) /\ len \in Nat /\ Len(wire) = 0
      /\ base + len + Len(wire) = Len(log)
      /\ Len(log) = AtOf(pieces, n + 1)
  <2>1. /\ r \in 1..(n + 1) /\ n \in Nat /\ Len(log) \in Nat
        /\ base \in Nat /\ base + len + Len(wire) = Len(log)
    BY <1>1, <1>3, <1>4, BaseFacts, Zenon
  <2>2. buf \in Seq(Byte) /\ len \in Nat /\ Len(wire) = 0
    BY <1>1 DEF TypeInv, MapiTypeOK
  <2> QED
    BY <1>4, <2>1, <2>2 DEF Idle, BetweenBlocks
<1>6. ASSUME r <= n
      PROVE  FALSE
  <2>1. /\ p \in Piece /\ Placed(pieces, r) /\ Size(p) \in Nat /\ PieceEnd(p) \in Nat
        /\ p.at \in Nat
    <3>1. r \in 1..n
      BY <1>5, <1>6
    <3> HIDE DEF n
    <3>2. /\ p \in Piece /\ Placed(pieces, r) /\ Size(p) \in Nat /\ PieceEnd(p) \in Nat
      BY <1>4, <3>1, PieceFacts DEF n
    <3> QED
      BY <3>2 DEF Piece
  <2>2. PieceEnd(p) <= Len(log)
    <3>1. CASE r < n
      BY <1>4, <1>5, <3>1, PieceFacts DEF Complete
    <3>2. CASE r = n
      BY <1>5, <2>1, <3>2 DEF AtOf
    <3> QED
      BY <1>5, <1>6, <3>1, <3>2
  <2>3. p.at = AtOf(pieces, r) /\ PieceEnd(p) = p.at + 2 + Size(p)
    BY <2>1 DEF Placed, PieceEnd
  <2>4. /\ rphase = "header" => wanted = 2 /\ base = AtOf(pieces, r)
        /\ rphase = "body" => wanted = Size(p) /\ base = AtOf(pieces, r) + 2
    BY <1>3, <2>1, <2>3 DEF ReadTo, Base
  <2> HIDE DEF base, len, p
  <2>5. base + len = Len(log)
    BY <1>5
  <2>6. len < wanted /\ rphase \in {"header", "body"}
    BY DEF Reading, len
  <2> DEFINE size == Size(p)
             length == Len(log)
             at == p.at
  <2>7. /\ at \in Nat /\ size \in Nat /\ length \in Nat /\ len \in Nat /\ base \in Nat
        /\ at + 2 + size <= length /\ base + len = length
        /\ \/ wanted = 2 /\ base = at
           \/ wanted = size /\ base = at + 2
    BY <1>5, <2>1, <2>2, <2>3, <2>4, <2>5, <2>6
  <2> HIDE DEF size, length, at
  <2> QED
    BY <2>6, <2>7
<1>7. r = n + 1
  BY <1>5, <1>6
<1>8. rphase = "header"
  <2>1. rphase = "body" => r <= n
    BY <1>3 DEF ReadTo
  <2> QED
    BY <1>6, <2>1 DEF Reading
<1>9. base = AtOf(pieces, n + 1)
  BY <1>5, <1>7, <1>8 DEF Base
<1>10. buf = <<>>
  <2> HIDE DEF base
  <2>1. len = 0
    BY <1>5, <1>9
  <2> QED
    BY <1>5, <2>1
<1>11. Len(parts) = 0 /\ Len(received) + 1 = Len(sent) + 1
  BY <1>3, <1>4, <1>7 DEF ReadTo, Idle
<1>12. parts = <<>> /\ is_last
  <2>1. parts \in Seq(Byte) /\ is_last \in BOOLEAN
    BY <1>1 DEF TypeInv, MapiTypeOK
  <2>2. parts = <<>>
    BY <1>11, <2>1
  <2> QED
    BY <1>3, <1>8, <2>2 DEF ReadTo
<1>13. received = sent
  <2>1. /\ received \in Seq(Seq(Byte)) /\ sent \in Seq(Seq(Byte))
        /\ DOMAIN received = 1..Len(received)
    <3>1. sent \in Seq(Message[writer]) /\ Message[writer] \subseteq Seq(Byte)
      BY <1>1, MapiAssumption DEF TypeInv, MapiTypeOK
    <3> QED
      BY <1>1, <3>1 DEF TypeInv, MapiTypeOK
  <2>2. Len(received) = Len(sent)
    BY <1>11, <2>1
  <2>3. \A k \in 1..Len(received) : received[k] = sent[k]
    BY <1>1, <2>1 DEF Intact
  <2> DEFINE S == Seq(Byte)
  <2>4. received \in Seq(S) /\ sent \in Seq(S)
    BY <2>1
  <2> HIDE DEF S
  <2> QED
    BY <2>2, <2>3, <2>4, SeqEqual
<1> QED
  BY <1>8, <1>10, <1>12, <1>13 DEF AtBoundary

\* Header and data account for every byte: a reader that waits for more, when
\* the writer is between two messages and nothing is under way, waits for a
\* new message.
THEOREM NothingLeftOver ==
    ASSUME ShortMessages
    PROVE  Spec => []BlockedMeansUpToDate
  BY Inductive, UpToDate, PTL

-----------------------------------------------------------------------------
(* Mapi implements Channel *)

\* No message that was finished is missing when the stream ends in between.
LEMMA StopStep ==
    ASSUME IInv, RecvEnd, rphase' = "none"
    PROVE  finished <= Len(received)
<1>1. TypeInv /\ Stream
  BY DEF IInv
<1>2. /\ rphase = "header" /\ buf = <<>> /\ wire = <<>> /\ Reading
      /\ Len(buf) = 0 /\ Len(wire) = 0
  BY DEF RecvEnd, AtBoundary, Reading
<1>3. PICK log \in Seq(Byte), pieces \in Seq(Piece) : Explained(log, pieces)
  BY <1>1 DEF Stream
<1>4. PICK r \in Nat : ReadTo(log, pieces, r)
  BY <1>2, <1>3 DEF Explained
<1>5. Written(log, pieces)
  BY <1>3 DEF Explained
<1> DEFINE n == Len(pieces)
           base == Base(pieces, r)
           p == pieces[r]
<1>6. /\ r \in 1..(n + 1) /\ n \in Nat /\ base \in Nat /\ base = AtOf(pieces, r)
      /\ Len(log) \in Nat
      /\ base + Len(buf) + Len(wire) = Len(log)
  BY <1>1, <1>2, <1>4, <1>5, BaseFacts DEF Base
<1>7. base = Len(log)
  <2> HIDE DEF base
  <2> QED
    BY <1>2, <1>6
<1>8. /\ Len(received) + 1 = MsgOf(pieces, r)
      /\ finished \in Nat /\ Len(received) \in Nat
  BY <1>1, <1>4 DEF ReadTo, TypeInv, MapiTypeOK
<1>9. finished < MsgOf(pieces, r)
  <2>1. CASE r = n + 1
    BY <1>5, <2>1 DEF Written
  <2>2. CASE r \in 1..n
    <3>1. /\ p \in Piece /\ Placed(pieces, r) /\ Complete(log, pieces, r)
          /\ Size(p) \in Nat
      BY <1>5, <2>2, PieceFacts
    <3>2. PieceEnd(p) = Len(log) + 2 + Size(p) /\ p.msg = MsgOf(pieces, r) /\ p.msg \in Nat
      BY <1>6, <1>7, <3>1 DEF Placed, PieceEnd, Piece
    <3>3. ~(PieceEnd(p) <= Len(log))
      BY <1>6, <3>1, <3>2
    <3> QED
      BY <1>8, <3>1, <3>2, <3>3 DEF Complete
  <2> QED
    BY <1>6, <2>1, <2>2
<1> QED
  BY <1>8, <1>9

\* Control in the writer: finished counts the messages before this one.
LEMMA FinishedCount ==
    ASSUME IInv
    PROVE  /\ sphase = "idle" => finished = Len(sent)
           /\ sphase \in {"header", "chunk"} => finished = Len(sent) - 1
  BY DEF IInv, Stream, Explained, Writing, Idle, BeforeHeader, BeforeChunk

LEMMA ChannelInit == Init => Promise!Init
  BY DEF Init, Promise!Init, Status, Reading

LEMMA ChannelStep == IInv /\ [Next]_vars => [Promise!Next]_Promise!vars
<1> SUFFICES ASSUME IInv, [Next]_vars
             PROVE  [Promise!Next]_Promise!vars
  OBVIOUS
<1>1. TypeInv /\ Stream /\ Intact
  BY DEF IInv
<1>2. /\ Len(sent) \in Nat /\ finished \in Nat /\ finished <= Len(sent)
      /\ writer \in Writer
  BY <1>1 DEF TypeInv, MapiTypeOK
<1>3. UNCHANGED <<sent, finished, received, rphase>> => UNCHANGED Promise!vars
  BY DEF Promise!vars, Status, Reading
<1>4. ASSUME NEW m \in Message[writer], Send(m)
      PROVE  Promise!Begin(m) /\ m \in AnyMessage
  <2>1. finished = Len(sent)
    BY <1>4, FinishedCount DEF Send
  <2>2. UNCHANGED <<finished, received, Status>>
    BY <1>4 DEF Send, receiver, Status, Reading
  <2> QED
    BY <1>2, <1>4, <2>1, <2>2 DEF Promise!Begin, Send, AnyMessage
<1>5. CASE SendHeader \/ Close \/ Interrupted \/ Recv
  BY <1>3, <1>5 DEF SendHeader, Close, Interrupted, Recv, sender, receiver
<1>6. CASE SendChunk
  <2>1. CASE block.more
    BY <1>3, <1>6, <2>1 DEF SendChunk, receiver
  <2>2. CASE ~block.more
    <3>1. finished < Len(sent)
      BY <1>2, <1>6, FinishedCount DEF SendChunk
    <3>2. finished' = Len(sent) /\ UNCHANGED <<sent, received, Status>>
      BY <1>6, <2>2 DEF SendChunk, receiver, Status, Reading
    <3> QED
      BY <3>1, <3>2 DEF Promise!Next, Promise!Finish
  <2> QED
    BY <2>1, <2>2
<1>7. CASE RecvEnd
  <2>1. UNCHANGED <<sent, finished, received>> /\ Status = "open"
    BY <1>7 DEF RecvEnd, sender, Status
  <2>2. CASE rphase' = "none"
    <3>1. finished <= Len(received) /\ Status' = "stopped"
      BY <1>7, <2>2, StopStep DEF Status, Reading
    <3>2. Len(received) >= finished
      BY <1>1, <1>2, <3>1 DEF TypeInv, MapiTypeOK
    <3> QED
      BY <2>1, <3>1, <3>2 DEF Promise!Next, Promise!Stop
  <2>3. CASE rphase' \in {"eof", "reset"}
    <3>1. Status' = "broken"
      BY <2>3 DEF Status, Reading
    <3> QED
      BY <2>1, <3>1 DEF Promise!Next, Promise!Break
  <2> QED
    BY <1>7, <2>2, <2>3 DEF RecvEnd
<1>8. CASE HeaderDone
  BY <1>8 DEF HeaderDone, sender, Promise!vars, Status, Reading
<1>9. CASE BodyDone
  <2>1. UNCHANGED <<sent, finished>> /\ Status = "open" /\ Status' = "open"
    BY <1>9 DEF BodyDone, sender, Status, Reading
  <2>2. CASE is_last
    <3>1. Len(received) < Len(sent) /\ parts \o buf = sent[Len(received) + 1]
      BY <1>1, <1>9, <2>2, DeliveryStep
    <3>2. received' = Append(received, sent[Len(received) + 1])
      BY <1>9, <2>2, <3>1 DEF BodyDone
    <3> QED
      BY <2>1, <3>1, <3>2 DEF Promise!Next, Promise!Deliver
  <2>3. CASE ~is_last
    BY <1>9, <2>1, <2>3 DEF BodyDone, Promise!vars
  <2> QED
    BY <2>2, <2>3
<1>10. CASE UNCHANGED vars
  BY <1>3, <1>10 DEF vars, sender, receiver
<1> QED
  BY <1>4, <1>5, <1>6, <1>7, <1>8, <1>9, <1>10
     DEF Next, ReceiverStep, Terminated, Promise!Next

\* Every step of Mapi is a step of Channel or leaves what Channel talks about
\* alone: messages are delivered whole and in order, and a reader that is
\* told None has got every message whose send returned.
THEOREM MapiImplementsChannel ==
    ASSUME ShortMessages
    PROVE  Spec => ImplementsChannel
<1>1. Spec => []IInv
  BY Inductive
<1> QED
  BY <1>1, ChannelInit, ChannelStep, PTL DEF Spec, ImplementsChannel, Promise!Spec
=============================================================================
