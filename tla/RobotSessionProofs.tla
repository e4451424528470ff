------------------------- MODULE RobotSessionProofs -------------------------
(***************************************************************************)
(* Proofs about RobotSession, for every number of calls and endpoints and  *)
(* every set of body lengths.                                              *)
(***************************************************************************)
EXTENDS RobotSession, SequenceTheorems, TLAPS

-----------------------------------------------------------------------------
(***************************************************************************)
(* The inductive invariant.  There is one token: the call in progress.     *)
(* InTransit says where it is in one direction of the connection; Flow     *)
(* lists the places the token passes through, in order.                    *)
(***************************************************************************)

\* Chunks of the current frame that a reader has taken from the stream.
Taken(reader, dec) == IF reader = "body" THEN 1 + dec.got ELSE 0

\* Nothing of a direction is under way.
Quiet(writes, wire, reader) ==
  writes = <<>> /\ wire = <<>> /\ reader # "body"

\* The write, if it still has bytes to send, continues where the stream ends.
WriteContinues(enc, writes, sent) ==
  /\ Len(writes) <= 1
  /\ Len(writes) > 0 => /\ writes[1].off = sent /\ writes[1].total = enc.len + 1
                         /\ sent <= enc.len

\* The stream holds the chunks of enc that follow those the reader has taken,
\* and the reader has taken the first ones of enc in order.
StreamContinues(enc, writes, wire, reader, dec) ==
  /\ Taken(reader, dec) + Len(wire) <= enc.len + 1
  /\ \A i \in 1 .. Len(wire) :
       /\ wire[i].id = enc.id /\ wire[i].len = enc.len
       /\ wire[i].at = Taken(reader, dec) + i - 1
  /\ WriteContinues(enc, writes, Taken(reader, dec) + Len(wire))
  /\ reader = "body" => /\ dec.id = enc.id /\ dec.len = enc.len
                        /\ dec.got <= dec.len
                        /\ dec.whole

\* The frame n has been encoded and not yet delivered.  Once the connection is
\* down and the reader has given up, nobody looks at the stream any more.
InTransit(n, enc, writes, wire, reader, dec) ==
  /\ enc.id = n
  /\ \/ link = "down" /\ reader = "off"
     \/ StreamContinues(enc, writes, wire, reader, dec)

Holds(ready, n) ==
  Len(ready) > 0 /\ Len(ready) <= 1 /\ ready[1].id = n /\ ready[1].whole

\* The places the token passes through.  A connection that broke in the backlog is
\* still to be read.
RequestMoving ==
  /\ InTransit(call, cEnc, cWrites, toServer, sReader, sDec)
  /\ server = "listening" => StreamContinues(cEnc, cWrites, toServer, sReader, sDec)
  /\ sReady = <<>>

RequestQueued == Quiet(cWrites, toServer, sReader) /\ Holds(sReady, call)

RequestSide ==
  /\ Quiet(sWrites, toClient, cReader)
  /\ cReady = <<>>
  /\ proc # "handling"
  /\ RequestMoving \/ RequestQueued

Handling ==
  /\ proc = "handling" /\ request.id = call
  /\ Quiet(sWrites, toClient, cReader) /\ cReady = <<>>

ResponseMoving ==
  /\ proc # "handling"
  /\ InTransit(call, sEnc, sWrites, toClient, cReader, cDec) /\ cReady = <<>>

ResponseQueued ==
  /\ proc # "handling"
  /\ Quiet(sWrites, toClient, cReader) /\ Holds(cReady, call)

ResponseSide ==
  /\ Quiet(cWrites, toServer, sReader)
  /\ sReady = <<>>
  /\ Handling \/ ResponseMoving \/ ResponseQueued

NothingPending ==
  /\ Quiet(cWrites, toServer, sReader)
  /\ Quiet(sWrites, toClient, cReader)
  /\ cReady = <<>> /\ sReady = <<>>
  /\ proc # "handling"

Flow ==
  /\ gui = "idle" => executed = call /\ answer.id = call /\ NothingPending
  /\ gui = "waiting" => \/ executed = call - 1 /\ RequestSide
                        \/ executed = call /\ ResponseSide
  /\ answer.whole /\ request.whole

\* Which parts of the two processes have been started.
Started ==
  /\ link \in {"connecting", "refused"} =>
       /\ server = "listening"
       /\ toServer = <<>> /\ toClient = <<>> /\ cReader = "off"
  /\ server = "listening" => sReader = "off" /\ proc = "off"
  /\ link = "up" => cReader # "off"
  /\ link = "up" /\ server = "serving" => sReader # "off"
  /\ link = "up" => server # "dead"

\* The request that went down with a refused endpoint is gone.
Lost ==
  link \in {"connecting", "up"} /\ ~cAlive =>
    /\ gui = "waiting" /\ executed = call - 1
    /\ cWrites = <<>> /\ toServer = <<>> /\ sReady = <<>>
    /\ sReader # "body"

IInv == TypeOK /\ Flow /\ Started /\ Lost

-----------------------------------------------------------------------------
(***************************************************************************)
(* The four things that can happen to a stream.                            *)
(***************************************************************************)

\* encode() on a quiet direction puts the new frame into transit.
LEMMA EncodeStarts ==
  ASSUME NEW frame \in Frame, NEW writes \in Seq(Write),
         NEW wire \in Seq(FrameChunk), NEW reader, NEW dec \in Buffer,
         Quiet(writes, wire, reader)
  PROVE  StreamContinues(frame, Append(writes, [off |-> 0, total |-> frame.len + 1]),
                         wire, reader, dec)
  BY DEF Quiet, StreamContinues, WriteContinues, Taken, Frame, Write, Buffer

\* A send moves the next chunk from the buffer to the stream.
LEMMA SendContinues ==
  ASSUME NEW enc \in Frame, NEW writes \in Seq(Write),
         NEW wire \in Seq(FrameChunk), NEW reader, NEW dec \in Buffer,
         NEW next \in Write, NEW chunk \in FrameChunk,
         writes # <<>>,
         next.off = writes[1].off + 1, next.total = writes[1].total,
         chunk.id = enc.id, chunk.len = enc.len, chunk.at = writes[1].off,
         StreamContinues(enc, writes, wire, reader, dec)
  PROVE  StreamContinues(
           enc,
           IF next.off < next.total THEN Append(Tail(writes), next) ELSE Tail(writes),
           Append(wire, chunk), reader, dec)
<1> DEFINE more == IF next.off < next.total
                     THEN Append(Tail(writes), next) ELSE Tail(writes)
<1>1. PICK sent \in Nat : sent = Taken(reader, dec) + Len(wire)
  BY DEF Taken, Frame, Buffer
<1>2. Len(writes) > 0 /\ Len(writes) <= 1 /\ sent <= enc.len /\ enc.len \in Nat
  BY <1>1 DEF StreamContinues, WriteContinues, Frame
<1>3. writes[1].off = sent /\ writes[1].total = enc.len + 1
  BY <1>1, <1>2 DEF StreamContinues, WriteContinues
<1>4. Tail(writes) \in Seq(Write) /\ Tail(writes) = <<>>
  BY <1>2, HeadTailProperties, EmptySeq, LenProperties
<1>5. WriteContinues(enc, more, sent + 1)
  <2>1. CASE sent < enc.len
    <3>1. next.off < next.total
      BY <2>1, <1>2, <1>3
    <3>2. more = Append(<<>>, next)
      BY <3>1, <1>4
    <3>3. Append(<<>>, next) = <<next>>
      OBVIOUS
    <3> HIDE DEF more
    <3> QED BY <2>1, <3>2, <3>3, <1>2, <1>3 DEF WriteContinues
  <2>2. CASE sent = enc.len
    <3>1. ~(next.off < next.total)
      BY <2>2, <1>2, <1>3
    <3>2. more = <<>>
      BY <3>1, <1>4
    <3> HIDE DEF more
    <3> QED BY <3>2 DEF WriteContinues
  <2> QED BY <2>1, <2>2, <1>1, <1>2
<1>6. /\ Len(Append(wire, chunk)) = Len(wire) + 1
      /\ \A i \in 1 .. Len(wire) : Append(wire, chunk)[i] = wire[i]
      /\ Append(wire, chunk)[Len(wire) + 1] = chunk
  OBVIOUS
<1>7. Taken(reader, dec) \in Nat /\ Len(wire) \in Nat
  BY DEF Taken, Buffer
<1>8. ASSUME NEW i \in 1 .. Len(Append(wire, chunk))
      PROVE  /\ Append(wire, chunk)[i].id = enc.id
             /\ Append(wire, chunk)[i].len = enc.len
             /\ Append(wire, chunk)[i].at = Taken(reader, dec) + i - 1
  <2>1. CASE i \in 1 .. Len(wire)
    BY <2>1, <1>6 DEF StreamContinues
  <2>2. CASE i = Len(wire) + 1
    <3>1. Append(wire, chunk)[i] = chunk
      BY <2>2, <1>6
    <3>2. chunk.at = Taken(reader, dec) + i - 1
      BY <2>2, <1>1, <1>3, <1>7
    <3> QED BY <3>1, <3>2
  <2> QED BY <2>1, <2>2, <1>6
<1>9. Taken(reader, dec) + Len(Append(wire, chunk)) = sent + 1
  BY <1>1, <1>6, <1>7
<1> HIDE DEF more
<1>10. StreamContinues(enc, more, Append(wire, chunk), reader, dec)
  BY <1>2, <1>5, <1>8, <1>9 DEF StreamContinues
<1> QED BY <1>10 DEF more

\* Taking the header moves the first chunk from the stream to the buffer.
LEMMA HeaderContinues ==
  ASSUME NEW enc \in Frame, NEW writes \in Seq(Write),
         NEW wire \in Seq(FrameChunk), NEW dec \in Buffer, NEW buf \in Buffer,
         wire # <<>>,
         StreamContinues(enc, writes, wire, "header", dec),
         buf.id = wire[1].id, buf.len = wire[1].len, buf.got = 0,
         wire[1].at = 0 => buf.whole
  PROVE  StreamContinues(enc, writes, Tail(wire), "body", buf)
<1>1. 1 \in 1 .. Len(wire) /\ Len(wire) \in Nat /\ enc.len \in Nat
  BY DEF Frame
<1>2. Taken("body", buf) = 1 /\ Taken("header", dec) = 0
  BY DEF Taken
<1>3. wire[1].id = enc.id /\ wire[1].len = enc.len /\ wire[1].at = 0
  BY <1>1, <1>2 DEF StreamContinues
<1>4. /\ Len(Tail(wire)) = Len(wire) - 1
      /\ \A i \in 1 .. Len(Tail(wire)) : Tail(wire)[i] = wire[i + 1]
  BY <1>1
<1>5. ASSUME NEW i \in 1 .. Len(Tail(wire))
      PROVE  /\ Tail(wire)[i].id = enc.id /\ Tail(wire)[i].len = enc.len
             /\ Tail(wire)[i].at = Taken("body", buf) + i - 1
  <2>1. i + 1 \in 1 .. Len(wire)
    BY <1>1, <1>4
  <2>2. wire[i + 1].id = enc.id /\ wire[i + 1].len = enc.len /\ wire[i + 1].at = i
    BY <2>1, <1>2 DEF StreamContinues
  <2> QED BY <2>2, <1>2, <1>4
<1>6. Taken("body", buf) + Len(Tail(wire)) = Taken("header", dec) + Len(wire)
  BY <1>1, <1>2, <1>4
<1> QED BY <1>1, <1>3, <1>5, <1>6 DEF StreamContinues

\* Taking a body chunk moves it from the stream to the buffer.
LEMMA ChunkContinues ==
  ASSUME NEW enc \in Frame, NEW writes \in Seq(Write),
         NEW wire \in Seq(FrameChunk), NEW dec \in Buffer, NEW buf \in Buffer,
         wire # <<>>, dec.got < dec.len,
         StreamContinues(enc, writes, wire, "body", dec),
         buf.id = dec.id, buf.len = dec.len, buf.got = dec.got + 1,
         dec.whole /\ wire[1].id = dec.id /\ wire[1].at = dec.got + 1 => buf.whole
  PROVE  StreamContinues(enc, writes, Tail(wire), "body", buf)
<1>1. 1 \in 1 .. Len(wire) /\ Len(wire) \in Nat /\ enc.len \in Nat /\ dec.got \in Nat
  BY DEF Frame, Buffer
<1>2. Taken("body", buf) = dec.got + 2 /\ Taken("body", dec) = dec.got + 1
  BY <1>1 DEF Taken
<1>3. dec.id = enc.id /\ dec.len = enc.len /\ dec.whole
  BY DEF StreamContinues
<1>4. wire[1].id = enc.id /\ wire[1].at = dec.got + 1
  BY <1>1, <1>2 DEF StreamContinues
<1>5. /\ Len(Tail(wire)) = Len(wire) - 1
      /\ \A i \in 1 .. Len(Tail(wire)) : Tail(wire)[i] = wire[i + 1]
  BY <1>1
<1>6. ASSUME NEW i \in 1 .. Len(Tail(wire))
      PROVE  /\ Tail(wire)[i].id = enc.id /\ Tail(wire)[i].len = enc.len
             /\ Tail(wire)[i].at = Taken("body", buf) + i - 1
  <2>1. i + 1 \in 1 .. Len(wire)
    BY <1>1, <1>5
  <2>2. /\ wire[i + 1].id = enc.id /\ wire[i + 1].len = enc.len
        /\ wire[i + 1].at = dec.got + 1 + i
    BY <2>1, <1>1, <1>2 DEF StreamContinues
  <2> QED BY <2>2, <1>1, <1>2, <1>5
<1>7. Taken("body", buf) + Len(Tail(wire)) = Taken("body", dec) + Len(wire)
  BY <1>1, <1>2, <1>5
<1>8. buf.id = enc.id /\ buf.len = enc.len /\ buf.got <= buf.len /\ buf.whole
  BY <1>1, <1>3, <1>4
<1> QED BY <1>6, <1>7, <1>8 DEF StreamContinues

\* A complete body leaves the direction quiet: the stream was its last part.
LEMMA BodyEnds ==
  ASSUME NEW enc \in Frame, NEW writes \in Seq(Write),
         NEW wire \in Seq(FrameChunk), NEW dec \in Buffer,
         dec.got = dec.len,
         StreamContinues(enc, writes, wire, "body", dec)
  PROVE  /\ Quiet(writes, wire, "header")
         /\ dec.id = enc.id /\ dec.whole
<1>1. enc.len \in Nat /\ dec.got \in Nat /\ Len(wire) \in Nat /\ Len(writes) \in Nat
  BY DEF Frame, Buffer
<1>2. Taken("body", dec) = 1 + enc.len
  BY DEF StreamContinues, Taken
<1>3. Len(wire) <= 0
  BY <1>1, <1>2 DEF StreamContinues
<1>4. ~(Len(writes) > 0)
  BY <1>1, <1>2, <1>3 DEF StreamContinues, WriteContinues
<1> QED BY <1>1, <1>3, <1>4 DEF StreamContinues, Quiet

\* A reader that is started, stopped or left alone between two frames does not
\* disturb the stream.
LEMMA ReaderMayStart ==
  ASSUME NEW enc, NEW writes, NEW wire, NEW dec, NEW r1, NEW r2,
         r1 # "body", r2 # "body", StreamContinues(enc, writes, wire, r1, dec)
  PROVE  StreamContinues(enc, writes, wire, r2, dec)
  BY DEF StreamContinues, Taken

\* A write that fails leaves a stream that just ends.
LEMMA WriteGone ==
  ASSUME NEW enc, NEW writes, NEW wire, NEW reader, NEW dec,
         StreamContinues(enc, writes, wire, reader, dec)
  PROVE  StreamContinues(enc, <<>>, wire, reader, dec)
<1>1. ~(Len(<<>>) > 0) /\ Len(<<>>) <= 1
  OBVIOUS
<1> QED BY <1>1 DEF StreamContinues, WriteContinues

\* A stream that continues has at most one write under way.
LEMMA OneWrite ==
  ASSUME NEW enc, NEW writes \in Seq(Write), NEW wire, NEW reader, NEW dec,
         writes # <<>>, StreamContinues(enc, writes, wire, reader, dec)
  PROVE  Tail(writes) = <<>>
<1>1. Len(writes) <= 1
  BY DEF StreamContinues, WriteContinues
<1>2. Tail(writes) \in Seq(Write) /\ Len(Tail(writes)) = Len(writes) - 1
  BY HeadTailProperties
<1>3. ~(Len(Tail(writes)) > 0)
  BY <1>1, <1>2, LenProperties
<1> QED BY <1>2, <1>3, EmptySeq, LenProperties

\* Popping the only message of a deque empties it, and yields that message.
LEMMA PopOnly ==
  ASSUME NEW T, NEW s \in Seq(T), Len(s) > 0, Len(s) <= 1
  PROVE  Back(s) = s[1] /\ PopBack(s) = <<>>
<1>1. Len(s) \in Nat
  BY LenProperties
<1>2. s[Len(s)] = s[1]
  <2>1. ASSUME NEW n \in Nat, n > 0, n <= 1
        PROVE  n = 1
    BY <2>1
  <2> QED BY <1>1, <2>1, Zenon
<1>3. SubSeq(s, 1, Len(s) - 1) = <<>>
  BY <1>1, SubSeqEmpty
<1> QED BY <1>2, <1>3 DEF Back, PopBack

\* Popping a deque that is not empty leaves a deque.
LEMMA PopTyped ==
  ASSUME NEW T, NEW s \in Seq(T), s # <<>>
  PROVE  Back(s) \in T /\ PopBack(s) \in Seq(T)
<1>1. Len(s) \in Nat /\ Len(s) > 0
  BY EmptySeq, LenProperties
<1>2. Back(s) \in T
  BY <1>1, ElementOfSeq DEF Back
<1>3. \A i \in 1 .. Len(s) - 1 : s[i] \in T
  BY <1>1, ElementOfSeq
<1>4. PopBack(s) \in Seq(T)
  BY <1>1, <1>3, SubSeqProperties DEF PopBack
<1> QED BY <1>2, <1>4

\* Delivering into an empty deque leaves one message in it.
LEMMA DeliverHolds ==
  ASSUME NEW n, NEW m \in Msg, m.id = n, m.whole
  PROVE  Holds(Append(<<>>, m), n)
<1>1. Append(<<>>, m) = <<m>>
  OBVIOUS
<1>2. Len(<<m>>) > 0 /\ Len(<<m>>) <= 1 /\ <<m>>[1] = m
  OBVIOUS
<1> QED BY <1>1, <1>2 DEF Holds

-----------------------------------------------------------------------------
(***************************************************************************)
(* Type correctness.                                                       *)
(***************************************************************************)

\* The counters and buffers of the initial state have their types.
LEMMA TypeInit == Init => TypeOK
  BY SessionAssumption, EmptySeq
     DEF Init, TypeOK, C!CodecInit, S!CodecInit, C!EmptyFrame, S!EmptyFrame,
         C!EmptyBuffer, S!EmptyBuffer, C!NoMessage, Msg, Frame, Buffer

\* The write at the head of the queue, after one more chunk of it was sent.
LEMMA NextWrite ==
  ASSUME NEW writes \in Seq(Write), writes # <<>>
  PROVE  /\ [Head(writes) EXCEPT !.off = @ + 1] \in Write
         /\ [Head(writes) EXCEPT !.off = @ + 1].off = writes[1].off + 1
         /\ [Head(writes) EXCEPT !.off = @ + 1].total = writes[1].total
         /\ Head(writes) = writes[1] /\ Head(writes) \in Write
         /\ Tail(writes) \in Seq(Write)
<1>1. Head(writes) \in Write /\ Tail(writes) \in Seq(Write) /\ Head(writes) = writes[1]
  BY HeadTailProperties
<1>2. ASSUME NEW w \in Write
      PROVE  /\ [w EXCEPT !.off = @ + 1] \in Write
             /\ [w EXCEPT !.off = @ + 1].off = w.off + 1
             /\ [w EXCEPT !.off = @ + 1].total = w.total
  BY DEF Write
<1> QED BY <1>1, <1>2

\* The chunk at the head of the stream.
LEMMA NextChunk ==
  ASSUME NEW wire \in Seq(FrameChunk), wire # <<>>
  PROVE  /\ Head(wire) = wire[1] /\ Head(wire) \in FrameChunk
         /\ Tail(wire) \in Seq(FrameChunk)
  BY HeadTailProperties

\* The buffer that decodeHeader() makes of a header, and the buffer after
\* decodeBody() has read one more chunk into it.
Sized(c) == [id |-> c.id, len |-> c.len, got |-> 0, whole |-> c.at = 0]

Filled(dec, c) ==
  [dec EXCEPT !.got = @ + 1, !.whole = @ /\ c.id = dec.id /\ c.at = dec.got + 1]

LEMMA SizedBuffer ==
  ASSUME NEW c \in FrameChunk
  PROVE  /\ Sized(c) \in Buffer
         /\ Sized(c).id = c.id /\ Sized(c).len = c.len /\ Sized(c).got = 0
         /\ c.at = 0 => Sized(c).whole
  BY DEF FrameChunk, Buffer, Sized

LEMMA FilledBuffer ==
  ASSUME NEW c \in FrameChunk, NEW dec \in Buffer
  PROVE  /\ Filled(dec, c) \in Buffer
         /\ Filled(dec, c).id = dec.id /\ Filled(dec, c).len = dec.len
         /\ Filled(dec, c).got = dec.got + 1
         /\ dec.whole /\ c.id = dec.id /\ c.at = dec.got + 1 => Filled(dec, c).whole
<1>1. PICK b \in BOOLEAN : b = (dec.whole /\ c.id = dec.id /\ c.at = dec.got + 1)
  BY Zenon
<1>2. Filled(dec, c) = [dec EXCEPT !.got = dec.got + 1, !.whole = b]
  BY <1>1, Zenon DEF Filled
<1>3. Filled(dec, c).whole = b
  BY <1>2, Zenon DEF Buffer
<1>4. Filled(dec, c) \in Buffer
  <2>1. dec.got + 1 \in Nat
    BY DEF Buffer
  <2> QED BY <1>2, <2>1, Zenon DEF Buffer
<1>5. /\ Filled(dec, c).id = dec.id /\ Filled(dec, c).len = dec.len
      /\ Filled(dec, c).got = dec.got + 1
  BY <1>2, Zenon DEF Buffer
<1> QED BY <1>1, <1>3, <1>4, <1>5, Zenon

\* Every codec operation of the client keeps the types of the client's state.
LEMMA ClientCodecTyped ==
  ASSUME TypeOK, C!SendChunk \/ C!WriteFail \/ C!ReadHeader \/ C!ReadChunk
                 \/ C!Deliver \/ C!ReadFail
  PROVE  /\ cEnc' \in Frame /\ cWrites' \in Seq(Write)
         /\ toServer' \in Seq(FrameChunk) /\ toClient' \in Seq(FrameChunk)
         /\ cReader' \in {"off", "header", "body"}
         /\ cDec' \in Buffer /\ cReady' \in Seq(Msg) /\ cAlive' \in BOOLEAN
<1> USE DEF TypeOK
<1>1. CASE C!SendChunk
  <2>1. C!Chunk(cEnc, Head(cWrites).off) \in FrameChunk
    BY <1>1, NextWrite DEF C!SendChunk, C!Chunk, FrameChunk, Frame, Write
  <2>2. cWrites' \in Seq(Write)
    <3>1. \/ cWrites' = Append(Tail(cWrites), [Head(cWrites) EXCEPT !.off = @ + 1])
          \/ cWrites' = Tail(cWrites)
      BY <1>1, Zenon DEF C!SendChunk
    <3> QED BY <1>1, <3>1, NextWrite DEF C!SendChunk
  <2> QED BY <1>1, <2>1, <2>2 DEF C!SendChunk
<1>2. CASE C!WriteFail
  BY <1>2, HeadTailProperties DEF C!WriteFail
<1>3. CASE C!ReadHeader
  <2>1. cDec' = Sized(Head(toClient))
    BY <1>3 DEF C!ReadHeader, Sized
  <2> QED BY <1>3, <2>1, NextChunk, SizedBuffer DEF C!ReadHeader
<1>4. CASE C!ReadChunk
  <2>1. /\ Head(toClient) \in FrameChunk /\ Tail(toClient) \in Seq(FrameChunk)
        /\ cDec \in Buffer
    BY <1>4, NextChunk DEF C!ReadChunk
  <2>2. cDec' = Filled(cDec, Head(toClient))
    BY <1>4, Zenon DEF C!ReadChunk, Filled
  <2>3. cDec' \in Buffer
    BY <2>1, <2>2, FilledBuffer, Zenon
  <2>4. /\ toClient' = Tail(toClient)
        /\ cEnc' = cEnc /\ cWrites' = cWrites /\ toServer' = toServer
        /\ cReader' = cReader /\ cReady' = cReady /\ cAlive' = cAlive
    BY <1>4, Zenon DEF C!ReadChunk
  <2> QED BY <2>1, <2>3, <2>4
<1>5. CASE C!Deliver
  BY <1>5 DEF C!Deliver, Msg, Buffer
<1>6. CASE C!ReadFail
  BY <1>6 DEF C!ReadFail
<1> QED BY <1>1, <1>2, <1>3, <1>4, <1>5, <1>6

\* Every codec operation of the server keeps the types of the server's state.
LEMMA ServerCodecTyped ==
  ASSUME TypeOK, S!SendChunk \/ S!WriteFail \/ S!ReadHeader \/ S!ReadChunk
                 \/ S!Deliver \/ S!ReadFail
  PROVE  /\ sEnc' \in Frame /\ sWrites' \in Seq(Write)
         /\ toClient' \in Seq(FrameChunk) /\ toServer' \in Seq(FrameChunk)
         /\ sReader' \in {"off", "header", "body"}
         /\ sDec' \in Buffer /\ sReady' \in Seq(Msg) /\ sAlive' \in BOOLEAN
<1> USE DEF TypeOK
<1>1. CASE S!SendChunk
  <2>1. S!Chunk(sEnc, Head(sWrites).off) \in FrameChunk
    BY <1>1, NextWrite DEF S!SendChunk, S!Chunk, FrameChunk, Frame, Write
  <2>2. sWrites' \in Seq(Write)
    <3>1. \/ sWrites' = Append(Tail(sWrites), [Head(sWrites) EXCEPT !.off = @ + 1])
          \/ sWrites' = Tail(sWrites)
      BY <1>1, Zenon DEF S!SendChunk
    <3> QED BY <1>1, <3>1, NextWrite DEF S!SendChunk
  <2> QED BY <1>1, <2>1, <2>2 DEF S!SendChunk
<1>2. CASE S!WriteFail
  BY <1>2, HeadTailProperties DEF S!WriteFail
<1>3. CASE S!ReadHeader
  <2>1. sDec' = Sized(Head(toServer))
    BY <1>3 DEF S!ReadHeader, Sized
  <2> QED BY <1>3, <2>1, NextChunk, SizedBuffer DEF S!ReadHeader
<1>4. CASE S!ReadChunk
  <2>1. /\ Head(toServer) \in FrameChunk /\ Tail(toServer) \in Seq(FrameChunk)
        /\ sDec \in Buffer
    BY <1>4, NextChunk DEF S!ReadChunk
  <2>2. sDec' = Filled(sDec, Head(toServer))
    BY <1>4, Zenon DEF S!ReadChunk, Filled
  <2>3. sDec' \in Buffer
    BY <2>1, <2>2, FilledBuffer, Zenon
  <2>4. /\ toServer' = Tail(toServer)
        /\ sEnc' = sEnc /\ sWrites' = sWrites /\ toClient' = toClient
        /\ sReader' = sReader /\ sReady' = sReady /\ sAlive' = sAlive
    BY <1>4, Zenon DEF S!ReadChunk
  <2> QED BY <2>1, <2>3, <2>4
<1>5. CASE S!Deliver
  BY <1>5 DEF S!Deliver, Msg, Buffer
<1>6. CASE S!ReadFail
  BY <1>6 DEF S!ReadFail
<1> QED BY <1>1, <1>2, <1>3, <1>4, <1>5, <1>6

\* Every step keeps the types.
LEMMA TypeNext == TypeOK /\ [Next]_vars => TypeOK'
<1> SUFFICES ASSUME TypeOK, [Next]_vars PROVE TypeOK'
  OBVIOUS
<1>1. ASSUME NEW len \in BodyLens, GuiCall(len) PROVE TypeOK'
  BY <1>1, SessionAssumption
     DEF TypeOK, GuiCall, C!Encode, C!WriteOf, serverCodec, serverState, Frame, Write
<1>2. CASE GuiReturn
  <2>1. Back(cReady) \in Msg /\ PopBack(cReady) \in Seq(Msg)
    BY <1>2, PopTyped DEF GuiReturn, TypeOK
  <2> QED BY <1>2, <2>1 DEF TypeOK, GuiReturn, serverCodec, serverState
<1>3. CASE ConnectOk
  BY <1>3 DEF TypeOK, ConnectOk, caller, serverCodec, serverState
<1>4. CASE ConnectRefused
  BY <1>4, SessionAssumption, EmptySeq
     DEF TypeOK, ConnectRefused, caller, serverCodec, serverState
<1>5. CASE ClientSend \/ ClientWriteFail \/ ClientRead \/ ClientReadFail
  <2>1. /\ C!SendChunk \/ C!WriteFail \/ C!ReadHeader \/ C!ReadChunk
              \/ C!Deliver \/ C!ReadFail
        /\ UNCHANGED <<caller, link, attempt, serverCodec, serverState>>
    BY <1>5 DEF ClientSend, ClientWriteFail, ClientRead, ClientReadFail, ClientStep
  <2> QED BY <2>1, ClientCodecTyped DEF TypeOK, caller, serverCodec, serverState
<1>6. CASE Accept \/ AcceptWithoutDocker \/ LinkBreak \/ ProcCrash
  BY <1>6 DEF TypeOK, Accept, AcceptWithoutDocker, LinkBreak, ProcCrash, caller,
              clientCodec, serverCodec, serverState
<1>7. CASE ServerSend \/ ServerWriteFail \/ ServerRead \/ ServerReadFail
  <2>1. /\ S!SendChunk \/ S!WriteFail \/ S!ReadHeader \/ S!ReadChunk
              \/ S!Deliver \/ S!ReadFail
        /\ UNCHANGED <<caller, link, attempt, clientCodec, serverState>>
    BY <1>7 DEF ServerSend, ServerWriteFail, ServerRead, ServerReadFail, ServerStep
  <2> QED BY <2>1, ServerCodecTyped DEF TypeOK, caller, clientCodec, serverState
<1>8. CASE ProcPop
  <2>1. Back(sReady) \in Msg /\ PopBack(sReady) \in Seq(Msg)
    BY <1>8, PopTyped DEF ProcPop, TypeOK
  <2> QED BY <1>8, <2>1 DEF TypeOK, ProcPop, caller, clientCodec
<1>9. ASSUME NEW len \in BodyLens, ProcReply(len) PROVE TypeOK'
  BY <1>9, SessionAssumption
     DEF TypeOK, ProcReply, S!Encode, S!WriteOf, caller, clientCodec, Frame, Write, Msg
<1>10. CASE UNCHANGED vars
  BY <1>10 DEF TypeOK, vars, caller, clientCodec, serverCodec, serverState
<1> QED
  BY <1>1, <1>2, <1>3, <1>4, <1>5, <1>6, <1>7, <1>8, <1>9, <1>10 DEF Next

\* The variables keep the types the code gives them, and attempt never runs past
\* the endpoints that the resolver returned.
THEOREM TypeCorrect == Spec => []TypeOK
  BY TypeInit, TypeNext, PTL DEF Spec

-----------------------------------------------------------------------------
(***************************************************************************)
(* The invariant holds initially and is kept by every action.              *)
(***************************************************************************)

\* Initially there is no call, and no part but the client has been started.
LEMMA InvInit == Init => IInv
<1> SUFFICES ASSUME Init PROVE IInv
  OBVIOUS
<1>1. TypeOK
  BY TypeInit
<1>2. Flow
  BY DEF Init, C!CodecInit, S!CodecInit, C!NoMessage, Flow, NothingPending, Quiet
<1>3. Started /\ Lost
  BY DEF Init, C!CodecInit, S!CodecInit, Started, Lost
<1> QED BY <1>1, <1>2, <1>3 DEF IInv

\* What happens to the connection alone leaves the token where it is.
LEMMA FlowUnmoved ==
  ASSUME Flow, link # "down" \/ link' = "down",
         server' = "listening" => server = "listening",
         UNCHANGED <<caller, cEnc, cWrites, cReader, cDec, cReady, toServer, toClient,
                     sEnc, sWrites, sReader, sDec, sReady, proc, request, executed>>
  PROVE  Flow'
  BY DEF caller, Flow, NothingPending, RequestSide, RequestMoving, RequestQueued,
         ResponseSide, Handling, ResponseMoving, ResponseQueued, Quiet, Holds, InTransit

\* GuiCall creates the token: the new frame goes into transit.
LEMMA GuiCallInv ==
  ASSUME IInv, NEW len \in BodyLens, GuiCall(len)
  PROVE  (Flow /\ Started /\ Lost)'
<1>1. gui = "idle" /\ executed = call /\ NothingPending /\ call \in Nat
  BY DEF IInv, TypeOK, Flow, GuiCall
<1>2. cEnc' = [id |-> call + 1, len |-> len] /\ cEnc' \in Frame /\ cEnc'.id = call + 1
  BY <1>1, SessionAssumption DEF GuiCall, C!Encode, Frame
<1>3. cWrites' = Append(cWrites, [off |-> 0, total |-> cEnc'.len + 1])
  BY <1>2 DEF GuiCall, C!Encode, C!WriteOf
<1>4. StreamContinues(cEnc', cWrites', toServer, sReader, sDec)
  BY <1>1, <1>2, <1>3, EncodeStarts DEF NothingPending, IInv, TypeOK
<1>5. /\ gui' = "waiting" /\ call' = call + 1 /\ answer' = answer
      /\ UNCHANGED <<link, cReader, cDec, cReady, cAlive, toServer, toClient,
                     sEnc, sWrites, sReader, sDec, sReady, server, proc, request, executed>>
  BY DEF GuiCall, C!Encode, serverCodec, serverState
<1>6. RequestMoving'
  BY <1>1, <1>2, <1>4, <1>5 DEF RequestMoving, InTransit, NothingPending
<1>7. RequestSide' /\ executed' = call' - 1
  BY <1>1, <1>5, <1>6 DEF NothingPending, RequestSide, Quiet
<1>8. Flow'
  BY <1>5, <1>7 DEF Flow, IInv
<1>9. Started'
  BY <1>5 DEF Started, IInv
<1>10. Lost'
  BY <1>1, <1>5 DEF Lost, IInv
<1> QED BY <1>8, <1>9, <1>10

\* GuiReturn takes the token out of the client's deque.
LEMMA GuiReturnInv ==
  ASSUME IInv, GuiReturn
  PROVE  (Flow /\ Started /\ Lost)'
<1>1. gui = "waiting" /\ cReady # <<>> /\ call \in Int /\ cReady \in Seq(Msg)
  BY DEF IInv, TypeOK, GuiReturn
<1>2. executed = call /\ ResponseSide /\ ResponseQueued
  BY <1>1 DEF IInv, Flow, RequestSide, ResponseSide, Handling, ResponseMoving
<1>3. /\ Len(cReady) > 0 /\ Len(cReady) <= 1
      /\ cReady[1].id = call /\ cReady[1].whole
  BY <1>2 DEF ResponseQueued, Holds
<1>4. answer' = cReady[1] /\ cReady' = <<>>
  BY <1>1, <1>3, PopOnly DEF GuiReturn
<1>5. /\ gui' = "idle"
      /\ UNCHANGED <<call, link, cEnc, cWrites, cReader, cDec, cAlive, toServer, toClient,
                     sEnc, sWrites, sReader, sDec, sReady, server, proc, request, executed>>
  BY DEF GuiReturn, serverCodec, serverState
<1>6. Flow'
  BY <1>2, <1>3, <1>4, <1>5
     DEF Flow, IInv, ResponseSide, ResponseQueued, NothingPending, Quiet
<1>7. Started'
  BY <1>5 DEF Started, IInv
<1>8. Lost'
  BY <1>1, <1>2, <1>5 DEF Lost, IInv
<1> QED BY <1>6, <1>7, <1>8

\* ConnectOk starts the client's reader on a stream of which nothing was taken.
LEMMA ConnectOkInv ==
  ASSUME IInv, ConnectOk
  PROVE  (Flow /\ Started /\ Lost)'
<1>1. /\ link = "connecting" /\ link' = "up" /\ cReader' = "header"
      /\ UNCHANGED <<gui, call, answer, cEnc, cWrites, cDec, cReady, cAlive, toServer,
                     toClient, sEnc, sWrites, sReader, sDec, sReady, server, proc,
                     request, executed>>
  BY DEF ConnectOk, caller, serverCodec, serverState
<1>2. cReader = "off" /\ server = "listening"
  BY <1>1 DEF IInv, Started
<1>3. RequestMoving => RequestMoving'
  BY <1>1 DEF RequestMoving, InTransit
<1>4. ResponseMoving => ResponseMoving'
  BY <1>1, <1>2, ReaderMayStart DEF ResponseMoving, InTransit
<1>5. RequestSide => RequestSide'
  BY <1>1, <1>3 DEF RequestSide, RequestQueued, Quiet, Holds
<1>6. ResponseSide => ResponseSide'
  BY <1>1, <1>4 DEF ResponseSide, Handling, ResponseQueued, Quiet, Holds
<1>7. NothingPending => NothingPending'
  BY <1>1 DEF NothingPending, Quiet
<1>8. Flow'
  BY <1>1, <1>5, <1>6, <1>7 DEF Flow, IInv
<1>9. Started'
  BY <1>1, <1>2 DEF Started, IInv
<1>10. Lost'
  BY <1>1 DEF Lost, IInv
<1> QED BY <1>8, <1>9, <1>10

\* ConnectRefused takes the write that was queued behind the connect with it.
LEMMA ConnectRefusedInv ==
  ASSUME IInv, ConnectRefused
  PROVE  (Flow /\ Started /\ Lost)'
<1>1. /\ link = "connecting" /\ link' \in {"connecting", "refused"} /\ cWrites' = <<>>
      /\ cAlive' = (cAlive /\ cWrites = <<>> /\ attempt < Endpoints)
      /\ UNCHANGED <<gui, call, answer, cEnc, cReader, cDec, cReady, toServer, toClient,
                     sEnc, sWrites, sReader, sDec, sReady, server, proc, request, executed>>
  BY DEF ConnectRefused, caller, serverCodec, serverState
<1>2. link' = "connecting" => attempt < Endpoints
  BY <1>1 DEF ConnectRefused
<1>3. /\ server = "listening" /\ toServer = <<>> /\ toClient = <<>>
      /\ cReader = "off" /\ sReader = "off"
  BY <1>1 DEF IInv, Started
<1>4. RequestMoving => RequestMoving'
  BY <1>1, WriteGone DEF RequestMoving, InTransit
<1>5. ResponseMoving => ResponseMoving'
  BY <1>1 DEF ResponseMoving, InTransit
<1>6. RequestSide => RequestSide'
  BY <1>1, <1>4 DEF RequestSide, RequestQueued, Quiet, Holds
<1>7. ResponseSide => ResponseSide'
  BY <1>1, <1>5 DEF ResponseSide, Handling, ResponseQueued, Quiet, Holds
<1>8. NothingPending => NothingPending'
  BY <1>1 DEF NothingPending, Quiet
<1>9. Flow'
  BY <1>1, <1>6, <1>7, <1>8 DEF Flow, IInv
<1>10. Started'
  BY <1>1, <1>3 DEF Started, IInv
<1>11. cWrites # <<>> => gui = "waiting" /\ executed = call - 1 /\ sReady = <<>>
  BY DEF IInv, TypeOK, Flow, NothingPending, RequestSide, RequestMoving, RequestQueued,
         ResponseSide, Quiet
<1>12. Lost'
  <2> SUFFICES ASSUME link' = "connecting", ~cAlive' PROVE Lost'
    BY <1>1 DEF Lost
  <2>1. ~cAlive \/ cWrites # <<>>
    BY <1>1, <1>2
  <2>2. gui = "waiting" /\ executed = call - 1 /\ sReady = <<>>
    BY <2>1, <1>1, <1>11 DEF IInv, Lost
  <2> QED BY <2>2, <1>1, <1>3 DEF Lost
<1> QED BY <1>9, <1>10, <1>12

\* Accept starts the server's reader and its process thread.
LEMMA AcceptInv ==
  ASSUME IInv, Accept
  PROVE  (Flow /\ Started /\ Lost)'
<1>1. /\ server = "listening" /\ link \in {"up", "down"} /\ server' = "serving"
      /\ sReader' = "header" /\ proc' = "waiting"
      /\ UNCHANGED <<gui, call, answer, link, cEnc, cWrites, cReader, cDec, cReady,
                     cAlive, toServer, toClient, sEnc, sWrites, sDec, sReady, request,
                     executed>>
  BY DEF Accept, caller, clientCodec
<1>2. sReader = "off"
  BY <1>1 DEF IInv, Started
<1>3. RequestMoving => RequestMoving'
  BY <1>1, <1>2, ReaderMayStart DEF RequestMoving, InTransit
<1>4. ResponseMoving => ResponseMoving'
  BY <1>1 DEF ResponseMoving, InTransit
<1>5. RequestSide => RequestSide'
  BY <1>1, <1>3 DEF RequestSide, RequestQueued, Quiet, Holds
<1>6. ResponseSide /\ proc # "handling" => ResponseSide'
  BY <1>1, <1>4 DEF ResponseSide, Handling, ResponseQueued, Quiet, Holds
<1>7. NothingPending => NothingPending'
  BY <1>1 DEF NothingPending, Quiet
<1>8. Flow'
  BY <1>1, <1>5, <1>6, <1>7 DEF Flow, IInv, Started
<1>9. Started'
  BY <1>1, <1>2 DEF Started, IInv
<1>10. Lost'
  BY <1>1 DEF Lost, IInv
<1> QED BY <1>8, <1>9, <1>10

\* A broken connection, and a server process that dies.
LEMMA BreakInv ==
  ASSUME IInv, AcceptWithoutDocker \/ ProcCrash \/ LinkBreak
  PROVE  (Flow /\ Started /\ Lost)'
<1>1. /\ link' = "down" /\ server' \in {server, "dead"}
      /\ UNCHANGED <<caller, cEnc, cWrites, cReader, cDec, cReady, toServer, toClient,
                     sEnc, sWrites, sReader, sDec, sReady, proc, request, executed>>
  BY DEF AcceptWithoutDocker, ProcCrash, LinkBreak, clientCodec, serverCodec,
         serverState
<1>2. Flow'
  BY <1>1, FlowUnmoved DEF IInv
<1>3. Started' /\ Lost'
  BY <1>1 DEF Started, Lost, IInv
<1> QED BY <1>2, <1>3

\* The client sends: only a request can be in its buffer.
LEMMA ClientSendInv ==
  ASSUME IInv, ClientSend
  PROVE  (Flow /\ Started /\ Lost)'
<1> DEFINE next == [Head(cWrites) EXCEPT !.off = @ + 1]
           chunk == C!Chunk(cEnc, Head(cWrites).off)
<1>1. /\ link = "up" /\ cWrites # <<>>
      /\ toServer' = Append(toServer, chunk)
      /\ cWrites' = IF next.off < next.total THEN Append(Tail(cWrites), next)
                                             ELSE Tail(cWrites)
  BY Zenon DEF ClientSend, ClientStep, C!SendChunk
<1>2. UNCHANGED <<gui, call, answer, link, cEnc, cReader, cDec, cReady, cAlive, toClient,
                  sEnc, sWrites, sReader, sDec, sReady, server, proc, request, executed>>
  BY DEF ClientSend, ClientStep, C!SendChunk, caller, serverCodec, serverState
<1>3. /\ cEnc \in Frame /\ cWrites \in Seq(Write) /\ toServer \in Seq(FrameChunk)
      /\ sDec \in Buffer
  BY DEF IInv, TypeOK
<1>4. gui = "waiting" /\ executed = call - 1 /\ RequestSide /\ RequestMoving
  BY <1>1 DEF IInv, TypeOK, Flow, NothingPending, RequestSide, RequestQueued,
              ResponseSide, Quiet
<1>5. /\ next \in Write /\ next.off = cWrites[1].off + 1
      /\ next.total = cWrites[1].total
      /\ Head(cWrites) = cWrites[1] /\ cWrites[1] \in Write
  BY <1>1, <1>3, NextWrite
<1>6. /\ chunk.id = cEnc.id /\ chunk.len = cEnc.len /\ chunk.at = cWrites[1].off
      /\ chunk \in FrameChunk
  BY <1>3, <1>5 DEF C!Chunk, FrameChunk, Frame, Write
<1>7. cEnc.id = call /\ StreamContinues(cEnc, cWrites, toServer, sReader, sDec)
  BY <1>1, <1>4 DEF RequestMoving, InTransit
<1> HIDE DEF next, chunk
<1>8. StreamContinues(cEnc, cWrites', toServer', sReader, sDec)
  BY <1>1, <1>3, <1>5, <1>6, <1>7, SendContinues
<1>9. RequestSide'
  BY <1>2, <1>4, <1>7, <1>8 DEF RequestSide, RequestMoving, InTransit, Quiet
<1>10. Flow'
  BY <1>2, <1>4, <1>9 DEF IInv, Flow
<1>11. Started' /\ Lost'
  BY <1>1, <1>2 DEF IInv, Started, Lost
<1> QED BY <1>10, <1>11

\* A write of the client fails: what it had sent stays in the stream.
LEMMA ClientWriteFailInv ==
  ASSUME IInv, ClientWriteFail
  PROVE  (Flow /\ Started /\ Lost)'
<1>1. /\ link \in {"down", "refused"} /\ cWrites # <<>> /\ cWrites' = Tail(cWrites)
      /\ UNCHANGED <<gui, call, answer, link, cEnc, cReader, cDec, cReady, toServer,
                     toClient, sEnc, sWrites, sReader, sDec, sReady, server, proc,
                     request, executed>>
  BY DEF ClientWriteFail, ClientStep, C!WriteFail, caller, serverCodec, serverState
<1>2. gui = "waiting" /\ executed = call - 1 /\ RequestSide /\ RequestMoving
  BY <1>1 DEF IInv, TypeOK, Flow, NothingPending, RequestSide, RequestQueued,
              ResponseSide, Quiet
<1>3. /\ InTransit(call, cEnc, cWrites, toServer, sReader, sDec)'
      /\ server = "listening" =>
           StreamContinues(cEnc, cWrites', toServer, sReader, sDec)
  <2>1. CASE link = "down" /\ sReader = "off" /\ server # "listening"
    BY <2>1, <1>1, <1>2 DEF RequestMoving, InTransit
  <2>2. CASE StreamContinues(cEnc, cWrites, toServer, sReader, sDec)
    <3>1. cWrites' = <<>>
      BY <2>2, <1>1, OneWrite DEF IInv, TypeOK
    <3> QED BY <3>1, <2>2, <1>1, <1>2, WriteGone DEF RequestMoving, InTransit
  <2> QED BY <2>1, <2>2, <1>2 DEF RequestMoving, InTransit
<1>4. RequestSide'
  BY <1>1, <1>2, <1>3 DEF RequestSide, RequestMoving, Quiet
<1>5. Flow'
  BY <1>1, <1>2, <1>4 DEF IInv, Flow
<1>6. Started' /\ Lost'
  BY <1>1 DEF IInv, Started, Lost
<1> QED BY <1>5, <1>6

\* The client reads: only a response can be in the stream, and the complete body
\* becomes the one message in the client's deque.
LEMMA ClientReadInv ==
  ASSUME IInv, ClientRead
  PROVE  (Flow /\ Started /\ Lost)'
<1>1. /\ C!ReadHeader \/ C!ReadChunk \/ C!Deliver
      /\ UNCHANGED <<gui, call, answer, link, cEnc, cWrites, cAlive, toServer, sEnc,
                     sWrites, sReader, sDec, sReady, server, proc, request, executed>>
  BY Zenon DEF ClientRead, ClientStep, C!ReadHeader, C!ReadChunk, C!Deliver, caller,
               serverCodec, serverState
<1>2. /\ link \in {"up", "down"} /\ cReader # "off"
      /\ cReader = "body" \/ toClient # <<>>
  BY <1>1 DEF ClientRead, C!ReadHeader, C!ReadChunk, C!Deliver
<1>3. /\ sEnc \in Frame /\ sWrites \in Seq(Write) /\ toClient \in Seq(FrameChunk)
      /\ cDec \in Buffer
  BY DEF IInv, TypeOK
<1>4. gui = "waiting" /\ executed = call /\ ResponseSide /\ ResponseMoving
  BY <1>2 DEF IInv, TypeOK, Flow, NothingPending, RequestSide, ResponseSide, Handling,
              ResponseQueued, Quiet
<1>5. sEnc.id = call /\ StreamContinues(sEnc, sWrites, toClient, cReader, cDec)
  BY <1>2, <1>4 DEF ResponseMoving, InTransit
<1>6. ResponseMoving' \/ ResponseQueued'
  <2>1. CASE C!ReadHeader
    <3>1. /\ cReader = "header" /\ toClient # <<>> /\ cReader' = "body"
          /\ cDec' = Sized(Head(toClient))
          /\ toClient' = Tail(toClient) /\ cReady' = cReady
      BY <2>1 DEF C!ReadHeader, Sized
    <3>2. /\ cDec' \in Buffer /\ cDec'.id = toClient[1].id
          /\ cDec'.len = toClient[1].len /\ cDec'.got = 0
          /\ toClient[1].at = 0 => cDec'.whole
      BY <3>1, <1>3, NextChunk, SizedBuffer
    <3>3. StreamContinues(sEnc, sWrites, toClient', cReader', cDec')
      BY <3>1, <3>2, <1>3, <1>5, HeaderContinues
    <3> QED BY <3>1, <3>3, <1>1, <1>4, <1>5 DEF ResponseMoving, InTransit
  <2>2. CASE C!ReadChunk
    <3>1. /\ cReader = "body" /\ toClient # <<>> /\ cDec.got < cDec.len
          /\ cReader' = cReader /\ cDec' = Filled(cDec, Head(toClient))
          /\ toClient' = Tail(toClient) /\ cReady' = cReady
      BY <2>2, Zenon DEF C!ReadChunk, Filled
    <3>2. /\ cDec' \in Buffer /\ cDec'.id = cDec.id /\ cDec'.len = cDec.len
          /\ cDec'.got = cDec.got + 1
          /\ cDec.whole /\ toClient[1].id = cDec.id /\ toClient[1].at = cDec.got + 1
               => cDec'.whole
      BY <3>1, <1>3, NextChunk, FilledBuffer, Zenon
    <3>3. StreamContinues(sEnc, sWrites, toClient', cReader', cDec')
      BY <3>1, <3>2, <1>3, <1>5, ChunkContinues
    <3> QED BY <3>1, <3>3, <1>1, <1>4, <1>5 DEF ResponseMoving, InTransit
  <2>3. CASE C!Deliver
    <3>1. /\ cReader = "body" /\ cDec.got = cDec.len /\ cReader' = "header"
          /\ cReady' = Append(cReady, [id |-> cDec.id, whole |-> cDec.whole])
          /\ toClient' = toClient /\ cDec' = cDec
      BY <2>3, Zenon DEF C!Deliver
    <3>2. Quiet(sWrites, toClient, "header") /\ cDec.id = call /\ cDec.whole
      BY <3>1, <1>3, <1>5, BodyEnds
    <3>3. cReady = <<>>
      BY <1>4 DEF ResponseMoving
    <3>4. Holds(cReady', call)
      <4>1. [id |-> cDec.id, whole |-> cDec.whole] \in Msg
        BY <1>3 DEF Buffer, Msg
      <4> QED BY <4>1, <3>1, <3>2, <3>3, DeliverHolds
    <3> QED BY <3>1, <3>2, <3>4, <1>1, <1>4 DEF ResponseMoving, ResponseQueued, Quiet
  <2> QED BY <2>1, <2>2, <2>3, <1>1
<1>7. ResponseSide'
  BY <1>1, <1>4, <1>6 DEF ResponseSide, Quiet
<1>8. Flow'
  BY <1>1, <1>4, <1>7 DEF IInv, Flow
<1>9. cReader' # "off" /\ (toClient = <<>> => toClient' = <<>>)
  BY <1>1, <1>2 DEF C!ReadHeader, C!ReadChunk, C!Deliver
<1>10. Started' /\ Lost'
  BY <1>1, <1>2, <1>9 DEF IInv, Started, Lost
<1> QED BY <1>8, <1>10

\* The client's reader gives up on a connection that is down.
LEMMA ClientReadFailInv ==
  ASSUME IInv, ClientReadFail
  PROVE  (Flow /\ Started /\ Lost)'
<1>1. /\ link = "down" /\ cReader' = "off"
      /\ UNCHANGED <<gui, call, answer, link, cEnc, cWrites, cDec, cReady, toServer,
                     toClient, sEnc, sWrites, sReader, sDec, sReady, server, proc,
                     request, executed>>
  BY DEF ClientReadFail, ClientStep, C!ReadFail, caller, serverCodec, serverState
<1>2. ResponseMoving => ResponseMoving'
  BY <1>1 DEF ResponseMoving, InTransit
<1>3. RequestSide => RequestSide'
  BY <1>1 DEF RequestSide, RequestMoving, RequestQueued, InTransit, Quiet, Holds
<1>4. ResponseSide => ResponseSide'
  BY <1>1, <1>2 DEF ResponseSide, Handling, ResponseQueued, Quiet, Holds
<1>5. NothingPending => NothingPending'
  BY <1>1 DEF NothingPending, Quiet
<1>6. Flow'
  BY <1>1, <1>3, <1>4, <1>5 DEF IInv, Flow
<1>7. Started' /\ Lost'
  BY <1>1 DEF IInv, Started, Lost
<1> QED BY <1>6, <1>7

\* The server sends: only a response can be in its buffer.
LEMMA ServerSendInv ==
  ASSUME IInv, ServerSend
  PROVE  (Flow /\ Started /\ Lost)'
<1> DEFINE next == [Head(sWrites) EXCEPT !.off = @ + 1]
           chunk == S!Chunk(sEnc, Head(sWrites).off)
<1>1. /\ link = "up" /\ sWrites # <<>>
      /\ toClient' = Append(toClient, chunk)
      /\ sWrites' = IF next.off < next.total THEN Append(Tail(sWrites), next)
                                             ELSE Tail(sWrites)
  BY Zenon DEF ServerSend, ServerStep, S!SendChunk
<1>2. UNCHANGED <<gui, call, answer, link, cEnc, cWrites, cReader, cDec, cReady, cAlive,
                  toServer, sEnc, sReader, sDec, sReady, server, proc, request, executed>>
  BY DEF ServerSend, ServerStep, S!SendChunk, caller, clientCodec, serverState
<1>3. /\ sEnc \in Frame /\ sWrites \in Seq(Write) /\ toClient \in Seq(FrameChunk)
      /\ cDec \in Buffer
  BY DEF IInv, TypeOK
<1>4. gui = "waiting" /\ executed = call /\ ResponseSide /\ ResponseMoving
  BY <1>1 DEF IInv, TypeOK, Flow, NothingPending, RequestSide, ResponseSide, Handling,
              ResponseQueued, Quiet
<1>5. /\ next \in Write /\ next.off = sWrites[1].off + 1
      /\ next.total = sWrites[1].total
      /\ Head(sWrites) = sWrites[1] /\ sWrites[1] \in Write
  BY <1>1, <1>3, NextWrite
<1>6. /\ chunk.id = sEnc.id /\ chunk.len = sEnc.len /\ chunk.at = sWrites[1].off
      /\ chunk \in FrameChunk
  BY <1>3, <1>5 DEF S!Chunk, FrameChunk, Frame, Write
<1>7. sEnc.id = call /\ StreamContinues(sEnc, sWrites, toClient, cReader, cDec)
  BY <1>1, <1>4 DEF ResponseMoving, InTransit
<1> HIDE DEF next, chunk
<1>8. StreamContinues(sEnc, sWrites', toClient', cReader, cDec)
  BY <1>1, <1>3, <1>5, <1>6, <1>7, SendContinues
<1>9. ResponseSide'
  BY <1>2, <1>4, <1>7, <1>8 DEF ResponseSide, ResponseMoving, InTransit, Quiet
<1>10. Flow'
  BY <1>2, <1>4, <1>9 DEF IInv, Flow
<1>11. server = "serving"
  BY DEF ServerSend, ServerStep
<1>12. Started' /\ Lost'
  BY <1>1, <1>2, <1>11 DEF IInv, Started, Lost
<1> QED BY <1>10, <1>12

\* A write of the server fails: what it had sent stays in the stream.
LEMMA ServerWriteFailInv ==
  ASSUME IInv, ServerWriteFail
  PROVE  (Flow /\ Started /\ Lost)'
<1>1. /\ link = "down" /\ sWrites # <<>> /\ sWrites' = Tail(sWrites)
      /\ UNCHANGED <<gui, call, answer, link, cEnc, cWrites, cReader, cDec, cReady,
                     toServer, toClient, sEnc, sReader, sDec, sReady, server, proc,
                     request, executed>>
  BY DEF ServerWriteFail, ServerStep, S!WriteFail, caller, clientCodec, serverState
<1>2. gui = "waiting" /\ executed = call /\ ResponseSide /\ ResponseMoving
  BY <1>1 DEF IInv, TypeOK, Flow, NothingPending, RequestSide, ResponseSide, Handling,
              ResponseQueued, Quiet
<1>3. InTransit(call, sEnc, sWrites, toClient, cReader, cDec)'
  <2>1. CASE cReader = "off"
    BY <2>1, <1>1, <1>2 DEF ResponseMoving, InTransit
  <2>2. CASE StreamContinues(sEnc, sWrites, toClient, cReader, cDec)
    <3>1. sWrites' = <<>>
      BY <2>2, <1>1, OneWrite DEF IInv, TypeOK
    <3> QED BY <3>1, <2>2, <1>1, <1>2, WriteGone DEF ResponseMoving, InTransit
  <2> QED BY <2>1, <2>2, <1>2 DEF ResponseMoving, InTransit
<1>4. ResponseSide'
  BY <1>1, <1>2, <1>3 DEF ResponseSide, ResponseMoving, Quiet
<1>5. Flow'
  BY <1>1, <1>2, <1>4 DEF IInv, Flow
<1>6. Started' /\ Lost'
  BY <1>1 DEF IInv, Started, Lost
<1> QED BY <1>5, <1>6

\* The server reads: only a request can be in the stream, and the complete body
\* becomes the one message in the server's deque.
LEMMA ServerReadInv ==
  ASSUME IInv, ServerRead
  PROVE  (Flow /\ Started /\ Lost)'
<1>1. /\ server = "serving"
      /\ S!ReadHeader \/ S!ReadChunk \/ S!Deliver
      /\ UNCHANGED <<gui, call, answer, link, cEnc, cWrites, cReader, cDec, cReady, cAlive,
                     toClient, sEnc, sWrites, server, proc, request, executed>>
  BY Zenon DEF ServerRead, ServerStep, S!ReadHeader, S!ReadChunk, S!Deliver, caller,
               clientCodec, serverState
<1>2. sReader # "off" /\ (sReader = "body" \/ toServer # <<>>)
  BY <1>1 DEF S!ReadHeader, S!ReadChunk, S!Deliver
<1>3. /\ cEnc \in Frame /\ cWrites \in Seq(Write) /\ toServer \in Seq(FrameChunk)
      /\ sDec \in Buffer
  BY DEF IInv, TypeOK
<1>4. gui = "waiting" /\ executed = call - 1 /\ RequestSide /\ RequestMoving
  BY <1>2 DEF IInv, TypeOK, Flow, NothingPending, RequestSide, RequestQueued,
              ResponseSide, Quiet
<1>5. cEnc.id = call /\ StreamContinues(cEnc, cWrites, toServer, sReader, sDec)
  BY <1>2, <1>4 DEF RequestMoving, InTransit
<1>6. RequestMoving' \/ RequestQueued'
  <2>1. CASE S!ReadHeader
    <3>1. /\ sReader = "header" /\ toServer # <<>> /\ sReader' = "body"
          /\ sDec' = Sized(Head(toServer))
          /\ toServer' = Tail(toServer) /\ sReady' = sReady
      BY <2>1 DEF S!ReadHeader, Sized
    <3>2. /\ sDec' \in Buffer /\ sDec'.id = toServer[1].id
          /\ sDec'.len = toServer[1].len /\ sDec'.got = 0
          /\ toServer[1].at = 0 => sDec'.whole
      BY <3>1, <1>3, NextChunk, SizedBuffer
    <3>3. StreamContinues(cEnc, cWrites, toServer', sReader', sDec')
      BY <3>1, <3>2, <1>3, <1>5, HeaderContinues
    <3> QED BY <3>1, <3>3, <1>1, <1>4, <1>5 DEF RequestMoving, InTransit
  <2>2. CASE S!ReadChunk
    <3>1. /\ sReader = "body" /\ toServer # <<>> /\ sDec.got < sDec.len
          /\ sReader' = sReader /\ sDec' = Filled(sDec, Head(toServer))
          /\ toServer' = Tail(toServer) /\ sReady' = sReady
      BY <2>2, Zenon DEF S!ReadChunk, Filled
    <3>2. /\ sDec' \in Buffer /\ sDec'.id = sDec.id /\ sDec'.len = sDec.len
          /\ sDec'.got = sDec.got + 1
          /\ sDec.whole /\ toServer[1].id = sDec.id /\ toServer[1].at = sDec.got + 1
               => sDec'.whole
      BY <3>1, <1>3, NextChunk, FilledBuffer, Zenon
    <3>3. StreamContinues(cEnc, cWrites, toServer', sReader', sDec')
      BY <3>1, <3>2, <1>3, <1>5, ChunkContinues
    <3> QED BY <3>1, <3>3, <1>1, <1>4, <1>5 DEF RequestMoving, InTransit
  <2>3. CASE S!Deliver
    <3>1. /\ sReader = "body" /\ sDec.got = sDec.len /\ sReader' = "header"
          /\ sReady' = Append(sReady, [id |-> sDec.id, whole |-> sDec.whole])
          /\ toServer' = toServer /\ sDec' = sDec
      BY <2>3, Zenon DEF S!Deliver
    <3>2. Quiet(cWrites, toServer, "header") /\ sDec.id = call /\ sDec.whole
      BY <3>1, <1>3, <1>5, BodyEnds
    <3>3. sReady = <<>>
      BY <1>4 DEF RequestMoving
    <3>4. Holds(sReady', call)
      <4>1. [id |-> sDec.id, whole |-> sDec.whole] \in Msg
        BY <1>3 DEF Buffer, Msg
      <4> QED BY <4>1, <3>1, <3>2, <3>3, DeliverHolds
    <3> QED BY <3>1, <3>2, <3>4, <1>1, <1>4 DEF RequestMoving, RequestQueued, Quiet
  <2> QED BY <2>1, <2>2, <2>3, <1>1
<1>7. RequestSide'
  BY <1>1, <1>4, <1>6 DEF RequestSide, Quiet
<1>8. Flow'
  BY <1>1, <1>4, <1>7 DEF IInv, Flow
<1>9. /\ sReader' # "off" /\ (toServer = <<>> => toServer' = <<>>)
      /\ (toServer = <<>> /\ sReader # "body") => FALSE
  BY <1>1, <1>2 DEF S!ReadHeader, S!ReadChunk, S!Deliver
<1>10. Started' /\ Lost'
  BY <1>1, <1>2, <1>9 DEF IInv, Started, Lost
<1> QED BY <1>8, <1>10

\* The server's reader gives up on a connection that is down.
LEMMA ServerReadFailInv ==
  ASSUME IInv, ServerReadFail
  PROVE  (Flow /\ Started /\ Lost)'
<1>1. /\ link = "down" /\ sReader' = "off" /\ server = "serving"
      /\ UNCHANGED <<gui, call, answer, link, cEnc, cWrites, cReader, cDec, cReady,
                     toServer, toClient, sEnc, sWrites, sDec, sReady, server, proc,
                     request, executed>>
  BY DEF ServerReadFail, ServerStep, S!ReadFail, caller, clientCodec, serverState
<1>2. RequestMoving => RequestMoving'
  BY <1>1 DEF RequestMoving, InTransit
<1>3. RequestSide => RequestSide'
  BY <1>1, <1>2 DEF RequestSide, RequestQueued, Quiet, Holds
<1>4. ResponseSide => ResponseSide'
  BY <1>1 DEF ResponseSide, Handling, ResponseMoving, ResponseQueued, InTransit, Quiet,
              Holds
<1>5. NothingPending => NothingPending'
  BY <1>1 DEF NothingPending, Quiet
<1>6. Flow'
  BY <1>1, <1>3, <1>4, <1>5 DEF IInv, Flow
<1>7. Started' /\ Lost'
  BY <1>1 DEF IInv, Started, Lost
<1> QED BY <1>6, <1>7

\* ProcPop takes the request out of the server's deque and starts to execute it.
LEMMA ProcPopInv ==
  ASSUME IInv, ProcPop
  PROVE  (Flow /\ Started /\ Lost)'
<1>1. /\ server = "serving" /\ proc = "waiting" /\ sReady # <<>> /\ proc' = "handling"
      /\ executed' = executed + 1
      /\ request' = Back(sReady) /\ sReady' = PopBack(sReady)
      /\ UNCHANGED <<gui, call, answer, link, cEnc, cWrites, cReader, cDec, cReady, cAlive,
                     toServer, toClient, sEnc, sWrites, sReader, sDec, server>>
  BY DEF ProcPop, caller, clientCodec
<1>2. gui = "waiting" /\ executed = call - 1 /\ RequestSide /\ RequestQueued
  BY <1>1 DEF IInv, TypeOK, Flow, NothingPending, RequestSide, RequestMoving,
              ResponseSide
<1>3. /\ Len(sReady) > 0 /\ Len(sReady) <= 1
      /\ sReady[1].id = call /\ sReady[1].whole
  BY <1>2 DEF RequestQueued, Holds
<1>4. request' = sReady[1] /\ sReady' = <<>>
  BY <1>1, <1>3, PopOnly DEF IInv, TypeOK
<1>5. executed' = call' /\ call \in Int
  BY <1>1, <1>2 DEF IInv, TypeOK
<1>6. ResponseSide'
  BY <1>1, <1>2, <1>3, <1>4
     DEF RequestSide, RequestQueued, ResponseSide, Handling, Quiet
<1>7. Flow'
  BY <1>1, <1>2, <1>3, <1>4, <1>5, <1>6 DEF IInv, Flow
<1>8. Started' /\ Lost'
  BY <1>1, <1>2 DEF IInv, Started, Lost
<1> QED BY <1>7, <1>8

\* ProcReply puts the response into transit.
LEMMA ProcReplyInv ==
  ASSUME IInv, NEW len \in BodyLens, ProcReply(len)
  PROVE  (Flow /\ Started /\ Lost)'
<1>1. /\ server = "serving" /\ proc = "handling" /\ proc' = "waiting"
      /\ UNCHANGED <<gui, call, answer, link, cEnc, cWrites, cReader, cDec, cReady, cAlive,
                     toServer, toClient, sReader, sDec, sReady, server, request, executed>>
  BY DEF ProcReply, S!Encode, caller, clientCodec
<1>2. gui = "waiting" /\ executed = call /\ ResponseSide /\ Handling
  BY <1>1 DEF IInv, TypeOK, Flow, NothingPending, RequestSide, ResponseSide,
              ResponseMoving, ResponseQueued
<1>3. sEnc' = [id |-> request.id, len |-> len] /\ sEnc' \in Frame /\ sEnc'.id = call
  BY <1>2, SessionAssumption DEF ProcReply, S!Encode, Frame, Handling, IInv, TypeOK, Msg
<1>4. sWrites' = Append(sWrites, [off |-> 0, total |-> sEnc'.len + 1])
  BY <1>3 DEF ProcReply, S!Encode, S!WriteOf
<1>5. StreamContinues(sEnc', sWrites', toClient, cReader, cDec)
  BY <1>2, <1>3, <1>4, EncodeStarts DEF Handling, IInv, TypeOK
<1>6. ResponseMoving'
  BY <1>1, <1>2, <1>3, <1>5 DEF ResponseMoving, InTransit, Handling
<1>7. ResponseSide'
  BY <1>1, <1>2, <1>6 DEF ResponseSide, Quiet
<1>8. Flow'
  BY <1>1, <1>2, <1>7 DEF IInv, Flow
<1>9. Started' /\ Lost'
  BY <1>1 DEF IInv, Started, Lost
<1> QED BY <1>8, <1>9

\* Every step keeps the invariant.
LEMMA InvNext == IInv /\ [Next]_vars => IInv'
<1> SUFFICES ASSUME IInv, [Next]_vars PROVE IInv'
  OBVIOUS
<1>1. TypeOK'
  BY TypeNext DEF IInv
<1>2. CASE UNCHANGED vars
  <2>1. /\ UNCHANGED <<caller, link, cEnc, cWrites, cReader, cDec, cReady, cAlive,
                       toServer, toClient, sEnc, sWrites, sReader, sDec, sReady>>
        /\ UNCHANGED <<server, proc, request, executed>>
    BY <1>2 DEF vars, clientCodec, serverCodec, serverState
  <2>2. Flow'
    BY <2>1 DEF caller, IInv, Flow, NothingPending, RequestSide, RequestMoving,
                RequestQueued, ResponseSide, Handling, ResponseMoving, ResponseQueued,
                Quiet, Holds, InTransit
  <2>3. Started' /\ Lost'
    BY <2>1 DEF caller, IInv, Started, Lost
  <2> QED BY <1>1, <2>2, <2>3 DEF IInv
<1>3. CASE Next
  <2>1. (Flow /\ Started /\ Lost)'
    BY <1>3, GuiCallInv, GuiReturnInv, ConnectOkInv, ConnectRefusedInv, ClientSendInv,
       ClientWriteFailInv, ClientReadInv, ClientReadFailInv, AcceptInv, BreakInv,
       ServerSendInv, ServerWriteFailInv, ServerReadInv, ServerReadFailInv, ProcPopInv,
       ProcReplyInv DEF Next
  <2> QED BY <1>1, <2>1 DEF IInv
<1> QED BY <1>2, <1>3

\* The inductive invariant holds throughout.
THEOREM Invariant == Spec => []IInv
  BY InvInit, InvNext, PTL DEF Spec

-----------------------------------------------------------------------------
(***************************************************************************)
(* What follows from the invariant.                                        *)
(***************************************************************************)

\* The two last-in-first-out deques never hold two messages, nor one beside the
\* request that the process thread is handling.
THEOREM SingleSlotHolds == Spec => []SingleSlot
<1>1. IInv => SingleSlot
  <2> SUFFICES ASSUME IInv PROVE SingleSlot
    OBVIOUS
  <2>1. Len(<<>>) = 0
    OBVIOUS
  <2>2. CASE RequestSide
    BY <2>1, <2>2 DEF IInv, TypeOK, RequestSide, RequestMoving, RequestQueued, Holds,
                      SingleSlot
  <2>3. CASE ResponseSide
    BY <2>1, <2>3 DEF IInv, TypeOK, ResponseSide, Handling, ResponseMoving,
                      ResponseQueued, Holds, SingleSlot
  <2>4. CASE NothingPending
    BY <2>1, <2>4 DEF NothingPending, SingleSlot
  <2> QED BY <2>2, <2>3, <2>4 DEF IInv, TypeOK, Flow
<1> QED BY <1>1, Invariant, PTL

\* Neither encode() runs into a write that still points into its buffer.
THEOREM BufferNotOverwrittenHolds == Spec => BufferNotOverwritten
<1>1. IInv /\ [Next]_vars =>
        [/\ cEnc' # cEnc => cWrites = <<>>
         /\ sEnc' # sEnc => sWrites = <<>>]_vars
  <2> SUFFICES ASSUME IInv, Next
               PROVE  /\ cEnc' # cEnc => cWrites = <<>>
                      /\ sEnc' # sEnc => sWrites = <<>>
    OBVIOUS
  <2>1. ASSUME NEW len \in BodyLens, GuiCall(len)
        PROVE  cWrites = <<>> /\ sEnc' = sEnc
    BY <2>1 DEF GuiCall, serverCodec, IInv, Flow, NothingPending, Quiet
  <2>2. ASSUME NEW len \in BodyLens, ProcReply(len)
        PROVE  sWrites = <<>> /\ cEnc' = cEnc
    BY <2>2 DEF ProcReply, clientCodec, IInv, TypeOK, Flow, NothingPending, RequestSide,
                ResponseSide, Handling, ResponseMoving, ResponseQueued, Quiet
  <2>3. CASE GuiReturn \/ ConnectOk \/ ConnectRefused \/ Accept \/ AcceptWithoutDocker
             \/ ProcPop \/ ProcCrash \/ LinkBreak
    BY <2>3 DEF GuiReturn, ConnectOk, ConnectRefused, Accept, AcceptWithoutDocker,
                ProcPop, ProcCrash, LinkBreak, clientCodec, serverCodec
  <2>4. CASE ClientSend \/ ClientWriteFail \/ ClientRead \/ ClientReadFail
    BY <2>4, Zenon
       DEF ClientSend, ClientWriteFail, ClientRead, ClientReadFail, ClientStep,
           C!SendChunk, C!WriteFail, C!ReadHeader, C!ReadChunk, C!Deliver, C!ReadFail,
           serverCodec
  <2>5. CASE ServerSend \/ ServerWriteFail \/ ServerRead \/ ServerReadFail
    BY <2>5, Zenon
       DEF ServerSend, ServerWriteFail, ServerRead, ServerReadFail, ServerStep,
           S!SendChunk, S!WriteFail, S!ReadHeader, S!ReadChunk, S!Deliver, S!ReadFail,
           clientCodec
  <2> QED BY <2>1, <2>2, <2>3, <2>4, <2>5 DEF Next
<1> QED BY <1>1, Invariant, PTL DEF Spec, BufferNotOverwritten

\* Every message that leaves a codec was read as exactly the chunks of one frame.
THEOREM FramesWholeHolds == Spec => []FramesWhole
<1>1. IInv => FramesWhole
  <2> SUFFICES ASSUME IInv PROVE FramesWhole
    OBVIOUS
  <2>1. answer.whole /\ request.whole
    BY DEF IInv, Flow
  <2>2. ASSUME NEW s \in Seq(Msg), s = <<>> \/ Holds(s, call)
        PROVE  \A i \in 1 .. Len(s) : s[i].whole
    <3> SUFFICES ASSUME NEW i \in 1 .. Len(s) PROVE s[i].whole
      OBVIOUS
    <3>1. Len(s) \in Nat /\ s # <<>>
      BY EmptySeq, LenProperties
    <3>2. i \in Nat /\ i > 0 /\ i <= 1
      BY <2>2, <3>1 DEF Holds
    <3>3. i = 1
      BY <3>2
    <3> QED BY <2>2, <3>1, <3>3 DEF Holds
  <2>3. cReady = <<>> \/ Holds(cReady, call)
    BY DEF IInv, TypeOK, Flow, NothingPending, RequestSide, ResponseSide, Handling,
           ResponseMoving, ResponseQueued
  <2>4. sReady = <<>> \/ Holds(sReady, call)
    BY DEF IInv, TypeOK, Flow, NothingPending, RequestSide, RequestMoving, RequestQueued,
           ResponseSide
  <2> QED BY <2>1, <2>2, <2>3, <2>4 DEF FramesWhole, IInv, TypeOK
<1> QED BY <1>1, Invariant, PTL

\* A call that has returned was given the answer to its own request.
THEOREM OwnAnswerHolds == Spec => []OwnAnswer
<1>1. IInv => OwnAnswer
  BY DEF IInv, Flow, OwnAnswer
<1> QED BY <1>1, Invariant, PTL

\* A connected client whose is_alive_ is lowered waits for a request that is
\* nowhere: not in the buffer, not on the wire, not in the server.
THEOREM LostRequestIsSilentHolds == Spec => []LostRequestIsSilent
<1>1. IInv => LostRequestIsSilent
  BY DEF IInv, Lost, LostRequestIsSilent
<1> QED BY <1>1, Invariant, PTL

\* The session, with its buffers, threads and failures, implements the abstract
\* request/reply service.
THEOREM Refinement == Spec => ImplementsRequestReply
<1>1. Init => RR!Init
  BY DEF Init, C!NoMessage, RR!Init
<1>2. IInv /\ [Next]_vars => [RR!Next]_(RR!vars)
  <2> SUFFICES ASSUME IInv, [Next]_vars PROVE [RR!Next]_(RR!vars)
    OBVIOUS
  <2>1. call \in Nat /\ executed \in Nat /\ gui \in {"idle", "waiting"}
    BY DEF IInv, TypeOK
  <2>2. ASSUME NEW len \in BodyLens, GuiCall(len) PROVE RR!Call
    <3>1. gui = "idle" /\ executed = call
      BY <2>2 DEF GuiCall, IInv, Flow
    <3>2. /\ gui' = "waiting" /\ call' = call + 1 /\ executed' = executed
          /\ answer' = answer
      BY <2>2 DEF GuiCall, serverState
    <3> QED BY <2>1, <3>1, <3>2 DEF RR!Call
  <2>3. CASE ProcPop
    <3>1. /\ gui = "waiting" /\ executed = call - 1 /\ gui' = gui /\ call' = call
          /\ executed' = executed + 1 /\ answer' = answer
      BY <2>3 DEF ProcPop, caller, IInv, TypeOK, Flow, NothingPending, ResponseSide
    <3>2. RR!Execute
      BY <2>1, <3>1 DEF RR!Execute
    <3> QED BY <3>2 DEF RR!Next
  <2>4. CASE GuiReturn
    <3>1. gui = "waiting" /\ cReady # <<>>
      BY <2>4 DEF GuiReturn
    <3>2. executed = call /\ ResponseQueued
      BY <3>1 DEF IInv, Flow, RequestSide, ResponseSide, Handling, ResponseMoving
    <3>3. answer' = cReady[1] /\ cReady[1].id = call
      BY <2>4, <3>2, PopOnly DEF GuiReturn, ResponseQueued, Holds, IInv, TypeOK
    <3>4. gui' = "idle" /\ call' = call /\ executed' = executed
      BY <2>4 DEF GuiReturn, serverState
    <3>5. RR!Return
      BY <2>1, <3>1, <3>2, <3>3, <3>4 DEF RR!Return
    <3> QED BY <3>5 DEF RR!Next
  <2>5. CASE UNCHANGED <<gui, call, answer, executed>>
    BY <2>5 DEF RR!vars
  <2>6. CASE ConnectOk \/ ConnectRefused \/ Accept \/ AcceptWithoutDocker
             \/ ProcCrash \/ LinkBreak
    BY <2>5, <2>6 DEF ConnectOk, ConnectRefused, Accept, AcceptWithoutDocker, ProcCrash,
                      LinkBreak, caller, serverState
  <2>7. CASE ClientSend \/ ClientWriteFail \/ ClientRead \/ ClientReadFail
    BY <2>5, <2>7 DEF ClientSend, ClientWriteFail, ClientRead, ClientReadFail,
                      ClientStep, caller, serverState
  <2>8. CASE ServerSend \/ ServerWriteFail \/ ServerRead \/ ServerReadFail
    BY <2>5, <2>8 DEF ServerSend, ServerWriteFail, ServerRead, ServerReadFail,
                      ServerStep, caller, serverState
  <2>9. ASSUME NEW len \in BodyLens, ProcReply(len)
        PROVE  UNCHANGED <<gui, call, answer, executed>>
    BY <2>9 DEF ProcReply, caller
  <2>10. CASE UNCHANGED vars
    BY <2>5, <2>10 DEF vars, caller, serverState
  <2> QED BY <2>2, <2>3, <2>4, <2>5, <2>6, <2>7, <2>8, <2>9, <2>10 DEF Next, RR!Next
<1> QED BY <1>1, <1>2, Invariant, PTL DEF Spec, ImplementsRequestReply, RR!Spec
=============================================================================
