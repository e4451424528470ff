--------------------- MODULE RobotSessionProgressProofs ---------------------
(***************************************************************************)
(* Proofs that a call of RobotSession makes progress: somebody can always  *)
(* take the next step of it, and every step leaves less to be done.        *)
(***************************************************************************)
EXTENDS RobotSessionProofs

-----------------------------------------------------------------------------
(***************************************************************************)
(* What the safety proofs could leave open.  A write under way has bytes   *)
(* left; a frame that nobody has cut off is in its buffer, on the wire and *)
(* with its reader as a whole; and a client that has stopped to read knows *)
(* that its connection is gone.                                            *)
(***************************************************************************)

OneOpenWrite(writes) ==
  writes = <<>> \/ \E w \in Write : writes = <<w>> /\ w.off < w.total

OpenWrites == OneOpenWrite(cWrites) /\ OneOpenWrite(sWrites)

\* All chunks of the frame that were not taken are on the wire or being written.
Coming(enc, writes, wire, reader, dec) ==
  writes # <<>> \/ Taken(reader, dec) + Len(wire) = enc.len + 1

RequestComing ==
  (/\ link \in {"connecting", "up"} /\ cAlive
   /\ gui = "waiting" /\ executed # call /\ RequestMoving) =>
    Coming(cEnc, cWrites, toServer, sReader, sDec)

ResponseComing ==
  (link # "down" /\ gui = "waiting" /\ executed = call /\ ResponseMoving) =>
    Coming(sEnc, sWrites, toClient, cReader, cDec)

EndKnown ==
  /\ link = "refused" => ~cAlive
  /\ link = "down" /\ cReader = "off" => ~cAlive
  /\ server = "serving" => proc # "off"

Progress == OpenWrites /\ RequestComing /\ ResponseComing /\ EndKnown

-----------------------------------------------------------------------------
(***************************************************************************)
(* The operations on a write and on a stream.                              *)
(***************************************************************************)

\* What one send makes of the oldest write, and of the queue of writes.
Sent(writes) == [Head(writes) EXCEPT !.off = @ + 1]
AfterSend(writes) ==
  IF Sent(writes).off < Sent(writes).total THEN Append(Tail(writes), Sent(writes))
                                           ELSE Tail(writes)

\* encode() opens the only write of its codec.
LEMMA EncodeOpens ==
  ASSUME NEW frame \in Frame
  PROVE  /\ OneOpenWrite(Append(<<>>, [off |-> 0, total |-> frame.len + 1]))
         /\ Append(<<>>, [off |-> 0, total |-> frame.len + 1]) # <<>>
<1> DEFINE w == [off |-> 0, total |-> frame.len + 1]
<1>1. w \in Write /\ w.off < w.total
  BY DEF Frame, Write
<1> HIDE DEF w
<1>2. Append(<<>>, w) = <<w>> /\ <<w>> # <<>>
  OBVIOUS
<1> QED BY <1>1, <1>2, Zenon DEF OneOpenWrite, w

\* The write that is under way, and what a send or a failure makes of it.
LEMMA OpenWrite ==
  ASSUME NEW writes \in Seq(Write), OneOpenWrite(writes), writes # <<>>
  PROVE  /\ writes[1].off \in Nat /\ writes[1].total \in Nat
         /\ writes[1].off < writes[1].total
         /\ Tail(writes) = <<>>
         /\ Sent(writes) \in Write
         /\ Sent(writes).off = writes[1].off + 1 /\ Sent(writes).total = writes[1].total
         /\ Append(Tail(writes), Sent(writes)) = <<Sent(writes)>>
         /\ <<Sent(writes)>>[1] = Sent(writes)
<1> DEFINE next == Sent(writes)
<1>1. PICK w \in Write : writes = <<w>> /\ w.off < w.total
  BY DEF OneOpenWrite
<1>2. Head(writes) = w /\ writes[1] = w /\ Tail(writes) = <<>>
  BY <1>1
<1>3. next \in Write /\ next.off = w.off + 1 /\ next.total = w.total
  BY <1>2, NextWrite DEF Sent
<1> HIDE DEF next
<1>4. Append(<<>>, next) = <<next>> /\ <<next>>[1] = next
  OBVIOUS
<1>5. w.off \in Nat /\ w.total \in Nat
  BY DEF Write
<1> QED BY <1>1, <1>2, <1>3, <1>4, <1>5, Zenon DEF next

\* A stream's share of the work is a number.
LEMMA StreamNat ==
  ASSUME NEW writes \in Seq(Write), OneOpenWrite(writes),
         NEW wire \in Seq(FrameChunk), NEW reader \in {"off", "header", "body"}
  PROVE  /\ Stream(writes, wire, reader) \in Nat
         /\ Stream(writes, wire, reader) =
              3 * Unsent(writes) + 2 * Len(wire) + Reading[reader]
         /\ Unsent(writes) \in Nat /\ Len(wire) \in Nat /\ Reading[reader] \in Nat
<1>1. Unsent(writes) \in Nat
  <2>1. CASE writes = <<>>
    BY <2>1 DEF Unsent
  <2>2. CASE writes # <<>>
    <3>1. PICK w \in Write : writes = <<w>> /\ w.off < w.total
      BY <2>2 DEF OneOpenWrite
    <3>2. writes[1] = w /\ w.off \in Nat /\ w.total \in Nat
      BY <3>1 DEF Write
    <3> QED BY <2>2, <3>1, <3>2 DEF Unsent
  <2> QED BY <2>1, <2>2
<1>2. Reading[reader] \in Nat
  BY DEF Reading
<1>3. Len(wire) \in Nat
  BY LenProperties
<1> QED BY <1>1, <1>2, <1>3 DEF Stream

\* A send leaves less to be done, and keeps what has been written a whole frame.
LEMMA SendNearer ==
  ASSUME NEW enc, NEW writes \in Seq(Write), OneOpenWrite(writes), writes # <<>>,
         NEW wire \in Seq(FrameChunk), NEW chunk \in FrameChunk,
         NEW reader \in {"off", "header", "body"}
  PROVE  /\ OneOpenWrite(AfterSend(writes))
         /\ AfterSend(writes) # <<>> \/ writes[1].off + 1 = writes[1].total
         /\ Stream(AfterSend(writes), Append(wire, chunk), reader)
              < Stream(writes, wire, reader)
<1> DEFINE next == Sent(writes)
           more == AfterSend(writes)
<1>0. more = IF next.off < next.total THEN Append(Tail(writes), next) ELSE Tail(writes)
  BY DEF AfterSend
<1> HIDE DEF next, more
<1>1. /\ writes[1].off \in Nat /\ writes[1].total \in Nat
      /\ writes[1].off < writes[1].total
      /\ next \in Write /\ next.off = writes[1].off + 1 /\ next.total = writes[1].total
      /\ Tail(writes) = <<>> /\ Append(Tail(writes), next) = <<next>> /\ <<next>>[1] = next
  BY OpenWrite, Zenon DEF next
<1>2. <<next>> # <<>>
  OBVIOUS
<1>3. Unsent(writes) = writes[1].total - writes[1].off
  BY DEF Unsent
<1>4. /\ OneOpenWrite(more)
      /\ more # <<>> \/ next.off = next.total
      /\ Unsent(more) = Unsent(writes) - 1
  <2>1. CASE next.off < next.total
    <3>1. more = <<next>>
      BY <2>1, <1>0, <1>1, Zenon
    <3>2. Unsent(<<next>>) = next.total - next.off
      BY <1>1, <1>2, Zenon DEF Unsent
    <3>3. OneOpenWrite(<<next>>)
      BY <2>1, <1>1, Zenon DEF OneOpenWrite
    <3>4. Unsent(<<next>>) = Unsent(writes) - 1
      BY <3>2, <1>1, <1>3
    <3> QED BY <3>1, <3>3, <3>4, <1>2, Zenon
  <2>2. CASE ~(next.off < next.total)
    <3>1. more = <<>>
      BY <2>2, <1>0, <1>1, Zenon
    <3>2. Unsent(<<>>) = 0 /\ OneOpenWrite(<<>>)
      BY DEF Unsent, OneOpenWrite
    <3>3. next.off = next.total /\ Unsent(<<>>) = Unsent(writes) - 1
      BY <2>2, <3>2, <1>1, <1>3
    <3> QED BY <3>1, <3>2, <3>3, Zenon
  <2> QED BY <2>1, <2>2
<1>5. more \in Seq(Write)
  <2>1. <<>> \in Seq(Write) /\ \A w \in Write : <<w>> \in Seq(Write)
    OBVIOUS
  <2> QED BY <2>1, <1>4, Zenon DEF OneOpenWrite
<1>6. Append(wire, chunk) \in Seq(FrameChunk) /\ Len(Append(wire, chunk)) = Len(wire) + 1
  OBVIOUS
<1> DEFINE wire2 == Append(wire, chunk)
<1> HIDE DEF wire2
<1>7. /\ Stream(writes, wire, reader) = 3 * Unsent(writes) + 2 * Len(wire) + Reading[reader]
      /\ Unsent(writes) \in Nat /\ Len(wire) \in Nat /\ Reading[reader] \in Nat
  BY StreamNat
<1>8. Stream(more, wire2, reader) = 3 * Unsent(more) + 2 * Len(wire2) + Reading[reader]
  BY Zenon DEF Stream
<1>9. Stream(more, wire2, reader) < Stream(writes, wire, reader)
  BY <1>4, <1>6, <1>7, <1>8 DEF wire2
<1>10. writes[1].off + 1 = writes[1].total <=> next.off = next.total
  BY <1>1
<1> QED BY <1>4, <1>9, <1>10, Zenon DEF wire2, more

\* A read of a chunk leaves less to be done.
LEMMA ReadNearer ==
  ASSUME NEW writes \in Seq(Write), OneOpenWrite(writes),
         NEW wire \in Seq(FrameChunk), wire # <<>>, NEW reader \in {"header", "body"}
  PROVE  /\ Len(Tail(wire)) = Len(wire) - 1
         /\ Stream(writes, Tail(wire), "body") < Stream(writes, wire, reader)
<1> DEFINE rest == Tail(wire)
<1>1. rest \in Seq(FrameChunk) /\ Len(rest) = Len(wire) - 1
  BY HeadTailProperties
<1> HIDE DEF rest
<1>2. /\ Stream(writes, wire, reader) = 3 * Unsent(writes) + 2 * Len(wire) + Reading[reader]
      /\ Unsent(writes) \in Nat /\ Len(wire) \in Nat
  BY StreamNat
<1>3. Stream(writes, rest, "body") = 3 * Unsent(writes) + 2 * Len(rest) + Reading["body"]
  BY Zenon DEF Stream
<1>4. Reading["body"] = 2 /\ Reading[reader] \in {1, 2}
  BY DEF Reading
<1>5. Stream(writes, rest, "body") < Stream(writes, wire, reader)
  BY <1>1, <1>2, <1>3, <1>4
<1> QED BY <1>1, <1>5 DEF rest

\* A body that is delivered, and a reader that gives up, leave less to be done.
LEMMA StopNearer ==
  ASSUME NEW writes \in Seq(Write), OneOpenWrite(writes), NEW wire \in Seq(FrameChunk)
  PROVE  /\ Stream(writes, wire, "header") < Stream(writes, wire, "body")
         /\ Stream(writes, wire, "off") < Stream(writes, wire, "body")
         /\ Stream(writes, wire, "header") = Stream(writes, wire, "off") + 1
<1>1. Unsent(writes) \in Nat /\ Len(wire) \in Nat
  BY StreamNat
<1>2. Reading["off"] = 0 /\ Reading["header"] = 1 /\ Reading["body"] = 2
  BY DEF Reading
<1>3. \A reader : Stream(writes, wire, reader) =
                    3 * Unsent(writes) + 2 * Len(wire) + Reading[reader]
  BY Zenon DEF Stream
<1> QED BY <1>1, <1>2, <1>3

\* So does a write that fails.
LEMMA FailNearer ==
  ASSUME NEW writes \in Seq(Write), OneOpenWrite(writes), writes # <<>>,
         NEW wire \in Seq(FrameChunk), NEW reader \in {"off", "header", "body"}
  PROVE  /\ Stream(<<>>, wire, reader) < Stream(writes, wire, reader)
         /\ OneOpenWrite(<<>>) /\ Tail(writes) = <<>>
<1>1. PICK w \in Write : writes = <<w>> /\ w.off < w.total
  BY DEF OneOpenWrite
<1>2. writes[1] = w /\ w.off \in Nat /\ w.total \in Nat /\ Tail(writes) = <<>>
  BY <1>1 DEF Write
<1>3. Unsent(writes) = w.total - w.off /\ Unsent(<<>>) = 0 /\ OneOpenWrite(<<>>)
  BY <1>2, Zenon DEF Unsent, OneOpenWrite
<1>4. /\ Stream(writes, wire, reader) = 3 * Unsent(writes) + 2 * Len(wire) + Reading[reader]
      /\ Len(wire) \in Nat /\ Reading[reader] \in Nat
  BY StreamNat
<1>5. Stream(<<>>, wire, reader) = 3 * Unsent(<<>>) + 2 * Len(wire) + Reading[reader]
  BY Zenon DEF Stream
<1> QED BY <1>1, <1>2, <1>3, <1>4, <1>5

\* The chunks that a reader has taken and those that are still coming.
LEMMA ReadKeepsFrame ==
  ASSUME NEW enc, NEW writes, NEW wire \in Seq(FrameChunk), wire # <<>>,
         NEW reader \in {"header", "body"}, NEW dec \in Buffer, NEW buf \in Buffer,
         buf.got = IF reader = "header" THEN 0 ELSE dec.got + 1,
         Coming(enc, writes, wire, reader, dec)
  PROVE  Coming(enc, writes, Tail(wire), "body", buf)
<1>1. Len(Tail(wire)) = Len(wire) - 1 /\ Len(wire) \in Nat
  BY HeadTailProperties, LenProperties
<1>2. Taken("body", buf) = Taken(reader, dec) + 1 /\ Taken(reader, dec) \in Nat
  BY DEF Taken, Buffer
<1> QED BY <1>1, <1>2 DEF Coming

\* A send that ends the write has put the last chunk of the frame on the wire.
LEMMA SendKeepsFrame ==
  ASSUME NEW enc \in Frame, NEW writes \in Seq(Write), OneOpenWrite(writes), writes # <<>>,
         NEW wire \in Seq(FrameChunk), NEW chunk, NEW reader, NEW dec \in Buffer,
         StreamContinues(enc, writes, wire, reader, dec),
         AfterSend(writes) # <<>> \/ writes[1].off + 1 = writes[1].total
  PROVE  Coming(enc, AfterSend(writes), Append(wire, chunk), reader, dec)
<1>1. Len(writes) > 0
  <2>1. PICK w \in Write : writes = <<w>>
    BY DEF OneOpenWrite
  <2> QED BY <2>1
<1>2. writes[1].off = Taken(reader, dec) + Len(wire) /\ writes[1].total = enc.len + 1
  BY <1>1 DEF StreamContinues, WriteContinues
<1>3. Len(Append(wire, chunk)) = Len(wire) + 1 /\ Len(wire) \in Nat
  OBVIOUS
<1>4. Taken(reader, dec) \in Nat
  BY DEF Taken, Buffer
<1>5. CASE AfterSend(writes) # <<>>
  BY <1>5, Zenon DEF Coming
<1>6. CASE writes[1].off + 1 = writes[1].total
  <2>1. Taken(reader, dec) + Len(Append(wire, chunk)) = enc.len + 1
    BY <1>2, <1>3, <1>4, <1>6
  <2> QED BY <2>1, Zenon DEF Coming
<1> QED BY <1>5, <1>6

-----------------------------------------------------------------------------
(***************************************************************************)
(* Every action leaves less to be done, and the progress of the call open. *)
(***************************************************************************)

RequestLeft == Stream(cWrites, toServer, sReader)
ResponseLeft == Stream(sWrites, toClient, cReader)

\* The four parts of the work that is left.
WorkTyped ==
  /\ Work = RequestLeft + ResponseLeft + LinkLeft + ServerLeft
  /\ RequestLeft \in Nat /\ ResponseLeft \in Nat
  /\ LinkLeft \in Nat /\ ServerLeft \in Nat
  /\ Stage \in 0 .. 2

\* They are numbers.
LEMMA WorkNat == TypeOK /\ OpenWrites => WorkTyped
<1> SUFFICES ASSUME TypeOK, OpenWrites PROVE WorkTyped
  OBVIOUS
<1>1. RequestLeft \in Nat /\ ResponseLeft \in Nat
  BY StreamNat DEF TypeOK, OpenWrites, RequestLeft, ResponseLeft
<1>2. LinkLeft \in Nat
  BY SessionAssumption DEF TypeOK, LinkLeft
<1>3. ServerLeft \in Nat
  BY DEF TypeOK, ServerLeft
<1>4. Stage \in 0 .. 2
  BY DEF Stage
<1>5. Work = RequestLeft + ResponseLeft + LinkLeft + ServerLeft
  BY Zenon DEF Work, RequestLeft, ResponseLeft
<1> QED BY <1>1, <1>2, <1>3, <1>4, <1>5 DEF WorkTyped

\* What a step makes of them while a call waits.
Less ==
  \/ Stage' < Stage
  \/ /\ Stage' = Stage
     /\ RequestLeft' + ResponseLeft' + LinkLeft' + ServerLeft'
          < RequestLeft + ResponseLeft + LinkLeft + ServerLeft

OnItsWay == gui = "waiting" /\ gui' = "waiting" /\ WorkTyped' => Less

NoneGrows ==
  /\ RequestLeft' = RequestLeft \/ RequestLeft' < RequestLeft
  /\ ResponseLeft' = ResponseLeft \/ ResponseLeft' < ResponseLeft
  /\ LinkLeft' = LinkLeft \/ LinkLeft' < LinkLeft
  /\ ServerLeft' = ServerLeft \/ ServerLeft' < ServerLeft

\* One part shrinks, and none grows.
LEMMA OneShrinks ==
  ASSUME WorkTyped, Stage' = Stage, NoneGrows,
         \/ RequestLeft' < RequestLeft \/ ResponseLeft' < ResponseLeft
         \/ LinkLeft' < LinkLeft \/ ServerLeft' < ServerLeft
  PROVE  WorkTyped' => Less
<1> SUFFICES ASSUME WorkTyped' PROVE Less
  OBVIOUS
<1>1. ASSUME NEW a \in Nat, NEW b \in Nat, NEW c \in Nat, NEW d \in Nat,
             NEW a1 \in Nat, NEW b1 \in Nat, NEW c1 \in Nat, NEW d1 \in Nat,
             a1 <= a, b1 <= b, c1 <= c, d1 <= d, a1 < a \/ b1 < b \/ c1 < c \/ d1 < d
      PROVE  a1 + b1 + c1 + d1 < a + b + c + d
  BY <1>1
<1>2. RequestLeft' + ResponseLeft' + LinkLeft' + ServerLeft'
        < RequestLeft + ResponseLeft + LinkLeft + ServerLeft
  <2>1. \A x, y \in Nat : x = y => x <= y
    OBVIOUS
  <2>2. \A x, y \in Nat : x < y => x <= y
    OBVIOUS
  <2>3. /\ RequestLeft' <= RequestLeft /\ ResponseLeft' <= ResponseLeft
        /\ LinkLeft' <= LinkLeft /\ ServerLeft' <= ServerLeft
    BY <2>1, <2>2, Zenon DEF WorkTyped, NoneGrows
  <2> QED BY <1>1, <2>3, Zenon DEF WorkTyped
<1> QED BY <1>2, Zenon DEF Less

\* One part shrinks by more than another one grows.
LEMMA OneStarts ==
  ASSUME WorkTyped, Stage' = Stage,
         \/ /\ LinkLeft' + 2 <= LinkLeft /\ ResponseLeft' = ResponseLeft + 1
            /\ RequestLeft' = RequestLeft /\ ServerLeft' = ServerLeft
         \/ /\ ServerLeft' + 2 <= ServerLeft /\ RequestLeft' = RequestLeft + 1
            /\ ResponseLeft' = ResponseLeft /\ LinkLeft' = LinkLeft
  PROVE  WorkTyped' => Less
<1> SUFFICES ASSUME WorkTyped' PROVE Less
  OBVIOUS
<1>1. ASSUME NEW a \in Nat, NEW b \in Nat, NEW c \in Nat, NEW d \in Nat,
             NEW a1 \in Nat, NEW b1 \in Nat, NEW c1 \in Nat, NEW d1 \in Nat,
             \/ c1 + 2 <= c /\ b1 = b + 1 /\ a1 = a /\ d1 = d
             \/ d1 + 2 <= d /\ a1 = a + 1 /\ b1 = b /\ c1 = c
      PROVE  a1 + b1 + c1 + d1 < a + b + c + d
  BY <1>1
<1>2. RequestLeft' + ResponseLeft' + LinkLeft' + ServerLeft'
        < RequestLeft + ResponseLeft + LinkLeft + ServerLeft
  BY <1>1, Zenon DEF WorkTyped
<1> QED BY <1>2, Zenon DEF Less

\* A call is made: its frame is complete in the buffer.
LEMMA GuiCallProgress ==
  ASSUME IInv, Progress, NEW len \in BodyLens, GuiCall(len)
  PROVE  Progress' /\ OnItsWay
<1>1. gui = "idle" /\ executed = call /\ cWrites = <<>> /\ call \in Nat
  BY DEF IInv, TypeOK, Flow, NothingPending, Quiet, GuiCall
<1>2. /\ call' = call + 1 /\ cEnc' \in Frame
      /\ cWrites' = Append(<<>>, [off |-> 0, total |-> cEnc'.len + 1])
  BY <1>1, SessionAssumption DEF GuiCall, C!Encode, C!WriteOf, Frame
<1>3. UNCHANGED <<link, cReader, cAlive, sWrites, server, proc, executed>>
  BY DEF GuiCall, C!Encode, serverCodec, serverState
<1>4. OneOpenWrite(cWrites') /\ cWrites' # <<>>
  BY <1>2, EncodeOpens
<1>5. OpenWrites'
  BY <1>3, <1>4 DEF Progress, OpenWrites
<1>6. RequestComing'
  BY <1>4 DEF RequestComing, Coming
<1>7. ResponseComing'
  BY <1>1, <1>2, <1>3 DEF ResponseComing
<1>8. EndKnown'
  BY <1>3 DEF Progress, EndKnown
<1> QED BY <1>1, <1>5, <1>6, <1>7, <1>8 DEF Progress, OnItsWay

\* A call returns: nothing is left of it.
LEMMA GuiReturnProgress ==
  ASSUME IInv, Progress, GuiReturn
  PROVE  Progress' /\ OnItsWay
<1>1. /\ gui' = "idle"
      /\ UNCHANGED <<link, cReader, cAlive, cWrites, sWrites, server, proc>>
  BY DEF GuiReturn, serverCodec, serverState
<1> QED BY <1>1 DEF Progress, OpenWrites, RequestComing, ResponseComing, EndKnown, OnItsWay

\* The connection is up: one attempt less is left, and one reader more.
LEMMA ConnectOkProgress ==
  ASSUME IInv, Progress, WorkTyped, ConnectOk
  PROVE  Progress' /\ OnItsWay
<1>1. /\ link = "connecting" /\ link' = "up" /\ cReader' = "header"
      /\ UNCHANGED <<gui, call, attempt, cEnc, cWrites, cDec, cReady, cAlive, toServer,
                     toClient, sEnc, sWrites, sReader, sDec, sReady, server, proc,
                     executed>>
  BY DEF ConnectOk, caller, serverCodec, serverState
<1>2. cReader = "off"
  BY <1>1 DEF IInv, Started
<1>3. ResponseMoving' => ResponseMoving
  BY <1>1, <1>2, ReaderMayStart DEF ResponseMoving, InTransit
<1>4. ResponseComing'
  BY <1>1, <1>2, <1>3 DEF Progress, ResponseComing, Coming, Taken
<1>5. OpenWrites' /\ EndKnown'
  BY <1>1 DEF Progress, OpenWrites, EndKnown
<1>6. RequestMoving' => RequestMoving
  BY <1>1 DEF RequestMoving, InTransit
<1>7. RequestComing'
  BY <1>1, <1>6 DEF Progress, RequestComing, Coming
<1>8. Stage' = Stage /\ RequestLeft' = RequestLeft /\ ServerLeft' = ServerLeft
  BY <1>1 DEF Stage, RequestLeft, ServerLeft
<1>9. ResponseLeft' = ResponseLeft + 1
  BY <1>1, <1>2, StopNearer DEF IInv, TypeOK, Progress, OpenWrites, ResponseLeft
<1>10. LinkLeft' + 2 <= LinkLeft
  BY <1>1, SessionAssumption DEF IInv, TypeOK, LinkLeft
<1>11. WorkTyped' => Less
  BY <1>8, <1>9, <1>10, OneStarts, Zenon
<1> QED BY <1>4, <1>5, <1>7, <1>11 DEF Progress, OnItsWay

\* An endpoint has refused: an attempt less is left, or the last one was in vain.
LEMMA ConnectRefusedProgress ==
  ASSUME IInv, Progress, WorkTyped, ConnectRefused
  PROVE  Progress' /\ OnItsWay
<1>1. /\ link = "connecting" /\ cWrites' = <<>>
      /\ cAlive' = (cAlive /\ cWrites = <<>> /\ attempt < Endpoints)
      /\ UNCHANGED <<gui, call, cEnc, cReader, cDec, cReady, toServer, toClient, sEnc,
                     sWrites, sReader, sDec, sReady, server, proc, executed>>
  BY DEF ConnectRefused, caller, serverCodec, serverState
<1>2. /\ link' = "connecting" => attempt < Endpoints /\ attempt' = attempt + 1
      /\ link' \in {"connecting", "refused"}
      /\ link' = "refused" => ~(attempt < Endpoints)
  BY <1>1 DEF ConnectRefused
<1>3. server = "listening"
  BY <1>1 DEF IInv, Started
<1>4. OpenWrites'
  BY <1>1 DEF Progress, OpenWrites, OneOpenWrite
<1>5. RequestComing'
  <2> SUFFICES ASSUME cAlive', RequestMoving', gui' = "waiting", executed' # call'
               PROVE  Coming(cEnc, cWrites, toServer, sReader, sDec)'
    BY DEF RequestComing
  <2>1. cWrites = <<>> /\ cAlive
    BY <1>1
  <2>2. RequestMoving
    BY <2>1, <1>1, <1>2 DEF RequestMoving, InTransit
  <2> QED BY <2>1, <2>2, <1>1 DEF Progress, RequestComing, Coming
<1>6. ResponseComing'
  <2>1. ResponseMoving' => ResponseMoving
    BY <1>1, <1>2 DEF ResponseMoving, InTransit
  <2> QED BY <2>1, <1>1 DEF Progress, ResponseComing, Coming
<1>7. EndKnown'
  BY <1>1, <1>2, <1>3 DEF EndKnown
<1>8. Stage' = Stage /\ ResponseLeft' = ResponseLeft /\ ServerLeft' = ServerLeft
  BY <1>1 DEF Stage, ResponseLeft, ServerLeft
<1>9. RequestLeft' = RequestLeft \/ RequestLeft' < RequestLeft
  <2>1. CASE cWrites = <<>>
    BY <2>1, <1>1 DEF RequestLeft
  <2>2. CASE cWrites # <<>>
    <3>1. Stream(<<>>, toServer, sReader) < Stream(cWrites, toServer, sReader)
      BY <2>2, FailNearer DEF IInv, TypeOK, Progress, OpenWrites
    <3>2. RequestLeft' < RequestLeft
      BY <3>1, <1>1, Zenon DEF RequestLeft
    <3> QED BY <3>2
  <2> QED BY <2>1, <2>2
<1>10. LinkLeft' < LinkLeft
  BY <1>1, <1>2, SessionAssumption DEF IInv, TypeOK, LinkLeft
<1>11. NoneGrows
  BY <1>8, <1>9, <1>10, Zenon DEF NoneGrows
<1>12. WorkTyped' => Less
  BY <1>8, <1>10, <1>11, OneShrinks, Zenon
<1> QED BY <1>4, <1>5, <1>6, <1>7, <1>12 DEF Progress, OnItsWay

\* The server listens no longer: it has started a reader, or it is gone.
LEMMA AcceptProgress ==
  ASSUME IInv, Progress, WorkTyped, Accept
  PROVE  Progress' /\ OnItsWay
<1>1. /\ server = "listening" /\ link \in {"up", "down"} /\ server' = "serving"
      /\ sReader' = "header" /\ proc' = "waiting"
      /\ UNCHANGED <<gui, call, attempt, link, cEnc, cWrites, cReader, cDec, cReady,
                     cAlive, toServer, toClient, sEnc, sWrites, sDec, sReady, executed>>
  BY DEF Accept, caller, clientCodec
<1>2. sReader = "off" /\ proc = "off"
  BY <1>1 DEF IInv, Started
<1>3. RequestMoving' => RequestMoving
  BY <1>1, <1>2, ReaderMayStart DEF RequestMoving, InTransit
<1>4. RequestComing'
  BY <1>1, <1>2, <1>3 DEF Progress, RequestComing, Coming, Taken
<1>5. ResponseMoving' => ResponseMoving
  BY <1>1, <1>2 DEF ResponseMoving, InTransit
<1>6. ResponseComing'
  BY <1>1, <1>5 DEF Progress, ResponseComing, Coming
<1>7. OpenWrites' /\ EndKnown'
  BY <1>1 DEF Progress, OpenWrites, EndKnown
<1>8. Stage' = Stage /\ ResponseLeft' = ResponseLeft /\ LinkLeft' = LinkLeft
  BY <1>1, <1>2 DEF Stage, ResponseLeft, LinkLeft
<1>9. RequestLeft' = RequestLeft + 1
  BY <1>1, <1>2, StopNearer DEF IInv, TypeOK, Progress, OpenWrites, RequestLeft
<1>10. ServerLeft' + 2 <= ServerLeft
  BY <1>1 DEF ServerLeft
<1>11. WorkTyped' => Less
  BY <1>8, <1>9, <1>10, OneStarts, Zenon
<1> QED BY <1>4, <1>6, <1>7, <1>11 DEF Progress, OnItsWay

\* What breaks cannot break again.
LEMMA BreakProgress ==
  ASSUME IInv, Progress, WorkTyped,
         AcceptWithoutDocker \/ ProcCrash \/ LinkBreak
  PROVE  Progress' /\ OnItsWay
<1>0. /\ link = "up" \/ (server # "dead" /\ server' = "dead")
      /\ link \in {"up", "down"} \/ server = "serving"
  BY DEF AcceptWithoutDocker, ProcCrash, LinkBreak
<1>1. /\ link' = "down" /\ server' \in {server, "dead"}
      /\ UNCHANGED <<gui, call, attempt, cEnc, cWrites, cReader, cDec, cReady, cAlive,
                     toServer, toClient, sEnc, sWrites, sReader, sDec, sReady, proc,
                     executed>>
  BY DEF AcceptWithoutDocker, ProcCrash, LinkBreak, caller, clientCodec, serverCodec,
         serverState
<1>2. OpenWrites' /\ RequestComing' /\ ResponseComing'
  BY <1>1 DEF Progress, OpenWrites, RequestComing, ResponseComing
<1>3. link \in {"up", "down"}
  BY <1>0 DEF IInv, TypeOK, Started
<1>4. EndKnown'
  BY <1>1, <1>3 DEF IInv, Started, Progress, EndKnown
<1>5. Stage' = Stage /\ RequestLeft' = RequestLeft /\ ResponseLeft' = ResponseLeft
  BY <1>1 DEF Stage, RequestLeft, ResponseLeft
<1>6. /\ LinkLeft' = LinkLeft \/ LinkLeft' < LinkLeft
      /\ link = "up" => LinkLeft' < LinkLeft
  BY <1>1, <1>3 DEF LinkLeft
<1>7. /\ ServerLeft' = ServerLeft \/ ServerLeft' < ServerLeft
      /\ server # "dead" /\ server' = "dead" => ServerLeft' < ServerLeft
  BY <1>1 DEF ServerLeft, IInv, TypeOK
<1>8. NoneGrows
  BY <1>5, <1>6, <1>7, Zenon DEF NoneGrows
<1>9. WorkTyped' => Less
  BY <1>0, <1>5, <1>6, <1>7, <1>8, OneShrinks, Zenon
<1> QED BY <1>2, <1>4, <1>9 DEF Progress, OnItsWay

\* The client sends: a chunk less is unsent, and one more is on the wire.
LEMMA ClientSendProgress ==
  ASSUME IInv, Progress, WorkTyped, ClientSend
  PROVE  Progress' /\ OnItsWay
<1> DEFINE chunk == C!Chunk(cEnc, Head(cWrites).off)
<1>1. /\ link = "up" /\ cWrites # <<>>
      /\ toServer' = Append(toServer, chunk) /\ cWrites' = AfterSend(cWrites)
  BY Zenon DEF ClientSend, ClientStep, C!SendChunk, Sent, AfterSend
<1>2. UNCHANGED <<gui, call, attempt, link, cEnc, cReader, cDec, cReady, cAlive, toClient,
                  sEnc, sWrites, sReader, sDec, sReady, server, proc, executed>>
  BY DEF ClientSend, ClientStep, C!SendChunk, caller, serverCodec, serverState
<1>3. /\ cEnc \in Frame /\ cWrites \in Seq(Write) /\ toServer \in Seq(FrameChunk)
      /\ sDec \in Buffer /\ sReader \in {"off", "header", "body"} /\ OneOpenWrite(cWrites)
      /\ executed \in Nat /\ call \in Nat
  BY DEF IInv, TypeOK, Progress, OpenWrites
<1>4. gui = "waiting" /\ executed = call - 1 /\ RequestSide /\ RequestMoving
  BY <1>1 DEF IInv, TypeOK, Flow, NothingPending, RequestSide, RequestQueued,
              ResponseSide, Quiet
<1>5. chunk \in FrameChunk
  BY <1>1, <1>3, NextWrite DEF C!Chunk, FrameChunk, Frame, Write
<1>6. StreamContinues(cEnc, cWrites, toServer, sReader, sDec)
  BY <1>1, <1>4 DEF RequestMoving, InTransit
<1> HIDE DEF chunk
<1>7. /\ OneOpenWrite(AfterSend(cWrites))
      /\ Coming(cEnc, AfterSend(cWrites), Append(toServer, chunk), sReader, sDec)
      /\ Stream(AfterSend(cWrites), Append(toServer, chunk), sReader)
           < Stream(cWrites, toServer, sReader)
  BY <1>1, <1>3, <1>5, <1>6, SendNearer, SendKeepsFrame
<1>8. ResponseComing'
  BY <1>2, <1>4, <1>3 DEF ResponseComing, IInv, TypeOK
<1>9. OpenWrites' /\ RequestComing'
  BY <1>1, <1>2, <1>7, Zenon DEF Progress, OpenWrites, RequestComing
<1>10. EndKnown'
  BY <1>1, <1>2 DEF Progress, EndKnown
<1>11. Stage' = Stage /\ ResponseLeft' = ResponseLeft
       /\ LinkLeft' = LinkLeft /\ ServerLeft' = ServerLeft
  BY <1>2 DEF Stage, ResponseLeft, LinkLeft, ServerLeft
<1>12. RequestLeft' < RequestLeft
  BY <1>1, <1>2, <1>7, Zenon DEF RequestLeft
<1>13. NoneGrows
  BY <1>11, <1>12, Zenon DEF NoneGrows
<1>14. WorkTyped' => Less
  BY <1>11, <1>12, <1>13, OneShrinks, Zenon
<1> QED BY <1>8, <1>9, <1>10, <1>14 DEF Progress, OnItsWay

\* The server sends: a chunk less is unsent, and one more is on the wire.
LEMMA ServerSendProgress ==
  ASSUME IInv, Progress, WorkTyped, ServerSend
  PROVE  Progress' /\ OnItsWay
<1> DEFINE chunk == S!Chunk(sEnc, Head(sWrites).off)
<1>1. /\ link = "up" /\ sWrites # <<>>
      /\ toClient' = Append(toClient, chunk) /\ sWrites' = AfterSend(sWrites)
  BY Zenon DEF ServerSend, ServerStep, S!SendChunk, Sent, AfterSend
<1>2. UNCHANGED <<gui, call, attempt, link, sEnc, cReader, cDec, cReady, cAlive, toServer,
                  cEnc, cWrites, sReader, sDec, sReady, server, proc, executed>>
  BY DEF ServerSend, ServerStep, S!SendChunk, caller, clientCodec, serverState
<1>3. /\ sEnc \in Frame /\ sWrites \in Seq(Write) /\ toClient \in Seq(FrameChunk)
      /\ cDec \in Buffer /\ cReader \in {"off", "header", "body"} /\ OneOpenWrite(sWrites)
      /\ executed \in Nat /\ call \in Nat
  BY DEF IInv, TypeOK, Progress, OpenWrites
<1>4. gui = "waiting" /\ executed = call /\ ResponseSide /\ ResponseMoving
  BY <1>1 DEF IInv, TypeOK, Flow, NothingPending, RequestSide, ResponseSide, Handling,
              ResponseQueued, Quiet
<1>5. chunk \in FrameChunk
  BY <1>1, <1>3, NextWrite DEF S!Chunk, FrameChunk, Frame, Write
<1>6. StreamContinues(sEnc, sWrites, toClient, cReader, cDec)
  BY <1>1, <1>4 DEF ResponseMoving, InTransit
<1> HIDE DEF chunk
<1>7. /\ OneOpenWrite(AfterSend(sWrites))
      /\ Coming(sEnc, AfterSend(sWrites), Append(toClient, chunk), cReader, cDec)
      /\ Stream(AfterSend(sWrites), Append(toClient, chunk), cReader)
           < Stream(sWrites, toClient, cReader)
  BY <1>1, <1>3, <1>5, <1>6, SendNearer, SendKeepsFrame
<1>8. RequestComing'
  BY <1>2, <1>4, <1>3 DEF RequestComing
<1>9. OpenWrites' /\ ResponseComing'
  BY <1>1, <1>2, <1>7, Zenon DEF Progress, OpenWrites, ResponseComing
<1>10. EndKnown'
  BY <1>1, <1>2 DEF Progress, EndKnown
<1>11. Stage' = Stage /\ RequestLeft' = RequestLeft
       /\ LinkLeft' = LinkLeft /\ ServerLeft' = ServerLeft
  BY <1>2 DEF Stage, RequestLeft, LinkLeft, ServerLeft
<1>12. ResponseLeft' < ResponseLeft
  BY <1>1, <1>2, <1>7, Zenon DEF ResponseLeft
<1>13. NoneGrows
  BY <1>11, <1>12, Zenon DEF NoneGrows
<1>14. WorkTyped' => Less
  BY <1>11, <1>12, <1>13, OneShrinks, Zenon
<1> QED BY <1>8, <1>9, <1>10, <1>14 DEF Progress, OnItsWay

\* A write of the client fails: what is unsent will never be sent.
LEMMA ClientWriteFailProgress ==
  ASSUME IInv, Progress, WorkTyped, ClientWriteFail
  PROVE  Progress' /\ OnItsWay
<1>1. /\ link \in {"down", "refused"} /\ cWrites # <<>> /\ cWrites' = Tail(cWrites)
      /\ cAlive' \in {cAlive, FALSE}
      /\ UNCHANGED <<gui, call, attempt, link, cEnc, cReader, cDec, cReady, toServer,
                     toClient, sEnc, sWrites, sReader, sDec, sReady, server, proc,
                     executed>>
  BY DEF ClientWriteFail, ClientStep, C!WriteFail, caller, serverCodec, serverState
<1>2. /\ Stream(<<>>, toServer, sReader) < Stream(cWrites, toServer, sReader)
      /\ OneOpenWrite(<<>>) /\ cWrites' = <<>>
  BY <1>1, FailNearer DEF IInv, TypeOK, Progress, OpenWrites
<1>3. ResponseMoving' => ResponseMoving
  BY <1>1 DEF ResponseMoving, InTransit
<1>4. RequestComing' /\ ResponseComing'
  BY <1>1, <1>3 DEF Progress, RequestComing, ResponseComing, Coming
<1>5. OpenWrites'
  BY <1>1, <1>2, Zenon DEF Progress, OpenWrites
<1>6. EndKnown'
  <2>1. ~cAlive => ~cAlive'
    BY <1>1, Zenon
  <2> QED BY <1>1, <2>1, Zenon DEF Progress, EndKnown
<1>7. /\ Stage' = Stage /\ ResponseLeft' = ResponseLeft
      /\ LinkLeft' = LinkLeft /\ ServerLeft' = ServerLeft
  BY <1>1 DEF Stage, ResponseLeft, LinkLeft, ServerLeft
<1>8. RequestLeft' < RequestLeft
  BY <1>1, <1>2, Zenon DEF RequestLeft
<1>9. NoneGrows
  BY <1>7, <1>8, Zenon DEF NoneGrows
<1>10. WorkTyped' => Less
  BY <1>7, <1>8, <1>9, OneShrinks, Zenon
<1> QED BY <1>4, <1>5, <1>6, <1>10 DEF Progress, OnItsWay

\* A write of the server fails: what is unsent will never be sent.
LEMMA ServerWriteFailProgress ==
  ASSUME IInv, Progress, WorkTyped, ServerWriteFail
  PROVE  Progress' /\ OnItsWay
<1>1. /\ link \in {"down"} /\ sWrites # <<>> /\ sWrites' = Tail(sWrites)
      /\ UNCHANGED <<gui, call, attempt, link, cEnc, cWrites, cReader, cDec, cReady, cAlive,
                     toServer, toClient, sEnc, sReader, sDec, sReady, server, proc,
                     executed>>
  BY DEF ServerWriteFail, ServerStep, S!WriteFail, caller, clientCodec, serverState
<1>2. /\ Stream(<<>>, toClient, cReader) < Stream(sWrites, toClient, cReader)
      /\ OneOpenWrite(<<>>) /\ sWrites' = <<>>
  BY <1>1, FailNearer DEF IInv, TypeOK, Progress, OpenWrites
<1>4. RequestComing' /\ ResponseComing'
  BY <1>1 DEF RequestComing, ResponseComing
<1>5. OpenWrites'
  BY <1>1, <1>2, Zenon DEF Progress, OpenWrites
<1>6. EndKnown'
  BY <1>1 DEF Progress, EndKnown
<1>7. /\ Stage' = Stage /\ RequestLeft' = RequestLeft
      /\ LinkLeft' = LinkLeft /\ ServerLeft' = ServerLeft
  BY <1>1 DEF Stage, RequestLeft, LinkLeft, ServerLeft
<1>8. ResponseLeft' < ResponseLeft
  BY <1>1, <1>2, Zenon DEF ResponseLeft
<1>9. NoneGrows
  BY <1>7, <1>8, Zenon DEF NoneGrows
<1>10. WorkTyped' => Less
  BY <1>7, <1>8, <1>9, OneShrinks, Zenon
<1> QED BY <1>4, <1>5, <1>6, <1>10 DEF Progress, OnItsWay

\* The client reads: a chunk less is on the wire, or the body is complete.
LEMMA ClientReadProgress ==
  ASSUME IInv, Progress, WorkTyped, ClientRead
  PROVE  Progress' /\ OnItsWay
<1>1. /\ C!ReadHeader \/ C!ReadChunk \/ C!Deliver
      /\ UNCHANGED <<gui, call, attempt, link, cEnc, cWrites, cAlive, toServer,
                     sEnc, sWrites, sReader, sDec, sReady, server, proc, executed>>
  BY Zenon DEF ClientRead, ClientStep, C!ReadHeader, C!ReadChunk, C!Deliver, caller,
               serverCodec, serverState
<1>2. cReader # "off" /\ (cReader = "body" \/ toClient # <<>>)
  BY <1>1 DEF C!ReadHeader, C!ReadChunk, C!Deliver
<1>3. /\ sWrites \in Seq(Write) /\ toClient \in Seq(FrameChunk) /\ cDec \in Buffer
      /\ cReader \in {"header", "body"} /\ OneOpenWrite(sWrites)
      /\ cReady \in Seq(Msg) /\ executed \in Nat /\ call \in Nat
  BY <1>2 DEF IInv, TypeOK, Progress, OpenWrites
<1>4. gui = "waiting" /\ executed = call /\ ResponseSide /\ ResponseMoving
  BY <1>2 DEF IInv, TypeOK, Flow, NothingPending, RequestSide, ResponseSide, Handling,
              ResponseQueued, Quiet
<1>5. RequestComing'
  BY <1>1, <1>4 DEF RequestComing
<1>6. ResponseComing' /\ ResponseLeft' < ResponseLeft /\ cReader' # "off"
  <2>1. CASE C!ReadHeader \/ C!ReadChunk
    <3>1. /\ toClient # <<>> /\ toClient' = Tail(toClient) /\ cReader' = "body"
      BY <2>1, Zenon DEF C!ReadHeader, C!ReadChunk
    <3>2. cDec' \in Buffer /\ cDec'.got = IF cReader = "header" THEN 0 ELSE cDec.got + 1
      <4>1. CASE C!ReadHeader
        <5>1. cReader = "header" /\ cDec' = Sized(Head(toClient))
          BY <4>1 DEF C!ReadHeader, Sized
        <5> QED BY <5>1, <3>1, <1>3, NextChunk, SizedBuffer
      <4>2. CASE C!ReadChunk
        <5>1. cReader = "body" /\ cDec' = Filled(cDec, Head(toClient))
          BY <4>2, Zenon DEF C!ReadChunk, Filled
        <5>2. cDec' \in Buffer /\ cDec'.got = cDec.got + 1
          BY <5>1, <3>1, <1>3, NextChunk, FilledBuffer, Zenon
        <5> QED BY <5>1, <5>2
      <4> QED BY <2>1, <4>1, <4>2
    <3>3. ASSUME link # "down"
          PROVE  Coming(sEnc, sWrites, toClient', "body", cDec')
      <4>1. Coming(sEnc, sWrites, toClient, cReader, cDec)
        BY <3>3, <1>3, <1>4 DEF Progress, ResponseComing
      <4> QED BY <4>1, <3>1, <3>2, <1>3, ReadKeepsFrame
    <3>4. ResponseComing'
      BY <3>1, <3>3, <1>1, Zenon DEF ResponseComing
    <3>5. Stream(sWrites, Tail(toClient), "body") < Stream(sWrites, toClient, cReader)
      BY <3>1, <1>3, ReadNearer
    <3> QED BY <3>1, <3>4, <3>5, <1>1, Zenon DEF ResponseLeft
  <2>2. CASE C!Deliver
    <3>1. /\ cReader = "body" /\ cReader' = "header" /\ toClient' = toClient
          /\ cReady' = Append(cReady, [id |-> cDec.id, whole |-> cDec.whole])
      BY <2>2, Zenon DEF C!Deliver
    <3>2. cReady' # <<>>
      BY <3>1, <1>3
    <3>3. ResponseComing'
      BY <3>2 DEF ResponseComing, ResponseMoving
    <3>4. Stream(sWrites, toClient, "header") < Stream(sWrites, toClient, "body")
      BY <1>3, StopNearer
    <3> QED BY <3>1, <3>3, <3>4, <1>1, Zenon DEF ResponseLeft
  <2> QED BY <2>1, <2>2, <1>1
<1>7. OpenWrites'
  BY <1>1 DEF Progress, OpenWrites
<1>8. EndKnown'
  BY <1>1, <1>6 DEF Progress, EndKnown
<1>9. /\ Stage' = Stage /\ RequestLeft' = RequestLeft
      /\ LinkLeft' = LinkLeft /\ ServerLeft' = ServerLeft
  BY <1>1 DEF Stage, RequestLeft, LinkLeft, ServerLeft
<1>10. NoneGrows
  BY <1>6, <1>9, Zenon DEF NoneGrows
<1>11. WorkTyped' => Less
  BY <1>6, <1>9, <1>10, OneShrinks, Zenon
<1> QED BY <1>5, <1>6, <1>7, <1>8, <1>11 DEF Progress, OnItsWay

\* The server reads: a chunk less is on the wire, or the body is complete.
LEMMA ServerReadProgress ==
  ASSUME IInv, Progress, WorkTyped, ServerRead
  PROVE  Progress' /\ OnItsWay
<1>1. /\ S!ReadHeader \/ S!ReadChunk \/ S!Deliver
      /\ UNCHANGED <<gui, call, attempt, link, sEnc, sWrites, cAlive, toClient,
                     cEnc, cWrites, cReader, cDec, cReady, server, proc, executed>>
  BY Zenon DEF ServerRead, ServerStep, S!ReadHeader, S!ReadChunk, S!Deliver, caller,
               clientCodec, serverState
<1>2. sReader # "off" /\ (sReader = "body" \/ toServer # <<>>)
  BY <1>1 DEF S!ReadHeader, S!ReadChunk, S!Deliver
<1>3. /\ cWrites \in Seq(Write) /\ toServer \in Seq(FrameChunk) /\ sDec \in Buffer
      /\ sReader \in {"header", "body"} /\ OneOpenWrite(cWrites)
      /\ sReady \in Seq(Msg) /\ executed \in Nat /\ call \in Nat
  BY <1>2 DEF IInv, TypeOK, Progress, OpenWrites
<1>4. gui = "waiting" /\ executed = call - 1 /\ RequestSide /\ RequestMoving
  BY <1>2 DEF IInv, TypeOK, Flow, NothingPending, RequestSide, RequestQueued,
              ResponseSide, Quiet
<1>5. ResponseComing'
  BY <1>1, <1>3, <1>4 DEF ResponseComing
<1>6. RequestComing' /\ RequestLeft' < RequestLeft /\ sReader' # "off"
  <2>1. CASE S!ReadHeader \/ S!ReadChunk
    <3>1. /\ toServer # <<>> /\ toServer' = Tail(toServer) /\ sReader' = "body"
      BY <2>1, Zenon DEF S!ReadHeader, S!ReadChunk
    <3>2. sDec' \in Buffer /\ sDec'.got = IF sReader = "header" THEN 0 ELSE sDec.got + 1
      <4>1. CASE S!ReadHeader
        <5>1. sReader = "header" /\ sDec' = Sized(Head(toServer))
          BY <4>1 DEF S!ReadHeader, Sized
        <5> QED BY <5>1, <3>1, <1>3, NextChunk, SizedBuffer
      <4>2. CASE S!ReadChunk
        <5>1. sReader = "body" /\ sDec' = Filled(sDec, Head(toServer))
          BY <4>2, Zenon DEF S!ReadChunk, Filled
        <5>2. sDec' \in Buffer /\ sDec'.got = sDec.got + 1
          BY <5>1, <3>1, <1>3, NextChunk, FilledBuffer, Zenon
        <5> QED BY <5>1, <5>2
      <4> QED BY <2>1, <4>1, <4>2
    <3>3. ASSUME link \in {"connecting", "up"}, cAlive
          PROVE  Coming(cEnc, cWrites, toServer', "body", sDec')
      <4>1. Coming(cEnc, cWrites, toServer, sReader, sDec)
        BY <3>3, <1>3, <1>4 DEF Progress, RequestComing
      <4> QED BY <4>1, <3>1, <3>2, <1>3, ReadKeepsFrame
    <3>4. RequestComing'
      BY <3>1, <3>3, <1>1, Zenon DEF RequestComing
    <3>5. Stream(cWrites, Tail(toServer), "body") < Stream(cWrites, toServer, sReader)
      BY <3>1, <1>3, ReadNearer
    <3> QED BY <3>1, <3>4, <3>5, <1>1, Zenon DEF RequestLeft
  <2>2. CASE S!Deliver
    <3>1. /\ sReader = "body" /\ sReader' = "header" /\ toServer' = toServer
          /\ sReady' = Append(sReady, [id |-> sDec.id, whole |-> sDec.whole])
      BY <2>2, Zenon DEF S!Deliver
    <3>2. sReady' # <<>>
      BY <3>1, <1>3
    <3>3. RequestComing'
      BY <3>2 DEF RequestComing, RequestMoving
    <3>4. Stream(cWrites, toServer, "header") < Stream(cWrites, toServer, "body")
      BY <1>3, StopNearer
    <3> QED BY <3>1, <3>3, <3>4, <1>1, Zenon DEF RequestLeft
  <2> QED BY <2>1, <2>2, <1>1
<1>7. OpenWrites'
  BY <1>1 DEF Progress, OpenWrites
<1>8. EndKnown'
  BY <1>1, <1>6 DEF Progress, EndKnown
<1>9. /\ Stage' = Stage /\ ResponseLeft' = ResponseLeft
      /\ LinkLeft' = LinkLeft /\ ServerLeft' = ServerLeft
  BY <1>1 DEF Stage, ResponseLeft, LinkLeft, ServerLeft
<1>10. NoneGrows
  BY <1>6, <1>9, Zenon DEF NoneGrows
<1>11. WorkTyped' => Less
  BY <1>6, <1>9, <1>10, OneShrinks, Zenon
<1> QED BY <1>5, <1>6, <1>7, <1>8, <1>11 DEF Progress, OnItsWay

\* The client's reader gives up on a connection that is down.
LEMMA ClientReadFailProgress ==
  ASSUME IInv, Progress, WorkTyped, ClientReadFail
  PROVE  Progress' /\ OnItsWay
<1>1. /\ link = "down" /\ cReader \in {"header", "body"} /\ cReader' = "off"
      /\ cAlive' = FALSE
      /\ UNCHANGED <<gui, call, attempt, link, cWrites, toServer, toClient, sWrites, sReader,
                     server, proc, executed>>
  BY DEF ClientReadFail, ClientStep, C!ReadFail, caller, serverCodec, serverState
<1>2. OpenWrites' /\ RequestComing' /\ ResponseComing' /\ EndKnown'
  BY <1>1 DEF Progress, OpenWrites, RequestComing, ResponseComing, EndKnown
<1>3. Stream(sWrites, toClient, "off") < Stream(sWrites, toClient, cReader)
  <2>1. /\ Stream(sWrites, toClient, "off") < Stream(sWrites, toClient, "body")
        /\ Stream(sWrites, toClient, "header") = Stream(sWrites, toClient, "off") + 1
        /\ Stream(sWrites, toClient, "off") \in Nat
    BY StopNearer, StreamNat DEF IInv, TypeOK, Progress, OpenWrites
  <2> QED BY <1>1, <2>1
<1>4. /\ Stage' = Stage /\ RequestLeft' = RequestLeft
      /\ LinkLeft' = LinkLeft /\ ServerLeft' = ServerLeft
  BY <1>1 DEF Stage, RequestLeft, LinkLeft, ServerLeft
<1>5. ResponseLeft' < ResponseLeft
  BY <1>1, <1>3, Zenon DEF ResponseLeft
<1>6. NoneGrows
  BY <1>4, <1>5, Zenon DEF NoneGrows
<1>7. WorkTyped' => Less
  BY <1>4, <1>5, <1>6, OneShrinks, Zenon
<1> QED BY <1>2, <1>7 DEF Progress, OnItsWay

\* The server's reader gives up on a connection that is down.
LEMMA ServerReadFailProgress ==
  ASSUME IInv, Progress, WorkTyped, ServerReadFail
  PROVE  Progress' /\ OnItsWay
<1>1. /\ link = "down" /\ sReader \in {"header", "body"} /\ sReader' = "off"
      /\ cAlive' = cAlive /\ cReader' = cReader
      /\ UNCHANGED <<gui, call, attempt, link, cWrites, toServer, toClient, sWrites, cReader,
                     server, proc, executed>>
  BY DEF ServerReadFail, ServerStep, S!ReadFail, caller, clientCodec, serverState
<1>2. OpenWrites' /\ RequestComing' /\ ResponseComing' /\ EndKnown'
  BY <1>1 DEF Progress, OpenWrites, RequestComing, ResponseComing, EndKnown
<1>3. Stream(cWrites, toServer, "off") < Stream(cWrites, toServer, sReader)
  <2>1. /\ Stream(cWrites, toServer, "off") < Stream(cWrites, toServer, "body")
        /\ Stream(cWrites, toServer, "header") = Stream(cWrites, toServer, "off") + 1
        /\ Stream(cWrites, toServer, "off") \in Nat
    BY StopNearer, StreamNat DEF IInv, TypeOK, Progress, OpenWrites
  <2> QED BY <1>1, <2>1
<1>4. /\ Stage' = Stage /\ ResponseLeft' = ResponseLeft
      /\ LinkLeft' = LinkLeft /\ ServerLeft' = ServerLeft
  BY <1>1 DEF Stage, ResponseLeft, LinkLeft, ServerLeft
<1>5. RequestLeft' < RequestLeft
  BY <1>1, <1>3, Zenon DEF RequestLeft
<1>6. NoneGrows
  BY <1>4, <1>5, Zenon DEF NoneGrows
<1>7. WorkTyped' => Less
  BY <1>4, <1>5, <1>6, OneShrinks, Zenon
<1> QED BY <1>2, <1>7 DEF Progress, OnItsWay

\* The request is about to be executed: the call is one stage further.
LEMMA ProcPopProgress ==
  ASSUME IInv, Progress, WorkTyped, ProcPop
  PROVE  Progress' /\ OnItsWay
<1>1. /\ server = "serving" /\ proc = "waiting" /\ sReady # <<>> /\ proc' = "handling"
      /\ executed' = executed + 1
      /\ UNCHANGED <<gui, call, link, cReader, cAlive, cWrites, sWrites, server>>
  BY DEF ProcPop, caller, clientCodec
<1>2. gui = "waiting" /\ executed = call - 1 /\ executed \in Nat /\ call \in Nat
  BY <1>1 DEF IInv, TypeOK, Flow, NothingPending, ResponseSide
<1>3. Stage = 2 /\ Stage' = 1
  BY <1>1, <1>2 DEF Stage
<1>4. OpenWrites' /\ EndKnown'
  BY <1>1 DEF Progress, OpenWrites, EndKnown
<1>5. RequestComing'
  BY <1>1, <1>2 DEF RequestComing
<1>6. ResponseComing'
  BY <1>1 DEF ResponseComing, ResponseMoving
<1> QED BY <1>3, <1>4, <1>5, <1>6 DEF Progress, OnItsWay, Less

\* The request has been executed: the response is complete in the buffer.
LEMMA ProcReplyProgress ==
  ASSUME IInv, Progress, WorkTyped, NEW len \in BodyLens, ProcReply(len)
  PROVE  Progress' /\ OnItsWay
<1>1. /\ proc = "handling" /\ proc' = "waiting"
      /\ UNCHANGED <<gui, call, link, cReader, cAlive, cWrites, server, executed>>
  BY DEF ProcReply, S!Encode, caller, clientCodec
<1>2. gui = "waiting" /\ executed = call /\ call \in Nat /\ sWrites = <<>>
  BY <1>1 DEF IInv, TypeOK, Flow, NothingPending, RequestSide, ResponseSide, Handling,
              ResponseMoving, ResponseQueued, Quiet
<1>3. /\ sEnc' \in Frame
      /\ sWrites' = Append(<<>>, [off |-> 0, total |-> sEnc'.len + 1])
  BY <1>2, SessionAssumption DEF ProcReply, S!Encode, S!WriteOf, Frame, IInv, TypeOK, Msg
<1>4. OneOpenWrite(sWrites') /\ sWrites' # <<>>
  BY <1>3, EncodeOpens
<1>5. Stage = 1 /\ Stage' = 0
  BY <1>1, <1>2 DEF Stage
<1>6. OpenWrites' /\ EndKnown'
  BY <1>1, <1>4 DEF Progress, OpenWrites, EndKnown
<1>7. RequestComing'
  BY <1>1, <1>2 DEF RequestComing
<1>8. ResponseComing'
  BY <1>4 DEF ResponseComing, Coming
<1> QED BY <1>5, <1>6, <1>7, <1>8 DEF Progress, OnItsWay, Less

-----------------------------------------------------------------------------
(***************************************************************************)
(* The invariant and the two theorems.                                     *)
(***************************************************************************)

\* Initially there is no call.
LEMMA ProgressInit == Init => Progress
  BY DEF Init, C!CodecInit, S!CodecInit, Progress, OpenWrites, OneOpenWrite,
         RequestComing, ResponseComing, EndKnown

\* Every action, with the work that it leaves.
LEMMA ProgressNext == IInv /\ Progress /\ Next => Progress' /\ OnItsWay
<1> SUFFICES ASSUME IInv, Progress, Next PROVE Progress' /\ OnItsWay
  OBVIOUS
<1>1. WorkTyped
  BY WorkNat DEF IInv, Progress
<1>2. CASE \E len \in BodyLens : GuiCall(len) \/ ProcReply(len)
  BY <1>1, <1>2, GuiCallProgress, ProcReplyProgress, Zenon
<1>3. CASE GuiReturn \/ ConnectOk \/ ConnectRefused \/ Accept \/ AcceptWithoutDocker
           \/ ProcPop \/ ProcCrash \/ LinkBreak
  BY <1>1, <1>3, GuiReturnProgress, ConnectOkProgress, ConnectRefusedProgress,
     AcceptProgress, BreakProgress, ProcPopProgress, Zenon
<1>4. CASE ClientSend \/ ClientWriteFail \/ ClientRead \/ ClientReadFail
  BY <1>1, <1>4, ClientSendProgress, ClientWriteFailProgress, ClientReadProgress,
     ClientReadFailProgress, Zenon
<1>5. CASE ServerSend \/ ServerWriteFail \/ ServerRead \/ ServerReadFail
  BY <1>1, <1>5, ServerSendProgress, ServerWriteFailProgress, ServerReadProgress,
     ServerReadFailProgress, Zenon
<1> QED BY <1>2, <1>3, <1>4, <1>5, Zenon DEF Next

\* A step of somebody else leaves it as it is.
LEMMA ProgressStays == Progress /\ UNCHANGED vars => Progress'
<1> SUFFICES ASSUME Progress, UNCHANGED vars PROVE Progress'
  OBVIOUS
<1>1. UNCHANGED <<gui, call, link, cEnc, cWrites, cReader, cDec, cReady, cAlive, toServer,
                  toClient, sEnc, sWrites, sReader, sDec, sReady, server, proc, executed>>
  BY DEF vars, caller, clientCodec, serverCodec, serverState
<1> QED BY <1>1 DEF Progress, OpenWrites, RequestComing, ResponseComing, EndKnown, Coming,
                    RequestMoving, ResponseMoving, InTransit

\* Together with the invariant of the safety proofs it is inductive.
LEMMA ProgressInvariant == Spec => [](IInv /\ Progress)
<1>1. IInv /\ Progress /\ [Next]_vars => Progress'
  BY ProgressNext, ProgressStays
<1> QED BY <1>1, ProgressInit, InvInit, InvNext, PTL DEF Spec

\* While the GUI thread waits and is_alive_ does not tell, somebody else does not:
\* the call is never stuck between the threads of the two programs.
THEOREM NobodyStuckHolds == Spec => []NobodyStuck
<1>1. IInv /\ Progress => NobodyStuck
  <2> SUFFICES ASSUME IInv, Progress, gui = "waiting", cAlive
               PROVE  ClientMayStep \/ ServerMayStep
    BY DEF NobodyStuck
  <2>1. CASE link = "connecting"
    BY <2>1 DEF ClientMayStep
  <2>2. CASE link = "refused"
    BY <2>2 DEF Progress, EndKnown
  <2>3. CASE link = "down"
    BY <2>3 DEF Progress, EndKnown, ClientMayStep
  <2>4. CASE link = "up" /\ server = "listening"
    BY <2>4 DEF ServerMayStep
  <2>5. CASE link = "up" /\ server = "serving"
    <3>1. cReader \in {"header", "body"} /\ sReader \in {"header", "body"}
      BY <2>5 DEF IInv, TypeOK, Started
    <3>2. proc \in {"waiting", "handling"}
      BY <2>5 DEF IInv, TypeOK, Progress, EndKnown
    <3>3. ASSUME NEW enc \in Frame, NEW writes, NEW wire \in Seq(FrameChunk),
                 NEW reader \in {"header", "body"}, NEW dec \in Buffer,
                 StreamContinues(enc, writes, wire, reader, dec),
                 Coming(enc, writes, wire, reader, dec), writes = <<>>
          PROVE  MayRead(reader, wire, dec)
      <4>1. enc.len \in Nat /\ dec.got \in Nat
        BY DEF Frame, Buffer
      <4>2. Taken(reader, dec) + Len(wire) = enc.len + 1
        BY <3>3 DEF Coming
      <4>3. CASE wire # <<>>
        BY <4>3 DEF MayRead
      <4>4. CASE wire = <<>>
        <5>1. Taken(reader, dec) = enc.len + 1
          BY <4>1, <4>2, <4>4 DEF Taken
        <5>2. reader = "body" /\ dec.got = enc.len
          BY <4>1, <5>1 DEF Taken
        <5> QED BY <3>3, <5>2 DEF StreamContinues, MayRead
      <4> QED BY <4>3, <4>4
    <3>4. CASE executed = call - 1 /\ RequestSide
      <4>1. CASE RequestMoving
        <5>1. /\ StreamContinues(cEnc, cWrites, toServer, sReader, sDec)
              /\ Coming(cEnc, cWrites, toServer, sReader, sDec)
          BY <2>5, <3>4, <4>1 DEF IInv, TypeOK, Progress, RequestComing, RequestMoving,
                                  InTransit
        <5>2. cWrites # <<>> \/ MayRead(sReader, toServer, sDec)
          BY <5>1, <3>1, <3>3 DEF IInv, TypeOK
        <5> QED BY <2>5, <5>2 DEF ClientMayStep, ServerMayStep
      <4>2. CASE RequestQueued
        <5>1. sReady # <<>>
          BY <4>2 DEF RequestQueued, Holds
        <5> QED BY <2>5, <3>2, <5>1 DEF ServerMayStep
      <4> QED BY <3>4, <4>1, <4>2 DEF RequestSide
    <3>5. CASE executed = call /\ ResponseSide
      <4>1. CASE Handling
        BY <2>5, <4>1 DEF Handling, ServerMayStep
      <4>2. CASE ResponseMoving
        <5>1. /\ StreamContinues(sEnc, sWrites, toClient, cReader, cDec)
              /\ Coming(sEnc, sWrites, toClient, cReader, cDec)
          BY <2>5, <3>5, <4>2 DEF IInv, TypeOK, Progress, ResponseComing, ResponseMoving,
                                  InTransit
        <5>2. sWrites # <<>> \/ MayRead(cReader, toClient, cDec)
          BY <5>1, <3>1, <3>3 DEF IInv, TypeOK
        <5> QED BY <2>5, <5>2 DEF ClientMayStep, ServerMayStep
      <4>3. CASE ResponseQueued
        <5>1. cReady # <<>>
          BY <4>3 DEF ResponseQueued, Holds
        <5> QED BY <5>1 DEF ClientMayStep
      <4> QED BY <3>5, <4>1, <4>2, <4>3 DEF ResponseSide
    <3> QED BY <3>4, <3>5 DEF IInv, Flow
  <2> QED BY <2>1, <2>2, <2>3, <2>4, <2>5 DEF IInv, TypeOK, Started
<1> QED BY <1>1, ProgressInvariant, PTL

\* Every step that is taken while a call waits leaves less of it, in a well-founded
\* order: the call cannot be kept busy for ever.
THEOREM EveryStepNearerHolds == Spec => EveryStepNearer
<1>1. WorkTyped' /\ WorkTyped /\ OnItsWay =>
        (gui = "waiting" /\ gui' = "waiting" =>
           \/ Stage' < Stage
           \/ Stage' = Stage /\ Work' < Work /\ Work' >= 0)
  <2> SUFFICES ASSUME WorkTyped', WorkTyped, Less
               PROVE  \/ Stage' < Stage
                      \/ Stage' = Stage /\ Work' < Work /\ Work' >= 0
    BY DEF OnItsWay
  <2>1. Work' >= 0
    <3>1. ASSUME NEW a \in Nat, NEW b \in Nat, NEW c \in Nat, NEW d \in Nat
          PROVE  a + b + c + d >= 0
      OBVIOUS
    <3> QED BY <3>1, Zenon DEF WorkTyped
  <2>2. CASE Stage' < Stage
    BY <2>2
  <2>3. CASE ~(Stage' < Stage)
    <3>1. Stage' = Stage /\ Work' < Work
      BY <2>3, Zenon DEF Less, WorkTyped
    <3> QED BY <3>1, <2>1
  <2> QED BY <2>2, <2>3
<1>2. IInv /\ Progress /\ [Next]_vars =>
        [(gui = "waiting" /\ gui' = "waiting") =>
           \/ Stage' < Stage
           \/ Stage' = Stage /\ Work' < Work /\ Work' >= 0]_vars
  <2> SUFFICES ASSUME IInv, Progress, Next, gui = "waiting", gui' = "waiting"
               PROVE  \/ Stage' < Stage
                      \/ Stage' = Stage /\ Work' < Work /\ Work' >= 0
    OBVIOUS
  <2>1. WorkTyped
    BY WorkNat DEF IInv, Progress
  <2>2. Progress' /\ OnItsWay
    BY ProgressNext
  <2>3. TypeOK'
    BY TypeNext DEF IInv
  <2>4. WorkTyped'
    <3>1. (TypeOK /\ OpenWrites)' => WorkTyped'
      BY WorkNat, PTL
    <3> QED BY <2>2, <2>3, <3>1 DEF Progress
  <2> QED BY <2>1, <2>2, <2>4, <1>1
<1> QED BY <1>2, ProgressInvariant, PTL DEF Spec, EveryStepNearer
=============================================================================
