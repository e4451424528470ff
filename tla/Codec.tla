------------------------------- MODULE Codec -------------------------------
(***************************************************************************)
(* One endpoint of the connection: the state and the asynchronous          *)
(* operations that ClientCodec and ServerCodec share through their base    *)
(* class Codec.  RobotSession instantiates this module once for the client *)
(* and once for the server.                                                *)
(*                                                                         *)
(* A serialized message is a header chunk followed by a body of len        *)
(* chunks.  A chunk is the unit in which the kernel accepts or returns     *)
(* bytes; the bytes inside one are the business of module Wire.  The id of *)
(* a message is ghost: nothing on the wire correlates a response with its  *)
(* request.                                                                *)
(***************************************************************************)
EXTENDS Integers, Sequences

VARIABLES
  enc_message_,  \* the one outgoing buffer: the frame encoded last
  writes,        \* async_write operations in the reactor, oldest first
  out,           \* chunks this endpoint has handed to the kernel
  in,            \* chunks waiting to be read by this endpoint
  reader,        \* the pending async_read: "off", "header" or "body"
  dec_message_,  \* the one incoming buffer and how much of it is filled
  ready_msgs_,   \* the ThreadsafeDeque of decoded messages
  is_alive_      \* lowered by the completion handler of a failed operation

codecVars ==
  <<enc_message_, writes, out, in, reader, dec_message_, ready_msgs_, is_alive_>>

(***************************************************************************)
(* Values.  A frame is what encode() is given, a chunk what the wire       *)
(* carries, a message what decodeData() returns.  whole is FALSE when the  *)
(* chunks read for the message were not exactly those of one frame.        *)
(***************************************************************************)
EmptyFrame == [id |-> 0, len |-> 0]
NoMessage == [id |-> 0, whole |-> TRUE]
EmptyBuffer == [id |-> 0, len |-> 0, got |-> 0, whole |-> TRUE]

\* Chunk number k of a frame: 0 is the header, which holds the body length.
Chunk(frame, k) == [id |-> frame.id, len |-> frame.len, at |-> k]

\* The bytes an async_write still has to send: it captured the lengths of
\* header and body, and pointers into enc_message_, when it was started.
WriteOf(frame) == [off |-> 0, total |-> frame.len + 1]

CodecInit ==
  /\ enc_message_ = EmptyFrame
  /\ writes = <<>>
  /\ reader = "off"
  /\ dec_message_ = EmptyBuffer
  /\ ready_msgs_ = <<>>
  /\ is_alive_ = TRUE

(***************************************************************************)
(* Writing.                                                                *)
(***************************************************************************)

\* encode(): serialize into enc_message_, whatever it held, and start an
\* async_write of it.  The call does not wait for the write.
Encode(frame) ==
  /\ enc_message_' = frame
  /\ writes' = Append(writes, WriteOf(frame))
  /\ UNCHANGED <<out, in, reader, dec_message_, ready_msgs_, is_alive_>>

\* The reactor performs one send of the oldest write.  What is sent is what
\* enc_message_ holds NOW.  A write with bytes left queues up again behind
\* the other writes; a finished one leaves: its handler does nothing when
\* there was no error.
SendChunk ==
  /\ writes # <<>>
  /\ LET op == Head(writes)
         next == [op EXCEPT !.off = @ + 1]
     IN  /\ out' = Append(out, Chunk(enc_message_, op.off))
         /\ writes' = IF next.off < next.total
                        THEN Append(Tail(writes), next)
                        ELSE Tail(writes)
  /\ UNCHANGED <<enc_message_, in, reader, dec_message_, ready_msgs_, is_alive_>>

\* The oldest write ends on a dead connection.  The handler lowers is_alive_
\* when it is given an error; a kernel that still buffered the bytes reports
\* none, and the bytes are lost all the same.
WriteFail ==
  /\ writes # <<>>
  /\ writes' = Tail(writes)
  /\ is_alive_' \in {is_alive_, FALSE}
  /\ UNCHANGED <<enc_message_, out, in, reader, dec_message_, ready_msgs_>>

(***************************************************************************)
(* Reading.                                                                *)
(***************************************************************************)

\* decodeHeader(): the header has arrived; it sizes dec_message_ for the body.
ReadHeader ==
  /\ reader = "header"
  /\ in # <<>>
  /\ LET c == Head(in)
     IN  dec_message_' = [id |-> c.id, len |-> c.len, got |-> 0, whole |-> c.at = 0]
  /\ in' = Tail(in)
  /\ reader' = "body"
  /\ UNCHANGED <<enc_message_, writes, out, ready_msgs_, is_alive_>>

\* decodeBody(): async_read fills dec_message_ with the next chunk.
ReadChunk ==
  /\ reader = "body"
  /\ dec_message_.got < dec_message_.len
  /\ in # <<>>
  /\ LET c == Head(in)
     IN  dec_message_' =
           [dec_message_ EXCEPT
              !.got = @ + 1,
              !.whole = @ /\ c.id = dec_message_.id /\ c.at = dec_message_.got + 1]
  /\ in' = Tail(in)
  /\ UNCHANGED <<enc_message_, writes, out, reader, ready_msgs_, is_alive_>>

\* A broken Deliver: it takes the body for complete one chunk early.
DeliverEarly ==
  /\ reader = "body"
  /\ dec_message_.got + 1 >= dec_message_.len
  /\ ready_msgs_' =
       Append(ready_msgs_,
              [id |-> dec_message_.id,
               whole |-> dec_message_.whole /\ dec_message_.got = dec_message_.len])
  /\ reader' = "header"
  /\ UNCHANGED <<enc_message_, writes, out, in, dec_message_, is_alive_>>

\* The handler of a complete body: decodeData(), push_back(), and
\* decodeHeader() again.  A body of length 0 is complete at once.
Deliver ==
  /\ reader = "body"
  /\ dec_message_.got = dec_message_.len
  /\ ready_msgs_' =
       Append(ready_msgs_, [id |-> dec_message_.id, whole |-> dec_message_.whole])
  /\ reader' = "header"
  /\ UNCHANGED <<enc_message_, writes, out, in, dec_message_, is_alive_>>

\* A broken ReadFail: the handler forgets to lower is_alive_.
ReadFailSilently ==
  /\ \/ reader = "header"
     \/ reader = "body" /\ dec_message_.got < dec_message_.len
  /\ reader' = "off"
  /\ UNCHANGED <<enc_message_, writes, out, in, dec_message_, ready_msgs_, is_alive_>>

\* The pending read fails: is_alive_ is lowered, no further read is started,
\* and whatever had arrived is never looked at.
ReadFail ==
  /\ \/ reader = "header"
     \/ reader = "body" /\ dec_message_.got < dec_message_.len
  /\ reader' = "off"
  /\ is_alive_' = FALSE
  /\ UNCHANGED <<enc_message_, writes, out, in, dec_message_, ready_msgs_>>

=============================================================================
