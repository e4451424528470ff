-------------------------------- MODULE Wire --------------------------------
(***************************************************************************)
(* The bytes of one direction of the connection: Encoder,                  *)
(* SerializedMessage, Decoder and the two reads of a codec.  Module Codec  *)
(* abstracts a frame to chunks and shows that no encode() meets a write    *)
(* that has not ended; here encode() therefore puts the whole frame on the *)
(* stream, and what is checked is that the reader cuts the stream where    *)
(* the writer did and rebuilds each message.                               *)
(*                                                                         *)
(* A byte of the length field has Radix values (256 in the code), so that  *)
(* the edge of its 32 bits is reached with short messages.                 *)
(***************************************************************************)
EXTENDS Integers, Sequences

CONSTANTS
  Radix,     \* number of values of a byte of the length field
  Payloads,  \* the data of the messages: sequences of characters
  MaxFrames  \* bound: messages encoded in a behaviour

Width == Radix * Radix * Radix * Radix  \* 2^32

\* The length field carries every length of the data, up to the longest.
ASSUME WireAssumption ==
  /\ Radix \in Nat /\ Radix > 1
  /\ MaxFrames \in Nat
  /\ \A data \in Payloads : data \in Seq(Nat) /\ Len(data) < Width

VARIABLES
  enc_message_, \* the sender's SerializedMessage: header_ and data_
  stream,       \* the bytes written and not read yet
  reader,       \* the pending async_read: "header" or "body"; or "overrun"
  dec_message_, \* the receiver's SerializedMessage
  sent,         \* the messages encoded so far
  received      \* the messages decoded so far

vars == <<enc_message_, stream, reader, dec_message_, sent, received>>

-----------------------------------------------------------------------------
(***************************************************************************)
(* Encoder.                                                                *)
(***************************************************************************)

type_ == [Hello |-> 1, RespHello |-> 2, Response |-> 3, Request |-> 4]

command_ ==
  [NoCommand |-> 0, getRoboContainerInfo |-> 1, execRoboContainer |-> 2,
   getExecutedRoboContainer |-> 3, execDDSServer |-> 4, deleteRoboImage |-> 5,
   buildRoboImage |-> 6, stopRoboContainer |-> 7, getRoboLog |-> 8]

\* encode() throws on every other message, and nothing is sent.
Encodable(msg) ==
  /\ msg.type \in DOMAIN type_
  /\ msg.command \notin DOMAIN command_ => type_[msg.type] # 4
  /\ msg.command \in DOMAIN command_ => type_[msg.type] >= 3

CommandByte(msg) ==
  IF msg.command \in DOMAIN command_ THEN command_[msg.command] ELSE command_.NoCommand

\* A broken LengthBytes: the least significant byte first.
LengthBytesReversed(size) ==
  LET high == size \div Radix
      higher == high \div Radix
      highest == higher \div Radix
  IN  <<size % Radix, high % Radix, higher % Radix, highest % Radix>>

\* The four bytes of a uint32_t, most significant first.
LengthBytes(size) ==
  LET high == size \div Radix
      higher == high \div Radix
      highest == higher \div Radix
  IN  <<highest % Radix, higher % Radix, high % Radix, size % Radix>>

\* A broken Serialized: the memcpy of the data is forgotten.
SerializedWithoutCopy(msg) ==
  [header |-> <<type_[msg.type], CommandByte(msg)>> \o LengthBytes(Len(msg.data)),
   data |-> [i \in 1 .. Len(msg.data) |-> -1]]

Serialized(msg) ==
  [header |-> <<type_[msg.type], CommandByte(msg)>> \o LengthBytes(Len(msg.data)),
   data |-> msg.data]

\* async_write of toVecOfConstBuf(): the header and then the data.
Bytes(message) == message.header \o message.data

-----------------------------------------------------------------------------
(***************************************************************************)
(* Decoder and SerializedMessage.                                          *)
(***************************************************************************)

HeaderLength == 6
NUL == 0
Uninitialized == -1  \* what a byte of new char[n] holds

inv_type_ == <<"Hello", "RespHello", "Response", "Request">>

inv_command_ ==
  [code \in 0 .. 8 |->
     <<"NoCommand", "getRoboContainerInfo", "execRoboContainer",
       "getExecutedRoboContainer", "execDDSServer", "deleteRoboImage",
       "buildRoboImage", "stopRoboContainer", "getRoboLog">>[code + 1]]

\* decodeHeader(): the length the four bytes stand for.
DataSize(bytes) ==
  ((bytes[1] * Radix + bytes[2]) * Radix + bytes[3]) * Radix + bytes[4]

\* setDataLength(): a new buffer, whatever the old one held.
NewData(length) == [i \in 1 .. length |-> Uninitialized]

\* decodeBody(): how many bytes the second async_read asks for.
BodyRead(message) == (Len(message.data) - 1) % Width

\* They fit into the buffer, and the terminator behind them.
Room(message) == BodyRead(message) + 1 <= Len(message.data)

\* std::string(char*): what stands before the first NUL.
UpToNul(chars) ==
  SubSeq(chars, 1,
         CHOOSE n \in 0 .. Len(chars) :
           /\ \A i \in 1 .. n : chars[i] # NUL
           /\ n < Len(chars) => chars[n + 1] = NUL)

\* operator[] of a std::map gives an empty string for a key that it has not.
Lookup(table, key) == IF key \in DOMAIN table THEN table[key] ELSE ""

\* A broken DecodeData: it trusts the sender to have terminated the text.
DecodeDataUnterminated(message) ==
  [type |-> Lookup(inv_type_, message.header[1]),
   command |-> Lookup(inv_command_, message.header[2]),
   data |-> UpToNul(message.data)]

\* decodeData(): the last byte of the buffer, which no read fills, ends the text.
DecodeData(message) ==
  [type |-> Lookup(inv_type_, message.header[1]),
   command |-> Lookup(inv_command_, message.header[2]),
   data |-> UpToNul([message.data EXCEPT ![Len(message.data)] = NUL])]

-----------------------------------------------------------------------------
Init ==
  /\ enc_message_ = [header |-> <<>>, data |-> <<>>]
  /\ stream = <<>>
  /\ reader = "header"
  /\ dec_message_ = [header |-> <<>>, data |-> <<>>]
  /\ sent = <<>>
  /\ received = <<>>

Messages == [type : {"Hello", "RespHello", "Response", "Request"},
             command : DOMAIN command_ \cup {"unknown"},
             data : Payloads]

Encode(msg) ==
  /\ Len(sent) < MaxFrames
  /\ Encodable(msg)
  /\ enc_message_' = Serialized(msg)
  /\ stream' = stream \o Bytes(enc_message_')
  /\ sent' = Append(sent, msg)
  /\ UNCHANGED <<reader, dec_message_, received>>

\* A broken ReadHeader: the buffer has no byte for the terminator.
ReadHeaderTight ==
  /\ reader = "header"
  /\ Len(stream) >= HeaderLength
  /\ LET header == SubSeq(stream, 1, HeaderLength)
     IN  dec_message_' = [header |-> header,
                          data |-> NewData(DataSize(SubSeq(header, 3, 6)))]
  /\ stream' = SubSeq(stream, HeaderLength + 1, Len(stream))
  /\ reader' = "body"
  /\ UNCHANGED <<enc_message_, sent, received>>

\* The first async_read has its six bytes: decodeHeader() makes a buffer of one
\* byte more than the sender's data, or of none when the 1 it adds wraps around.
ReadHeader ==
  /\ reader = "header"
  /\ Len(stream) >= HeaderLength
  /\ LET header == SubSeq(stream, 1, HeaderLength)
     IN  dec_message_' =
           [header |-> header,
            data |-> NewData((DataSize(SubSeq(header, 3, 6)) + 1) % Width)]
  /\ stream' = SubSeq(stream, HeaderLength + 1, Len(stream))
  /\ reader' = "body"
  /\ UNCHANGED <<enc_message_, sent, received>>

\* A broken ReadBody: it waits for as many bytes as the buffer has.
ReadBodyWhole ==
  /\ reader = "body"
  /\ Room(dec_message_)
  /\ Len(stream) >= Len(dec_message_.data)
  /\ LET read == Len(dec_message_.data)
         filled == [dec_message_ EXCEPT !.data = SubSeq(stream, 1, read)]
     IN  /\ received' = Append(received, DecodeData(filled))
         /\ dec_message_' = filled
         /\ stream' = SubSeq(stream, read + 1, Len(stream))
  /\ reader' = "header"
  /\ UNCHANGED <<enc_message_, sent>>

\* A broken ReadBody: decodeBody() reads on instead of decodeHeader().
ReadBodyAgain ==
  /\ reader = "body"
  /\ Room(dec_message_)
  /\ LET read == BodyRead(dec_message_)
         filled == [dec_message_ EXCEPT
                      !.data = [i \in 1 .. Len(@) |->
                                  IF i <= read THEN stream[i] ELSE @[i]]]
     IN  /\ Len(stream) >= read
         /\ received' = Append(received, DecodeData(filled))
         /\ dec_message_' = [filled EXCEPT !.data[Len(filled.data)] = NUL]
         /\ stream' = SubSeq(stream, read + 1, Len(stream))
  /\ reader' = "body"
  /\ UNCHANGED <<enc_message_, sent>>

\* The second async_read has what it asked for: decodeData() and push_back().
ReadBody ==
  /\ reader = "body"
  /\ Room(dec_message_)
  /\ LET read == BodyRead(dec_message_)
         filled == [dec_message_ EXCEPT
                      !.data = [i \in 1 .. Len(@) |->
                                  IF i <= read THEN stream[i] ELSE @[i]]]
     IN  /\ Len(stream) >= read
         /\ received' = Append(received, DecodeData(filled))
         /\ dec_message_' = [filled EXCEPT !.data[Len(filled.data)] = NUL]
         /\ stream' = SubSeq(stream, read + 1, Len(stream))
  /\ reader' = "header"
  /\ UNCHANGED <<enc_message_, sent>>

\* The second async_read was given more bytes than the buffer has, and one of them
\* arrives: it is written past the buffer, and what the program does from then on
\* is undefined.
Overrun ==
  /\ reader = "body"
  /\ ~ Room(dec_message_)
  /\ stream # <<>>
  /\ reader' = "overrun"
  /\ UNCHANGED <<enc_message_, stream, dec_message_, sent, received>>

Next == (\E msg \in Messages : Encode(msg)) \/ ReadHeader \/ ReadBody \/ Overrun

Spec == Init /\ [][Next]_vars

\* The receiver's io thread runs.
FairSpec == Spec /\ WF_vars(ReadHeader \/ ReadBody \/ Overrun)

-----------------------------------------------------------------------------
(***************************************************************************)
(* Correctness.                                                            *)
(***************************************************************************)

Char == Nat \cup {Uninitialized}

\* The variables hold values of their types.
TypeOK ==
  /\ enc_message_.header \in Seq(Nat) /\ enc_message_.data \in Seq(Nat)
  /\ stream \in Seq(Nat)
  /\ reader \in {"header", "body", "overrun"}
  /\ dec_message_.header \in Seq(Nat) /\ dec_message_.data \in Seq(Char)
  /\ \A i \in 1 .. Len(sent) : sent[i] \in Messages
  /\ Len(received) <= Len(sent)

\* What is left of a message: a command that the table does not know is gone, and
\* so is the data after a NUL.
Image(msg) ==
  [msg EXCEPT !.command = IF @ \in DOMAIN command_ THEN @ ELSE "NoCommand",
              !.data = UpToNul(@)]

\* The messages come out in the order in which they went in, none of them lost,
\* split or merged with the next, over empty bodies, bodies of every length that
\* fits into the buffer, and the two tables that Encoder and Decoder each keep.
MessagesSurvive == \A i \in 1 .. Len(received) : received[i] = Image(sent[i])

\* The longest data that the length field carries.
Longest(msg) == Len(msg.data) + 1 = Width

\* The 1 that decodeHeader() adds and decodeBody() takes away wraps around the 32
\* bits for the longest data and for no other: every other body, the empty one
\* too, is read into a buffer that holds it and its terminator, and the longest one
\* into a buffer of no byte.
BodyFits ==
  reader # "header" =>
    (Room(dec_message_) <=> ~ Longest(sent[Len(received) + 1]))

\* Reader and writer agree on the frame limits: when every message has come out,
\* no byte is left over that the next header would be taken from.
InStep == reader = "header" /\ Len(received) = Len(sent) => stream = <<>>

\* As long as a message is under way, the pending async_read has the bytes that it
\* asks for: a length that is read too long, or a header taken one byte too late,
\* would leave both ends waiting, with the message on the stream.
NoReadStarves ==
  Len(received) < Len(sent) =>
    Len(stream) >= IF reader = "header" THEN HeaderLength ELSE BodyRead(dec_message_)

\* What the receiver will be given for what is still under way.
UnderWay ==
  [i \in 1 .. Len(sent) - Len(received) |-> Image(sent[Len(received) + i])]

Fifo == INSTANCE FifoChannel WITH
  Message <- {Image(msg) : msg \in {m \in Messages : Encodable(m)}},
  channel <- UnderWay,
  delivered <- received

\* Encoder, stream and Decoder together are a channel of messages: every read of a
\* body delivers the oldest message under way and takes it off the channel, every
\* read of a header leaves the channel alone.
ImplementsFifo == Fifo!Spec

\* No read waits for bytes that the writer never sends: every message encoded comes
\* out, unless one of the longest went before it or is it.
MessagesArrive ==
  \A n \in 1 .. MaxFrames :
    (Len(sent) >= n) ~>
      (Len(received) >= n \/ \E i \in 1 .. Len(sent) : i <= n /\ Longest(sent[i]))

=============================================================================
