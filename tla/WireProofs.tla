----------------------------- MODULE WireProofs -----------------------------
(***************************************************************************)
(* Proofs about Wire, for every base of the length field, 256 among them,  *)
(* and messages of every number and length: first the header, then texts   *)
(* that end at a NUL, then the stream.                                     *)
(***************************************************************************)
EXTENDS Wire, SequenceTheorems, WellFoundedInduction, TLAPS

\* Division with remainder.
LEMMA Divide ==
  ASSUME NEW n \in Nat
  PROVE  /\ n \div Radix \in Nat
         /\ n % Radix \in 0 .. Radix - 1
         /\ n = Radix * (n \div Radix) + (n % Radix)
<1>1. Radix \in Nat /\ Radix > 0
  BY WireAssumption
<1>2. n \div Radix \in Int /\ n % Radix \in 0 .. Radix - 1
  BY <1>1
<1>3. n = Radix * (n \div Radix) + (n % Radix)
  BY <1>1
<1>4. n \div Radix >= 0
  <2> DEFINE q == n \div Radix
  <2>1. q \in Int /\ n < Radix * (q + 1) /\ n >= 0
    BY <1>1, <1>2, <1>3
  <2> HIDE DEF q
  <2>2. q + 1 > 0
    BY <1>1, <2>1
  <2> QED BY <2>1, <2>2 DEF q
<1> QED BY <1>2, <1>3, <1>4

\* A number below m bases has a quotient below m.
LEMMA QuotientBound ==
  ASSUME NEW n \in Nat, NEW m \in Nat, n < Radix * m
  PROVE  n \div Radix < m
<1> DEFINE q == n \div Radix
<1>1. q \in Nat /\ n >= Radix * q
  BY Divide, WireAssumption
<1> HIDE DEF q
<1>2. Radix * q < Radix * m
  BY <1>1, WireAssumption
<1>3. q < m
  BY <1>1, <1>2, WireAssumption
<1> QED BY <1>3 DEF q

\* The four bytes that the encoder writes for a 32-bit size stand, for the
\* decoder, for that size.
LEMMA LengthRoundTrip ==
  ASSUME NEW size \in Nat, size < Width
  PROVE  /\ LengthBytes(size) \in [1 .. 4 -> 0 .. Radix - 1]
         /\ DataSize(LengthBytes(size)) = size
<1> DEFINE high == size \div Radix
           higher == high \div Radix
           highest == higher \div Radix
           R3 == Radix * Radix * Radix
           R2 == Radix * Radix
<1>1. /\ high \in Nat /\ size % Radix \in 0 .. Radix - 1
      /\ size = Radix * high + (size % Radix)
  BY Divide
<1>2. /\ higher \in Nat /\ high % Radix \in 0 .. Radix - 1
      /\ high = Radix * higher + (high % Radix)
  BY <1>1, Divide
<1>3. /\ highest \in Nat /\ higher % Radix \in 0 .. Radix - 1
      /\ higher = Radix * highest + (higher % Radix)
  BY <1>2, Divide
<1>4. R3 \in Nat /\ R2 \in Nat /\ Width = Radix * R3 /\ R3 = Radix * R2
  BY WireAssumption DEF Width
<1>5. high < R3
  BY <1>4, QuotientBound
<1>6. higher < R2
  BY <1>1, <1>4, <1>5, QuotientBound
<1>7. highest < Radix
  BY <1>2, <1>6, QuotientBound, WireAssumption
<1>8. highest % Radix = highest
  BY <1>3, <1>7, WireAssumption
<1>9. LengthBytes(size) = <<highest, higher % Radix, high % Radix, size % Radix>>
  BY <1>8 DEF LengthBytes
<1>10. highest \in 0 .. Radix - 1
  BY <1>3, <1>7, WireAssumption
<1> HIDE DEF high, higher, highest
<1>11. DataSize(LengthBytes(size)) =
        ((highest * Radix + (higher % Radix)) * Radix + (high % Radix)) * Radix + (size % Radix)
  <2>1. ASSUME NEW a, NEW b, NEW c, NEW d
        PROVE  DataSize(<<a, b, c, d>>) = ((a * Radix + b) * Radix + c) * Radix + d
    <3>1. /\ <<a, b, c, d>>[1] = a /\ <<a, b, c, d>>[2] = b
          /\ <<a, b, c, d>>[3] = c /\ <<a, b, c, d>>[4] = d
      OBVIOUS
    <3> QED BY <3>1, Zenon DEF DataSize
  <2>2. DataSize(<<highest, higher % Radix, high % Radix, size % Radix>>) =
          ((highest * Radix + (higher % Radix)) * Radix + (high % Radix)) * Radix
            + (size % Radix)
    BY <2>1
  <2> QED BY <2>2, <1>9
<1>12. highest * Radix + (higher % Radix) = higher
  BY <1>3, WireAssumption
<1>13. higher * Radix + (high % Radix) = high
  BY <1>2, WireAssumption
<1>14. high * Radix + (size % Radix) = size
  BY <1>1, WireAssumption
<1>15. LengthBytes(size) \in [1 .. 4 -> 0 .. Radix - 1]
  BY <1>1, <1>2, <1>3, <1>9, <1>10
<1>16. DataSize(LengthBytes(size)) = size
  <2>1. DataSize(LengthBytes(size)) =
          (higher * Radix + (high % Radix)) * Radix + (size % Radix)
    BY <1>11, <1>12, Zenon
  <2>2. DataSize(LengthBytes(size)) = high * Radix + (size % Radix)
    BY <2>1, <1>13, Zenon
  <2> QED BY <2>2, <1>14, Zenon
<1> QED BY <1>15, <1>16

\* The tables that Encoder and Decoder each keep are inverse to each other.
LEMMA TablesAgree ==
  /\ \A type \in DOMAIN type_ :
       type_[type] \in DOMAIN inv_type_ /\ inv_type_[type_[type]] = type
  /\ \A command \in DOMAIN command_ :
       /\ command_[command] \in DOMAIN inv_command_
       /\ inv_command_[command_[command]] = command
<1>1. \A type \in DOMAIN type_ :
        type_[type] \in DOMAIN inv_type_ /\ inv_type_[type_[type]] = type
  BY DEF type_, inv_type_
<1>2. ASSUME NEW command \in DOMAIN command_
      PROVE  command_[command] \in DOMAIN inv_command_
  BY DEF command_, inv_command_
<1>3. ASSUME NEW command \in DOMAIN command_
      PROVE  inv_command_[command_[command]] = command
  BY DEF command_, inv_command_
<1> QED BY <1>1, <1>2, <1>3

\* A header put together from two bytes and four gives them back.
LEMMA SixBytes ==
  ASSUME NEW S, NEW two \in Seq(S), NEW four \in Seq(S), Len(two) = 2, Len(four) = 4
  PROVE  /\ Len(two \o four) = 6
         /\ (two \o four)[1] = two[1] /\ (two \o four)[2] = two[2]
         /\ DataSize(SubSeq(two \o four, 3, 6)) = DataSize(four)
<1> DEFINE h == two \o four
           sub == SubSeq(h, 3, 6)
<1>1. /\ h \in Seq(S) /\ Len(h) = Len(two) + Len(four)
      /\ \A i \in 1 .. Len(two) + Len(four) :
           h[i] = IF i <= Len(two) THEN two[i] ELSE four[i - Len(two)]
  BY ConcatProperties, Zenon
<1>2. Len(two) + Len(four) = 6
  <2>1. 2 + 4 = 6
    OBVIOUS
  <2> QED BY <2>1, Zenon
<1> HIDE DEF h
<1>3. /\ Len(h) = 6
      /\ \A i \in 1 .. 6 : h[i] = IF i <= 2 THEN two[i] ELSE four[i - 2]
  BY <1>1, <1>2, Zenon
<1>4. h[1] = two[1] /\ h[2] = two[2]
  BY <1>3
<1>5. \A i \in 3 .. 6 : h[i] = four[i - 2]
  BY <1>3
<1>6. \A i \in 3 .. 6 : h[i] \in S
  <2>1. \A i \in 1 .. 6 : h[i] \in S
    BY <1>1, <1>3, ElementOfSeq, Zenon
  <2> QED BY <2>1
<1>7. \A i \in 1 .. 6 - 3 + 1 : sub[i] = h[3 + i - 1]
  BY <1>6, SubSeqProperties
<1>8. sub[1] = h[3] /\ sub[2] = h[4] /\ sub[3] = h[5] /\ sub[4] = h[6]
  BY <1>7
<1>9. h[3] = four[1] /\ h[4] = four[2] /\ h[5] = four[3] /\ h[6] = four[4]
  BY <1>5
<1>10. DataSize(sub) = DataSize(four)
  BY <1>8, <1>9, Zenon DEF DataSize
<1> QED BY <1>3, <1>4, <1>10, Zenon DEF h

\* What the decoder learns from the header of any message that the encoder
\* accepts, whatever follows it on the stream: its type, its command or that it
\* has none, and the number of bytes of its body.
THEOREM HeaderRoundTrip ==
  ASSUME NEW Types, NEW Commands,
         NEW msg \in [type : Types, command : Commands, data : Seq(Nat)],
         Encodable(msg), Len(msg.data) < Width
  PROVE  LET header == Serialized(msg).header
         IN  /\ Len(header) = HeaderLength
             /\ Lookup(inv_type_, header[1]) = msg.type
             /\ Lookup(inv_command_, header[2]) = Image(msg).command
             /\ DataSize(SubSeq(header, 3, 6)) = Len(msg.data)
<1> DEFINE size == Len(msg.data)
           t == type_[msg.type]
           c == CommandByte(msg)
           header == Serialized(msg).header
<1>1. size \in Nat /\ size < Width
  OBVIOUS
<1>2. PICK b1, b2, b3, b4 : LengthBytes(size) = <<b1, b2, b3, b4>>
  BY DEF LengthBytes
<1>3. header = <<t, c>> \o <<b1, b2, b3, b4>>
  BY <1>2 DEF Serialized
<1>4. /\ Len(header) = 6 /\ header[1] = t /\ header[2] = c
      /\ DataSize(SubSeq(header, 3, 6)) = DataSize(<<b1, b2, b3, b4>>)
  <2> DEFINE S == {t, c, b1, b2, b3, b4}
             two == <<t, c>>
             four == <<b1, b2, b3, b4>>
  <2> HIDE DEF t, c
  <2>1. /\ two \in Seq(S) /\ Len(two) = 2 /\ two[1] = t /\ two[2] = c
        /\ four \in Seq(S) /\ Len(four) = 4
    OBVIOUS
  <2>2. header = two \o four
    BY <1>3
  <2> HIDE DEF two, four, S, header
  <2>3. /\ Len(two \o four) = 6
        /\ (two \o four)[1] = two[1] /\ (two \o four)[2] = two[2]
        /\ DataSize(SubSeq(two \o four, 3, 6)) = DataSize(four)
    BY <2>1, SixBytes, Zenon
  <2> QED BY <2>1, <2>2, <2>3, Zenon DEF four
<1>5. Lookup(inv_type_, t) = msg.type
  BY TablesAgree DEF Encodable, Lookup
<1>6. Lookup(inv_command_, c) = Image(msg).command
  <2>1. Image(msg).command =
          IF msg.command \in DOMAIN command_ THEN msg.command ELSE "NoCommand"
    BY DEF Image
  <2>2. "NoCommand" \in DOMAIN command_ /\ command_.NoCommand = command_["NoCommand"]
    BY DEF command_
  <2>3. CASE msg.command \in DOMAIN command_
    BY <2>1, <2>3, TablesAgree DEF CommandByte, Lookup
  <2>4. CASE msg.command \notin DOMAIN command_
    BY <2>1, <2>2, <2>4, TablesAgree DEF CommandByte, Lookup
  <2> QED BY <2>3, <2>4
<1>7. DataSize(SubSeq(header, 3, 6)) = size
  BY <1>1, <1>2, <1>4, LengthRoundTrip
<1> HIDE DEF t, c, size
<1> QED BY <1>4, <1>5, <1>6, <1>7 DEF HeaderLength, t, c, size

\* A set of numbers that is not empty has a least one.
LEMMA Least ==
  ASSUME NEW T \in SUBSET Nat, T # {}
  PROVE  \E x \in T : \A y \in T : x <= y
<1>1. PICK x \in T : \A y \in T : ~ (<<y, x>> \in OpToRel(<, Nat))
  BY NatLessThanWellFounded, WFMin, Zenon
<1>2. \A y \in T : ~ (y < x)
  BY <1>1 DEF OpToRel
<1> QED BY <1>2

\* The text ends at place n: at a NUL, or because nothing follows.
NulAt(chars, n) ==
  /\ \A i \in 1 .. n : chars[i] # NUL
  /\ n < Len(chars) => chars[n + 1] = NUL

\* A text has one place before which it has no NUL and at which it ends or has one.
LEMMA FirstNul ==
  ASSUME NEW chars, Len(chars) \in Nat
  PROVE  \E n \in 0 .. Len(chars) : NulAt(chars, n)
<1> DEFINE T == {n \in 0 .. Len(chars) : n < Len(chars) => chars[n + 1] = NUL}
<1>1. T \in SUBSET Nat /\ Len(chars) \in T
  OBVIOUS
<1>2. PICK n \in T : \A m \in T : n <= m
  BY <1>1, Least
<1>3. ASSUME NEW i \in 1 .. n
      PROVE  chars[i] # NUL
  <2>1. i - 1 \in 0 .. Len(chars) /\ ~(n <= i - 1) /\ (i - 1) + 1 = i
    OBVIOUS
  <2>2. i - 1 \notin T
    BY <1>2, <2>1
  <2> QED BY <2>1, <2>2
<1> QED BY <1>2, <1>3 DEF NulAt

\* The place that UpToNul chooses is that one.
LEMMA UpToNulIs ==
  ASSUME NEW chars, Len(chars) \in Nat, NEW n \in 0 .. Len(chars), NulAt(chars, n)
  PROVE  UpToNul(chars) = SubSeq(chars, 1, n)
<1> DEFINE m == CHOOSE k \in 0 .. Len(chars) : NulAt(chars, k)
<1>1. m \in 0 .. Len(chars) /\ NulAt(chars, m)
  OBVIOUS
<1>2. UpToNul(chars) = SubSeq(chars, 1, m)
  BY Zenon DEF UpToNul, NulAt
<1> HIDE DEF m
<1>3. ~(m < n) /\ ~(n < m)
  BY <1>1 DEF NulAt
<1> QED BY <1>1, <1>2, <1>3

\* The byte that the receiver puts behind a text ends it there.
LEMMA TerminatorEnds ==
  ASSUME NEW data \in Seq(Nat), NEW ended, Len(ended) = Len(data) + 1,
         \A i \in 1 .. Len(data) : ended[i] = data[i],
         ended[Len(data) + 1] = NUL
  PROVE  UpToNul(ended) = UpToNul(data)
<1>1. PICK n \in 0 .. Len(data) : NulAt(data, n)
  BY FirstNul
<1>2. NulAt(ended, n)
  BY <1>1 DEF NulAt
<1>3. UpToNul(ended) = SubSeq(ended, 1, n) /\ UpToNul(data) = SubSeq(data, 1, n)
  BY <1>1, <1>2, UpToNulIs
<1>4. SubSeq(ended, 1, n) = SubSeq(data, 1, n)
  <2>1. \A i \in 1 .. n : ended[i] \in Nat /\ data[i] \in Nat /\ ended[i] = data[i]
    OBVIOUS
  <2>2. /\ SubSeq(ended, 1, n) \in Seq(Nat) /\ SubSeq(data, 1, n) \in Seq(Nat)
        /\ Len(SubSeq(ended, 1, n)) = Len(SubSeq(data, 1, n))
        /\ \A i \in 1 .. Len(SubSeq(ended, 1, n)) : SubSeq(ended, 1, n)[i] = SubSeq(data, 1, n)[i]
    BY <2>1, SubSeqProperties
  <2> QED BY <2>2, SeqEqual, Zenon
<1> QED BY <1>3, <1>4

\* A text is no longer up to its NUL.
LEMMA UpToNulType ==
  ASSUME NEW data \in Seq(Nat)
  PROVE  UpToNul(data) \in Seq(Nat)
<1>1. PICK n \in 0 .. Len(data) : NulAt(data, n)
  BY FirstNul
<1>2. UpToNul(data) = SubSeq(data, 1, n)
  BY <1>1, UpToNulIs
<1> QED BY <1>2, SubSeqProperties

-----------------------------------------------------------------------------
(***************************************************************************)
(* The stream, cut at the frame limits.                                    *)
(***************************************************************************)

\* The frame of a message lies on a text between two places, of which the first
\* may be before the text when a part of the frame has been read.
FrameAt(text, msg, from, to) ==
  /\ to = from + HeaderLength + Len(msg.data)
  /\ to <= Len(text)
  /\ \A j \in 1 .. HeaderLength :
       from + j >= 1 => text[from + j] = Serialized(msg).header[j]
  /\ \A j \in 1 .. Len(msg.data) :
       from + HeaderLength + j >= 1 => text[from + HeaderLength + j] = msg.data[j]

\* Where the frames begin that have not been read to their end, when done messages
\* have come out: the first one where the reader stands, each other one where the one
\* before it ends, and the last one ends with the text.
Frames(at, done, place, msgs, text) ==
  /\ at[done + 1] = IF place = "header" THEN 0 ELSE -HeaderLength
  /\ at[Len(msgs) + 1] = Len(text)
  /\ \A i \in done + 1 .. Len(msgs) : FrameAt(text, msgs[i], at[i], at[i + 1])

\* The bytes under way are the frames of the messages that are not out yet.
Framed == \E at \in [Nat -> Int] : Frames(at, Len(received), reader, sent, stream)

\* What was encoded, and what came out, is made of messages.
Written ==
  /\ sent \in Seq(Messages)
  /\ received \in Seq({Image(msg) : msg \in Messages})
  /\ \A i \in 1 .. Len(sent) : Encodable(sent[i])

\* The buffer that was made for the body that is to be read.
BodyPending ==
  reader # "header" =>
    /\ Len(received) < Len(sent)
    /\ dec_message_ = [header |-> Serialized(sent[Len(received) + 1]).header,
                       data |-> NewData((Len(sent[Len(received) + 1].data) + 1) % Width)]

IInv == TypeOK /\ Written /\ MessagesSurvive /\ BodyPending /\ Framed

\* Two texts, one behind the other.
LEMMA Joined ==
  ASSUME NEW a \in Seq(Nat), NEW b \in Seq(Nat)
  PROVE  /\ a \o b \in Seq(Nat) /\ Len(a \o b) = Len(a) + Len(b)
         /\ \A i \in 1 .. Len(a) : (a \o b)[i] = a[i]
         /\ \A i \in 1 .. Len(b) : (a \o b)[Len(a) + i] = b[i]
<1> DEFINE c == a \o b  p == Len(a)  q == Len(b)
<1>1. /\ c \in Seq(Nat) /\ Len(c) = p + q
      /\ \A i \in 1 .. p + q : c[i] = IF i <= p THEN a[i] ELSE b[i - p]
  BY ConcatProperties, Zenon
<1>2. p \in Nat /\ q \in Nat
  BY LenProperties
<1> HIDE DEF c, p, q
<1>3. \A i \in 1 .. p : c[i] = a[i]
  BY <1>1, <1>2
<1>4. ASSUME NEW i \in 1 .. q
      PROVE  c[p + i] = b[i]
  <2>1. p + i \in 1 .. p + q /\ ~(p + i <= p) /\ (p + i) - p = i
    BY <1>2
  <2> QED BY <1>1, <2>1
<1> QED BY <1>1, <1>3, <1>4, Zenon DEF c, p, q

\* What is known of a message that the encoder accepts.
LEMMA MessageFits ==
  ASSUME NEW msg \in Messages, Encodable(msg)
  PROVE  LET header == Serialized(msg).header
         IN  /\ msg.data \in Seq(Nat) /\ Len(msg.data) \in Nat /\ Len(msg.data) < Width
             /\ Width \in Nat
             /\ header \in Seq(Nat) /\ Len(header) = HeaderLength
             /\ Lookup(inv_type_, header[1]) = msg.type
             /\ Lookup(inv_command_, header[2]) = Image(msg).command
             /\ DataSize(SubSeq(header, 3, 6)) = Len(msg.data)
             /\ Serialized(msg).data = msg.data
<1>1. /\ msg.data \in Seq(Nat) /\ Len(msg.data) \in Nat /\ Len(msg.data) < Width
      /\ Width \in Nat
  BY WireAssumption DEF Messages, Width
<1>2. msg \in [type : {"Hello", "RespHello", "Response", "Request"},
                command : DOMAIN command_ \cup {"unknown"}, data : Seq(Nat)]
  BY <1>1 DEF Messages
<1>3. Len(msg.data) < Width
  BY <1>1
<1>4. Serialized(msg).header \in Seq(Nat)
  <2>1. type_[msg.type] \in Nat
    BY DEF Encodable, type_
  <2>2. CommandByte(msg) \in Nat
    BY DEF CommandByte, command_
  <2>3. LengthBytes(Len(msg.data)) \in Seq(Nat)
    <3>1. LengthBytes(Len(msg.data)) \in [1 .. 4 -> 0 .. Radix - 1]
      BY <1>1, <1>3, LengthRoundTrip
    <3>2. PICK b1, b2, b3, b4 : LengthBytes(Len(msg.data)) = <<b1, b2, b3, b4>>
      BY DEF LengthBytes
    <3>3. /\ b1 \in 0 .. Radix - 1 /\ b2 \in 0 .. Radix - 1
          /\ b3 \in 0 .. Radix - 1 /\ b4 \in 0 .. Radix - 1
      BY <3>1, <3>2
    <3>4. <<b1, b2, b3, b4>> \in Seq(Nat)
      BY <3>3, WireAssumption
    <3> QED BY <3>2, <3>4
  <2>4. <<type_[msg.type], CommandByte(msg)>> \in Seq(Nat)
    BY <2>1, <2>2
  <2>5. Serialized(msg).header =
          <<type_[msg.type], CommandByte(msg)>> \o LengthBytes(Len(msg.data))
    BY DEF Serialized
  <2> QED BY <2>3, <2>4, <2>5, ConcatProperties, Zenon
<1>5. Serialized(msg).data = msg.data
  BY DEF Serialized
<1> DEFINE header == Serialized(msg).header
<1>6. /\ Len(header) = HeaderLength
      /\ Lookup(inv_type_, header[1]) = msg.type
      /\ Lookup(inv_command_, header[2]) = Image(msg).command
      /\ DataSize(SubSeq(header, 3, 6)) = Len(msg.data)
  BY ONLY <1>2, <1>3, Encodable(msg), HeaderRoundTrip, Zenon
<1> HIDE DEF header
<1> QED BY <1>1, <1>4, <1>5, <1>6, Zenon DEF header

\* A frame stays where it is when bytes are put behind it.
LEMMA FrameStays ==
  ASSUME NEW text \in Seq(Nat), NEW more \in Seq(Nat), NEW msg \in Messages,
         NEW from \in Int, NEW to \in Int, FrameAt(text, msg, from, to)
  PROVE  FrameAt(text \o more, msg, from, to)
<1> DEFINE n == Len(text)  longer == text \o more  size == Len(msg.data)
<1>1. n \in Nat /\ Len(more) \in Nat
  BY LenProperties
<1>2. Len(longer) = n + Len(more) /\ \A i \in 1 .. n : longer[i] = text[i]
  BY <1>1, Joined
<1>3. size \in Nat
  BY WireAssumption DEF Messages
<1>4. to = from + 6 + size /\ to <= n
  BY DEF FrameAt, HeaderLength
<1>5. /\ \A j \in 1 .. 6 : from + j >= 1 => text[from + j] = Serialized(msg).header[j]
      /\ \A j \in 1 .. size : from + 6 + j >= 1 => text[from + 6 + j] = msg.data[j]
  BY DEF FrameAt, HeaderLength
<1> HIDE DEF n, longer, size
<1>6. ASSUME NEW j \in 1 .. 6, from + j >= 1
      PROVE  longer[from + j] = Serialized(msg).header[j]
  <2>1. from + j \in 1 .. n
    BY <1>1, <1>3, <1>4, <1>6
  <2> QED BY <1>2, <1>5, <1>6, <2>1
<1>7. ASSUME NEW j \in 1 .. size, from + 6 + j >= 1
      PROVE  longer[from + 6 + j] = msg.data[j]
  <2>1. from + 6 + j \in 1 .. n
    BY <1>1, <1>3, <1>4, <1>7
  <2> QED BY <1>2, <1>5, <1>7, <2>1
<1>8. to <= Len(longer)
  BY <1>1, <1>2, <1>4
<1> QED BY <1>4, <1>6, <1>7, <1>8 DEF FrameAt, HeaderLength, longer, size

\* When k bytes are read, every frame comes k places nearer.
LEMMA FrameNearer ==
  ASSUME NEW text \in Seq(Nat), NEW k \in 0 .. Len(text), NEW msg \in Messages,
         NEW from \in Int, NEW to \in Int, FrameAt(text, msg, from, to)
  PROVE  FrameAt(SubSeq(text, k + 1, Len(text)), msg, from - k, to - k)
<1> DEFINE n == Len(text)  rest == SubSeq(text, k + 1, n)  size == Len(msg.data)
<1>1. n \in Nat /\ k \in 0 .. n /\ (\A i \in k + 1 .. n : text[i] \in Nat)
  BY LenProperties, ElementOfSeq
<1>2. size \in Nat
  BY WireAssumption DEF Messages
<1>a. to = from + 6 + size /\ to <= n
  BY DEF FrameAt, HeaderLength
<1>3. /\ \A j \in 1 .. 6 : from + j >= 1 => text[from + j] = Serialized(msg).header[j]
      /\ \A j \in 1 .. size : from + 6 + j >= 1 => text[from + 6 + j] = msg.data[j]
  BY DEF FrameAt, HeaderLength
<1> HIDE DEF n, size
<1>4. /\ Len(rest) = IF k + 1 <= n THEN n - (k + 1) + 1 ELSE 0
      /\ \A i \in 1 .. n - (k + 1) + 1 : rest[i] = text[(k + 1) + i - 1]
  BY <1>1, SubSeqProperties
<1> HIDE DEF rest
<1>5. Len(rest) = n - k /\ \A i \in 1 .. n - k : rest[i] = text[k + i]
  BY <1>1, <1>4
<1>6. /\ \A j \in 1 .. 6 :
           (from - k) + j >= 1 => rest[(from - k) + j] = Serialized(msg).header[j]
      /\ \A j \in 1 .. size :
           (from - k) + 6 + j >= 1 => rest[(from - k) + 6 + j] = msg.data[j]
  <2>1. ASSUME NEW j \in 1 .. 6, (from - k) + j >= 1
        PROVE  rest[(from - k) + j] = Serialized(msg).header[j]
    <3>1. (from - k) + j \in 1 .. n - k /\ k + ((from - k) + j) = from + j /\ from + j >= 1
      BY <1>1, <1>2, <1>a, <2>1
    <3> QED BY <1>3, <1>5, <2>1, <3>1
  <2>2. ASSUME NEW j \in 1 .. size, (from - k) + 6 + j >= 1
        PROVE  rest[(from - k) + 6 + j] = msg.data[j]
    <3>1. /\ (from - k) + 6 + j \in 1 .. n - k /\ k + ((from - k) + 6 + j) = from + 6 + j
          /\ from + 6 + j >= 1
      BY <1>1, <1>2, <1>a, <2>2
    <3> QED BY <1>3, <1>5, <2>2, <3>1
  <2> QED BY <2>1, <2>2
<1>7. to - k = (from - k) + 6 + size /\ to - k <= Len(rest)
  BY <1>1, <1>2, <1>a, <1>5
<1> QED BY <1>6, <1>7 DEF FrameAt, HeaderLength, rest, size, n

\* A frame that was put behind a text lies there.
LEMMA FrameAppended ==
  ASSUME NEW text \in Seq(Nat), NEW msg \in Messages, Encodable(msg)
  PROVE  FrameAt(text \o Bytes(Serialized(msg)), msg,
                 Len(text), Len(text \o Bytes(Serialized(msg))))
<1> DEFINE n == Len(text)  size == Len(msg.data)  header == Serialized(msg).header
           frame == Bytes(Serialized(msg))  longer == text \o frame
<1>1. /\ text \in Seq(Nat) /\ header \in Seq(Nat) /\ msg.data \in Seq(Nat)
      /\ HeaderLength \in Nat /\ n \in Nat /\ size \in Nat
      /\ Len(header) = HeaderLength
  BY MessageFits, LenProperties DEF HeaderLength
<1>2. /\ frame = header \o msg.data /\ longer = text \o frame
      /\ Len(text) = n /\ Len(msg.data) = size
  BY DEF Bytes, Serialized
<1> HIDE DEF n, size, header, frame, longer
<1>3. /\ frame \in Seq(Nat) /\ Len(frame) = HeaderLength + size
      /\ \A i \in 1 .. HeaderLength : frame[i] = header[i]
      /\ \A i \in 1 .. size : frame[HeaderLength + i] = msg.data[i]
  BY <1>1, <1>2, Joined, Zenon
<1>4. /\ Len(longer) = n + (HeaderLength + size)
      /\ \A i \in 1 .. HeaderLength + size : longer[n + i] = frame[i]
  <2>1. /\ Len(longer) = Len(text) + Len(frame)
        /\ \A i \in 1 .. Len(frame) : longer[Len(text) + i] = frame[i]
    BY <1>1, <1>2, <1>3, Joined, Zenon
  <2>2. /\ Len(longer) = n + Len(frame)
        /\ \A i \in 1 .. Len(frame) : longer[n + i] = frame[i]
    BY <1>2, <2>1, Zenon
  <2> QED BY <1>3, <2>2, Zenon
<1>5. \A j \in 1 .. HeaderLength : longer[n + j] = header[j]
  <2>1. \A j \in 1 .. HeaderLength : j \in 1 .. HeaderLength + size
    BY <1>1
  <2> QED BY <1>3, <1>4, <2>1, Zenon
<1>6. ASSUME NEW j \in 1 .. size
      PROVE  longer[n + HeaderLength + j] = msg.data[j]
  <2>1. /\ HeaderLength + j \in 1 .. HeaderLength + size
        /\ n + (HeaderLength + j) = n + HeaderLength + j
    BY <1>1
  <2>2. longer[n + (HeaderLength + j)] = frame[HeaderLength + j]
    BY <1>4, <2>1, Zenon
  <2> QED BY <1>3, <2>1, <2>2, Zenon
<1>a. Len(longer) = n + HeaderLength + size
  BY <1>1, <1>4
<1>7. FrameAt(longer, msg, n, Len(longer))
  <2>1. Len(longer) <= Len(longer)
    BY <1>1, <1>a
  <2> QED BY <1>2, <1>5, <1>6, <1>a, <2>1, Zenon DEF FrameAt, header
<1> QED BY <1>7 DEF longer, frame, n

\* At first nothing is on the stream.
LEMMA InitIInv == Init => IInv
<1> SUFFICES ASSUME Init
             PROVE  IInv
  OBVIOUS
<1>1. /\ stream = <<>> /\ sent = <<>> /\ received = <<>> /\ reader = "header"
      /\ enc_message_ = [header |-> <<>>, data |-> <<>>]
      /\ dec_message_ = [header |-> <<>>, data |-> <<>>]
  BY DEF Init
<1>2. TypeOK
  BY <1>1 DEF TypeOK, Char
<1>3. Written /\ MessagesSurvive /\ BodyPending
  BY <1>1 DEF Written, MessagesSurvive, BodyPending
<1>4. Framed
  <2> DEFINE at == [k \in Nat |-> 0]
  <2>1. at \in [Nat -> Int] /\ at[0 + 1] = 0
    OBVIOUS
  <2>2. Frames(at, Len(received), reader, sent, stream)
    BY <1>1, <2>1 DEF Frames
  <2> QED BY <2>1, <2>2 DEF Framed
<1> QED BY <1>2, <1>3, <1>4 DEF IInv

\* encode() puts one more frame behind the others.
LEMMA EncodePreservesIInv ==
  ASSUME IInv, NEW msg \in Messages, Encode(msg)
  PROVE  IInv'
<1> DEFINE r == Len(received)  n == Len(sent)  frame == Bytes(Serialized(msg))
<1>1. /\ Encodable(msg) /\ enc_message_' = Serialized(msg)
      /\ stream' = stream \o frame /\ sent' = Append(sent, msg)
      /\ UNCHANGED <<reader, dec_message_, received>>
  BY DEF Encode
<1>2. TypeOK /\ Written /\ MessagesSurvive /\ BodyPending /\ Framed
  BY DEF IInv
<1>3. /\ Serialized(msg).header \in Seq(Nat) /\ Serialized(msg).data \in Seq(Nat)
      /\ frame \in Seq(Nat) /\ stream \in Seq(Nat) /\ stream' \in Seq(Nat)
  <2>1. Serialized(msg).header \in Seq(Nat) /\ Serialized(msg).data \in Seq(Nat)
    BY <1>1, MessageFits
  <2>2. frame \in Seq(Nat)
    BY <2>1, Joined, Zenon DEF Bytes
  <2>3. stream \in Seq(Nat)
    BY <1>2 DEF TypeOK
  <2> QED BY <1>1, <2>1, <2>2, <2>3, Joined, Zenon
<1>4. r \in Nat /\ n \in Nat /\ r <= n /\ r' = r /\ sent \in Seq(Messages)
  BY <1>1, <1>2, LenProperties DEF TypeOK, Written
<1>5. /\ sent' \in Seq(Messages) /\ Len(sent') = n + 1 /\ sent'[n + 1] = msg
      /\ \A i \in 1 .. n : sent'[i] = sent[i]
  BY <1>1, <1>4, AppendProperties
<1> HIDE DEF r, n, frame
<1>6. TypeOK'
  <2>1. \A i \in 1 .. Len(sent') : sent'[i] \in Messages
    BY <1>5, ElementOfSeq
  <2>2. Len(received') <= Len(sent')
    BY <1>4, <1>5 DEF r
  <2> QED BY <1>1, <1>2, <1>3, <2>1, <2>2 DEF TypeOK
<1>7. Written'
  <2>1. \A i \in 1 .. n : Encodable(sent[i])
    BY <1>2 DEF Written, n
  <2>2. \A i \in 1 .. n + 1 : Encodable(sent'[i])
    BY <1>1, <1>4, <1>5, <2>1
  <2> QED BY <1>1, <1>2, <1>5, <2>2 DEF Written
<1>8. MessagesSurvive'
  <2>1. \A i \in 1 .. r : received[i] = Image(sent[i])
    BY <1>2 DEF MessagesSurvive, r
  <2>2. \A i \in 1 .. r : i \in 1 .. n
    BY <1>4
  <2> QED BY <1>1, <1>5, <2>1, <2>2 DEF MessagesSurvive, r
<1>9. BodyPending'
  <2>1. ASSUME reader # "header"
        PROVE  /\ r < n + 1
               /\ dec_message_ = [header |-> Serialized(sent'[r + 1]).header,
                                  data |-> NewData((Len(sent'[r + 1].data) + 1) % Width)]
    <3>1. r < n /\ dec_message_ = [header |-> Serialized(sent[r + 1]).header,
                                  data |-> NewData((Len(sent[r + 1].data) + 1) % Width)]
      BY <1>2, <2>1 DEF BodyPending, r, n
    <3>2. r + 1 \in 1 .. n /\ r < n + 1
      BY <1>4, <3>1
    <3> QED BY <1>5, <3>1, <3>2
  <2> QED BY <1>1, <1>5, <2>1 DEF BodyPending, r
<1>10. Framed'
  <2>1. PICK at \in [Nat -> Int] : Frames(at, r, reader, sent, stream)
    BY <1>2 DEF Framed, r
  <2> DEFINE new == [k \in Nat |-> IF k = n + 2 THEN Len(stream') ELSE at[k]]
  <2>2. Len(stream') \in Nat
    BY <1>3, LenProperties
  <2>3. /\ new \in [Nat -> Int] /\ new[n + 2] = Len(stream')
        /\ \A k \in Nat : k # n + 2 => new[k] = at[k]
    BY <1>4, <2>1, <2>2
  <2> HIDE DEF new
  <2>4. /\ at[r + 1] = IF reader = "header" THEN 0 ELSE -HeaderLength
        /\ at[n + 1] = Len(stream)
        /\ \A i \in r + 1 .. n : FrameAt(stream, sent[i], at[i], at[i + 1])
    BY <2>1 DEF Frames, n
  <2>5. new[r + 1] = at[r + 1]
    BY <1>4, <2>3
  <2>6. ASSUME NEW i \in r + 1 .. n + 1
        PROVE  FrameAt(stream', sent'[i], new[i], new[i + 1])
    <3>1. CASE i \in r + 1 .. n
      <4>1. /\ i \in 1 .. n /\ i \in Nat /\ i + 1 \in Nat /\ i # n + 2 /\ i + 1 # n + 2
        BY <1>4, <3>1
      <4>2. /\ new[i] = at[i] /\ new[i + 1] = at[i + 1] /\ sent'[i] = sent[i]
            /\ at[i] \in Int /\ at[i + 1] \in Int
        BY <1>5, <2>1, <2>3, <4>1
      <4>3. sent[i] \in Messages
        BY <1>4, <4>1, ElementOfSeq DEF n
      <4>4. FrameAt(stream \o frame, sent[i], at[i], at[i + 1])
        BY <1>3, <2>4, <3>1, <4>2, <4>3, FrameStays
      <4> QED BY <1>1, <4>2, <4>4
    <3>2. CASE i = n + 1
      <4>1. n + 1 \in Nat /\ n + 1 # n + 2 /\ (n + 1) + 1 = n + 2
        BY <1>4
      <4>2. new[n + 1] = Len(stream) /\ new[(n + 1) + 1] = Len(stream') /\ sent'[n + 1] = msg
        BY <1>5, <2>3, <2>4, <4>1
      <4>3. FrameAt(stream', msg, Len(stream), Len(stream'))
        BY <1>1, <1>3, FrameAppended DEF frame
      <4> QED BY <3>2, <4>2, <4>3
    <3> QED BY <1>4, <3>1, <3>2
  <2>7. (n + 1) + 1 = n + 2
    BY <1>4
  <2>8. Frames(new, r, reader, sent', stream')
    BY <1>5, <2>3, <2>4, <2>5, <2>6, <2>7 DEF Frames
  <2> QED BY <1>1, <2>3, <2>8 DEF Framed, r
<1> QED BY <1>6, <1>7, <1>8, <1>9, <1>10 DEF IInv

\* A header that is read whole is that of the message whose frame begins there.
LEMMA HeaderRead ==
  ASSUME NEW text \in Seq(Nat), NEW msg \in Messages, Encodable(msg),
         NEW to \in Int, FrameAt(text, msg, 0, to)
  PROVE  /\ HeaderLength \in 0 .. Len(text)
         /\ SubSeq(text, 1, HeaderLength) = Serialized(msg).header
<1> DEFINE n == Len(text)  size == Len(msg.data)  header == Serialized(msg).header
           six == SubSeq(text, 1, HeaderLength)
<1>1. /\ n \in Nat /\ size \in Nat /\ header \in Seq(Nat) /\ Len(header) = HeaderLength
      /\ \A i \in 1 .. n : text[i] \in Nat
  BY MessageFits, LenProperties, ElementOfSeq
<1>2. /\ to = 0 + HeaderLength + size /\ to <= n
      /\ \A j \in 1 .. HeaderLength : 0 + j >= 1 => text[0 + j] = header[j]
  BY Zenon DEF FrameAt
<1> HIDE DEF n, size, header
<1>3. 6 \in 0 .. n
  <2>1. to = 0 + 6 + size /\ to <= n /\ n \in Nat /\ size \in Nat
    BY <1>1, <1>2, Zenon DEF HeaderLength
  <2> QED BY <2>1
<1>4. \A i \in 1 .. 6 : text[i] \in Nat /\ text[i] = header[i]
  <2>1. \A j \in 1 .. 6 : 0 + j >= 1 => text[0 + j] = header[j]
    BY <1>2, Zenon DEF HeaderLength
  <2>2. \A i \in 1 .. 6 : i \in 1 .. n /\ 0 + i >= 1 /\ 0 + i = i
    BY <1>1, <1>3
  <2> QED BY <1>1, <2>1, <2>2
<1>5. /\ six \in Seq(Nat) /\ Len(six) = 6
      /\ \A i \in 1 .. 6 : six[i] = text[i]
  BY <1>4, SubSeqProperties DEF HeaderLength
<1> HIDE DEF six
<1>6. six = header
  <2>1. Len(header) = 6
    BY <1>1 DEF HeaderLength
  <2>2. Len(six) = Len(header) /\ \A i \in 1 .. Len(six) : six[i] = header[i]
    BY <1>4, <1>5, <2>1, Zenon
  <2> QED BY <1>1, <1>5, <2>2, SeqEqual, Zenon
<1> QED BY <1>3, <1>6 DEF HeaderLength, n, header, six

\* A body of which the header is read is what stands first on the text.
LEMMA BodyBytes ==
  ASSUME NEW text \in Seq(Nat), NEW msg \in Messages, NEW to \in Int,
         FrameAt(text, msg, -HeaderLength, to)
  PROVE  /\ to = Len(msg.data) /\ Len(msg.data) \in 0 .. Len(text)
         /\ \A j \in 1 .. Len(msg.data) : text[j] = msg.data[j]
<1> DEFINE n == Len(text)  size == Len(msg.data)
<1>1. n \in Nat /\ size \in Nat
  BY WireAssumption DEF Messages
<1>2. /\ to = -6 + 6 + size /\ to <= n
      /\ \A j \in 1 .. size : -6 + 6 + j >= 1 => text[-6 + 6 + j] = msg.data[j]
  BY DEF FrameAt, HeaderLength
<1> HIDE DEF n, size
<1>3. \A j \in 1 .. size : -6 + 6 + j = j /\ j >= 1
  BY <1>1
<1>4. \A j \in 1 .. size : text[j] = msg.data[j]
  BY <1>2, <1>3
<1>5. to = size /\ size \in 0 .. n
  BY <1>1, <1>2
<1> QED BY <1>4, <1>5 DEF n, size

\* What is left of a text when k bytes of it are read.
LEMMA Remaining ==
  ASSUME NEW text \in Seq(Nat), NEW k \in 0 .. Len(text)
  PROVE  /\ SubSeq(text, k + 1, Len(text)) \in Seq(Nat)
         /\ Len(SubSeq(text, k + 1, Len(text))) = Len(text) - k
<1> DEFINE n == Len(text)
<1>1. n \in Nat /\ k \in 0 .. n /\ (\A i \in k + 1 .. n : text[i] \in Nat)
  BY LenProperties, ElementOfSeq
<1> HIDE DEF n
<1>2. /\ SubSeq(text, k + 1, n) \in Seq(Nat)
      /\ Len(SubSeq(text, k + 1, n)) = IF k + 1 <= n THEN n - (k + 1) + 1 ELSE 0
  BY <1>1, SubSeqProperties
<1>3. Len(SubSeq(text, k + 1, n)) = n - k
  BY <1>1, <1>2
<1> QED BY <1>2, <1>3 DEF n

\* The places, seen k bytes later.
Shifted(at, k) == [i \in Nat |-> at[i] - k]

\* The part of Frames that does not say where the reader stands.
Lined(at, done, msgs, text) ==
  /\ at[Len(msgs) + 1] = Len(text)
  /\ \A i \in done + 1 .. Len(msgs) : FrameAt(text, msgs[i], at[i], at[i + 1])

\* When k bytes are read, all frames come k places nearer.
LEMMA FramesNearer ==
  ASSUME NEW text \in Seq(Nat), NEW k \in 0 .. Len(text), NEW msgs \in Seq(Messages),
         NEW done \in Nat, done <= Len(msgs), NEW at \in [Nat -> Int],
         Lined(at, done, msgs, text)
  PROVE  /\ Shifted(at, k) \in [Nat -> Int]
         /\ SubSeq(text, k + 1, Len(text)) \in Seq(Nat)
         /\ Lined(Shifted(at, k), done, msgs, SubSeq(text, k + 1, Len(text)))
<1> DEFINE n == Len(text)  last == Len(msgs)
           rest == SubSeq(text, k + 1, n)  new == Shifted(at, k)
<1>1. n \in Nat /\ last \in Nat
  BY LenProperties
<1>2. \A i \in 1 .. last : msgs[i] \in Messages
  BY ElementOfSeq
<1>3. /\ at[last + 1] = n
      /\ \A i \in done + 1 .. last : FrameAt(text, msgs[i], at[i], at[i + 1])
  BY Zenon DEF Lined
<1> HIDE DEF n, last, rest, new
<1>4. rest \in Seq(Nat) /\ Len(rest) = n - k
  BY Remaining, Zenon DEF n, rest
<1>5. new \in [Nat -> Int] /\ \A i \in Nat : new[i] = at[i] - k
  BY <1>1 DEF Shifted, new
<1>6. new[last + 1] = Len(rest)
  <2>1. last + 1 \in Nat
    BY <1>1
  <2>2. new[last + 1] = at[last + 1] - k
    BY <1>5, <2>1, Zenon
  <2> QED BY <1>3, <1>4, <2>2, Zenon
<1>7. ASSUME NEW i \in done + 1 .. last
      PROVE  FrameAt(rest, msgs[i], new[i], new[i + 1])
  <2>1. i \in 1 .. last /\ i \in Nat /\ i + 1 \in Nat
    BY <1>1
  <2>2. at[i] \in Int /\ at[i + 1] \in Int /\ msgs[i] \in Messages
    BY <1>2, <2>1
  <2>3. FrameAt(rest, msgs[i], at[i] - k, at[i + 1] - k)
    BY <1>3, <2>2, FrameNearer, Zenon DEF n, rest
  <2> QED BY <1>5, <2>1, <2>3
<1> QED BY <1>4, <1>5, <1>6, <1>7, Zenon DEF last, rest, new, n, Lined

\* While a header is awaited, decodeHeader() makes the buffer for the body of the
\* next message that has been written.
LEMMA ReadHeaderPreservesIInv ==
  ASSUME IInv, ReadHeader
  PROVE  IInv'
<1> DEFINE r == Len(received)  n == Len(sent)  msg == sent[r + 1]
           header == SubSeq(stream, 1, HeaderLength)
           rest == SubSeq(stream, HeaderLength + 1, Len(stream))
<1>1. /\ reader = "header" /\ Len(stream) >= HeaderLength
      /\ dec_message_' = [header |-> header,
                          data |-> NewData((DataSize(SubSeq(header, 3, 6)) + 1) % Width)]
      /\ stream' = rest /\ reader' = "body"
      /\ UNCHANGED <<enc_message_, sent, received>>
  BY Zenon DEF ReadHeader
<1>2. TypeOK /\ Written /\ MessagesSurvive /\ Framed
  BY DEF IInv
<1>3. /\ r \in Nat /\ n \in Nat /\ r <= n /\ stream \in Seq(Nat) /\ sent \in Seq(Messages)
      /\ Len(stream) \in Nat
      /\ \A i \in 1 .. n : sent[i] \in Messages /\ Encodable(sent[i])
  <2>1. r <= n /\ stream \in Seq(Nat)
    BY <1>2 DEF TypeOK
  <2>2. /\ sent \in Seq(Messages) /\ received \in Seq({Image(m) : m \in Messages})
        /\ \A i \in 1 .. n : Encodable(sent[i])
    BY <1>2 DEF Written
  <2> QED BY <2>1, <2>2, LenProperties, ElementOfSeq
<1>4. PICK at \in [Nat -> Int] : Frames(at, r, reader, sent, stream)
  BY <1>2 DEF Framed
<1>5. /\ at[r + 1] = 0 /\ at[n + 1] = Len(stream)
      /\ \A i \in r + 1 .. n : FrameAt(stream, sent[i], at[i], at[i + 1])
  BY <1>1, <1>4 DEF Frames
<1> HIDE DEF r, n, msg, header, rest
<1>6. r < n
  <2>1. Len(stream) # 0
    BY <1>1, <1>3 DEF HeaderLength
  <2>2. r # n
    BY <1>5, <2>1
  <2> QED BY <1>3, <2>2
<1>7. r + 1 \in 1 .. n /\ r + 1 \in r + 1 .. n /\ r + 1 \in Nat /\ (r + 1) + 1 \in Nat
  BY <1>3, <1>6
<1>8. msg \in Messages /\ Encodable(msg) /\ at[(r + 1) + 1] \in Int
  BY <1>3, <1>4, <1>7 DEF msg
<1>9. FrameAt(stream, msg, 0, at[(r + 1) + 1])
  BY <1>5, <1>7, Zenon DEF msg
<1>10. HeaderLength \in 0 .. Len(stream) /\ header = Serialized(msg).header
  BY <1>3, <1>8, <1>9, HeaderRead, Zenon DEF header
<1>11. /\ header \in Seq(Nat) /\ (Len(msg.data) + 1) % Width \in Nat
       /\ DataSize(SubSeq(header, 3, 6)) = Len(msg.data)
  <2>1. /\ Serialized(msg).header \in Seq(Nat) /\ Len(msg.data) \in Nat
        /\ Len(msg.data) < Width /\ Width \in Nat
        /\ DataSize(SubSeq(Serialized(msg).header, 3, 6)) = Len(msg.data)
    BY <1>8, MessageFits, Zenon
  <2>2. ASSUME NEW l \in Nat, NEW w \in Nat, l < w
        PROVE  (l + 1) % w \in Nat
    BY <2>2
  <2>3. (Len(msg.data) + 1) % Width \in Nat
    BY <2>1, <2>2, Zenon
  <2> QED BY <1>10, <2>1, <2>3, Zenon
<1>12. dec_message_' = [header |-> Serialized(msg).header,
                        data |-> NewData((Len(msg.data) + 1) % Width)]
  BY <1>1, <1>10, <1>11, Zenon
<1> DEFINE new == Shifted(at, HeaderLength)
<1>13. /\ new \in [Nat -> Int] /\ rest \in Seq(Nat)
       /\ new[n + 1] = Len(rest)
       /\ \A i \in r + 1 .. n : FrameAt(rest, sent[i], new[i], new[i + 1])
  <2>1. Lined(at, r, sent, stream)
    BY <1>5, Zenon DEF n, Lined
  <2>2. r <= Len(sent)
    BY <1>3 DEF n
  <2>3. Lined(new, r, sent, rest) /\ new \in [Nat -> Int] /\ rest \in Seq(Nat)
    BY <1>3, <1>4, <1>10, <2>1, <2>2, FramesNearer, Zenon DEF rest
  <2> QED BY <2>3, Zenon DEF n, Lined
<1>14. TypeOK'
  <2>1. dec_message_'.header \in Seq(Nat)
    BY <1>10, <1>11, <1>12
  <2>a. ASSUME NEW l \in Nat
        PROVE  NewData(l) \in Seq(Char)
    BY DEF NewData, Char, Uninitialized
  <2>2. NewData((Len(msg.data) + 1) % Width) \in Seq(Char)
    BY <1>11, <2>a, Zenon
  <2>3. dec_message_'.data \in Seq(Char)
    BY <1>12, <2>2
  <2> QED BY <1>1, <1>2, <1>13, <2>1, <2>3 DEF TypeOK
<1>15. Written' /\ MessagesSurvive'
  BY <1>1, <1>2 DEF Written, MessagesSurvive
<1>16. BodyPending'
  BY <1>1, <1>6, <1>12 DEF BodyPending, r, n, msg
<1>17. Framed'
  <2>1. new[r + 1] = -HeaderLength
    BY <1>5, <1>7 DEF HeaderLength, Shifted
  <2> HIDE DEF new
  <2>2. Frames(new, r, reader', sent, stream')
    BY <1>1, <1>13, <2>1 DEF Frames, n
  <2> QED BY <1>1, <1>13, <2>2 DEF Framed, r
<1> QED BY <1>14, <1>15, <1>16, <1>17 DEF IInv

\* The buffer that decodeHeader() made is filled up to its last byte, and what
\* decodeData() makes of it is the image of the message that was written.
LEMMA Decoded ==
  ASSUME NEW text \in Seq(Nat), NEW msg \in Messages, Encodable(msg),
         NEW message,
         message = [header |-> Serialized(msg).header,
                    data |-> [i \in 1 .. Len(msg.data) + 1 |->
                                IF i <= Len(msg.data) THEN text[i] ELSE Uninitialized]],
         \A j \in 1 .. Len(msg.data) : text[j] = msg.data[j]
  PROVE  DecodeData(message) = Image(msg)
<1> DEFINE size == Len(msg.data)
           ended == [message.data EXCEPT ![Len(message.data)] = NUL]
<1>1. /\ size \in Nat /\ msg.data \in Seq(Nat)
      /\ Lookup(inv_type_, message.header[1]) = msg.type
      /\ Lookup(inv_command_, message.header[2]) = Image(msg).command
  <2>1. message.header = Serialized(msg).header
    OBVIOUS
  <2> QED BY <2>1, MessageFits, Zenon
<1>2. message.data = [i \in 1 .. size + 1 |-> IF i <= size THEN text[i] ELSE Uninitialized]
  OBVIOUS
<1>3. \A j \in 1 .. size : text[j] = msg.data[j]
  OBVIOUS
<1> HIDE DEF size
<1>4. Len(message.data) = size + 1
  BY <1>1, <1>2
<1>5. /\ Len(ended) = size + 1 /\ ended[size + 1] = NUL
      /\ \A i \in 1 .. size : ended[i] = msg.data[i]
  <2>1. ended = [i \in 1 .. size + 1 |-> IF i = size + 1 THEN NUL ELSE message.data[i]]
    BY <1>2, <1>4
  <2> HIDE DEF ended
  <2>2. Len(ended) = size + 1 /\ ended[size + 1] = NUL
    BY <1>1, <2>1
  <2>3. ASSUME NEW i \in 1 .. size
        PROVE  ended[i] = msg.data[i]
    <3>1. i \in 1 .. size + 1 /\ i # size + 1 /\ i <= size
      BY <1>1
    <3>2. ended[i] = message.data[i] /\ message.data[i] = text[i]
      BY <1>2, <2>1, <3>1
    <3> QED BY <1>3, <3>2
  <2> QED BY <2>2, <2>3
<1> HIDE DEF ended
<1>6. UpToNul(ended) = UpToNul(msg.data)
  BY <1>1, <1>5, TerminatorEnds, Zenon DEF size
<1>7. DecodeData(message) = [type |-> msg.type, command |-> Image(msg).command,
                             data |-> UpToNul(msg.data)]
  BY <1>1, <1>6, Zenon DEF DecodeData, ended
<1>8. Image(msg) = [type |-> msg.type, command |-> Image(msg).command,
                    data |-> UpToNul(msg.data)]
  <2>1. msg \in [type : {"Hello", "RespHello", "Response", "Request"},
                 command : DOMAIN command_ \cup {"unknown"}, data : Payloads]
    BY DEF Messages
  <2>2. ASSUME NEW t, NEW c, NEW d, NEW e, NEW f
        PROVE  [[type |-> t, command |-> c, data |-> d] EXCEPT !.command = e, !.data = f]
                 = [type |-> t, command |-> e, data |-> f]
    <3> DEFINE m == [type |-> t, command |-> c, data |-> d]
    <3>1. [m EXCEPT !.command = e, !.data = f] = [[m EXCEPT !.command = e] EXCEPT !.data = f]
      BY Zenon
    <3>2. [m EXCEPT !.command = e] = [type |-> t, command |-> e, data |-> d]
      OBVIOUS
    <3>3. [[type |-> t, command |-> e, data |-> d] EXCEPT !.data = f]
            = [type |-> t, command |-> e, data |-> f]
      OBVIOUS
    <3> QED BY <3>1, <3>2, <3>3, Zenon
  <2>3. PICK t, c, d : msg = [type |-> t, command |-> c, data |-> d]
    BY <2>1
  <2>4. msg.type = t /\ msg.command = c /\ msg.data = d
    BY <2>3
  <2>5. Image(msg) = [msg EXCEPT !.command = IF c \in DOMAIN command_ THEN c ELSE "NoCommand",
                                 !.data = UpToNul(d)]
    BY <2>4, Zenon DEF Image
  <2>6. Image(msg) = [type |-> t, command |-> IF c \in DOMAIN command_ THEN c ELSE "NoCommand",
                      data |-> UpToNul(d)]
    BY <2>2, <2>3, <2>5, Zenon
  <2>7. Image(msg).command = IF c \in DOMAIN command_ THEN c ELSE "NoCommand"
    BY <2>6
  <2> QED BY <2>4, <2>6, <2>7, Zenon
<1> QED BY <1>7, <1>8, Zenon

\* What decodeBody() asks for is the body that was written, the longest one too; the
\* buffer has room for every one but that.
LEMMA BodyReadIs ==
  ASSUME NEW msg \in Messages, Encodable(msg), NEW message,
         message.data = NewData((Len(msg.data) + 1) % Width)
  PROVE  /\ BodyRead(message) = Len(msg.data)
         /\ Room(message) <=> ~ Longest(msg)
         /\ ~ Longest(msg) => /\ (Len(msg.data) + 1) % Width = Len(msg.data) + 1
                              /\ Len(message.data) = Len(msg.data) + 1
<1> DEFINE l == Len(msg.data)  w == Width  d == Len(message.data)
<1>1. l \in Nat /\ l < w /\ w \in Nat
  BY MessageFits, Zenon
<1>2. Longest(msg) <=> l + 1 = w
  BY DEF Longest
<1>3. Room(message) <=> ((d - 1) % w) + 1 <= d
  BY DEF Room, BodyRead
<1>4. BodyRead(message) = (d - 1) % w
  BY DEF BodyRead
<1>5. \A k \in Nat : Len(NewData(k)) = k
  BY DEF NewData
<1>6. (l + 1) % w \in Nat
  <2>1. ASSUME NEW a \in Nat, NEW b \in Nat, a < b
        PROVE  (a + 1) % b \in Nat
    BY <2>1
  <2> QED BY <1>1, <2>1, Zenon
<1>7. d = (l + 1) % w
  BY <1>5, <1>6, Zenon
<1> HIDE DEF l, w, d
<1>8. CASE l + 1 = w
  <2>1. d = 0 /\ w > 0
    BY <1>1, <1>7, <1>8
  <2>2. (d - 1) % w = l
    <3>1. ASSUME NEW v \in Nat, v > 0
          PROVE  (0 - 1) % v = v - 1
      BY <3>1
    <3> QED BY <1>1, <1>8, <2>1, <3>1
  <2> QED BY <1>1, <1>2, <1>3, <1>4, <1>8, <2>1, <2>2 DEF l
<1>9. CASE l + 1 # w
  <2>1. (l + 1) % w = l + 1 /\ d = l + 1
    BY <1>1, <1>7, <1>9
  <2>2. (d - 1) % w = l
    BY <1>1, <2>1
  <2>3. BodyRead(message) = l /\ Room(message) /\ ~ Longest(msg)
    BY <1>1, <1>2, <1>3, <1>4, <1>9, <2>1, <2>2
  <2> QED BY <2>1, <2>3, Zenon DEF l, d, w
<1> QED BY <1>8, <1>9

\* decodeData() and push_back() bring the message out, and the next header begins
\* where the body ended.
LEMMA ReadBodyPreservesIInv ==
  ASSUME IInv, ReadBody
  PROVE  IInv'
<1> DEFINE r == Len(received)  n == Len(sent)  msg == sent[r + 1]
           read == BodyRead(dec_message_)
           filled == [dec_message_ EXCEPT
                        !.data = [i \in 1 .. Len(@) |-> IF i <= read THEN stream[i] ELSE @[i]]]
           rest == SubSeq(stream, read + 1, Len(stream))
<1>1. /\ reader = "body" /\ Room(dec_message_)
      /\ received' = Append(received, DecodeData(filled))
      /\ dec_message_' = [filled EXCEPT !.data[Len(filled.data)] = NUL]
      /\ stream' = rest /\ reader' = "header"
      /\ UNCHANGED <<enc_message_, sent>>
  BY Zenon DEF ReadBody
<1>2. TypeOK /\ Written /\ MessagesSurvive /\ BodyPending /\ Framed
  BY DEF IInv
<1>3. /\ r \in Nat /\ n \in Nat /\ stream \in Seq(Nat) /\ sent \in Seq(Messages)
      /\ received \in Seq({Image(m) : m \in Messages})
      /\ \A i \in 1 .. n : sent[i] \in Messages /\ Encodable(sent[i])
  <2>1. stream \in Seq(Nat)
    BY <1>2 DEF TypeOK
  <2>2. /\ sent \in Seq(Messages) /\ received \in Seq({Image(m) : m \in Messages})
        /\ \A i \in 1 .. n : Encodable(sent[i])
    BY <1>2 DEF Written
  <2> QED BY <2>1, <2>2, LenProperties, ElementOfSeq
<1>4. /\ r < n
      /\ dec_message_ = [header |-> Serialized(msg).header,
                         data |-> NewData((Len(msg.data) + 1) % Width)]
  BY <1>1, <1>2 DEF BodyPending
<1>5. PICK at \in [Nat -> Int] : Frames(at, r, reader, sent, stream)
  BY <1>2 DEF Framed
<1>6. at[r + 1] = -HeaderLength /\ Lined(at, r, sent, stream)
  BY <1>1, <1>5 DEF Frames, Lined
<1> HIDE DEF r, n, msg
<1>7. /\ r + 1 \in 1 .. n /\ r + 1 \in r + 1 .. n /\ r + 1 \in Nat
      /\ (r + 1) + 1 \in Nat /\ r <= n
  BY <1>3, <1>4
<1>8. msg \in Messages /\ Encodable(msg) /\ at[(r + 1) + 1] \in Int
  BY <1>3, <1>5, <1>7 DEF msg
<1>9. FrameAt(stream, msg, -HeaderLength, at[(r + 1) + 1])
  BY <1>6, <1>7, Zenon DEF msg, n, Lined
<1>10. /\ at[(r + 1) + 1] = Len(msg.data) /\ Len(msg.data) \in 0 .. Len(stream)
       /\ \A j \in 1 .. Len(msg.data) : stream[j] = msg.data[j]
  BY <1>3, <1>8, <1>9, BodyBytes, Zenon
<1>11. /\ read = Len(msg.data) /\ Len(dec_message_.data) = Len(msg.data) + 1
       /\ dec_message_ = [header |-> Serialized(msg).header,
                          data |-> NewData(Len(msg.data) + 1)]
  <2>1. dec_message_.data = NewData((Len(msg.data) + 1) % Width)
    BY <1>4
  <2> QED BY <1>1, <1>4, <1>8, <2>1, BodyReadIs, Zenon
<1>12. Len(msg.data) \in Nat /\ Serialized(msg).header \in Seq(Nat)
  BY <1>8, MessageFits, Zenon
<1> HIDE DEF read
<1>13. filled = [header |-> Serialized(msg).header,
                 data |-> [i \in 1 .. Len(msg.data) + 1 |->
                             IF i <= Len(msg.data) THEN stream[i] ELSE Uninitialized]]
  <2> DEFINE size == Len(msg.data)
  <2>1. size \in Nat /\ read = size /\ Len(dec_message_.data) = size + 1
    BY <1>11, <1>12
  <2>2. dec_message_ = [header |-> Serialized(msg).header,
                        data |-> [i \in 1 .. size + 1 |-> Uninitialized]]
    BY <1>11, Zenon DEF NewData
  <2> HIDE DEF size
  <2>3. [i \in 1 .. Len(dec_message_.data) |->
           IF i <= read THEN stream[i] ELSE dec_message_.data[i]]
        = [i \in 1 .. size + 1 |-> IF i <= size THEN stream[i] ELSE Uninitialized]
    BY <2>1, <2>2
  <2>4. filled = [header |-> dec_message_.header,
                  data |-> [i \in 1 .. Len(dec_message_.data) |->
                              IF i <= read THEN stream[i] ELSE dec_message_.data[i]]]
    <3>1. ASSUME NEW h, NEW d, NEW e
          PROVE  [[header |-> h, data |-> d] EXCEPT !.data = e] = [header |-> h, data |-> e]
      OBVIOUS
    <3>2. ASSUME NEW m, NEW h, NEW d, m = [header |-> h, data |-> d]
          PROVE  m.header = h /\ m.data = d
      BY <3>2
    <3> DEFINE e == [i \in 1 .. Len(dec_message_.data) |->
                       IF i <= read THEN stream[i] ELSE dec_message_.data[i]]
    <3>3. PICK h, d : dec_message_ = [header |-> h, data |-> d]
      BY <2>2, Zenon
    <3>4. filled = [dec_message_ EXCEPT !.data = e]
      BY Zenon
    <3>5. dec_message_.header = h
      BY <3>2, <3>3, Zenon
    <3> HIDE DEF e, filled
    <3>6. filled = [header |-> dec_message_.header, data |-> e]
      BY <3>1, <3>3, <3>4, <3>5, Zenon
    <3> QED BY <3>6 DEF e
  <2>5. dec_message_.header = Serialized(msg).header
    BY <2>2
  <2> QED BY <2>3, <2>4, <2>5, Zenon DEF size
<1> HIDE DEF filled
<1>14. DecodeData(filled) = Image(msg)
  BY <1>3, <1>8, <1>10, <1>13, Decoded, Zenon
<1>15. /\ received' \in Seq({Image(m) : m \in Messages}) /\ Len(received') = r + 1
       /\ received'[r + 1] = Image(msg) /\ \A i \in 1 .. r : received'[i] = received[i]
  <2>1. Image(msg) \in {Image(m) : m \in Messages}
    BY <1>8
  <2> QED BY <1>1, <1>3, <1>14, <2>1, AppendProperties DEF r
<1> DEFINE new == Shifted(at, read)
<1>16. new \in [Nat -> Int] /\ rest \in Seq(Nat) /\ Lined(new, r, sent, rest)
  <2>1. read \in 0 .. Len(stream) /\ r <= Len(sent)
    BY <1>7, <1>10, <1>11 DEF n
  <2> QED BY <1>3, <1>5, <1>6, <2>1, FramesNearer, Zenon
<1> HIDE DEF rest
<1>17. TypeOK'
  <2>1. dec_message_'.header = Serialized(msg).header
    BY <1>1, <1>13
  <2>2. dec_message_'.data \in Seq(Char)
    <3> DEFINE size == Len(msg.data)
    <3>1. size \in Nat /\ size \in 0 .. Len(stream) /\ stream \in Seq(Nat)
      BY <1>3, <1>10, <1>12
    <3>2. filled.data = [i \in 1 .. size + 1 |-> IF i <= size THEN stream[i] ELSE Uninitialized]
      BY <1>13
    <3>3. \A i \in 1 .. size : stream[i] \in Nat
      BY <1>10, <1>3, <1>8, MessageFits, ElementOfSeq
    <3> HIDE DEF size
    <3>4. dec_message_'.data = [filled.data EXCEPT ![Len(filled.data)] = NUL]
      BY <1>1, <1>13
    <3>5. Len(filled.data) = size + 1
      BY <3>1, <3>2
    <3>6. \A i \in 1 .. size + 1 : filled.data[i] \in Char
      BY <3>1, <3>2, <3>3 DEF Char
    <3>7. dec_message_'.data = [i \in 1 .. size + 1 |->
                                 IF i = size + 1 THEN NUL ELSE filled.data[i]]
      BY <3>2, <3>4, <3>5
    <3>8. ASSUME NEW l \in Nat, NEW chars, chars \in [1 .. l + 1 -> Char]
          PROVE  chars \in Seq(Char)
      BY <3>8
    <3>9. dec_message_'.data \in [1 .. size + 1 -> Char]
      BY <3>6, <3>7 DEF Char, NUL
    <3> QED BY <3>1, <3>8, <3>9, Zenon
  <2>3. Len(received') <= Len(sent')
    BY <1>1, <1>3, <1>4, <1>15 DEF n
  <2>4. dec_message_'.header \in Seq(Nat)
    BY <1>12, <2>1
  <2> QED BY <1>1, <1>2, <1>16, <2>2, <2>3, <2>4 DEF TypeOK
<1>18. Written'
  BY <1>1, <1>2, <1>15 DEF Written
<1>19. MessagesSurvive'
  <2>1. \A i \in 1 .. r : received[i] = Image(sent[i])
    BY <1>2 DEF MessagesSurvive, r
  <2>2. \A i \in 1 .. r + 1 : received'[i] = Image(sent[i])
    <3>2. \A i \in 1 .. r : received'[i] = Image(sent[i])
      BY <1>15, <2>1, Zenon
    <3>3. received'[r + 1] = Image(sent[r + 1])
      BY <1>15 DEF msg
    <3>4. \A i \in 1 .. r + 1 : i \in 1 .. r \/ i = r + 1
      BY <1>3
    <3> QED BY <3>2, <3>3, <3>4, Zenon
  <2> QED BY <1>1, <1>15, <2>2, Zenon DEF MessagesSurvive
<1>20. BodyPending'
  BY <1>1 DEF BodyPending
<1>21. Framed'
  <2>1. new[(r + 1) + 1] = 0
    BY <1>7, <1>10, <1>11, <1>12 DEF Shifted
  <2> HIDE DEF new
  <2>2. \A i \in (r + 1) + 1 .. n : i \in r + 1 .. n
    BY <1>3
  <2>3. /\ new[n + 1] = Len(rest)
        /\ \A i \in (r + 1) + 1 .. n : FrameAt(rest, sent[i], new[i], new[i + 1])
    BY <1>16, <2>2, Zenon DEF Lined, n
  <2>4. Frames(new, r + 1, reader', sent, stream')
    BY <1>1, <2>1, <2>3 DEF Frames, n
  <2> QED BY <1>1, <1>15, <1>16, <2>4, Zenon DEF Framed
<1> QED BY <1>17, <1>18, <1>19, <1>20, <1>21 DEF IInv

\* A byte past the buffer is the last thing that happens.
LEMMA OverrunPreservesIInv ==
  ASSUME IInv, Overrun
  PROVE  IInv'
<1>1. /\ reader = "body" /\ reader' = "overrun"
      /\ UNCHANGED <<enc_message_, stream, dec_message_, sent, received>>
  BY DEF Overrun
<1>2. TypeOK' /\ Written'
  BY <1>1 DEF IInv, TypeOK, Written
<1>3. MessagesSurvive' /\ BodyPending'
  BY <1>1 DEF IInv, MessagesSurvive, BodyPending
<1>4. Framed'
  BY <1>1 DEF IInv, Framed, Frames
<1> QED BY <1>2, <1>3, <1>4 DEF IInv

\* Every step of both ends, and a step of neither.
LEMMA NextPreservesIInv == IInv /\ [Next]_vars => IInv'
<1> SUFFICES ASSUME IInv, [Next]_vars
             PROVE  IInv'
  OBVIOUS
<1>1. CASE \E msg \in Messages : Encode(msg)
  BY <1>1, EncodePreservesIInv
<1>2. CASE ReadHeader
  BY <1>2, ReadHeaderPreservesIInv
<1>3. CASE ReadBody
  BY <1>3, ReadBodyPreservesIInv
<1>a. CASE Overrun
  BY <1>a, OverrunPreservesIInv
<1>4. CASE UNCHANGED vars
  <2>1. UNCHANGED <<enc_message_, stream, reader, dec_message_, sent, received>>
    BY <1>4 DEF vars
  <2>2. TypeOK' /\ Written'
    BY <2>1 DEF IInv, TypeOK, Written
  <2>3. MessagesSurvive' /\ BodyPending'
    BY <2>1 DEF IInv, MessagesSurvive, BodyPending
  <2>4. Framed'
    BY <2>1 DEF IInv, Framed
  <2> QED BY <2>2, <2>3, <2>4 DEF IInv
<1> QED BY <1>1, <1>2, <1>3, <1>a, <1>4 DEF Next

\* The invariant holds all the time.
LEMMA Invariant == Spec => []IInv
<1>1. Init => IInv
  BY InitIInv
<1>2. IInv /\ [Next]_vars => IInv'
  BY NextPreservesIInv
<1> QED BY <1>1, <1>2, PTL DEF Spec

\* The variables hold values of their types, whatever the messages are.
THEOREM TypeCorrect == Spec => []TypeOK
<1>1. IInv => TypeOK
  BY DEF IInv
<1> QED BY <1>1, Invariant, PTL

\* The messages that encode() puts on the stream come out of decodeData() in their
\* order, each one as it was but for a command that the table does not have and for
\* what stands behind a NUL, however long the bodies and however many the messages.
THEOREM MessagesSurviveHolds == Spec => []MessagesSurvive
<1>1. IInv => MessagesSurvive
  BY DEF IInv
<1> QED BY <1>1, Invariant, PTL

\* The 1 that decodeHeader() adds to the length and decodeBody() takes away wraps
\* around for the longest data that the field carries, and for no other length: that
\* one body is read into a buffer of no byte, and each other one leaves room for the
\* terminator.
THEOREM BodyFitsHolds == Spec => []BodyFits
<1>1. IInv => BodyFits
  <2> SUFFICES ASSUME IInv, reader # "header"
               PROVE  Room(dec_message_) <=> ~ Longest(sent[Len(received) + 1])
    BY DEF BodyFits
  <2> DEFINE msg == sent[Len(received) + 1]
  <2>1. /\ Len(received) < Len(sent)
        /\ dec_message_.data = NewData((Len(msg.data) + 1) % Width)
    BY DEF IInv, BodyPending
  <2>2. msg \in Messages /\ Encodable(msg)
    <3>1. /\ sent \in Seq(Messages) /\ Len(received) \in Nat /\ Len(sent) \in Nat
          /\ \A i \in 1 .. Len(sent) : Encodable(sent[i])
      BY LenProperties DEF IInv, Written
    <3>2. Len(received) + 1 \in 1 .. Len(sent)
      BY <2>1, <3>1
    <3> QED BY <3>1, <3>2, ElementOfSeq
  <2> HIDE DEF msg
  <2>3. Room(dec_message_) <=> ~ Longest(msg)
    BY <2>1, <2>2, BodyReadIs, Zenon
  <2> QED BY <2>3 DEF msg
<1> QED BY <1>1, Invariant, PTL

\* The two reads of a codec and the writes of the other end agree on where a frame
\* ends: when every message is out, nothing is left for the next header.
THEOREM InStepHolds == Spec => []InStep
<1>1. IInv => InStep
  <2> SUFFICES ASSUME IInv, reader = "header", Len(received) = Len(sent)
               PROVE  stream = <<>>
    BY DEF InStep
  <2>1. stream \in Seq(Nat)
    BY DEF IInv, TypeOK
  <2>2. PICK at \in [Nat -> Int] : Frames(at, Len(received), reader, sent, stream)
    BY DEF IInv, Framed
  <2>3. at[Len(sent) + 1] = 0 /\ at[Len(sent) + 1] = Len(stream)
    BY <2>2 DEF Frames
  <2> QED BY <2>1, <2>3, EmptySeq
<1> QED BY <1>1, Invariant, PTL

-----------------------------------------------------------------------------
(***************************************************************************)
(* The channel that the two ends see.                                      *)
(***************************************************************************)

\* Where the reader stands, the frame begins of the first message that is not out.
LEMMA NextFrame ==
  ASSUME IInv, Len(received) < Len(sent)
  PROVE  LET msg == sent[Len(received) + 1]
         IN  /\ msg \in Messages /\ Encodable(msg)
             /\ \E to \in Int :
                  FrameAt(stream, msg, IF reader = "header" THEN 0 ELSE -HeaderLength, to)
<1> DEFINE r == Len(received)  n == Len(sent)  msg == sent[r + 1]
           from == IF reader = "header" THEN 0 ELSE -HeaderLength
<1>1. /\ r \in Nat /\ n \in Nat /\ sent \in Seq(Messages)
      /\ \A i \in 1 .. n : Encodable(sent[i])
  BY LenProperties DEF IInv, Written
<1>2. r + 1 \in 1 .. n /\ r + 1 \in r + 1 .. n /\ (r + 1) + 1 \in Nat
  BY <1>1
<1>3. msg \in Messages /\ Encodable(msg)
  BY <1>1, <1>2, ElementOfSeq
<1>4. PICK at \in [Nat -> Int] : Frames(at, r, reader, sent, stream)
  BY DEF IInv, Framed
<1>5. at[r + 1] = from /\ FrameAt(stream, msg, at[r + 1], at[(r + 1) + 1])
  BY <1>2, <1>4, Zenon DEF Frames
<1>6. at[(r + 1) + 1] \in Int
  BY <1>2, <1>4
<1>7. FrameAt(stream, msg, from, at[(r + 1) + 1])
  BY <1>5, Zenon
<1> HIDE DEF msg, from
<1>8. \E to \in Int : FrameAt(stream, msg, from, to)
  BY <1>6, <1>7, Zenon
<1> QED BY <1>3, <1>8, Zenon DEF msg, from, r

\* While a message is under way, the async_read that is pending in decodeHeader() or
\* decodeBody() has all its bytes, for bodies of every length and whatever was read
\* before: with a reader that runs, no message stays on the stream.
THEOREM NoReadStarvesHolds == Spec => []NoReadStarves
<1>1. IInv => NoReadStarves
  <2> SUFFICES ASSUME IInv, Len(received) < Len(sent)
               PROVE  Len(stream) >= IF reader = "header" THEN HeaderLength
                                                          ELSE BodyRead(dec_message_)
    BY DEF NoReadStarves
  <2> DEFINE msg == sent[Len(received) + 1]
  <2>1. /\ msg \in Messages /\ Encodable(msg)
        /\ \E to \in Int :
             FrameAt(stream, msg, IF reader = "header" THEN 0 ELSE -HeaderLength, to)
    BY NextFrame, Zenon
  <2>2. stream \in Seq(Nat) /\ Len(stream) \in Nat
    BY LenProperties DEF IInv, TypeOK
  <2>3. BodyPending
    BY DEF IInv, TypeOK
  <2> HIDE DEF msg
  <2>4. CASE reader = "header"
    <3>1. PICK to \in Int : FrameAt(stream, msg, 0, to)
      BY <2>1, <2>4
    <3>2. HeaderLength \in 0 .. Len(stream)
      BY <2>1, <2>2, <3>1, HeaderRead, Zenon
    <3> QED BY <2>2, <2>4, <3>2
  <2>5. CASE reader # "header"
    <3>1. PICK to \in Int : FrameAt(stream, msg, -HeaderLength, to)
      BY <2>1, <2>5
    <3>2. Len(msg.data) \in 0 .. Len(stream)
      BY <2>1, <2>2, <3>1, BodyBytes, Zenon
    <3>3. dec_message_.data = NewData((Len(msg.data) + 1) % Width)
      BY <2>3, <2>5 DEF BodyPending, msg
    <3>4. BodyRead(dec_message_) = Len(msg.data)
      BY <2>1, <3>3, BodyReadIs, Zenon
    <3> QED BY <2>2, <2>5, <3>2, <3>4
  <2> QED BY <2>4, <2>5
<1> QED BY <1>1, Invariant, PTL

\* The images of what follows the first done messages.
From(msgs, done) == [i \in 1 .. Len(msgs) - done |-> Image(msgs[done + i])]

\* A function on the first numbers is a sequence of what it takes.
LEMMA IsSequence ==
  ASSUME NEW I, NEW l \in Nat, NEW f \in [1 .. l -> I]
  PROVE  f \in Seq(I) /\ Len(f) = l
OBVIOUS

\* A sequence that goes on for one place is the shorter one with that place appended.
LEMMA AppendIs ==
  ASSUME NEW I, NEW x \in I, NEW l \in Nat,
         NEW f \in [1 .. l -> I], NEW g \in [1 .. l + 1 -> I],
         \A i \in 1 .. l : g[i] = f[i], g[l + 1] = x
  PROVE  g = Append(f, x)
<1>1. f \in Seq(I) /\ Len(f) = l /\ g \in Seq(I) /\ Len(g) = l + 1
  <2>1. l + 1 \in Nat
    OBVIOUS
  <2> QED BY <2>1, IsSequence, Zenon
<1>2. /\ Append(f, x) \in Seq(I) /\ Len(Append(f, x)) = l + 1 /\ Append(f, x)[l + 1] = x
      /\ \A i \in 1 .. l : Append(f, x)[i] = f[i]
  BY <1>1, AppendProperties
<1>3. \A i \in 1 .. l + 1 : i \in 1 .. l \/ i = l + 1
  OBVIOUS
<1>4. \A i \in 1 .. l + 1 : g[i] = Append(f, x)[i]
  BY <1>2, <1>3, Zenon
<1> QED BY <1>1, <1>2, <1>4, SeqEqual, Zenon

\* A message that is put behind the others comes last.
LEMMA FromGrows ==
  ASSUME NEW S, NEW msgs \in Seq(S), NEW msg \in S, NEW done \in Nat, done <= Len(msgs)
  PROVE  From(Append(msgs, msg), done) = Append(From(msgs, done), Image(msg))
<1> DEFINE n == Len(msgs)  more == Append(msgs, msg)  I == {Image(m) : m \in S}
<1>1. /\ n \in Nat /\ Len(more) = n + 1 /\ more[n + 1] = msg
      /\ \A i \in 1 .. n : more[i] = msgs[i] /\ msgs[i] \in S
  BY AppendProperties, LenProperties, ElementOfSeq
<1> HIDE DEF more, n
<1> DEFINE old == From(msgs, done)  new == From(more, done)
<1>2. n - done \in Nat /\ (n + 1) - done = (n - done) + 1
  BY <1>1 DEF n
<1> DEFINE k == n - done
<1>3. /\ old = [i \in 1 .. k |-> Image(msgs[done + i])]
      /\ new = [i \in 1 .. k + 1 |-> Image(more[done + i])]
  BY <1>1, <1>2, Zenon DEF From, n
<1>4. /\ \A i \in 1 .. k : done + i \in 1 .. n
      /\ done + (k + 1) = n + 1
  BY <1>1, <1>2
<1>5. k \in Nat
  BY <1>2
<1> HIDE DEF k, old, new
<1>6. \A i \in 1 .. k : Image(msgs[done + i]) \in I /\ Image(more[done + i]) = Image(msgs[done + i])
  BY <1>1, <1>4, Zenon
<1>7. Image(msg) \in I /\ Image(more[done + (k + 1)]) = Image(msg)
  BY <1>1, <1>4, Zenon
<1> HIDE DEF I
<1>8. old \in [1 .. k -> I] /\ \A i \in 1 .. k : old[i] = Image(msgs[done + i])
  BY <1>3, <1>6, Zenon
<1>9. \A i \in 1 .. k + 1 : new[i] = Image(more[done + i])
  BY <1>3, Zenon
<1>10. \A i \in 1 .. k + 1 : i \in 1 .. k \/ i = k + 1
  BY <1>5
<1>11. \A i \in 1 .. k + 1 : Image(more[done + i]) \in I
  BY <1>6, <1>7, <1>10, Zenon
<1>12. new \in [1 .. k + 1 -> I]
  BY <1>3, <1>11, Zenon
<1>13. /\ \A i \in 1 .. k : i \in 1 .. k + 1
       /\ k + 1 \in 1 .. k + 1
  BY <1>5
<1>14. (\A i \in 1 .. k : new[i] = old[i]) /\ new[k + 1] = Image(msg)
  BY <1>6, <1>7, <1>8, <1>9, <1>13, Zenon
<1> DEFINE out == Image(msg)
<1>a. out \in I /\ new[k + 1] = out
  BY <1>7, <1>14
<1> HIDE DEF out
<1>15. new = Append(old, out)
  BY ONLY <1>5, <1>8, <1>12, <1>14, <1>a, AppendIs
<1> QED BY <1>15, Zenon DEF old, new, more, out

\* The first of them is the next message, and the others follow it.
LEMMA FromShrinks ==
  ASSUME NEW S, NEW msgs \in Seq(S), NEW done \in Nat, done < Len(msgs)
  PROVE  /\ From(msgs, done) # <<>>
         /\ Head(From(msgs, done)) = Image(msgs[done + 1])
         /\ Tail(From(msgs, done)) = From(msgs, done + 1)
<1> DEFINE n == Len(msgs)  I == {Image(m) : m \in S}  f == From(msgs, done)
           k == n - done
<1>1. n \in Nat /\ \A i \in 1 .. n : msgs[i] \in S
  BY LenProperties, ElementOfSeq
<1>2. k \in Nat /\ k > 0 /\ n - (done + 1) = k - 1
  BY <1>1
<1>3. /\ \A i \in 1 .. k : done + i \in 1 .. n
      /\ \A i \in 1 .. k - 1 : (done + 1) + i = done + (i + 1)
  BY <1>1
<1> HIDE DEF n
<1>4. f = [i \in 1 .. k |-> Image(msgs[done + i])]
  BY Zenon DEF From, n
<1>5. \A i \in 1 .. k : Image(msgs[done + i]) \in I
  BY <1>1, <1>3, Zenon
<1>6. From(msgs, done + 1) = [i \in 1 .. k - 1 |-> Image(msgs[(done + 1) + i])]
  BY <1>2, Zenon DEF From, n
<1>7. From(msgs, done + 1) = [i \in 1 .. k - 1 |-> Image(msgs[done + (i + 1)])]
  BY <1>3, <1>6, Zenon
<1> HIDE DEF I, f, k
<1>8. f \in Seq(I) /\ Len(f) = k /\ \A i \in 1 .. k : f[i] = Image(msgs[done + i])
  <2>1. \A i \in 1 .. k : f[i] = Image(msgs[done + i])
    BY <1>4, Zenon
  <2>2. f \in [1 .. k -> I]
    BY <1>2, <1>4, <1>5, <2>1
  <2> QED BY <1>2, <1>5, <2>1, <2>2, IsSequence, Zenon
<1>9. f # <<>> /\ Head(f) = f[1]
  BY <1>2, <1>8
<1>10. Tail(f) = [i \in 1 .. k - 1 |-> f[i + 1]]
  <2>1. Tail(f) \in Seq(I) /\ Len(Tail(f)) = k - 1
    BY <1>8, <1>9, HeadTailProperties, Zenon
  <2>2. \A i \in 1 .. k - 1 : Tail(f)[i] = f[i + 1]
    BY <1>8, <1>9, <2>1, HeadTailProperties, Zenon
  <2>3. DOMAIN Tail(f) = 1 .. k - 1 /\ Tail(f) = [i \in DOMAIN Tail(f) |-> Tail(f)[i]]
    BY <2>1, SeqDef, LenProperties
  <2> QED BY <2>2, <2>3, Zenon
<1>11. \A i \in 1 .. k - 1 : i + 1 \in 1 .. k
  BY <1>2
<1>12. Tail(f) = From(msgs, done + 1)
  <2>1. \A i \in 1 .. k - 1 : f[i + 1] = Image(msgs[done + (i + 1)])
    BY <1>8, <1>11, Zenon
  <2> QED BY <1>7, <1>10, <2>1, Zenon
<1>13. f[1] = Image(msgs[done + 1])
  BY <1>2, <1>8
<1> QED BY <1>9, <1>12, <1>13, Zenon DEF f

\* The message that a ReadBody appends is the image of the next one.
LEMMA MessageComesOut ==
  ASSUME IInv, ReadBody
  PROVE  /\ Len(received) < Len(sent)
         /\ received' = Append(received, Image(sent[Len(received) + 1]))
<1> DEFINE r == Len(received)
<1>1. reader = "body" /\ sent' = sent
  BY DEF ReadBody
<1>2. PICK out : received' = Append(received, out)
  BY DEF ReadBody
<1>3. r < Len(sent)
  BY <1>1 DEF IInv, BodyPending
<1>4. IInv'
  BY ReadBodyPreservesIInv
<1>5. PICK S : received \in Seq(S) /\ received' \in Seq(S)
  BY <1>4 DEF IInv, Written
<1>6. r \in Nat /\ Len(received') = r + 1 /\ received'[r + 1] = out
  <2>1. received \in Seq(S \cup {out}) /\ out \in S \cup {out}
    BY <1>5
  <2> QED BY <1>2, <2>1, AppendProperties, LenProperties
<1>7. received'[r + 1] = Image(sent[r + 1])
  <2>1. \A i \in 1 .. Len(received') : received'[i] = Image(sent'[i])
    BY <1>4 DEF IInv, MessagesSurvive
  <2>2. r + 1 \in 1 .. Len(received')
    BY <1>6
  <2> QED BY <1>1, <2>1, <2>2, Zenon
<1> QED BY <1>2, <1>3, <1>6, <1>7, Zenon

\* Encoder, the stream and Decoder implement a channel of messages: a body that is
\* read delivers the oldest message under way, whole, and nothing else is delivered.
THEOREM Refinement == Spec => ImplementsFifo
<1> DEFINE Message == {Image(msg) : msg \in {m \in Messages : Encodable(m)}}
<1>1. Init => Fifo!Init
  BY DEF Init, Fifo!Init, UnderWay
<1>2. ASSUME IInv, [Next]_vars
      PROVE  [Fifo!Next]_(Fifo!vars)
  <2> DEFINE r == Len(received)
  <2>1. /\ r \in Nat /\ r <= Len(sent) /\ sent \in Seq(Messages)
        /\ UnderWay = From(sent, r) /\ UnderWay' = From(sent', Len(received'))
    BY <1>2, LenProperties DEF IInv, TypeOK, Written, UnderWay, From
  <2>2. CASE \E msg \in Messages : Encode(msg)
    <3>1. PICK msg \in Messages : Encode(msg)
      BY <2>2
    <3>2. Encodable(msg) /\ sent' = Append(sent, msg) /\ received' = received
      BY <3>1 DEF Encode
    <3>3. UnderWay' = Append(UnderWay, Image(msg))
      BY <2>1, <3>2, FromGrows, Zenon
    <3>4. Image(msg) \in Message
      BY <3>2
    <3>5. Fifo!Send(Image(msg))
      BY <3>2, <3>3 DEF Fifo!Send
    <3> QED BY <3>4, <3>5 DEF Fifo!Next
  <2>3. CASE ReadHeader
    <3>1. sent' = sent /\ received' = received
      BY <2>3 DEF ReadHeader
    <3>2. UnderWay' = UnderWay
      BY <2>1, <3>1, Zenon
    <3> QED BY <3>1, <3>2 DEF Fifo!vars
  <2>4. CASE ReadBody
    <3>1. sent' = sent
      BY <2>4 DEF ReadBody
    <3>2. r < Len(sent) /\ received' = Append(received, Image(sent[r + 1]))
      BY <1>2, <2>4, MessageComesOut, Zenon
    <3>3. Len(received') = r + 1
      <4>1. PICK S : received \in Seq(S)
        BY <1>2 DEF IInv, Written
      <4>2. received \in Seq(S \cup {Image(sent[r + 1])})
        BY <4>1
      <4> QED BY <3>2, <4>2, AppendProperties
    <3>4. /\ UnderWay # <<>> /\ Head(UnderWay) = Image(sent[r + 1])
          /\ Tail(UnderWay) = From(sent, r + 1)
      BY <2>1, <3>2, FromShrinks, Zenon
    <3>5. UnderWay' = Tail(UnderWay) /\ received' = Append(received, Head(UnderWay))
      BY <2>1, <3>1, <3>2, <3>3, <3>4, Zenon
    <3>6. Fifo!Deliver
      BY <3>4, <3>5 DEF Fifo!Deliver
    <3> QED BY <3>6 DEF Fifo!Next
  <2>a. CASE Overrun
    <3>1. sent' = sent /\ received' = received
      BY <2>a DEF Overrun
    <3>2. UnderWay' = UnderWay
      BY <2>1, <3>1, Zenon
    <3> QED BY <3>1, <3>2 DEF Fifo!vars
  <2>5. CASE UNCHANGED vars
    <3>1. sent' = sent /\ received' = received
      BY <2>5 DEF vars
    <3>2. UnderWay' = UnderWay
      BY <2>1, <3>1, Zenon
    <3> QED BY <3>1, <3>2 DEF Fifo!vars
  <2> QED BY <1>2, <2>2, <2>3, <2>4, <2>a, <2>5 DEF Next
<1> QED BY <1>1, <1>2, Invariant, PTL DEF Spec, Fifo!Spec, ImplementsFifo

=============================================================================
