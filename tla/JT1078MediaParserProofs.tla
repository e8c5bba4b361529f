---------------------- MODULE JT1078MediaParserProofs ----------------------
(***************************************************************************)
(* Proofs about JT1078MediaParser, for every size of the headers, the      *)
(* buffer, the chunks and the bodies.                                      *)
(***************************************************************************)
EXTENDS JT1078MediaParser, SequenceTheorems, TLAPS

\* What ParseData and GetPacket keep: the type of the parser's state, and
\* what it holds inside the buffer.
ParserTyped ==
  buffer \in [0..(BufferSize - 1) -> Nat] /\ size \in Nat /\ pos \in Nat

DeviceTyped ==
  /\ phase \in {"read", "packets"}
  /\ stream \in Seq(Nat) /\ packets \in Nat /\ sessions \in Nat
  /\ harm \in {"none", "residue", "overflow", "split audio header"}

LEMMA HeaderSizesTyped ==
  /\ PASS_THROUGH_HEADER_SIZE \in Nat \ {0} /\ AUDIO_HEADER_SIZE \in Nat \ {0}
  /\ VIDEO_HEADER_SIZE \in Nat \ {0} /\ HeaderSize \in Nat \ {0}
BY HeaderAssumption DEF HeaderSize

\* What a device sends of a packet is a sequence of cells.
LEMMA EncodedTyped ==
  ASSUME NEW type \in {VIDEO_FRAME, AUDIO_FRAME, PASS_THROUGH_DATA}, NEW body \in Bodies
  PROVE  Encoded(type, body) \in Seq(Nat)
<1> DEFINE Header == [i \in 1..SizeOfHeader(type) |->
                        IF i = 1 THEN type ELSE IF i = SizeOfHeader(type) THEN Len(body) ELSE 0]
<1>1. body \in Seq(Nat) /\ Len(body) \in Nat
  BY SizeAssumption
<1>2. SizeOfHeader(type) \in Nat
  BY HeaderSizesTyped DEF SizeOfHeader
<1>3. type \in Nat
  BY DEF VIDEO_FRAME, AUDIO_FRAME, PASS_THROUGH_DATA
<1>4. \A i \in 1..SizeOfHeader(type) : Header[i] \in Nat
  BY <1>1, <1>3
<1>5. Header \in Seq(Nat)
  <2>1. Header \in [1..SizeOfHeader(type) -> Nat]
    BY <1>4
  <2> QED BY <1>2, <2>1
<1>6. Header \o body \in Seq(Nat)
  BY <1>1, <1>5, ConcatProperties
<1> QED BY <1>6 DEF Encoded

LEMMA SubSeqTyped ==
  ASSUME NEW s \in Seq(Nat), NEW a \in Nat \ {0}, NEW b \in Nat, b <= Len(s)
  PROVE  SubSeq(s, a, b) \in Seq(Nat)
<1>1. \A i \in a..b : s[i] \in Nat
  <2> SUFFICES ASSUME NEW i \in a..b PROVE s[i] \in Nat
    OBVIOUS
  <2>1. i \in 1..Len(s)
    BY LenProperties
  <2> QED BY <2>1, ElementOfSeq
<1> QED BY <1>1, SubSeqProperties

\* A chunk that fits leaves the parser with cells, all inside the buffer.
LEMMA ParseKeeps ==
  ASSUME ParserTyped, InBounds, NEW chunk \in Seq(Nat), Parse(chunk)
  PROVE  ParserTyped' /\ InBounds'
<1>1. Len(chunk) \in Nat /\ BufferSize \in Nat
  BY SizeAssumption
<1>2. CASE TooMuch(Len(chunk))
  BY <1>2 DEF Parse, parser, ParserTyped, InBounds
<1>3. CASE ~TooMuch(Len(chunk))
  <2>1. buffer' = Moved(chunk) /\ pos' = 0 /\ size' = size + Len(chunk)
    BY <1>3 DEF Parse
  <2>2. ~(size + Len(chunk) > BufferSize)
    BY <1>3 DEF TooMuch
  <2>3. \A i \in 0..(BufferSize - 1) : i < size => buffer[pos + i] \in Nat
    BY <1>1 DEF ParserTyped, InBounds
  <2>4. \A i \in 0..(BufferSize - 1) :
          ~(i < size) /\ i < size + Len(chunk) => chunk[i - size + 1] \in Nat
    <3> SUFFICES ASSUME NEW i \in 0..(BufferSize - 1), ~(i < size), i < size + Len(chunk)
                 PROVE  chunk[i - size + 1] \in Nat
      OBVIOUS
    <3>1. i - size + 1 \in 1..Len(chunk)
      BY <1>1 DEF ParserTyped
    <3> QED BY <3>1, ElementOfSeq
  <2>5. Moved(chunk) \in [0..(BufferSize - 1) -> Nat]
    <3>1. \A i \in 0..(BufferSize - 1) : buffer[i] \in Nat
      BY DEF ParserTyped
    <3> QED BY <2>3, <2>4, <3>1 DEF Moved
  <2> QED BY <1>1, <2>1, <2>2, <2>5 DEF ParserTyped, InBounds
<1> QED BY <1>2, <1>3

\* A packet is taken out of what the buffer holds.
LEMMA GetPacketKeeps ==
  ASSUME ParserTyped, InBounds, GetPacket
  PROVE  ParserTyped' /\ InBounds'
<1>1. size' = size - packetSize /\ pos' = pos + packetSize /\ buffer' = buffer
  BY DEF GetPacket
<1>2. HeaderSize \in Nat \ {0}
  BY HeaderSizesTyped
<1>3. size >= HeaderSize /\ size - HeaderSize >= datalen
  BY DEF GetPacket, Complete
<1>4. BufferSize \in Nat /\ size \in Nat /\ pos \in Nat /\ pos + size <= BufferSize
  BY SizeAssumption DEF ParserTyped, InBounds
<1>5. datalen \in Nat
  <2>1. pos + HeaderSize - 1 \in 0..(BufferSize - 1)
    BY <1>2, <1>3, <1>4
  <2> QED BY <2>1 DEF datalen, ParserTyped
<1>6. size' \in Nat /\ pos' \in Nat /\ pos' + size' <= BufferSize
  BY <1>1, <1>2, <1>3, <1>4, <1>5 DEF packetSize
<1> QED BY <1>1, <1>6 DEF ParserTyped, InBounds

LEMMA NextDeviceTyped == DeviceTyped /\ [Next]_vars => DeviceTyped'
<1> SUFFICES ASSUME DeviceTyped, [Next]_vars PROVE DeviceTyped'
  OBVIOUS
<1>s. stream \in Seq(Nat)
  BY DEF DeviceTyped
<1>n. packets \in Nat /\ sessions \in Nat
  BY DEF DeviceTyped
<1>1. ASSUME NEW type \in {VIDEO_FRAME, AUDIO_FRAME, PASS_THROUGH_DATA}, NEW body \in Bodies,
             DeviceSends(type, body)
      PROVE  DeviceTyped'
  <2>1. stream' = stream \o Encoded(type, body) /\ packets' = packets + 1
    BY <1>1 DEF DeviceSends
  <2>2. stream' \in Seq(Nat)
    BY <1>s, <2>1, EncodedTyped, ConcatProperties
  <2>3. packets' \in Nat
    BY <1>n, <2>1
  <2> QED BY <1>1, <2>2, <2>3 DEF DeviceSends, DeviceTyped
<1>2. CASE DeviceConnectsAgain
  <2>1. stream' = <<>> /\ sessions' = sessions + 1
    BY <1>2 DEF DeviceConnectsAgain
  <2>2. harm' \in {harm, "residue"}
    BY <1>2 DEF DeviceConnectsAgain, Harmed
  <2>3. sessions' \in Nat
    BY <1>n, <2>1
  <2>4. stream' \in Seq(Nat)
    BY <2>1
  <2> QED BY <1>2, <2>2, <2>3, <2>4 DEF DeviceConnectsAgain, DeviceTyped
<1>3. ASSUME NEW n \in 1..MaxChunk, Receive(n) PROVE DeviceTyped'
  <2>1. stream' \in Seq(Nat)
    <3>1. n \in Nat
      BY SizeAssumption
    <3>2. stream' = SubSeq(stream, n + 1, Len(stream))
      BY <1>3 DEF Receive
    <3>3. n + 1 \in Nat \ {0}
      BY <3>1
    <3>4. Len(stream) \in Nat /\ Len(stream) <= Len(stream)
      BY <1>s, LenProperties
    <3> QED BY <1>s, <3>2, <3>3, <3>4, SubSeqTyped
  <2>2. harm' \in {harm, "overflow"} /\ phase' \in {phase, "packets"}
    BY <1>3 DEF Receive, Parse, Harmed
  <2> QED BY <1>3, <2>1, <2>2 DEF Receive, DeviceTyped
<1>4. CASE GetPacket
  <2>1. harm' \in {harm, "split audio header"}
    BY <1>4 DEF GetPacket, Harmed
  <2> QED BY <1>4, <2>1 DEF GetPacket, device, DeviceTyped
<1>5. CASE NoMorePackets
  BY <1>5 DEF NoMorePackets, device, DeviceTyped
<1>6. CASE UNCHANGED vars
  BY <1>6 DEF vars, device, DeviceTyped
<1> QED BY <1>1, <1>2, <1>3, <1>4, <1>5, <1>6 DEF Next, ParseDataLoop

LEMMA NextParser ==
  DeviceTyped /\ ParserTyped /\ InBounds /\ [Next]_vars => ParserTyped' /\ InBounds'
<1> SUFFICES ASSUME DeviceTyped, ParserTyped, InBounds, [Next]_vars
             PROVE  ParserTyped' /\ InBounds'
  OBVIOUS
<1>1. CASE UNCHANGED parser
  BY <1>1 DEF parser, ParserTyped, InBounds
<1>2. ASSUME NEW n \in 1..MaxChunk, Receive(n) PROVE ParserTyped' /\ InBounds'
  <2>1. n \in Nat /\ n <= Len(stream) /\ Parse(SubSeq(stream, 1, n))
    BY <1>2, SizeAssumption DEF Receive
  <2>2. SubSeq(stream, 1, n) \in Seq(Nat)
    <3>1. stream \in Seq(Nat)
      BY DEF DeviceTyped
    <3>2. 1 \in Nat \ {0}
      OBVIOUS
    <3> QED BY <2>1, <3>1, <3>2, SubSeqTyped
  <2> QED BY <2>1, <2>2, ParseKeeps
<1>3. CASE GetPacket
  BY <1>3, GetPacketKeeps
<1> QED
  BY <1>1, <1>2, <1>3 DEF Next, DeviceSends, DeviceConnectsAgain, ParseDataLoop, NoMorePackets, vars

LEMMA Safety == Spec => [](DeviceTyped /\ ParserTyped /\ InBounds)
<1>1. Init => DeviceTyped /\ ParserTyped /\ InBounds
  BY SizeAssumption DEF Init, DeviceTyped, ParserTyped, InBounds
<1> QED BY <1>1, NextDeviceTyped, NextParser, PTL DEF Spec

\* Every variable keeps its type: the sizes never go below zero.
THEOREM TypeCorrect == Spec => []TypeOK
<1>1. DeviceTyped /\ ParserTyped => TypeOK
  BY DEF DeviceTyped, ParserTyped, TypeOK
<1> QED BY <1>1, Safety, PTL

\* Whatever a device sends and however it is cut into chunks, what the
\* parser holds stays inside m_buffer.
THEOREM BufferInBounds == Spec => []InBounds
BY Safety, PTL

-----------------------------------------------------------------------------
(* What the device sends is what the callback sees.  While nothing harmed  *)
(* the stream, the bytes the parser holds and those not received yet are   *)
(* the encodings of the packets not delivered yet, one behind the other,   *)
(* and the calls these packets are due are the rest of media.              *)

Kinds == {VIDEO_FRAME, AUDIO_FRAME, PASS_THROUGH_DATA}
Code(p) == Encoded(p[1], p[2])
CallsOf(p) == Callback(p[1], p[2])
Calls == [call : {"OnData", "OnAudioData"}, data : Seq(Nat)]

\* The bytes not taken out of the parser yet.
Left == size + Len(stream)
Unread(i) == IF i <= size THEN buffer[pos + i - 1] ELSE stream[i - size]

\* ps are the n packets not delivered yet: packet k begins behind place
\* at[k] of the unread bytes (counted from at[1]), and its calls behind
\* place due[k] of media.
Pending(n, ps, at, due) ==
  /\ n \in Nat /\ ps \in [1..n -> Kinds \X Bodies]
  /\ at \in [1..(n + 1) -> Nat] /\ due \in [1..(n + 1) -> Nat]
  /\ at[n + 1] = at[1] + Left
  /\ \A k, l \in 1..(n + 1) : k <= l => at[k] <= at[l]
  /\ \A k \in 1..n :
       /\ at[k + 1] = at[k] + Len(Code(ps[k]))
       /\ \A i \in 1..Len(Code(ps[k])) : Unread(at[k] - at[1] + i) = Code(ps[k])[i]
  /\ due[1] = Len(delivered) /\ due[n + 1] = Len(media)
  /\ \A k \in 1..(n + 1) : due[k] <= Len(media)
  /\ \A k \in 1..n :
       /\ due[k + 1] = due[k] + Len(CallsOf(ps[k]))
       /\ \A i \in 1..Len(CallsOf(ps[k])) : media[due[k] + i] = CallsOf(ps[k])[i]

InPlace ==
  /\ media \in Seq(Calls) /\ delivered \in Seq(Calls)
  /\ \A i \in 1..Len(delivered) : delivered[i] = media[i]
  /\ \E n, ps, at, due : Pending(n, ps, at, due)

PlaceInv ==
  /\ harm = "none" => InPlace
  /\ phase = "read" => ~Complete

Typed == DeviceTyped /\ ParserTyped /\ InBounds

LEMMA CodeShape ==
  ASSUME NEW p \in Kinds \X Bodies
  PROVE  LET h == SizeOfHeader(p[1]) IN
         /\ h \in Nat /\ h >= MIN_HEADER_SIZE /\ h >= 2
         /\ Code(p) \in Seq(Nat) /\ Len(p[2]) \in Nat /\ Len(Code(p)) = h + Len(p[2])
         /\ Code(p)[1] = p[1] /\ Code(p)[h] = Len(p[2])
         /\ \A i \in 1..Len(p[2]) : Code(p)[h + i] = p[2][i]
<1> DEFINE h == SizeOfHeader(p[1])
           Header == [i \in 1..h |-> IF i = 1 THEN p[1] ELSE IF i = h THEN Len(p[2]) ELSE 0]
<1>1. h \in Nat /\ h >= MIN_HEADER_SIZE /\ h >= 2
  BY HeaderAssumption DEF SizeOfHeader, MIN_HEADER_SIZE
<1>2. p[2] \in Seq(Nat) /\ Len(p[2]) \in Nat /\ p[1] \in Nat
  BY SizeAssumption DEF Kinds, VIDEO_FRAME, AUDIO_FRAME, PASS_THROUGH_DATA
<1>3. Header \in Seq(Nat) /\ Len(Header) = h
  <2> HIDE DEF h
  <2>1. Header \in [1..h -> Nat]
    BY <1>2
  <2> QED BY <1>1, <2>1
<1>4. Header[1] = p[1] /\ Header[h] = Len(p[2])
  <2> HIDE DEF h
  <2> QED BY <1>1
<1>5. Code(p) = Header \o p[2]
  BY DEF Code, Encoded
<1> HIDE DEF Header, h
<1>6. /\ Code(p) \in Seq(Nat) /\ Len(Code(p)) = h + Len(p[2])
      /\ \A i \in 1..(h + Len(p[2])) : Code(p)[i] = IF i <= h THEN Header[i] ELSE p[2][i - h]
  <2>1. /\ Header \o p[2] \in Seq(Nat) /\ Len(Header \o p[2]) = h + Len(p[2])
        /\ \A i \in 1..(h + Len(p[2])) : (Header \o p[2])[i] = IF i <= h THEN Header[i] ELSE p[2][i - h]
    BY <1>2, <1>3, ConcatProperties
  <2> QED BY <1>5, <2>1, Zenon
<1>7. Code(p)[1] = p[1] /\ Code(p)[h] = Len(p[2])
  <2>1. 1 \in 1..(h + Len(p[2])) /\ h \in 1..(h + Len(p[2])) /\ 1 <= h /\ h <= h
    BY <1>1, <1>2
  <2> QED BY <1>4, <1>6, <2>1, Zenon
<1>8. \A i \in 1..Len(p[2]) : Code(p)[h + i] = p[2][i]
  <2> SUFFICES ASSUME NEW i \in 1..Len(p[2]) PROVE Code(p)[h + i] = p[2][i]
    OBVIOUS
  <2> DEFINE j == h + i
  <2>1. j \in 1..(h + Len(p[2])) /\ ~(j <= h) /\ j - h = i
    BY <1>1, <1>2
  <2> HIDE DEF j
  <2>2. Code(p)[j] = p[2][i]
    BY <1>6, <2>1
  <2> QED BY <2>2 DEF j
<1> QED BY <1>1, <1>2, <1>6, <1>7, <1>8 DEF h

LEMMA CallsOfTyped ==
  ASSUME NEW p \in Kinds \X Bodies
  PROVE  CallsOf(p) \in Seq(Calls)
<1>1. p[2] \in Seq(Nat)
  BY SizeAssumption
<1>2. [call |-> "OnData", data |-> p[2]] \in Calls /\ [call |-> "OnAudioData", data |-> p[2]] \in Calls
  BY <1>1 DEF Calls
<1> QED BY <1>2 DEF CallsOf, Callback

LEMMA PrefixByElements ==
  ASSUME NEW s \in Seq(Calls), NEW t \in Seq(Calls), Len(s) <= Len(t),
         \A i \in 1..Len(s) : s[i] = t[i]
  PROVE  IsPrefix(s, t)
<1>1. Len(s) \in Nat /\ \A i \in 1..Len(s) : s[i] \in Calls /\ t[i] \in Calls
  <2>1. Len(s) \in Nat /\ Len(t) \in Nat
    BY LenProperties
  <2> QED BY <2>1, ElementOfSeq
<1>2. /\ SubSeq(s, 1, Len(s)) \in Seq(Calls) /\ SubSeq(t, 1, Len(s)) \in Seq(Calls)
      /\ Len(SubSeq(s, 1, Len(s))) = Len(SubSeq(t, 1, Len(s)))
      /\ \A i \in 1..Len(SubSeq(s, 1, Len(s))) : SubSeq(s, 1, Len(s))[i] = SubSeq(t, 1, Len(s))[i]
  BY <1>1, SubSeqProperties
<1> QED BY <1>2, SeqEqual DEF IsPrefix

\* The parser stands at the beginning of a packet, and reads its kind.
LEMMA FirstPacket ==
  ASSUME Typed, NEW n, NEW ps, NEW at, NEW due, Pending(n, ps, at, due), size >= 1
  PROVE  /\ n >= 1 /\ ps[1] \in Kinds \X Bodies /\ dataType = ps[1][1]
         /\ \A i \in 1..Len(Code(ps[1])) : Unread(i) = Code(ps[1])[i]
<1>1. size \in Nat /\ Len(stream) \in Nat /\ pos \in Nat
  BY LenProperties DEF Typed, DeviceTyped, ParserTyped
<1>2. n \in Nat /\ at[1] \in Nat /\ at[n + 1] = at[1] + Left
  BY DEF Pending
<1>3. n >= 1
  <2> SUFFICES ASSUME n = 0 PROVE FALSE
    BY <1>2
  <2> QED BY <1>1, <1>2 DEF Left
<1>4. 1 \in 1..n /\ ps[1] \in Kinds \X Bodies
  BY <1>2, <1>3 DEF Pending
<1>5. \A i \in 1..Len(Code(ps[1])) : Unread(at[1] - at[1] + i) = Code(ps[1])[i]
  BY <1>4 DEF Pending
<1>6. \A i \in 1..Len(Code(ps[1])) : Unread(i) = Code(ps[1])[i]
  <2> SUFFICES ASSUME NEW i \in 1..Len(Code(ps[1])) PROVE Unread(i) = Code(ps[1])[i]
    OBVIOUS
  <2>1. at[1] - at[1] + i = i
    BY <1>2
  <2> QED BY <1>5, <2>1
<1>7. Unread(1) = dataType
  BY <1>1 DEF Unread, dataType
<1>8. 1 \in 1..Len(Code(ps[1])) /\ Code(ps[1])[1] = ps[1][1]
  BY <1>4, CodeShape
<1> QED BY <1>3, <1>4, <1>6, <1>7, <1>8

\* It reads the packet's length too, but for an audio header that is not
\* all there.
LEMMA HeaderRead ==
  ASSUME Typed, NEW n, NEW ps, NEW at, NEW due, Pending(n, ps, at, due), size >= MIN_HEADER_SIZE,
         ~(IsAudioPacket(dataType) /\ HeaderSize # AUDIO_HEADER_SIZE)
  PROVE  /\ HeaderSize = SizeOfHeader(ps[1][1])
         /\ size >= HeaderSize => datalen = Len(ps[1][2])
<1>0. size \in Nat /\ pos \in Nat /\ MIN_HEADER_SIZE \in Nat /\ size >= 1
  BY HeaderAssumption DEF Typed, ParserTyped, MIN_HEADER_SIZE
<1>1. ps[1] \in Kinds \X Bodies /\ dataType = ps[1][1]
  BY <1>0, FirstPacket
<1>2. HeaderSize = SizeOfHeader(ps[1][1])
  <2>1. dataType \in {0, 3, 4}
    BY <1>1 DEF Kinds, VIDEO_FRAME, AUDIO_FRAME, PASS_THROUGH_DATA
  <2>2. CASE dataType = 0
    BY <1>1, <2>2 DEF HeaderSize, SizeOfHeader, IsVideoPacket, VIDEO_FRAME
  <2>3. CASE dataType = 3
    BY <1>1, <2>3 DEF HeaderSize, SizeOfHeader, IsVideoPacket, IsAudioPacket, VIDEO_FRAME, AUDIO_FRAME
  <2>4. CASE dataType = 4
    BY <1>1, <2>4 DEF HeaderSize, SizeOfHeader, IsVideoPacket, IsAudioPacket, VIDEO_FRAME, AUDIO_FRAME
  <2> QED BY <2>1, <2>2, <2>3, <2>4
<1>3. ASSUME size >= HeaderSize PROVE datalen = Len(ps[1][2])
  <2>1. HeaderSize \in 1..Len(Code(ps[1])) /\ Code(ps[1])[HeaderSize] = Len(ps[1][2])
    <3> DEFINE h == SizeOfHeader(ps[1][1])
    <3>1. /\ h \in Nat /\ h >= 2 /\ Len(ps[1][2]) \in Nat
          /\ Len(Code(ps[1])) = h + Len(ps[1][2]) /\ Code(ps[1])[h] = Len(ps[1][2])
      BY <1>1, CodeShape
    <3>2. HeaderSize = h
      BY <1>2
    <3> HIDE DEF h
    <3> QED BY <3>1, <3>2
  <2>2. Unread(HeaderSize) = Code(ps[1])[HeaderSize]
    BY <1>0, <2>1, FirstPacket
  <2>3. Unread(HeaderSize) = buffer[pos + HeaderSize - 1]
    BY <1>3 DEF Unread
  <2> QED BY <2>1, <2>2, <2>3 DEF datalen
<1> QED BY <1>2, <1>3

\* A packet that is all there is taken out.
LEMMA WholeIsComplete ==
  ASSUME Typed, NEW n, NEW ps, NEW at, NEW due, Pending(n, ps, at, due),
         n >= 1, size >= Len(Code(ps[1]))
  PROVE  Complete
<1>0. size \in Nat /\ MIN_HEADER_SIZE \in Nat
  BY HeaderAssumption DEF Typed, ParserTyped, MIN_HEADER_SIZE
<1>1. ps[1] \in Kinds \X Bodies
  BY DEF Pending
<1> DEFINE h == SizeOfHeader(ps[1][1])
<1>2. /\ h \in Nat /\ h >= MIN_HEADER_SIZE /\ h >= 2
      /\ Len(ps[1][2]) \in Nat /\ Len(Code(ps[1])) = h + Len(ps[1][2])
  BY <1>1, CodeShape
<1>3. size >= h /\ size >= MIN_HEADER_SIZE /\ size >= 1 /\ size - h >= Len(ps[1][2])
  <2> HIDE DEF h
  <2> QED BY <1>0, <1>2
<1>4. dataType = ps[1][1]
  BY <1>3, FirstPacket
<1>5. ~(IsAudioPacket(dataType) /\ HeaderSize # AUDIO_HEADER_SIZE)
  <2> SUFFICES ASSUME IsAudioPacket(dataType) PROVE HeaderSize = AUDIO_HEADER_SIZE
    OBVIOUS
  <2>1. h = AUDIO_HEADER_SIZE
    BY <1>4 DEF IsAudioPacket, SizeOfHeader, VIDEO_FRAME, AUDIO_FRAME
  <2>2. size >= AUDIO_HEADER_SIZE /\ ~IsVideoPacket(dataType)
    BY <1>3, <2>1 DEF IsAudioPacket, IsVideoPacket, AUDIO_FRAME
  <2> QED BY <2>2 DEF HeaderSize
<1>6. HeaderSize = h /\ datalen = Len(ps[1][2])
  BY <1>3, <1>5, HeaderRead
<1> QED BY <1>3, <1>6 DEF Complete

\* A pending packet lies among the unread bytes.
LEMMA PendingWithin ==
  ASSUME Typed, NEW n, NEW ps, NEW at, NEW due, Pending(n, ps, at, due),
         NEW k \in 1..n, NEW i \in 1..Len(Code(ps[k]))
  PROVE  /\ at[k] - at[1] + i \in 1..Left
         /\ Unread(at[k] - at[1] + i) = Code(ps[k])[i]
<1>1. n \in Nat /\ k \in 1..(n + 1) /\ k + 1 \in 1..(n + 1) /\ 1 \in 1..(n + 1) /\ n + 1 \in 1..(n + 1)
  BY DEF Pending
<1>2. ps[k] \in Kinds \X Bodies
  BY DEF Pending
<1>3. Len(Code(ps[k])) \in Nat
  BY <1>2, CodeShape, LenProperties
<1>4. /\ at[k + 1] = at[k] + Len(Code(ps[k])) /\ at[n + 1] = at[1] + Left
      /\ Unread(at[k] - at[1] + i) = Code(ps[k])[i]
  BY DEF Pending
<1>5. at[1] \in Nat /\ at[k] \in Nat /\ at[k + 1] \in Nat /\ at[n + 1] \in Nat
  BY <1>1 DEF Pending
<1>6. at[1] <= at[k] /\ at[k + 1] <= at[n + 1]
  <2>1. 1 <= k /\ k + 1 <= n + 1
    BY <1>1
  <2> QED BY <1>1, <2>1 DEF Pending
<1>7. Left \in Nat
  <2>1. stream \in Seq(Nat) /\ size \in Nat
    BY DEF Typed, ParserTyped, DeviceTyped
  <2> QED BY <2>1, LenProperties DEF Left
<1>8. at[k] - at[1] + i \in 1..Left
  <2>1. \A b, a, c, e, m, l \in Nat :
          b <= a /\ c <= e /\ c = a + m /\ e = b + l => \A x \in 1..m : a - b + x \in 1..l
    OBVIOUS
  <2>2. \A x \in 1..Len(Code(ps[k])) : at[k] - at[1] + x \in 1..Left
    BY <1>3, <1>4, <1>5, <1>6, <1>7, <2>1, Zenon
  <2> QED BY <2>2, Zenon
<1> QED BY <1>4, <1>8, Zenon

\* While the unread bytes stay the same, the same packets are pending.
LEMMA PendingStays ==
  ASSUME Typed, NEW n, NEW ps, NEW at, NEW due, Pending(n, ps, at, due),
         Left' = Left, \A i \in 1..Left : Unread(i)' = Unread(i),
         UNCHANGED <<media, delivered>>
  PROVE  Pending(n, ps, at, due)'
<1>1. \A k \in 1..n : \A i \in 1..Len(Code(ps[k])) :
        Unread(at[k] - at[1] + i)' = Code(ps[k])[i]
  <2> SUFFICES ASSUME NEW k \in 1..n, NEW i \in 1..Len(Code(ps[k]))
               PROVE  Unread(at[k] - at[1] + i)' = Code(ps[k])[i]
    OBVIOUS
  <2> DEFINE j == at[k] - at[1] + i
  <2>1. j \in 1..Left /\ Unread(j) = Code(ps[k])[i]
    BY PendingWithin
  <2> HIDE DEF j
  <2>2. Unread(j)' = Code(ps[k])[i]
    BY <2>1
  <2> QED BY <2>2 DEF j
<1> QED BY <1>1 DEF Pending

LEMMA ReceiveKeeps ==
  ASSUME Typed, InPlace, NEW m \in 1..MaxChunk, Receive(m), harm' = "none"
  PROVE  InPlace'
<1> DEFINE chunk == SubSeq(stream, 1, m)
           rest == SubSeq(stream, m + 1, Len(stream))
<1>1. /\ m \in Nat /\ m >= 1 /\ m <= Len(stream) /\ Len(stream) \in Nat /\ size \in Nat
      /\ pos \in Nat /\ pos + size <= BufferSize /\ BufferSize \in Nat
  <2>1. m \in Nat /\ m >= 1 /\ BufferSize \in Nat
    BY SizeAssumption
  <2>2. m <= Len(stream)
    BY DEF Receive
  <2> QED BY <2>1, <2>2, LenProperties DEF Typed, DeviceTyped, ParserTyped, InBounds
<1>2. \A i \in 1..Len(stream) : stream[i] \in Nat
  BY ElementOfSeq DEF Typed, DeviceTyped
<1>3. Len(chunk) = m /\ \A i \in 1..m : chunk[i] = stream[i]
  <2>1. \A i \in 1..m : stream[i] \in Nat
    BY <1>1, <1>2
  <2>2. m - 1 + 1 = m
    BY <1>1
  <2>3. /\ Len(chunk) = IF 1 <= m THEN m - 1 + 1 ELSE 0
        /\ \A i \in 1..(m - 1 + 1) : chunk[i] = stream[1 + i - 1]
    BY <1>1, <2>1, SubSeqProperties
  <2> QED BY <1>1, <2>2, <2>3
<1>4. Len(rest) = Len(stream) - m /\ \A i \in 1..(Len(stream) - m) : rest[i] = stream[m + i]
  <2> DEFINE a == m + 1
             b == Len(stream)
  <2>1. a \in Int /\ b \in Int /\ \A i \in a..b : stream[i] \in Nat
    BY <1>1, <1>2
  <2>2. /\ Len(rest) = IF a <= b THEN b - a + 1 ELSE 0
        /\ \A i \in 1..(b - a + 1) : rest[i] = stream[a + i - 1]
    BY <2>1, SubSeqProperties
  <2>3. b - a + 1 = b - m /\ \A i \in 1..(b - m) : a + i - 1 = m + i
    BY <1>1
  <2>4. Len(rest) = b - m
    BY <1>1, <2>2
  <2>5. \A i \in 1..(b - m) : rest[i] = stream[m + i]
    <3> HIDE DEF a, b, rest
    <3> QED BY <2>2, <2>3
  <2> HIDE DEF rest
  <2> QED BY <2>4, <2>5
<1>5. Parse(chunk) /\ stream' = rest /\ UNCHANGED <<media, delivered>>
  BY DEF Receive
<1> HIDE DEF chunk, rest
<1>6. ~TooMuch(Len(chunk))
  BY <1>5 DEF Parse, Harmed
<1>7. buffer' = Moved(chunk) /\ pos' = 0 /\ size' = size + m /\ size + m <= BufferSize
  BY <1>1, <1>3, <1>5, <1>6 DEF Parse, TooMuch
<1>8. Left' = Left
  <2>1. Len(stream') = Len(stream) - m
    BY <1>4, <1>5
  <2> QED BY <1>1, <1>7, <2>1 DEF Left
<1>9. \A i \in 1..Left : Unread(i)' = Unread(i)
  <2> SUFFICES ASSUME NEW i \in 1..Left PROVE Unread(i)' = Unread(i)
    OBVIOUS
  <2>0. i \in Nat /\ i >= 1 /\ i <= size + Len(stream)
    BY <1>1 DEF Left
  <2>1. CASE i <= size
    <3> DEFINE j == i - 1
    <3>1. j \in 0..(BufferSize - 1) /\ j < size /\ pos' + i - 1 = j /\ pos + j = pos + i - 1
      BY <1>1, <1>7, <2>0, <2>1
    <3> HIDE DEF j
    <3>2. buffer'[j] = buffer[pos + j]
      BY <1>7, <3>1 DEF Moved
    <3>3. i <= size'
      BY <1>1, <1>7, <2>0, <2>1
    <3> QED BY <2>1, <3>1, <3>2, <3>3 DEF Unread
  <2>2. CASE i > size /\ i <= size + m
    <3> DEFINE j == i - 1
    <3>1. j \in 0..(BufferSize - 1) /\ ~(j < size) /\ j < size + m /\ pos' + i - 1 = j
          /\ j - size + 1 = i - size /\ i - size \in 1..m
      BY <1>1, <1>7, <2>0, <2>2
    <3> HIDE DEF j
    <3>2. buffer'[j] = chunk[j - size + 1]
      BY <1>3, <1>7, <3>1 DEF Moved
    <3>3. i <= size' /\ ~(i <= size)
      BY <1>1, <1>7, <2>0, <2>2
    <3> QED BY <1>3, <3>1, <3>2, <3>3 DEF Unread
  <2>3. CASE i > size + m
    <3> DEFINE j == i - size - m
    <3>1. j \in 1..(Len(stream) - m) /\ i - size' = j /\ m + j = i - size
      BY <1>1, <1>7, <2>0, <2>3
    <3> HIDE DEF j
    <3>2. ~(i <= size') /\ ~(i <= size)
      BY <1>1, <1>7, <2>0, <2>3
    <3> QED BY <1>4, <1>5, <3>1, <3>2 DEF Unread
  <2> QED BY <1>1, <2>0, <2>1, <2>2, <2>3
<1>10. PICK n, ps, at, due : Pending(n, ps, at, due)
  BY DEF InPlace
<1>11. Pending(n, ps, at, due)'
  BY <1>5, <1>8, <1>9, <1>10, PendingStays
<1> QED BY <1>5, <1>11 DEF InPlace

LEMMA ConcatByElements ==
  ASSUME NEW S, NEW s \in Seq(S), NEW t \in Seq(S)
  PROVE  /\ Len(s \o t) = Len(s) + Len(t)
         /\ \A i \in 1..Len(s) : (s \o t)[i] = s[i]
         /\ \A i \in 1..Len(t) : (s \o t)[Len(s) + i] = t[i]
<1>1. Len(s) \in Nat /\ Len(t) \in Nat
  BY LenProperties
<1>2. /\ Len(s \o t) = Len(s) + Len(t)
      /\ \A i \in 1..(Len(s) + Len(t)) : (s \o t)[i] = IF i <= Len(s) THEN s[i] ELSE t[i - Len(s)]
  BY ConcatProperties
<1>3. \A i \in 1..Len(s) : i \in 1..(Len(s) + Len(t)) /\ i <= Len(s)
  BY <1>1
<1>4. ASSUME NEW i \in 1..Len(t) PROVE (s \o t)[Len(s) + i] = t[i]
  <2> DEFINE j == Len(s) + i
  <2>1. j \in 1..(Len(s) + Len(t)) /\ ~(j <= Len(s)) /\ j - Len(s) = i
    BY <1>1
  <2> HIDE DEF j
  <2>2. (s \o t)[j] = t[i]
    BY <1>2, <2>1
  <2> QED BY <2>2 DEF j
<1> QED BY <1>2, <1>3, <1>4

LEMMA ConnectsKeeps ==
  ASSUME Typed, InPlace, DeviceConnectsAgain, harm' = "none"
  PROVE  InPlace'
<1>1. size' = 0 /\ stream' = <<>> /\ media' = delivered /\ delivered' = delivered
  <2>1. size = 0
    <3>1. size \in Nat
      BY DEF Typed, ParserTyped
    <3> QED BY <3>1 DEF DeviceConnectsAgain, Harmed
  <2> QED BY <2>1 DEF DeviceConnectsAgain, parser
<1>2. Left' = 0
  BY <1>1 DEF Left
<1>3. Len(delivered) \in Nat /\ delivered \in Seq(Calls)
  BY LenProperties DEF InPlace
<1>4. PICK ps, at, due : /\ ps \in [1..0 -> Kinds \X Bodies]
                         /\ at \in [1..1 -> Nat] /\ at[1] = 0
                         /\ due \in [1..1 -> Nat] /\ due[1] = Len(delivered)
  <2>1. [k \in 1..1 |-> 0] \in [1..1 -> Nat] /\ [k \in 1..1 |-> 0][1] = 0
    OBVIOUS
  <2>2. /\ [k \in 1..1 |-> Len(delivered)] \in [1..1 -> Nat]
        /\ [k \in 1..1 |-> Len(delivered)][1] = Len(delivered)
    BY <1>3
  <2>3. [k \in 1..0 |-> <<>>] \in [1..0 -> Kinds \X Bodies]
    OBVIOUS
  <2> QED BY <2>1, <2>2, <2>3
<1>5. Pending(0, ps, at, due)'
  <2>1. 0 \in Nat /\ 0 + 1 = 1 /\ 1..0 = {} /\ 1..1 = {1}
    OBVIOUS
  <2>2. at[1] = at[1] + Left' /\ at[1] <= at[1]
    BY <1>2, <1>4
  <2>3. due[1] = Len(delivered') /\ due[1] = Len(media') /\ due[1] <= Len(media')
    BY <1>1, <1>3, <1>4
  <2>4. \A k, l \in 1..1 : k <= l => at[k] <= at[l]
    BY <2>1, <2>2
  <2>5. \A k \in 1..1 : due[k] <= Len(media')
    BY <2>1, <2>3
  <2> QED BY <1>4, <2>1, <2>2, <2>3, <2>4, <2>5 DEF Pending
<1> QED BY <1>1, <1>3, <1>5 DEF InPlace

LEMMA SendsKeeps ==
  ASSUME Typed, InPlace, NEW type \in Kinds, NEW body \in Bodies, DeviceSends(type, body)
  PROVE  InPlace'
<1> DEFINE p == <<type, body>>
<1>1. p \in Kinds \X Bodies /\ Code(p) = Encoded(type, body) /\ CallsOf(p) = Callback(type, body)
  BY DEF Code, CallsOf
<1> HIDE DEF p
<1>2. /\ stream' = stream \o Code(p) /\ media' = media \o CallsOf(p)
      /\ UNCHANGED <<size, pos, buffer, delivered>>
  BY <1>1 DEF DeviceSends, parser
<1>3. Code(p) \in Seq(Nat) /\ CallsOf(p) \in Seq(Calls)
  BY <1>1, CodeShape, CallsOfTyped
<1> DEFINE c == Len(Code(p))
           d == Len(CallsOf(p))
           L == Len(stream)
           M == Len(media)
<1>4. c \in Nat /\ d \in Nat /\ L \in Nat /\ M \in Nat /\ size \in Nat /\ Len(delivered) \in Nat
  BY <1>3, LenProperties DEF Typed, DeviceTyped, ParserTyped, InPlace
<1>5. /\ Len(stream') = L + c
      /\ \A i \in 1..L : stream'[i] = stream[i]
      /\ \A i \in 1..c : stream'[L + i] = Code(p)[i]
  <2>1. stream \in Seq(Nat)
    BY DEF Typed, DeviceTyped
  <2> QED BY <1>2, <1>3, <2>1, ConcatByElements
<1>6. /\ media' \in Seq(Calls) /\ Len(media') = M + d
      /\ \A i \in 1..M : media'[i] = media[i]
      /\ \A i \in 1..d : media'[M + i] = CallsOf(p)[i]
  BY <1>2, <1>3, <1>4, ConcatProperties, ConcatByElements DEF InPlace
<1> HIDE DEF c, d, L, M
<1>7. Left = size + L /\ Left' = Left + c /\ Left \in Nat
  BY <1>2, <1>4, <1>5 DEF Left, L
<1>8. \A i \in 1..Left : Unread(i)' = Unread(i)
  <2> SUFFICES ASSUME NEW i \in 1..Left PROVE Unread(i)' = Unread(i)
    OBVIOUS
  <2>1. CASE i <= size
    BY <1>2, <2>1 DEF Unread
  <2>2. CASE ~(i <= size)
    <3>1. i - size \in 1..L
      BY <1>4, <1>7, <2>2
    <3> QED BY <1>2, <1>5, <2>2, <3>1 DEF Unread
  <2> QED BY <2>1, <2>2
<1>9. \A i \in 1..c : \A j \in Nat : j = Left + i => Unread(j)' = Code(p)[i]
  <2> SUFFICES ASSUME NEW i \in 1..c, NEW j \in Nat, j = Left + i PROVE Unread(j)' = Code(p)[i]
    OBVIOUS
  <2>1. ~(j <= size) /\ j - size = L + i
    BY <1>4, <1>7
  <2>2. stream'[L + i] = Code(p)[i] /\ size' = size
    BY <1>2, <1>5
  <2> QED BY <2>1, <2>2 DEF Unread
<1>10. PICK n, ps, at, due : Pending(n, ps, at, due)
  BY DEF InPlace
<1>11. /\ n \in Nat /\ 1 \in 1..(n + 1) /\ n + 1 \in 1..(n + 1) /\ (n + 1) + 1 = n + 2
       /\ ps \in [1..n -> Kinds \X Bodies]
       /\ at \in [1..(n + 1) -> Nat] /\ due \in [1..(n + 1) -> Nat]
  <2>1. n \in Nat /\ ps \in [1..n -> Kinds \X Bodies]
    BY <1>10 DEF Pending
  <2>2. at \in [1..(n + 1) -> Nat] /\ due \in [1..(n + 1) -> Nat]
    BY <1>10 DEF Pending
  <2>3. \A x \in Nat : 1 \in 1..(x + 1) /\ x + 1 \in 1..(x + 1) /\ (x + 1) + 1 = x + 2
    OBVIOUS
  <2> QED BY <2>1, <2>2, <2>3, Zenon
<1>12a. PICK qs \in [1..(n + 1) -> Kinds \X Bodies] : qs[n + 1] = p /\ \A k \in 1..n : qs[k] = ps[k]
  <2> DEFINE f == [k \in 1..(n + 1) |-> IF k = n + 1 THEN p ELSE ps[k]]
  <2>1. \A k \in 1..(n + 1) : k # n + 1 => k \in 1..n
    BY <1>11
  <2>2. f \in [1..(n + 1) -> Kinds \X Bodies] /\ f[n + 1] = p /\ \A k \in 1..n : f[k] = ps[k]
    BY <1>1, <1>11, <2>1
  <2> HIDE DEF f
  <2> QED BY <2>2
<1>12b. ASSUME NEW g \in [1..(n + 1) -> Nat], NEW e \in Nat
        PROVE  \E f \in [1..(n + 2) -> Nat] : f[n + 2] = g[n + 1] + e /\ \A k \in 1..(n + 1) : f[k] = g[k]
  <2> DEFINE f == [k \in 1..(n + 2) |-> IF k = n + 2 THEN g[n + 1] + e ELSE g[k]]
  <2>1. \A k \in 1..(n + 2) : k # n + 2 => k \in 1..(n + 1)
    BY <1>11
  <2>2. g[n + 1] + e \in Nat
    BY <1>11
  <2>3. f \in [1..(n + 2) -> Nat] /\ f[n + 2] = g[n + 1] + e /\ \A k \in 1..(n + 1) : f[k] = g[k]
    <3>1. n + 2 \in 1..(n + 2) /\ \A k \in 1..(n + 1) : k \in 1..(n + 2) /\ k # n + 2
      BY <1>11
    <3>2. f \in [1..(n + 2) -> Nat]
      BY <2>1, <2>2
    <3>3. f[n + 2] = g[n + 1] + e
      BY <3>1
    <3>4. \A k \in 1..(n + 1) : f[k] = g[k]
      BY <3>1
    <3> QED BY <3>2, <3>3, <3>4
  <2> HIDE DEF f
  <2> QED BY <2>3
<1>12c. PICK as \in [1..(n + 2) -> Nat] : as[n + 2] = at[n + 1] + c /\ \A k \in 1..(n + 1) : as[k] = at[k]
  BY <1>4, <1>11, <1>12b
<1>12d. PICK ds \in [1..(n + 2) -> Nat] : ds[n + 2] = due[n + 1] + d /\ \A k \in 1..(n + 1) : ds[k] = due[k]
  BY <1>4, <1>11, <1>12b
<1>12. /\ qs \in [1..(n + 1) -> Kinds \X Bodies]
       /\ as \in [1..(n + 2) -> Nat] /\ ds \in [1..(n + 2) -> Nat]
       /\ qs[n + 1] = p /\ \A k \in 1..n : qs[k] = ps[k]
       /\ as[n + 2] = at[n + 1] + c /\ \A k \in 1..(n + 1) : as[k] = at[k]
       /\ ds[n + 2] = due[n + 1] + d /\ \A k \in 1..(n + 1) : ds[k] = due[k]
  BY <1>12a, <1>12c, <1>12d
<1>14. at[n + 1] = at[1] + Left /\ due[n + 1] = M /\ due[1] = Len(delivered)
  BY <1>10 DEF Pending, M
<1>15. as[n + 2] = as[1] + Left'
  <2>1. as[1] = at[1] /\ at[1] \in Nat
    BY <1>11, <1>12
  <2>2. as[n + 2] = (at[1] + Left) + c
    BY <1>12, <1>14
  <2> QED BY <1>4, <1>7, <2>1, <2>2
<1>16. \A k, l \in 1..(n + 2) : k <= l => as[k] <= as[l]
  <2> SUFFICES ASSUME NEW k \in 1..(n + 2), NEW l \in 1..(n + 2), k <= l PROVE as[k] <= as[l]
    OBVIOUS
  <2>1. CASE l \in 1..(n + 1)
    <3>1. k \in 1..(n + 1)
      BY <1>11, <2>1
    <3>2. at[k] <= at[l]
      BY <1>10, <2>1, <3>1 DEF Pending
    <3> QED BY <1>12, <2>1, <3>1, <3>2
  <2>2. CASE k \in 1..(n + 1) /\ l = n + 2
    <3>1. at[k] <= at[n + 1]
      <4>1. k <= n + 1
        BY <1>11, <2>2
      <4> QED BY <1>10, <1>11, <2>2, <4>1 DEF Pending
    <3>2. at[k] \in Nat /\ at[n + 1] \in Nat
      BY <1>11, <2>2
    <3>3. as[k] = at[k] /\ as[l] = at[n + 1] + c
      BY <1>12, <2>2
    <3> QED BY <1>4, <3>1, <3>2, <3>3
  <2>3. CASE k = n + 2 /\ l = n + 2
    <3>1. as[n + 2] \in Nat
      <4>1. n + 2 \in 1..(n + 2)
        BY <1>11
      <4> QED BY <1>12, <4>1
    <3>2. as[k] = as[n + 2] /\ as[l] = as[n + 2]
      BY <2>3
    <3>3. \A x \in Nat : x <= x
      OBVIOUS
    <3> QED BY <3>1, <3>2, <3>3
  <2>4. l \in 1..(n + 1) \/ l = n + 2
    BY <1>11
  <2>5. k \in 1..(n + 1) \/ k = n + 2
    BY <1>11
  <2> QED BY <2>1, <2>2, <2>3, <2>4, <2>5
<1>17. ASSUME NEW k \in 1..(n + 1)
       PROVE  /\ as[k + 1] = as[k] + Len(Code(qs[k]))
              /\ \A i \in 1..Len(Code(qs[k])) : Unread(as[k] - as[1] + i)' = Code(qs[k])[i]
  <2>1. CASE k \in 1..n
    <3>1. qs[k] = ps[k] /\ as[k] = at[k] /\ as[1] = at[1] /\ as[k + 1] = at[k + 1]
      <4>1. k \in 1..(n + 1) /\ k + 1 \in 1..(n + 1)
        BY <1>11, <2>1
      <4> QED BY <1>11, <1>12, <2>1, <4>1
    <3>2. at[k + 1] = at[k] + Len(Code(ps[k]))
      BY <1>10, <2>1 DEF Pending
    <3>3. ASSUME NEW i \in 1..Len(Code(ps[k])) PROVE Unread(at[k] - at[1] + i)' = Code(ps[k])[i]
      <4> DEFINE j == at[k] - at[1] + i
      <4>1. j \in 1..Left /\ Unread(j) = Code(ps[k])[i]
        BY <1>10, <2>1, PendingWithin
      <4> HIDE DEF j
      <4>2. Unread(j)' = Code(ps[k])[i]
        BY <1>8, <4>1
      <4> QED BY <4>2 DEF j
    <3> QED BY <3>1, <3>2, <3>3
  <2>2. CASE k = n + 1
    <3>1. qs[k] = p /\ as[k] = at[n + 1] /\ as[1] = at[1] /\ as[k + 1] = at[n + 1] + c
      BY <1>11, <1>12, <2>2
    <3>2. as[k] - as[1] = Left
      <4>1. \A x, y \in Nat : (x + y) - x = y
        OBVIOUS
      <4>2. at[1] \in Nat
        BY <1>11
      <4>3. (at[1] + Left) - at[1] = Left
        BY <1>7, <4>1, <4>2, Zenon
      <4> QED BY <1>14, <3>1, <4>3, Zenon
    <3>3. ASSUME NEW i \in 1..c PROVE Unread(as[k] - as[1] + i)' = Code(p)[i]
      <4> DEFINE j == as[k] - as[1] + i
      <4>1. j = Left + i /\ j \in Nat
        <5>1. as[k] \in Nat /\ as[1] \in Nat
          BY <1>11, <2>2, <3>1
        <5>2. as[k] - as[1] + i = Left + i
          BY <3>2, <5>1
        <5>3. Left + i \in Nat
          BY <1>4, <1>7
        <5> QED BY <5>2, <5>3
      <4> HIDE DEF j
      <4>2. Unread(j)' = Code(p)[i]
        BY <1>9, <4>1
      <4> QED BY <4>2 DEF j
    <3> QED BY <3>1, <3>3 DEF c
  <2>3. k \in 1..n \/ k = n + 1
    BY <1>11
  <2> QED BY <2>1, <2>2, <2>3
<1>18. /\ ds[1] = Len(delivered') /\ ds[n + 2] = Len(media')
       /\ \A k \in 1..(n + 2) : ds[k] <= Len(media')
  <2>1. \A k \in 1..(n + 1) : due[k] <= M /\ due[k] \in Nat
    BY <1>10, <1>11 DEF Pending, M
  <2>2. \A k \in 1..(n + 1) : ds[k] <= M + d
    <3> SUFFICES ASSUME NEW k \in 1..(n + 1) PROVE ds[k] <= M + d
      OBVIOUS
    <3>1. due[k] <= M /\ due[k] \in Nat /\ ds[k] = due[k]
      BY <1>12, <2>1
    <3> QED BY <1>4, <3>1
  <2>3. ds[n + 2] = M + d
    BY <1>12, <1>14
  <2>4. \A k \in 1..(n + 2) : k = n + 2 \/ k \in 1..(n + 1)
    BY <1>11
  <2>5. \A k \in 1..(n + 2) : ds[k] <= M + d
    <3>1. M + d <= M + d
      BY <1>4
    <3> QED BY <2>2, <2>3, <2>4, <3>1
  <2> QED BY <1>2, <1>6, <1>11, <1>12, <1>14, <2>3, <2>5
<1>19. ASSUME NEW k \in 1..(n + 1)
       PROVE  /\ ds[k + 1] = ds[k] + Len(CallsOf(qs[k]))
              /\ \A i \in 1..Len(CallsOf(qs[k])) : media'[ds[k] + i] = CallsOf(qs[k])[i]
  <2>1. CASE k \in 1..n
    <3>1. k + 1 \in 1..(n + 1)
      BY <1>11, <2>1
    <3>2. qs[k] = ps[k] /\ ds[k] = due[k] /\ ds[k + 1] = due[k + 1]
      BY <1>12, <2>1, <3>1
    <3>3. /\ due[k + 1] = due[k] + Len(CallsOf(ps[k])) /\ due[k + 1] <= M
          /\ \A i \in 1..Len(CallsOf(ps[k])) : media[due[k] + i] = CallsOf(ps[k])[i]
      BY <1>10, <2>1, <3>1 DEF Pending, M
    <3>4. due[k] \in Nat /\ Len(CallsOf(ps[k])) \in Nat
      <4>1. ps[k] \in Kinds \X Bodies
        BY <1>11, <2>1
      <4> QED BY <1>11, <4>1, CallsOfTyped, LenProperties
    <3>5. \A i \in 1..Len(CallsOf(ps[k])) : media'[due[k] + i] = media[due[k] + i]
      <4> SUFFICES ASSUME NEW i \in 1..Len(CallsOf(ps[k]))
                   PROVE  media'[due[k] + i] = media[due[k] + i]
        OBVIOUS
      <4>1. due[k] + i \in 1..M
        BY <1>4, <3>3, <3>4
      <4> QED BY <1>6, <4>1
    <3> QED BY <3>2, <3>3, <3>5
  <2>2. CASE k = n + 1
    <3>1. qs[k] = p /\ ds[k] = M /\ ds[k + 1] = M + d
      BY <1>11, <1>12, <1>14, <2>2
    <3> QED BY <1>6, <3>1 DEF d
  <2> QED BY <1>11, <2>1, <2>2
<1>20. Pending(n + 1, qs, as, ds)'
  <2>1. n + 1 \in Nat
    BY <1>11
  <2> QED BY <1>11, <1>12, <1>15, <1>16, <1>17, <1>18, <1>19, <2>1 DEF Pending
<1>21. \A i \in 1..Len(delivered') : delivered'[i] = media'[i]
  <2>1. Len(delivered) <= M
    BY <1>10, <1>11, <1>14 DEF Pending, M
  <2>2. \A i \in 1..Len(delivered) : i \in 1..M
    BY <1>4, <2>1
  <2> QED BY <1>2, <1>6, <2>2 DEF InPlace
<1> QED BY <1>2, <1>6, <1>20, <1>21 DEF InPlace

\* A packet that is taken out is the first pending one, and what the
\* callback sees of it is what it should see.
LEMMA GetPacketDelivers ==
  ASSUME Typed, InPlace, GetPacket, harm' = "none"
  PROVE  InPlace'
<1>1. PICK n, ps, at, due : Pending(n, ps, at, due)
  BY DEF InPlace
<1> DEFINE p == ps[1]
           h == SizeOfHeader(p[1])
           c == Len(Code(p))
<1>2. size >= MIN_HEADER_SIZE /\ size >= HeaderSize /\ size - HeaderSize >= datalen
  BY DEF GetPacket, Complete
<1>3. size \in Nat /\ pos \in Nat /\ MIN_HEADER_SIZE \in Nat /\ size >= 1
  BY <1>2, HeaderAssumption DEF Typed, ParserTyped, MIN_HEADER_SIZE
<1>4. /\ n >= 1 /\ p \in Kinds \X Bodies /\ dataType = p[1]
      /\ \A i \in 1..c : Unread(i) = Code(p)[i]
  BY <1>1, <1>3, FirstPacket
<1>5. HeaderSize = h /\ datalen = Len(p[2])
  <2>1. ~(IsAudioPacket(dataType) /\ HeaderSize # AUDIO_HEADER_SIZE)
    BY DEF GetPacket, Harmed
  <2> QED BY <1>1, <1>2, <2>1, HeaderRead
<1>6. /\ h \in Nat /\ h >= 2 /\ Len(p[2]) \in Nat /\ c = h + Len(p[2]) /\ p[2] \in Seq(Nat)
      /\ \A i \in 1..Len(p[2]) : Code(p)[h + i] = p[2][i]
  BY <1>4, CodeShape, SizeAssumption
<1>7. CallsOf(p) \in Seq(Calls)
  BY <1>4, CallsOfTyped
<1> HIDE DEF p, h, c
<1>8. packetSize = c /\ c \in Nat /\ size >= c
  BY <1>2, <1>3, <1>5, <1>6 DEF packetSize
<1>9. [i \in 1..datalen |-> buffer[pos + HeaderSize + i - 1]] = p[2]
  <2> SUFFICES ASSUME NEW i \in 1..Len(p[2]) PROVE buffer[pos + h + i - 1] = p[2][i]
    <3>1. p[2] = [i \in 1..Len(p[2]) |-> p[2][i]]
      BY <1>6
    <3> QED BY <1>5, <3>1
  <2> DEFINE j == h + i
  <2>1. j \in 1..c /\ j <= size /\ pos + j - 1 = pos + h + i - 1
    BY <1>3, <1>6, <1>8
  <2>2. Code(p)[j] = p[2][i]
    BY <1>6
  <2> HIDE DEF j
  <2>3. Unread(j) = Code(p)[j]
    BY <1>4, <2>1
  <2> QED BY <2>1, <2>2, <2>3 DEF Unread
<1>10. /\ size' = size - c /\ pos' = pos + c /\ delivered' = delivered \o CallsOf(p)
       /\ UNCHANGED <<buffer, stream, media>>
  <2>1. delivered' = delivered \o Callback(dataType, p[2])
    BY <1>9 DEF GetPacket
  <2> QED BY <1>4, <1>8, <2>1 DEF GetPacket, device, CallsOf
<1>11. /\ n \in Nat /\ 1 \in 1..n /\ (n - 1) + 1 = n /\ n - 1 \in Nat
       /\ 1 \in 1..(n + 1) /\ 2 \in 1..(n + 1) /\ n + 1 \in 1..(n + 1)
  BY <1>1, <1>4 DEF Pending
<1>12. /\ ps \in [1..n -> Kinds \X Bodies]
       /\ at \in [1..(n + 1) -> Nat] /\ due \in [1..(n + 1) -> Nat]
  BY <1>1 DEF Pending
<1>13. \A k \in 1..(n - 1) : k + 1 \in 1..n /\ k \in 1..n
  BY <1>11
<1>14. \A k \in 1..n : k + 1 \in 1..(n + 1) /\ k \in 1..(n + 1)
  BY <1>11
<1>15. PICK qs \in [1..(n - 1) -> Kinds \X Bodies] : \A k \in 1..(n - 1) : qs[k] = ps[k + 1]
  <2> DEFINE f == [k \in 1..(n - 1) |-> ps[k + 1]]
  <2>1. f \in [1..(n - 1) -> Kinds \X Bodies] /\ \A k \in 1..(n - 1) : f[k] = ps[k + 1]
    BY <1>12, <1>13
  <2> HIDE DEF f
  <2> QED BY <2>1
<1>16. ASSUME NEW g \in [1..(n + 1) -> Nat]
       PROVE  \E f \in [1..n -> Nat] : \A k \in 1..n : f[k] = g[k + 1]
  <2> DEFINE f == [k \in 1..n |-> g[k + 1]]
  <2>1. f \in [1..n -> Nat] /\ \A k \in 1..n : f[k] = g[k + 1]
    BY <1>14
  <2> HIDE DEF f
  <2> QED BY <2>1
<1>17. PICK as \in [1..n -> Nat] : \A k \in 1..n : as[k] = at[k + 1]
  BY <1>12, <1>16
<1>18. PICK ds \in [1..n -> Nat] : \A k \in 1..n : ds[k] = due[k + 1]
  BY <1>12, <1>16
<1>19. at[2] = at[1] + c /\ at[n + 1] = at[1] + Left /\ at[1] \in Nat /\ at[2] \in Nat
  <2>1. at[1 + 1] = at[1] + Len(Code(ps[1]))
    BY <1>1, <1>11 DEF Pending
  <2>2. at[n + 1] = at[1] + Left
    BY <1>1 DEF Pending
  <2> QED BY <1>11, <1>12, <2>1, <2>2 DEF c, p
<1>20. Left \in Nat /\ Left' = Left - c
  <2>1. stream \in Seq(Nat) /\ Len(stream) \in Nat
    BY LenProperties DEF Typed, DeviceTyped
  <2> QED BY <1>3, <1>8, <1>10, <2>1 DEF Left
<1>21. as[n] = as[1] + Left'
  <2>1. n \in 1..n /\ as[n] = at[n + 1] /\ as[1] = at[2]
    <3>1. n \in 1..n
      BY <1>11
    <3>2. as[n] = at[n + 1]
      BY <1>17, <3>1
    <3>3. as[1] = at[1 + 1]
      BY <1>11, <1>17
    <3> QED BY <3>1, <3>2, <3>3
  <2> QED BY <1>8, <1>19, <1>20, <2>1
<1>22. \A k, l \in 1..n : k <= l => as[k] <= as[l]
  <2> SUFFICES ASSUME NEW k \in 1..n, NEW l \in 1..n, k <= l PROVE as[k] <= as[l]
    OBVIOUS
  <2>1. k + 1 <= l + 1 /\ k + 1 \in 1..(n + 1) /\ l + 1 \in 1..(n + 1)
    BY <1>11, <1>14
  <2>2. at[k + 1] <= at[l + 1]
    BY <1>1, <2>1 DEF Pending
  <2> QED BY <1>17, <2>2
<1>23. ASSUME NEW k \in 1..(n - 1)
       PROVE  /\ as[k + 1] = as[k] + Len(Code(qs[k]))
              /\ \A i \in 1..Len(Code(qs[k])) : Unread(as[k] - as[1] + i)' = Code(qs[k])[i]
  <2> DEFINE l == k + 1
  <2>1. /\ l \in 1..n /\ k \in 1..n /\ l \in 1..(n + 1) /\ l + 1 \in 1..(n + 1)
        /\ qs[k] = ps[l] /\ as[k] = at[l] /\ as[l] = at[l + 1] /\ as[1] = at[2]
    <3>1. l \in 1..n /\ k \in 1..n
      BY <1>13
    <3>2. l \in 1..(n + 1) /\ l + 1 \in 1..(n + 1)
      BY <1>14, <3>1
    <3>3. qs[k] = ps[l] /\ as[k] = at[l]
      BY <1>15, <1>17, <3>1
    <3>4. as[l] = at[l + 1] /\ as[1] = at[1 + 1]
      <4> HIDE DEF l
      <4> QED BY <1>11, <1>17, <3>1
    <3> QED BY <3>1, <3>2, <3>3, <3>4
  <2> HIDE DEF l
  <2>2. at[l + 1] = at[l] + Len(Code(ps[l]))
    BY <1>1, <2>1 DEF Pending
  <2>3. at[2] <= at[l] /\ at[l] \in Nat
    <3>1. 2 <= l
      BY <1>11 DEF l
    <3> QED BY <1>1, <1>11, <1>12, <2>1, <3>1 DEF Pending
  <2>4. ASSUME NEW i \in 1..Len(Code(ps[l])) PROVE Unread(at[l] - at[2] + i)' = Code(ps[l])[i]
    <3> DEFINE j == at[l] - at[1] + i
               m == at[l] - at[2] + i
    <3>1. j \in 1..Left /\ Unread(j) = Code(ps[l])[i]
      BY <1>1, <2>1, PendingWithin
    <3>2. Len(Code(ps[l])) \in Nat
      <4>1. ps[l] \in Kinds \X Bodies
        BY <1>12, <2>1
      <4> QED BY <4>1, CodeShape, LenProperties
    <3>3. m \in Nat /\ m >= 1 /\ j = m + c
      <4>1. i \in Nat /\ i >= 1
        BY <3>2
      <4>2. at[l] - at[1] + i = at[l] - (at[1] + c) + i + c
        <5>1. at[l] \in Nat /\ at[1] \in Nat /\ c \in Nat /\ i \in Nat
          BY <1>8, <1>19, <2>3, <4>1
        <5> HIDE DEF c
        <5> HIDE DEF l
        <5> QED BY <5>1, SMTT(30)
      <4>3. m \in Nat /\ m >= 1
        BY <1>19, <2>3, <4>1
      <4> QED BY <1>19, <4>2, <4>3
    <3> HIDE DEF j, m
    <3>4. Unread(m)' = Unread(j)
      <4>1. m <= size' <=> j <= size
        BY <1>3, <1>8, <1>10, <3>3
      <4>2. pos' + m - 1 = pos + j - 1 /\ m - size' = j - size
        BY <1>3, <1>8, <1>10, <3>3
      <4> QED BY <1>10, <4>1, <4>2 DEF Unread
    <3>5. Unread(m)' = Code(ps[l])[i]
      BY <3>1, <3>4
    <3> QED BY <3>5 DEF m
  <2>5. as[l] = as[k] + Len(Code(qs[k]))
    BY <2>1, <2>2
  <2> QED BY <2>1, <2>4, <2>5 DEF l
<1>24. due[1] = Len(delivered) /\ due[n + 1] = Len(media) /\ due[2] <= Len(media)
  BY <1>1, <1>11 DEF Pending
<1>25. /\ due[2] = due[1] + Len(CallsOf(p))
       /\ \A i \in 1..Len(CallsOf(p)) : media[due[1] + i] = CallsOf(p)[i]
  <2>1. due[1 + 1] = due[1] + Len(CallsOf(ps[1]))
    BY <1>1, <1>11 DEF Pending
  <2>2. \A i \in 1..Len(CallsOf(ps[1])) : media[due[1] + i] = CallsOf(ps[1])[i]
    BY <1>1, <1>11 DEF Pending
  <2> QED BY <2>1, <2>2 DEF p
<1>26. /\ delivered' \in Seq(Calls) /\ Len(delivered') = due[2]
       /\ \A i \in 1..Len(delivered) : delivered'[i] = delivered[i]
       /\ \A i \in 1..Len(CallsOf(p)) : delivered'[Len(delivered) + i] = CallsOf(p)[i]
  <2>1. delivered \in Seq(Calls)
    BY DEF InPlace
  <2>2. delivered' = delivered \o CallsOf(p)
    BY <1>10
  <2>3. delivered \o CallsOf(p) \in Seq(Calls)
    BY <1>7, <2>1, ConcatProperties
  <2>4. Len(delivered') = Len(delivered) + Len(CallsOf(p))
    BY <1>7, <2>1, <2>2, ConcatByElements
  <2>5. /\ \A i \in 1..Len(delivered) : delivered'[i] = delivered[i]
        /\ \A i \in 1..Len(CallsOf(p)) : delivered'[Len(delivered) + i] = CallsOf(p)[i]
    <3> DEFINE f == delivered \o CallsOf(p)
    <3>1. \A i \in 1..Len(delivered) : f[i] = delivered[i]
      BY <1>7, <2>1, ConcatByElements
    <3>2. \A i \in 1..Len(CallsOf(p)) : f[Len(delivered) + i] = CallsOf(p)[i]
      BY <1>7, <2>1, ConcatByElements
    <3>3. delivered' = f
      BY <2>2
    <3> HIDE DEF f
    <3> QED BY <3>1, <3>2, <3>3
  <2> QED BY <1>24, <1>25, <2>2, <2>3, <2>4, <2>5
<1>27. /\ ds[1] = Len(delivered') /\ ds[n] = Len(media')
       /\ \A k \in 1..n : ds[k] <= Len(media')
  <2>1. ds[1] = due[2] /\ ds[n] = due[n + 1]
    BY <1>11, <1>18
  <2>2. \A k \in 1..(n + 1) : due[k] <= Len(media)
    BY <1>1 DEF Pending
  <2>3. \A k \in 1..n : ds[k] <= Len(media)
    BY <1>14, <1>18, <2>2
  <2> QED BY <1>10, <1>24, <1>26, <2>1, <2>3
<1>28. ASSUME NEW k \in 1..(n - 1)
       PROVE  /\ ds[k + 1] = ds[k] + Len(CallsOf(qs[k]))
              /\ \A i \in 1..Len(CallsOf(qs[k])) : media'[ds[k] + i] = CallsOf(qs[k])[i]
  <2> DEFINE l == k + 1
  <2>1. l \in 1..n /\ k \in 1..n /\ qs[k] = ps[l] /\ ds[k] = due[l] /\ ds[l] = due[l + 1]
    BY <1>13, <1>15, <1>18
  <2> HIDE DEF l
  <2>2. /\ due[l + 1] = due[l] + Len(CallsOf(ps[l]))
        /\ \A i \in 1..Len(CallsOf(ps[l])) : media[due[l] + i] = CallsOf(ps[l])[i]
    BY <1>1, <2>1 DEF Pending
  <2>3. ds[l] = ds[k] + Len(CallsOf(qs[k]))
    BY <2>1, <2>2
  <2> QED BY <1>10, <2>1, <2>2, <2>3 DEF l
<1>29. Pending(n - 1, qs, as, ds)'
  BY <1>11, <1>15, <1>17, <1>18, <1>21, <1>22, <1>23, <1>27, <1>28 DEF Pending
<1>30. \A i \in 1..Len(delivered') : delivered'[i] = media'[i]
  <2> SUFFICES ASSUME NEW i \in 1..Len(delivered') PROVE delivered'[i] = media[i]
    BY <1>10
  <2>1. Len(delivered) \in Nat /\ Len(CallsOf(p)) \in Nat /\ Len(delivered') = Len(delivered) + Len(CallsOf(p))
    BY <1>7, <1>24, <1>25, <1>26, LenProperties DEF InPlace
  <2>2. CASE i <= Len(delivered)
    <3>1. i \in 1..Len(delivered)
      BY <2>1, <2>2
    <3> QED BY <1>26, <3>1 DEF InPlace
  <2>3. CASE ~(i <= Len(delivered))
    <3> DEFINE j == i - Len(delivered)
    <3>1. j \in 1..Len(CallsOf(p)) /\ i = Len(delivered) + j
      BY <2>1, <2>3
    <3> HIDE DEF j
    <3> QED BY <1>24, <1>25, <1>26, <3>1
  <2> QED BY <2>2, <2>3
<1>31. media' \in Seq(Calls)
  BY <1>10 DEF InPlace
<1> QED BY <1>26, <1>29, <1>30, <1>31 DEF InPlace

LEMMA NextPlaceInv == Typed /\ PlaceInv /\ [Next]_vars => PlaceInv'
<1> SUFFICES ASSUME Typed, PlaceInv, [Next]_vars PROVE PlaceInv'
  OBVIOUS
<1>1. ASSUME UNCHANGED <<parser, phase>> PROVE phase' = "read" => ~Complete'
  BY <1>1 DEF PlaceInv, parser, Complete, HeaderSize, datalen, dataType
<1>2. ASSUME NEW type \in Kinds, NEW body \in Bodies, DeviceSends(type, body) PROVE PlaceInv'
  <2>1. UNCHANGED <<parser, phase, harm>>
    BY <1>2 DEF DeviceSends
  <2>2. harm = "none" => InPlace'
    BY <1>2, SendsKeeps DEF PlaceInv
  <2> QED BY <1>1, <2>1, <2>2 DEF PlaceInv
<1>3. CASE DeviceConnectsAgain
  <2>1. UNCHANGED <<parser, phase>> /\ (harm' = "none" => harm = "none")
    BY <1>3 DEF DeviceConnectsAgain, Harmed
  <2>2. harm' = "none" => InPlace'
    BY <1>3, <2>1, ConnectsKeeps DEF PlaceInv
  <2> QED BY <1>1, <2>1, <2>2 DEF PlaceInv
<1>4. ASSUME NEW m \in 1..MaxChunk, Receive(m) PROVE PlaceInv'
  <2>1. UNCHANGED <<parser, phase>> \/ phase' = "packets"
    BY <1>4 DEF Receive, Parse
  <2>2. harm' = "none" => harm = "none"
    BY <1>4 DEF Receive, Parse, Harmed
  <2>3. harm' = "none" => InPlace'
    BY <1>4, <2>2, ReceiveKeeps DEF PlaceInv
  <2> QED BY <1>1, <2>1, <2>3 DEF PlaceInv
<1>5. CASE GetPacket
  <2>1. phase' = "packets" /\ (harm' = "none" => harm = "none")
    BY <1>5 DEF GetPacket, Harmed
  <2>2. harm' = "none" => InPlace'
    BY <1>5, <2>1, GetPacketDelivers DEF PlaceInv
  <2> QED BY <2>1, <2>2 DEF PlaceInv
<1>6. ASSUME UNCHANGED <<parser, device, delivered, harm>> PROVE harm' = "none" => InPlace'
  <2> SUFFICES ASSUME harm' = "none" PROVE InPlace'
    OBVIOUS
  <2>1. UNCHANGED <<size, pos, buffer, stream, media, delivered, harm>>
    BY <1>6 DEF parser, device
  <2>2. PICK n, ps, at, due : Pending(n, ps, at, due)
    BY <2>1 DEF PlaceInv, InPlace
  <2>3. Left' = Left /\ \A i \in 1..Left : Unread(i)' = Unread(i)
    BY <2>1 DEF Left, Unread
  <2>4. Pending(n, ps, at, due)'
    BY <2>1, <2>2, <2>3, PendingStays
  <2> QED BY <2>1, <2>4 DEF PlaceInv, InPlace
<1>7. CASE NoMorePackets
  <2>1. UNCHANGED <<parser, device, delivered, harm>> /\ ~Complete
    BY <1>7 DEF NoMorePackets, LeftIncomplete
  <2>2. ~Complete'
    BY <2>1 DEF parser, Complete, HeaderSize, datalen, dataType
  <2> QED BY <1>6, <2>1, <2>2 DEF PlaceInv
<1>8. CASE UNCHANGED vars
  BY <1>1, <1>6, <1>8 DEF vars, PlaceInv
<1> QED BY <1>2, <1>3, <1>4, <1>5, <1>7, <1>8 DEF Next, ParseDataLoop, Kinds

LEMMA Placed == Spec => [](Typed /\ PlaceInv)
<1>1. Init => PlaceInv
  <2> SUFFICES ASSUME Init PROVE PlaceInv
    OBVIOUS
  <2>1. size = 0 /\ stream = <<>> /\ media = <<>> /\ delivered = <<>> /\ Left = 0
    BY DEF Init, Left
  <2>2. PICK ps, at, due : /\ ps \in [1..0 -> Kinds \X Bodies]
                           /\ at \in [1..1 -> Nat] /\ at[1] = 0
                           /\ due \in [1..1 -> Nat] /\ due[1] = 0
    <3>1. [k \in 1..1 |-> 0] \in [1..1 -> Nat] /\ [k \in 1..1 |-> 0][1] = 0
      OBVIOUS
    <3>2. [k \in 1..0 |-> <<>>] \in [1..0 -> Kinds \X Bodies]
      OBVIOUS
    <3> QED BY <3>1, <3>2
  <2>3. 0 \in Nat /\ 0 + 1 = 1 /\ 1..0 = {} /\ 1..1 = {1} /\ Len(<<>>) = 0 /\ 0 <= 0 /\ 0 + 0 = 0
    OBVIOUS
  <2>4. \A k, l \in 1..1 : k <= l => at[k] <= at[l]
    BY <2>2, <2>3
  <2>5. Pending(0, ps, at, due)
    BY <2>1, <2>2, <2>3, <2>4 DEF Pending
  <2>6. InPlace
    BY <2>1, <2>3, <2>5 DEF InPlace
  <2>7. ~Complete
    BY <2>1, HeaderAssumption DEF Complete, MIN_HEADER_SIZE
  <2> QED BY <2>6, <2>7 DEF PlaceInv
<1>2. Spec => []Typed
  BY Safety, PTL DEF Typed
<1> QED BY <1>1, <1>2, NextPlaceInv, PTL DEF Spec

\* However the stream is cut into chunks, for every size of headers, buffer
\* and bodies: as long as nothing harmed the stream, the callback sees the
\* packets the device sent, in order, whole, once.
THEOREM PacketsDelivered == Spec => []DeliveredAsSent
<1>1. Typed /\ PlaceInv => DeliveredAsSent
  <2> SUFFICES ASSUME Typed, PlaceInv, harm = "none" PROVE IsPrefix(delivered, media)
    BY DEF DeliveredAsSent
  <2>1. PICK n, ps, at, due : Pending(n, ps, at, due)
    BY DEF PlaceInv, InPlace
  <2>2. n \in Nat /\ 1 \in 1..(n + 1)
    BY <2>1 DEF Pending
  <2>3. Len(delivered) <= Len(media)
    BY <2>1, <2>2 DEF Pending
  <2> QED BY <2>3, PrefixByElements DEF PlaceInv, InPlace
<1> QED BY <1>1, Placed, PTL

\* Where the first packet is incomplete, less than the packet is held.
LEMMA IncompleteIsShort ==
  ASSUME Typed, NEW n, NEW ps, NEW at, NEW due, Pending(n, ps, at, due), ~Complete, n >= 1
  PROVE  ps[1] \in Kinds \X Bodies /\ size + 1 <= Len(Code(ps[1]))
<1>1. ps[1] \in Kinds \X Bodies
  BY DEF Pending
<1>2. Len(Code(ps[1])) \in Nat /\ size \in Nat
  BY <1>1, CodeShape, LenProperties DEF Typed, ParserTyped
<1>3. ~(size >= Len(Code(ps[1])))
  BY WholeIsComplete
<1> QED BY <1>1, <1>2, <1>3

\* And nothing is missing, if the buffer has room for the largest packet,
\* less the byte that makes it incomplete, and another chunk.
THEOREM NothingLost ==
  ASSUME \A p \in Kinds \X Bodies : Len(Code(p)) - 1 + MaxChunk <= BufferSize
  PROVE  Spec => []NothingHeldBack
<1> DEFINE NoneRefused == harm # "overflow"
<1>1. Typed /\ PlaceInv /\ NoneRefused /\ [Next]_vars => NoneRefused'
  <2> SUFFICES ASSUME Typed, PlaceInv, harm # "overflow", [Next]_vars, harm' = "overflow" PROVE FALSE
    OBVIOUS
  <2>1. PICK m \in 1..MaxChunk : Receive(m)
    BY DEF Next, DeviceSends, DeviceConnectsAgain, ParseDataLoop, GetPacket, NoMorePackets, Harmed, vars
  <2>2. harm = "none" /\ phase = "read" /\ TooMuch(Len(SubSeq(stream, 1, m))) /\ m <= Len(stream)
    BY <2>1 DEF Receive, Parse, Harmed
  <2>3. PICK n, ps, at, due : Pending(n, ps, at, due)
    BY <2>2 DEF PlaceInv, InPlace
  <2>4. /\ stream \in Seq(Nat) /\ Len(stream) \in Nat /\ size \in Nat
        /\ m \in Nat /\ m >= 1 /\ m <= MaxChunk /\ MaxChunk \in Nat /\ BufferSize \in Nat
    <3>1. stream \in Seq(Nat) /\ size \in Nat
      BY DEF Typed, DeviceTyped, ParserTyped
    <3>2. Len(stream) \in Nat
      BY <3>1, LenProperties
    <3>3. m \in Nat /\ m >= 1 /\ m <= MaxChunk /\ MaxChunk \in Nat /\ BufferSize \in Nat
      BY SizeAssumption
    <3> QED BY <3>1, <3>2, <3>3
  <2>5. Len(SubSeq(stream, 1, m)) = m
    <3>1. \A i \in 1..m : stream[i] \in Nat
      BY <2>2, <2>4, ElementOfSeq
    <3>2. Len(SubSeq(stream, 1, m)) = IF 1 <= m THEN m - 1 + 1 ELSE 0
      BY <2>4, <3>1, SubSeqProperties
    <3> QED BY <2>4, <3>2
  <2>6. n \in Nat /\ at[1] \in Nat /\ at[n + 1] = at[1] + Left
    BY <2>3 DEF Pending
  <2>7. n >= 1
    <3> SUFFICES ASSUME n = 0 PROVE FALSE
      BY <2>6
    <3> QED BY <2>2, <2>4, <2>6 DEF Left
  <2>8. ps[1] \in Kinds \X Bodies /\ size + 1 <= Len(Code(ps[1]))
    BY <2>2, <2>3, <2>7, IncompleteIsShort DEF PlaceInv
  <2>9. Len(Code(ps[1])) - 1 + MaxChunk <= BufferSize /\ Len(Code(ps[1])) \in Nat
    BY <2>8, CodeShape, LenProperties
  <2> QED BY <2>2, <2>4, <2>5, <2>8, <2>9 DEF TooMuch
<1>2. Typed /\ PlaceInv /\ NoneRefused => NothingHeldBack
  <2> SUFFICES ASSUME Typed, PlaceInv, harm = "none", phase = "read", stream = <<>>
               PROVE  size = 0 /\ delivered = media
    BY DEF NothingHeldBack
  <2>1. PICK n, ps, at, due : Pending(n, ps, at, due)
    BY DEF PlaceInv, InPlace
  <2>2. size \in Nat /\ Left = size
    BY DEF Typed, ParserTyped, Left
  <2>3. n \in Nat /\ at[1] \in Nat /\ at[n + 1] = at[1] + size
    BY <2>1, <2>2 DEF Pending
  <2>4. n = 0
    <3> SUFFICES ASSUME n >= 1 PROVE FALSE
      BY <2>3
    <3>1. ps[1] \in Kinds \X Bodies /\ size + 1 <= Len(Code(ps[1]))
      BY <2>1, IncompleteIsShort DEF PlaceInv
    <3>2. Len(Code(ps[1])) \in Nat /\ Len(Code(ps[1])) >= 1
      BY <3>1, CodeShape, LenProperties
    <3>3. Len(Code(ps[1])) \in 1..Len(Code(ps[1])) /\ 1 \in 1..n
      BY <2>3, <3>2
    <3>4. at[1] - at[1] + Len(Code(ps[1])) \in 1..Left
      BY <2>1, <3>3, PendingWithin
    <3> QED BY <2>2, <2>3, <3>1, <3>2, <3>4
  <2>5. size = 0
    BY <2>2, <2>3, <2>4
  <2>6. Len(delivered) = Len(media)
    BY <2>1, <2>4 DEF Pending
  <2>7. delivered = media
    BY <2>6, SeqEqual DEF PlaceInv, InPlace
  <2> QED BY <2>5, <2>7
<1>3. Init => NoneRefused
  BY DEF Init
<1> HIDE DEF NoneRefused
<1>4. Spec => []NoneRefused
  BY <1>1, <1>3, Placed, PTL DEF Spec
<1> QED BY <1>2, <1>4, Placed, PTL

-----------------------------------------------------------------------------
(* The loop of ParseData *)

\* While the loop goes on, whatever the data mean, every round takes at least
\* a header from what the buffer holds, and never more than that.
RoundsTakeHeaders ==
  [][phase = "packets" /\ phase' = "packets" =>
       size' \in Nat /\ size' + PASS_THROUGH_HEADER_SIZE <= size]_<<parser, phase>>

\* The loop is bounded by the number of headers that fit into the buffer, for
\* packets without a body and lengths that were misread too; what LoopEnds
\* adds is that the io thread goes on (JT1078MediaParser.cpp:77,
\* MediaSession.cpp:65).
THEOREM LoopTakesHeaders == Spec => RoundsTakeHeaders
<1> DEFINE Round == phase = "packets" /\ phase' = "packets" =>
                      size' \in Nat /\ size' + PASS_THROUGH_HEADER_SIZE <= size
<1>1. Typed /\ [Next]_vars => [Round]_<<parser, phase>>
  <2> SUFFICES ASSUME Typed, [Next]_vars, phase = "packets", phase' = "packets",
                      ~UNCHANGED <<parser, phase>>
               PROVE  size' \in Nat /\ size' + PASS_THROUGH_HEADER_SIZE <= size
    BY Zenon
  <2>1. GetPacket
    BY DEF Next, DeviceSends, DeviceConnectsAgain, Receive, ParseDataLoop, NoMorePackets, vars
  <2>2. size' = size - packetSize /\ size >= HeaderSize /\ size - HeaderSize >= datalen
    BY <2>1 DEF GetPacket, Complete
  <2>3. size' \in Nat /\ size \in Nat
    BY <2>1, GetPacketKeeps DEF Typed, ParserTyped
  <2>4. HeaderSize \in Nat /\ PASS_THROUGH_HEADER_SIZE \in Nat /\ PASS_THROUGH_HEADER_SIZE <= HeaderSize
    BY HeaderAssumption DEF HeaderSize
  <2>5. datalen \in Nat
    <3>1. BufferSize \in Nat /\ pos \in Nat /\ pos + size <= BufferSize /\ HeaderSize >= 1
      BY <2>4, HeaderAssumption, SizeAssumption DEF Typed, ParserTyped, InBounds
    <3>2. pos + HeaderSize - 1 \in 0..(BufferSize - 1)
      BY <2>2, <2>3, <2>4, <3>1
    <3> QED BY <3>2 DEF datalen, Typed, ParserTyped
  <2> QED BY <2>2, <2>3, <2>4, <2>5 DEF packetSize
<1> HIDE DEF Round
<1>2. Spec => [][Round]_<<parser, phase>>
  BY <1>1, Placed, PTL DEF Spec
<1> QED BY <1>2 DEF Round, RoundsTakeHeaders
=============================================================================
