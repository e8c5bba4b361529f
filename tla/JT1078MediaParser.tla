-------------------------- MODULE JT1078MediaParser --------------------------
(***************************************************************************)
(* JT1078MediaParser and the loop that drives it, MediaSession::ParseData: *)
(* what a device sends arrives in chunks cut anywhere; the parser keeps an *)
(* incomplete packet in m_buffer until the rest of it comes.  Everything   *)
(* here runs on the io thread.                                             *)
(*                                                                         *)
(* Sizes are scaled down by the constants.  A header is as long as its     *)
(* kind of packet says; its first cell is dataType and its last cell       *)
(* bodyLength, which stand for the bytes at offsets 15 and 16, 24 or 28.   *)
(* The other header cells are 0, as the high bytes of timeStamp are.       *)
(*                                                                         *)
(* "media", "delivered" and "harm" are for the properties: the calls that  *)
(* the callback should see, those it saw, and the first thing that made    *)
(* the parser lose its place in the stream.                                *)
(***************************************************************************)
EXTENDS Integers, Sequences, SequencesExt

CONSTANTS
  PASS_THROUGH_HEADER_SIZE, AUDIO_HEADER_SIZE, VIDEO_HEADER_SIZE,  \* 18, 26, 30
  BufferSize,  \* sizeof(m_buffer), 66560 in the code
  MaxChunk,    \* sizeof(MediaSession::m_data), 4096 in the code
  Bodies,      \* the bodies a device sends
  MaxPackets,  \* bound: packets sent
  MaxSessions  \* bound: times a device connects again

ASSUME HeaderAssumption ==
  /\ PASS_THROUGH_HEADER_SIZE \in Nat \ {0, 1}
  /\ AUDIO_HEADER_SIZE \in Nat /\ VIDEO_HEADER_SIZE \in Nat
  /\ PASS_THROUGH_HEADER_SIZE < AUDIO_HEADER_SIZE /\ AUDIO_HEADER_SIZE < VIDEO_HEADER_SIZE
ASSUME SizeAssumption ==
  /\ BufferSize \in Nat \ {0} /\ MaxChunk \in Nat \ {0}
  /\ Bodies \subseteq Seq(Nat) /\ MaxPackets \in Nat /\ MaxSessions \in Nat

VIDEO_FRAME == 0  \* VIDOE_I_FRAME, also for P and B frames
AUDIO_FRAME == 3
PASS_THROUGH_DATA == 4
MIN_HEADER_SIZE == PASS_THROUGH_HEADER_SIZE

VARIABLES
  buffer, size, pos,  \* m_buffer, m_size, m_pos
  phase,              \* "read": waiting for data, "packets": in ParseData's loop
  stream,             \* what the device has sent and was not received yet
  packets, sessions,  \* how many packets, and connections after the first
  media, delivered, harm

parser == <<buffer, size, pos>>
device == <<stream, packets, media>>
vars == <<parser, phase, device, sessions, delivered, harm>>

Init ==
  /\ buffer = [i \in 0..(BufferSize - 1) |-> 0] /\ size = 0 /\ pos = 0
  /\ phase = "read" /\ stream = <<>> /\ packets = 0 /\ sessions = 0
  /\ media = <<>> /\ delivered = <<>> /\ harm = "none"

IsVideoPacket(type) == type \in 0..2
IsAudioPacket(type) == type = AUDIO_FRAME

\* What MediaSession does with a packet.
Callback(type, data) ==
  IF IsVideoPacket(type) THEN <<[call |-> "OnData", data |-> data]>>
  ELSE IF IsAudioPacket(type) THEN <<[call |-> "OnAudioData", data |-> data]>>
  ELSE <<>>

Harmed(how) == harm' = IF harm = "none" THEN how ELSE harm

-----------------------------------------------------------------------------
(* The device *)

SizeOfHeader(type) ==
  IF type = VIDEO_FRAME THEN VIDEO_HEADER_SIZE
  ELSE IF type = AUDIO_FRAME THEN AUDIO_HEADER_SIZE ELSE PASS_THROUGH_HEADER_SIZE

Encoded(type, body) ==
  [i \in 1..SizeOfHeader(type) |->
     IF i = 1 THEN type ELSE IF i = SizeOfHeader(type) THEN Len(body) ELSE 0] \o body

DeviceSends(type, body) ==
  /\ packets < MaxPackets /\ packets' = packets + 1
  /\ stream' = stream \o Encoded(type, body)
  /\ media' = media \o Callback(type, body)
  /\ UNCHANGED <<parser, phase, sessions, delivered, harm>>

\* The connection breaks, anywhere in the stream, and a new session begins
\* with the parser as it was left.  Only the new session's calls are due.
DeviceConnectsAgain ==
  /\ phase = "read" /\ sessions < MaxSessions /\ sessions' = sessions + 1
  /\ stream' = <<>> /\ media' = delivered
  /\ IF size > 0 THEN Harmed("residue") ELSE UNCHANGED harm
  /\ UNCHANGED <<parser, phase, packets, delivered>>

-----------------------------------------------------------------------------
(* Parse *)

\* Mutant: the buffer is measured without what it holds.
TooMuchAlone(n) == n > BufferSize
TooMuch(n) == size + n > BufferSize

\* Mutant: what is left in the buffer is not moved to its beginning.
Unmoved(chunk) ==
  [i \in 0..(BufferSize - 1) |->
     IF i \in size..(size + Len(chunk) - 1) THEN chunk[i - size + 1] ELSE buffer[i]]
Moved(chunk) ==
  [i \in 0..(BufferSize - 1) |->
     IF i < size THEN buffer[pos + i]
     ELSE IF i < size + Len(chunk) THEN chunk[i - size + 1] ELSE buffer[i]]

\* A chunk that is refused is lost: ParseData returns, and reading goes on.
Parse(chunk) ==
  IF TooMuch(Len(chunk))
  THEN Harmed("overflow") /\ UNCHANGED <<parser, phase>>
  ELSE /\ buffer' = Moved(chunk)
       /\ pos' = 0 /\ size' = size + Len(chunk)
       /\ phase' = "packets" /\ UNCHANGED harm

Receive(n) ==
  /\ phase = "read" /\ n <= Len(stream)
  /\ Parse(SubSeq(stream, 1, n))
  /\ stream' = SubSeq(stream, n + 1, Len(stream))
  /\ UNCHANGED <<packets, sessions, media, delivered>>

-----------------------------------------------------------------------------
(* GetPacket, GetPacketImpl and the loop of ParseData *)

dataType == buffer[pos]

\* An audio packet whose header is not all there goes the third way.
HeaderSize ==
  IF IsVideoPacket(dataType) THEN VIDEO_HEADER_SIZE
  ELSE IF IsAudioPacket(dataType) /\ size >= AUDIO_HEADER_SIZE THEN AUDIO_HEADER_SIZE
  ELSE PASS_THROUGH_HEADER_SIZE

datalen == buffer[pos + HeaderSize - 1]

\* Mutant: a packet is given out before its body is all there.
CompleteHeader == size >= MIN_HEADER_SIZE /\ size >= HeaderSize
\* Mutant: a packet that ends the data is taken for incomplete.
CompleteLate == size >= MIN_HEADER_SIZE /\ size >= HeaderSize /\ size - HeaderSize > datalen
Complete == size >= MIN_HEADER_SIZE /\ size >= HeaderSize /\ size - HeaderSize >= datalen

packetSize == HeaderSize + datalen

GetPacket ==
  /\ phase = "packets" /\ Complete
  /\ size' = size - packetSize /\ pos' = pos + packetSize
  /\ delivered' = delivered \o
       Callback(dataType, [i \in 1..datalen |-> buffer[pos + HeaderSize + i - 1]])
  /\ IF IsAudioPacket(dataType) /\ HeaderSize # AUDIO_HEADER_SIZE
     THEN Harmed("split audio header") ELSE UNCHANGED harm
  /\ UNCHANGED <<buffer, phase, device, sessions>>

\* Mutant: the loop goes on until the buffer is empty.
LeftNothing == size = 0
LeftIncomplete == ~Complete

NoMorePackets ==
  /\ phase = "packets" /\ LeftIncomplete /\ phase' = "read"
  /\ UNCHANGED <<parser, device, sessions, delivered, harm>>

ParseDataLoop == GetPacket \/ NoMorePackets

Next ==
  \/ \E type \in {VIDEO_FRAME, AUDIO_FRAME, PASS_THROUGH_DATA}, body \in Bodies :
       DeviceSends(type, body)
  \/ DeviceConnectsAgain
  \/ \E n \in 1..MaxChunk : Receive(n)
  \/ ParseDataLoop

Spec == Init /\ [][Next]_vars /\ WF_vars(ParseDataLoop)

-----------------------------------------------------------------------------
(* Properties *)

\* Every variable has its type; in particular m_size, which is unsigned and
\* from which sizes are subtracted, does not fall below zero.
TypeOK ==
  /\ buffer \in [0..(BufferSize - 1) -> Nat] /\ size \in Nat /\ pos \in Nat
  /\ phase \in {"read", "packets"}
  /\ stream \in Seq(Nat) /\ packets \in Nat /\ sessions \in Nat
  /\ harm \in {"none", "residue", "overflow", "split audio header"}

\* What the parser holds lies inside its buffer, whatever is sent and
\* however lengths are misread: no chunk is written and no header or body
\* read outside of it.
InBounds == pos + size <= BufferSize

\* However the stream is cut into chunks, as long as nothing harmed it the
\* callback sees the packets the device sent, in order, whole, once.
DeliveredAsSent == harm = "none" => IsPrefix(delivered, media)

\* And nothing is missing: no chunk of an unharmed stream is refused, if
\* packets leave a chunk (less one byte) free in the buffer, and no complete
\* packet stays there when the session waits for more data.
NothingHeldBack ==
  /\ harm # "overflow"
  /\ harm = "none" /\ phase = "read" /\ stream = <<>> => size = 0 /\ delivered = media

\* ParseData's loop ends, also on packets without a body.
LoopEnds == phase = "packets" ~> phase = "read"

\* "sizeof AudioPacketHeader is 26": a header that arrives in two chunks is
\* no reason to deliver anything else than what the device sent.
SplitHeadersHarmless ==
  harm \in {"none", "split audio header"} => IsPrefix(delivered, media)
=============================================================================
