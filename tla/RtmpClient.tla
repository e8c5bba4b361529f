----------------------------- MODULE RtmpClient -----------------------------
(***************************************************************************)
(* One RtmpClient: the queues between the io thread, which delivers what   *)
(* the device sends, the publishing thread (RtmpClient::Run), and the      *)
(* audio engine's thread, which calls SendAudio; and the HTTP thread,      *)
(* which starts and stops the client.                                      *)
(*                                                                         *)
(* A block under m_lock or m_audioLock is one action: no thread blocks in  *)
(* it.  m_formatContextlock is held while the RTMP connection is written   *)
(* to, so holding it is a state of the thread.  The unguarded bools are    *)
(* read and written atomically, as the machines it is built for do.        *)
(*                                                                         *)
(* Payload is left out.  A video fragment is known by whether it begins a  *)
(* frame, an audio fragment by how many whole video frames were accepted   *)
(* before it.  Two counters serve only the properties: "accepted" frames,  *)
(* and frames "emitted" by the demuxer.                                    *)
(***************************************************************************)
EXTENDS Integers, Sequences, FiniteSets

CONSTANTS
  SpuriousWakeups,    \* whether m_condition.wait() may return unnotified
  MaxQueue,           \* 4096 in the code
  MaxVideo, MaxAudio  \* bounds: how many fragments the device sends

ASSUME FlagAssumption == SpuriousWakeups \in BOOLEAN
ASSUME BoundAssumption == MaxQueue \in Nat \ {0} /\ MaxVideo \in Nat /\ MaxAudio \in Nat

PACKET_VIDEO == "video"
PACKET_AUDIO == "audio"

VARIABLES
  mediaBufferQueue,  \* for each video fragment, whether it begins a frame
  audioBufferQueue,  \* for each audio fragment, "accepted" when it came
  packetTypeQueue,   \* a marker for each frame accepted whole
  stopped, sendingVideoPacket, noAudio,
  outputContext,     \* m_outputFormatContext
  publisher,         \* where the publishing thread is
  reader,            \* how far it is in ReadMediaData, if it is there
  demuxed,           \* libavformat: frames begun and not given out yet
  endOfInput,        \* libavformat: the read callback returned an error
  sender,            \* where the audio engine's thread is in SendAudio
  audioBuffer,       \* its local "buffer"
  io,                \* where the io thread is in OnAudioData
  control,           \* where the HTTP thread is in Start and Stop
  device,            \* [video, audio : fragments sent, amid : within a frame]
  notified,          \* NotifyPublishError was called
  accepted, emitted

queues == <<mediaBufferQueue, audioBufferQueue, packetTypeQueue, accepted>>
flags == <<stopped, sendingVideoPacket, noAudio>>
demuxer == <<demuxed, endOfInput, emitted>>
publishing == <<outputContext, publisher, reader, demuxer, notified>>
audio == <<sender, audioBuffer>>
others == <<io, control, device>>
vars == <<queues, flags, publishing, audio, others>>

PublisherStates == {"probe", "set up", "add audio", "open", "read", "mark", "lock", "write",
                    "end", "close", "connect", "next", "parse", "report", "done", "crashed"}

Init ==
  /\ mediaBufferQueue = <<>> /\ audioBufferQueue = <<>> /\ packetTypeQueue = <<>>
  /\ stopped = FALSE /\ sendingVideoPacket = FALSE /\ noAudio = FALSE
  /\ outputContext = "none"
  /\ publisher \in {"connect", "probe"}  \* IfUseLibrtmp() or not
  /\ reader = "out" /\ demuxed = 0 /\ endOfInput = FALSE
  /\ sender = "idle" /\ audioBuffer = 0
  /\ io = "idle" /\ control = "starting"
  /\ device = [video |-> 0, audio |-> 0, amid |-> FALSE]
  /\ notified = FALSE /\ accepted = 0 /\ emitted = 0

-----------------------------------------------------------------------------
(* The io thread.  MediaServerManager starts the media server after the    *)
(* client and stops it before the client.                                  *)

\* Mutant: the notification is forgotten.
DoNotWake == UNCHANGED reader
NotifyAll == reader' = IF reader = "waiting" THEN "notified" ELSE reader

\* Mutant: the marker of a frame is forgotten.
AcceptUnmarked(last) ==
  /\ mediaBufferQueue' = Append(mediaBufferQueue, ~device.amid)
  /\ UNCHANGED packetTypeQueue
  /\ accepted' = IF last THEN accepted + 1 ELSE accepted

AcceptVideo(last) ==
  /\ mediaBufferQueue' = Append(mediaBufferQueue, ~device.amid)
  /\ packetTypeQueue' = IF last THEN Append(packetTypeQueue, PACKET_VIDEO) ELSE packetTypeQueue
  /\ accepted' = IF last THEN accepted + 1 ELSE accepted

OnData(last) ==
  /\ control = "running" /\ io = "idle" /\ device.video < MaxVideo
  /\ device' = [device EXCEPT !.video = @ + 1, !.amid = ~last]
  /\ IF Len(mediaBufferQueue) >= MaxQueue
     THEN UNCHANGED <<mediaBufferQueue, packetTypeQueue, accepted>>
     ELSE AcceptVideo(last)
  /\ NotifyAll
  /\ UNCHANGED <<audioBufferQueue, flags, outputContext, publisher, demuxer, notified, audio, io, control>>

\* The check of m_noAudio, before m_audioLock is taken.
OnAudioData(last) ==
  /\ control = "running" /\ io = "idle" /\ device.audio < MaxAudio
  /\ device' = [device EXCEPT !.audio = @ + 1]
  /\ io' = IF noAudio THEN "idle" ELSE IF last THEN "last audio" ELSE "audio"
  /\ UNCHANGED <<queues, flags, publishing, audio, control>>

\* Mutant: one fragment too many.
AudioQueueOverfull == Len(audioBufferQueue) > MaxQueue
AudioQueueFull == Len(audioBufferQueue) >= MaxQueue

OnAudioDataLocked ==
  /\ io \in {"audio", "last audio"} /\ io' = "idle"
  /\ IF AudioQueueFull THEN UNCHANGED <<audioBufferQueue, packetTypeQueue>>
     ELSE /\ audioBufferQueue' = Append(audioBufferQueue, accepted)
          /\ packetTypeQueue' = IF io = "last audio" THEN Append(packetTypeQueue, PACKET_AUDIO)
                                ELSE packetTypeQueue
  /\ UNCHANGED <<mediaBufferQueue, accepted, flags, publishing, audio, control, device>>

-----------------------------------------------------------------------------
(* ReadMediaData, and the same block of PublishStreamWithParser *)

Reading == publisher \in {"probe", "read", "next"} /\ ~endOfInput

ReadWaits ==
  /\ Reading /\ reader = "out" /\ mediaBufferQueue = <<>>
  /\ reader' = "waiting"
  /\ UNCHANGED <<queues, flags, outputContext, publisher, demuxer, notified, audio, others>>

\* The states of the wait from which the thread goes on.
Awake == IF SpuriousWakeups THEN {"notified", "waiting"} ELSE {"notified"}

ReadReturns ==
  /\ Reading /\ reader' = "out"
  /\ \/ reader = "out" /\ mediaBufferQueue # <<>>
     \/ reader \in Awake
  /\ UNCHANGED <<audioBufferQueue, packetTypeQueue, accepted, flags, outputContext, emitted,
                 notified, audio, others>>

StopSeen == stopped

\* AVERROR_EXIT for libavformat, the end of the loop with librtmp.
ReadStopped ==
  /\ ReadReturns /\ StopSeen
  /\ IF publisher = "next" THEN publisher' = "report" /\ UNCHANGED endOfInput
                            ELSE endOfInput' = TRUE /\ UNCHANGED publisher
  /\ UNCHANGED <<mediaBufferQueue, demuxed>>

\* front() of an empty deque is undefined behaviour: the thread goes no further.
ReadFragment ==
  /\ ReadReturns /\ ~StopSeen
  /\ IF mediaBufferQueue = <<>>
     THEN publisher' = "crashed" /\ UNCHANGED <<mediaBufferQueue, demuxed>>
     ELSE /\ mediaBufferQueue' = Tail(mediaBufferQueue)
          /\ demuxed' = IF Head(mediaBufferQueue) THEN demuxed + 1 ELSE demuxed
          /\ publisher' = IF publisher = "next" THEN "parse" ELSE publisher
  /\ UNCHANGED endOfInput

ReadStep == ReadWaits \/ ReadStopped \/ ReadFragment

-----------------------------------------------------------------------------
(* PublishStreamWithAvFormatContext *)

FormatContextFree == publisher # "write" /\ sender # "write"

\* A step of the publishing thread that only changes where it is.
Goto(from, to) ==
  /\ publisher = from /\ publisher' = to
  /\ UNCHANGED <<queues, reader, audio, others>>

Fails(from, context) ==
  Goto(from, "report") /\ outputContext' = context /\ UNCHANGED <<flags, demuxer, notified>>

\* avformat_open_input and avformat_find_stream_info have read enough.
Probed == publisher = "probe" /\ reader = "out" /\ (demuxed > 0 \/ endOfInput)

ProbeFails == Probed /\ Fails("probe", "none")

ProbeSucceeds ==
  Probed /\ Goto("probe", "set up") /\ UNCHANGED <<flags, outputContext, demuxer, notified>>

SetUpFails == Fails("set up", "none") \/ Fails("set up", "freed")

SetUpOutput ==
  /\ Goto("set up", "add audio") /\ outputContext' = "set up"
  /\ UNCHANGED <<flags, demuxer, notified>>

\* Audio is refused when none came so far, or when decoding it fails.
TryToAddAudioStream ==
  /\ Goto("add audio", "open")
  /\ noAudio' \in (IF audioBufferQueue = <<>> THEN {TRUE} ELSE BOOLEAN)
  /\ UNCHANGED <<stopped, sendingVideoPacket, outputContext, demuxer, notified>>

OpenFails == Fails("open", "freed")

OpenOutput ==
  /\ Goto("open", "read") /\ outputContext' = "open" /\ sendingVideoPacket' = TRUE
  /\ UNCHANGED <<stopped, noAudio, demuxer, notified>>

\* av_read_frame gives a frame out when the next one begins or input ends.
ReadFrame ==
  /\ reader = "out" /\ (demuxed > 1 \/ (endOfInput /\ demuxed = 1))
  /\ Goto("read", "mark")
  /\ demuxed' = demuxed - 1 /\ emitted' = emitted + 1
  /\ UNCHANGED <<flags, outputContext, endOfInput, notified>>

ReadFrameFails ==
  /\ endOfInput /\ demuxed = 0 /\ Goto("read", "end")
  /\ UNCHANGED <<flags, outputContext, demuxer, notified>>

TakeVideoMarker ==
  /\ publisher = "mark" /\ publisher' = "lock"
  /\ packetTypeQueue' = IF packetTypeQueue # <<>> /\ Head(packetTypeQueue) = PACKET_VIDEO
                        THEN Tail(packetTypeQueue) ELSE packetTypeQueue
  /\ UNCHANGED <<mediaBufferQueue, audioBufferQueue, accepted, flags, outputContext, reader,
                 demuxer, notified, audio, others>>

LockContext ==
  FormatContextFree /\ Goto("lock", "write") /\ UNCHANGED <<flags, outputContext, demuxer, notified>>

WriteVideo ==
  /\ Goto("write", "read") \/ Goto("write", "end")
  /\ UNCHANGED <<flags, outputContext, demuxer, notified>>

EndSending ==
  /\ Goto("end", "close") /\ sendingVideoPacket' = FALSE
  /\ UNCHANGED <<stopped, noAudio, outputContext, demuxer, notified>>

CloseOutput == FormatContextFree /\ Fails("close", "freed")

AvFormatStep ==
  \/ ProbeFails \/ ProbeSucceeds \/ SetUpFails \/ SetUpOutput \/ TryToAddAudioStream
  \/ OpenFails \/ OpenOutput \/ ReadFrame \/ ReadFrameFails \/ TakeVideoMarker
  \/ LockContext \/ WriteVideo \/ EndSending \/ CloseOutput

-----------------------------------------------------------------------------
(* PublishStreamWithParser *)

ConnectFails == Fails("connect", "none")
Connect == Goto("connect", "next") /\ UNCHANGED <<flags, outputContext, demuxer, notified>>

\* A fragment that begins a frame completes the one before it, which is sent.
SendFrame ==
  /\ demuxed > 1 /\ Goto("parse", "parse") /\ demuxed' = demuxed - 1 /\ emitted' = emitted + 1
  /\ UNCHANGED <<flags, outputContext, endOfInput, notified>>

SendFails == Fails("parse", "none")

FragmentDone ==
  demuxed <= 1 /\ Goto("parse", "next") /\ UNCHANGED <<flags, outputContext, demuxer, notified>>

ParserStep == ConnectFails \/ Connect \/ SendFrame \/ SendFails \/ FragmentDone

\* Mutant: the end of publishing is not reported.
Silent == UNCHANGED notified
Report == notified' = ~stopped

\* The end of Run.
EndOfRun ==
  /\ Goto("report", "done") /\ Report
  /\ UNCHANGED <<flags, outputContext, demuxer>>

PublisherStep == ReadStep \/ AvFormatStep \/ ParserStep \/ EndOfRun

-----------------------------------------------------------------------------
(* SendAudio, on the audio engine's thread, for a sender in its map *)

SendAudio ==
  /\ control = "running" /\ sender = "idle" /\ sendingVideoPacket
  /\ sender' = "take"
  /\ UNCHANGED <<queues, flags, publishing, audioBuffer, others>>

\* Mutant: the type of the marker is not looked at.
AnyIsNext == packetTypeQueue # <<>>
AudioIsNext == packetTypeQueue # <<>> /\ Head(packetTypeQueue) = PACKET_AUDIO

NoAudioNow ==
  /\ sender = "take" /\ ~AudioIsNext /\ sender' = "idle"
  /\ UNCHANGED <<queues, flags, publishing, audioBuffer, others>>

TakeAudio ==
  /\ sender = "take" /\ AudioIsNext
  /\ packetTypeQueue' = Tail(packetTypeQueue)
  /\ IF audioBufferQueue = <<>>
     THEN sender' = "crashed" /\ UNCHANGED <<audioBufferQueue, audioBuffer>>
     ELSE /\ sender' = "parse" /\ audioBuffer' = Head(audioBufferQueue)
          /\ audioBufferQueue' = Tail(audioBufferQueue)
  /\ UNCHANGED <<mediaBufferQueue, accepted, flags, publishing, others>>

\* av_parser_parse2, outside all locks.
ParseAudio ==
  /\ sender = "parse" /\ sender' \in {"idle", "lock"}
  /\ UNCHANGED <<queues, flags, publishing, audioBuffer, others>>

\* Mutant: m_sendingVideoPacket is not checked again under the lock.
WithoutRecheck == TRUE
Recheck == sendingVideoPacket

LockContextForAudio ==
  /\ sender = "lock" /\ FormatContextFree
  /\ sender' = IF Recheck THEN "write" ELSE "idle"
  /\ UNCHANGED <<queues, flags, publishing, audioBuffer, others>>

WriteAudio ==
  /\ sender = "write" /\ sender' = "idle"
  /\ UNCHANGED <<queues, flags, publishing, audioBuffer, others>>

SenderStep == NoAudioNow \/ TakeAudio \/ ParseAudio \/ LockContextForAudio \/ WriteAudio

-----------------------------------------------------------------------------
(* Start and Stop, on the HTTP thread *)

ControlGoto(from, to) ==
  /\ control = from /\ control' = to
  /\ UNCHANGED <<queues, noAudio, sendingVideoPacket, outputContext, publisher, demuxer, notified,
                 audio, io, device>>

AddSender == ControlGoto("starting", "running") /\ UNCHANGED <<stopped, reader>>

\* Mutant: RemoveSender does not take the engine's mutex.
RemoveAtOnce == TRUE
\* The engine holds its mutex during every SendAudio.
EngineFree == sender = "idle"

RemoveSender ==
  io = "idle" /\ EngineFree /\ ControlGoto("running", "removed") /\ UNCHANGED <<stopped, reader>>

SetStopped == ControlGoto("removed", "joining") /\ stopped' = TRUE /\ NotifyAll

Joinable == publisher = "done"

Join == Joinable /\ ControlGoto("joining", "stopped") /\ UNCHANGED <<stopped, reader>>

Next ==
  \/ \E last \in BOOLEAN : OnData(last) \/ OnAudioData(last)
  \/ OnAudioDataLocked
  \/ PublisherStep
  \/ SendAudio \/ SenderStep
  \/ AddSender \/ RemoveSender \/ SetStopped \/ Join

\* Every thread goes on with what it has begun; the RTMP server answers.
\* Whether the device sends and whether Stop is called is left open, and
\* whether AddSender and RemoveSender ever get the engine's mutex.
Spec ==
  /\ Init /\ [][Next]_vars
  /\ WF_vars(PublisherStep) /\ WF_vars(SenderStep) /\ WF_vars(OnAudioDataLocked)
  /\ WF_vars(SetStopped) /\ WF_vars(Join)

-----------------------------------------------------------------------------
(* Properties *)

QueuesTyped ==
  /\ mediaBufferQueue \in Seq(BOOLEAN) /\ Len(mediaBufferQueue) <= MaxQueue
  /\ audioBufferQueue \in Seq(Nat) /\ Len(audioBufferQueue) <= MaxQueue
  /\ packetTypeQueue \in Seq({PACKET_VIDEO, PACKET_AUDIO})
  /\ accepted \in Nat

FlagsTyped ==
  stopped \in BOOLEAN /\ sendingVideoPacket \in BOOLEAN /\ noAudio \in BOOLEAN

PublishingTyped ==
  /\ outputContext \in {"none", "set up", "open", "freed"}
  /\ publisher \in PublisherStates
  /\ reader \in {"out", "waiting", "notified"}
  /\ demuxed \in Nat /\ emitted \in Nat
  /\ endOfInput \in BOOLEAN /\ notified \in BOOLEAN

OthersTyped ==
  /\ sender \in {"idle", "take", "parse", "lock", "write", "crashed"} /\ audioBuffer \in Nat
  /\ io \in {"idle", "audio", "last audio"}
  /\ control \in {"starting", "running", "removed", "joining", "stopped"}
  /\ device \in [video : Nat, audio : Nat, amid : BOOLEAN]

\* Every variable has its type; the two buffer queues keep their limit.
TypeOK == QueuesTyped /\ FlagsTyped /\ PublishingTyped /\ OthersTyped

\* Neither the publishing thread, woken from its wait, nor SendAudio, which
\* looks at one deque and takes the front of another, reads an empty deque.
EmptyDequesNotRead == publisher # "crashed" /\ sender # "crashed"

\* The output context is written to only between its opening and its
\* release, by whichever thread and however publishing ends.
ContextOpenWhileWritten ==
  publisher = "write" \/ sender = "write" => outputContext = "open"

\* An audio fragment goes out only when every video frame accepted before it
\* has come out of the demuxer (at most the last of them is yet to be sent).
\* It never goes out early; how late it may be is not said.
AudioNotAhead == sender \in {"parse", "lock", "write"} => audioBuffer <= emitted

\* When Stop has returned the client may be destroyed: no thread is inside
\* it, and its output context is released on every path.
StoppedMeansQuiet ==
  control = "stopped" =>
    publisher = "done" /\ sender = "idle" /\ io = "idle" /\ outputContext \in {"none", "freed"}

\* Video in the queue is read, or the failure that keeps it from being read
\* is reported, unless the client is stopped.
VideoServed ==
  mediaBufferQueue # <<>> ~> (mediaBufferQueue = <<>> \/ notified \/ stopped)

\* Stop ends when it finds the publishing thread waiting for data.
StopReleasesWaiter == (control = "removed" /\ reader = "waiting") ~> control = "stopped"

\* Stop ends: "RTMP client ... stopped" follows the join.
StopTerminates == control = "removed" ~> control = "stopped"
=============================================================================
