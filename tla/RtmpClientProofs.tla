-------------------------- MODULE RtmpClientProofs --------------------------
(***************************************************************************)
(* Proofs about RtmpClient, for every queue limit, every input of the      *)
(* device and both publishing loops.                                       *)
(***************************************************************************)
EXTENDS RtmpClient, SequenceTheorems, FiniteSetTheorems, TLAPS

LEMMA InitTypeOK == Init => TypeOK
<1> SUFFICES ASSUME Init PROVE TypeOK
  OBVIOUS
<1>1. QueuesTyped
  BY BoundAssumption DEF Init, QueuesTyped
<1>2. FlagsTyped
  BY DEF Init, FlagsTyped
<1>3. PublishingTyped
  <2>1. endOfInput \in BOOLEAN /\ notified \in BOOLEAN
    BY DEF Init
  <2> QED BY <2>1 DEF Init, PublishingTyped, PublisherStates
<1>4. OthersTyped
  <2>1. device \in [video : Nat, audio : Nat, amid : BOOLEAN]
    BY DEF Init
  <2> QED BY <2>1 DEF Init, OthersTyped
<1> QED BY <1>1, <1>2, <1>3, <1>4 DEF TypeOK

\* The queues are changed by the io thread's and the readers' blocks only.
LEMMA NextQueuesTyped == TypeOK /\ [Next]_vars => QueuesTyped'
<1> SUFFICES ASSUME TypeOK, [Next]_vars PROVE QueuesTyped'
  OBVIOUS
<1>0. QueuesTyped /\ device.amid \in BOOLEAN
  BY DEF TypeOK, OthersTyped
<1> USE DEF QueuesTyped, queues
<1>1. ASSUME NEW last \in BOOLEAN, OnData(last) PROVE QueuesTyped'
  <2>1. CASE Len(mediaBufferQueue) >= MaxQueue
    BY <1>0, <1>1, <2>1 DEF OnData
  <2>2. CASE ~(Len(mediaBufferQueue) >= MaxQueue)
    <3>1. AcceptVideo(last) /\ audioBufferQueue' = audioBufferQueue
      BY <1>1, <2>2 DEF OnData
    <3>2. mediaBufferQueue' \in Seq(BOOLEAN) /\ Len(mediaBufferQueue') = Len(mediaBufferQueue) + 1
      BY <1>0, <3>1, AppendProperties DEF AcceptVideo
    <3>3. packetTypeQueue' \in Seq({PACKET_VIDEO, PACKET_AUDIO}) /\ accepted' \in Nat
      BY <1>0, <3>1, AppendProperties DEF AcceptVideo
    <3>4. Len(mediaBufferQueue) \in Nat
      BY <1>0
    <3> QED BY <1>0, <2>2, <3>1, <3>2, <3>3, <3>4, BoundAssumption
  <2> QED BY <2>1, <2>2
<1>2. CASE OnAudioDataLocked
  <2>1. CASE AudioQueueFull
    BY <1>0, <1>2, <2>1 DEF OnAudioDataLocked
  <2>2. CASE ~AudioQueueFull
    <3>1. /\ audioBufferQueue' = Append(audioBufferQueue, accepted)
          /\ UNCHANGED <<mediaBufferQueue, accepted>>
      BY <1>2, <2>2 DEF OnAudioDataLocked
    <3>2. audioBufferQueue' \in Seq(Nat) /\ Len(audioBufferQueue') = Len(audioBufferQueue) + 1
      BY <1>0, <3>1, AppendProperties
    <3>3. packetTypeQueue' \in Seq({PACKET_VIDEO, PACKET_AUDIO})
      <4>1. packetTypeQueue' \in {packetTypeQueue, Append(packetTypeQueue, PACKET_AUDIO)}
        BY <1>2, <2>2 DEF OnAudioDataLocked
      <4>2. Append(packetTypeQueue, PACKET_AUDIO) \in Seq({PACKET_VIDEO, PACKET_AUDIO})
        BY <1>0, AppendProperties
      <4> QED BY <1>0, <4>1, <4>2
    <3>4. Len(audioBufferQueue) \in Nat /\ ~(Len(audioBufferQueue) >= MaxQueue)
      BY <1>0, <2>2 DEF AudioQueueFull
    <3> QED BY <1>0, <3>1, <3>2, <3>3, <3>4, BoundAssumption
  <2> QED BY <2>1, <2>2
<1>3. CASE ReadFragment
  <2>1. UNCHANGED <<audioBufferQueue, packetTypeQueue, accepted>>
    BY <1>3 DEF ReadFragment, ReadReturns
  <2>2. mediaBufferQueue' \in Seq(BOOLEAN) /\ Len(mediaBufferQueue') <= MaxQueue
    <3>1. CASE mediaBufferQueue = <<>>
      BY <1>0, <1>3, <3>1 DEF ReadFragment
    <3>2. CASE mediaBufferQueue # <<>>
      <4>1. mediaBufferQueue' = Tail(mediaBufferQueue) /\ Len(mediaBufferQueue) \in Nat
        BY <1>0, <1>3, <3>2, LenProperties DEF ReadFragment
      <4>2. mediaBufferQueue' \in Seq(BOOLEAN) /\ Len(mediaBufferQueue') = Len(mediaBufferQueue) - 1
        BY <1>0, <3>2, <4>1, HeadTailProperties
      <4> QED BY <1>0, <4>1, <4>2, BoundAssumption
    <3> QED BY <3>1, <3>2
  <2> QED BY <1>0, <2>1, <2>2
<1>4. CASE TakeVideoMarker
  <2>1. packetTypeQueue' \in Seq({PACKET_VIDEO, PACKET_AUDIO})
    BY <1>0, <1>4, HeadTailProperties DEF TakeVideoMarker
  <2> QED BY <1>0, <1>4, <2>1 DEF TakeVideoMarker
<1>5. CASE TakeAudio
  <2>1. packetTypeQueue' \in Seq({PACKET_VIDEO, PACKET_AUDIO})
    BY <1>0, <1>5, HeadTailProperties DEF TakeAudio, AudioIsNext
  <2>2. audioBufferQueue' \in Seq(Nat) /\ Len(audioBufferQueue') <= MaxQueue
    <3>1. CASE audioBufferQueue = <<>>
      BY <1>0, <1>5, <3>1 DEF TakeAudio
    <3>2. CASE audioBufferQueue # <<>>
      <4>1. audioBufferQueue' = Tail(audioBufferQueue) /\ Len(audioBufferQueue) \in Nat
        BY <1>0, <1>5, <3>2 DEF TakeAudio
      <4>2. audioBufferQueue' \in Seq(Nat) /\ Len(audioBufferQueue') = Len(audioBufferQueue) - 1
        BY <1>0, <3>2, <4>1, HeadTailProperties
      <4> QED BY <1>0, <4>1, <4>2, BoundAssumption
    <3> QED BY <3>1, <3>2
  <2> QED BY <1>0, <1>5, <2>1, <2>2 DEF TakeAudio
<1>6. CASE UNCHANGED queues
  BY <1>0, <1>6
<1>7. CASE PublisherStep /\ ~ReadFragment /\ ~TakeVideoMarker
  <2>1. UNCHANGED queues
    BY <1>7 DEF PublisherStep, ReadStep, ReadWaits, ReadStopped, ReadReturns, AvFormatStep, ProbeFails,
      ProbeSucceeds, SetUpFails, SetUpOutput, TryToAddAudioStream, OpenFails, OpenOutput, ReadFrame,
      ReadFrameFails, LockContext, WriteVideo, EndSending, CloseOutput, ParserStep, ConnectFails,
      Connect, SendFrame, SendFails, FragmentDone, EndOfRun, Goto, Fails
  <2> QED BY <1>0, <2>1
<1>8. CASE SendAudio \/ (SenderStep /\ ~TakeAudio)
  BY <1>0, <1>8 DEF SendAudio, SenderStep, NoAudioNow, ParseAudio, LockContextForAudio, WriteAudio
<1>9. CASE AddSender \/ RemoveSender \/ SetStopped \/ Join
  BY <1>0, <1>9 DEF AddSender, RemoveSender, SetStopped, Join, ControlGoto
<1> QED
  BY <1>1, <1>2, <1>3, <1>4, <1>5, <1>6, <1>7, <1>8, <1>9 DEF Next, OnAudioData, vars

LEMMA NextFlagsTyped == TypeOK /\ [Next]_vars => FlagsTyped'
<1> SUFFICES ASSUME TypeOK, [Next]_vars PROVE FlagsTyped'
  OBVIOUS
<1>0. FlagsTyped
  BY DEF TypeOK
<1> USE DEF FlagsTyped, flags
<1>1. CASE TryToAddAudioStream
  <2>1. noAudio' \in BOOLEAN
    BY <1>1 DEF TryToAddAudioStream
  <2> QED BY <1>0, <1>1, <2>1 DEF TryToAddAudioStream
<1>2. CASE OpenOutput \/ EndSending
  <2>1. sendingVideoPacket' \in BOOLEAN
    BY <1>2 DEF OpenOutput, EndSending
  <2> QED BY <1>0, <1>2, <2>1 DEF OpenOutput, EndSending
<1>3. CASE SetStopped
  <2>1. stopped' \in BOOLEAN
    BY <1>3 DEF SetStopped
  <2> QED BY <1>0, <1>3, <2>1 DEF SetStopped, ControlGoto
<1>4. CASE UNCHANGED flags
  BY <1>0, <1>4
<1>5. CASE PublisherStep /\ ~TryToAddAudioStream /\ ~OpenOutput /\ ~EndSending
  <2>1. UNCHANGED flags
    BY <1>5 DEF PublisherStep, ReadStep, ReadWaits, ReadStopped, ReadFragment, ReadReturns, AvFormatStep,
      ProbeFails, ProbeSucceeds, SetUpFails, SetUpOutput, OpenFails, ReadFrame, ReadFrameFails,
      TakeVideoMarker, LockContext, WriteVideo, CloseOutput, ParserStep, ConnectFails, Connect,
      SendFrame, SendFails, FragmentDone, EndOfRun, Goto, Fails
  <2> QED BY <1>0, <2>1
<1>6. CASE SendAudio \/ SenderStep
  BY <1>0, <1>6 DEF SendAudio, SenderStep, NoAudioNow, TakeAudio, ParseAudio, LockContextForAudio, WriteAudio
<1>7. CASE AddSender \/ RemoveSender \/ Join
  BY <1>0, <1>7 DEF AddSender, RemoveSender, Join, ControlGoto
<1> QED
  BY <1>1, <1>2, <1>3, <1>4, <1>5, <1>6, <1>7 DEF Next, OnData, OnAudioData, OnAudioDataLocked, vars

LEMMA NextPublishingTyped == TypeOK /\ [Next]_vars => PublishingTyped'
<1> SUFFICES ASSUME TypeOK, [Next]_vars PROVE PublishingTyped'
  OBVIOUS
<1>0. PublishingTyped
  BY DEF TypeOK
<1>n. demuxed \in Nat /\ emitted \in Nat
  BY <1>0 DEF PublishingTyped
<1> USE DEF PublishingTyped, publishing, demuxer
<1>1. ASSUME NEW last \in BOOLEAN, OnData(last) PROVE PublishingTyped'
  <2>1. reader' \in {"out", "waiting", "notified"}
    BY <1>0, <1>1 DEF OnData, NotifyAll
  <2> QED BY <1>0, <1>1, <2>1 DEF OnData
<1>2. CASE SetStopped
  <2>1. reader' \in {"out", "waiting", "notified"}
    BY <1>0, <1>2 DEF SetStopped, NotifyAll
  <2> QED BY <1>0, <1>2, <2>1 DEF SetStopped, ControlGoto
<1>3. CASE AddSender \/ RemoveSender \/ Join
  BY <1>0, <1>3 DEF AddSender, RemoveSender, Join, ControlGoto
<1>4. CASE ReadStep
  <2>1. publisher' \in PublisherStates
    BY <1>0, <1>4 DEF ReadStep, ReadWaits, ReadStopped, ReadFragment, PublisherStates
  <2>2. endOfInput' \in BOOLEAN
    BY <1>0, <1>4 DEF ReadStep, ReadWaits, ReadStopped, ReadFragment
  <2>3. demuxed' \in Nat
    <3>1. demuxed' = demuxed \/ demuxed' = demuxed + 1
      BY <1>4 DEF ReadStep, ReadWaits, ReadStopped, ReadFragment
    <3> QED BY <1>n, <3>1
  <2>4. reader' \in {"out", "waiting", "notified"}
    BY <1>0, <1>4 DEF ReadStep, ReadWaits, ReadStopped, ReadFragment, ReadReturns
  <2>5. UNCHANGED <<outputContext, emitted, notified>>
    BY <1>4 DEF ReadStep, ReadWaits, ReadStopped, ReadFragment, ReadReturns
  <2> QED BY <1>0, <2>1, <2>2, <2>3, <2>4, <2>5
<1>5. CASE AvFormatStep \/ ParserStep
  <2>1. UNCHANGED <<reader, endOfInput, notified>>
    BY <1>5 DEF AvFormatStep, ProbeFails, ProbeSucceeds, SetUpFails, SetUpOutput, TryToAddAudioStream,
      OpenFails, OpenOutput, ReadFrame, ReadFrameFails, TakeVideoMarker, LockContext, WriteVideo,
      EndSending, CloseOutput, ParserStep, ConnectFails, Connect, SendFrame, SendFails, FragmentDone,
      Goto, Fails
  <2>2. outputContext' \in {"none", "set up", "open", "freed"}
    BY <1>0, <1>5 DEF AvFormatStep, ProbeFails, ProbeSucceeds, SetUpFails, SetUpOutput,
      TryToAddAudioStream, OpenFails, OpenOutput, ReadFrame, ReadFrameFails, TakeVideoMarker,
      LockContext, WriteVideo, EndSending, CloseOutput, ParserStep, ConnectFails, Connect, SendFrame,
      SendFails, FragmentDone, Fails
  <2>3. publisher' \in PublisherStates
    BY <1>5 DEF AvFormatStep, ProbeFails, ProbeSucceeds, SetUpFails, SetUpOutput, TryToAddAudioStream,
      OpenFails, OpenOutput, ReadFrame, ReadFrameFails, TakeVideoMarker, LockContext, WriteVideo,
      EndSending, CloseOutput, ParserStep, ConnectFails, Connect, SendFrame, SendFails, FragmentDone,
      Goto, Fails, PublisherStates
  <2>4. demuxed' \in Nat /\ emitted' \in Nat
    <3>1. CASE ReadFrame \/ SendFrame
      <4>1. /\ demuxed >= 1 /\ demuxed' = demuxed - 1 /\ emitted' = emitted + 1
        BY <1>n, <3>1 DEF ReadFrame, SendFrame
      <4> QED BY <1>n, <4>1
    <3>2. CASE ~ReadFrame /\ ~SendFrame
      <4>1. UNCHANGED <<demuxed, emitted>>
        BY <1>5, <3>2 DEF AvFormatStep, ProbeFails, ProbeSucceeds, SetUpFails, SetUpOutput,
          TryToAddAudioStream, OpenFails, OpenOutput, ReadFrameFails, TakeVideoMarker, LockContext,
          WriteVideo, EndSending, CloseOutput, ParserStep, ConnectFails, Connect, SendFails,
          FragmentDone, Fails
      <4> QED BY <1>0, <4>1
    <3> QED BY <3>1, <3>2
  <2> QED BY <1>0, <2>1, <2>2, <2>3, <2>4
<1>6. CASE EndOfRun
  <2>1. notified' \in BOOLEAN
    BY <1>6 DEF EndOfRun, Report
  <2>2. publisher' \in PublisherStates
    BY <1>6 DEF EndOfRun, Goto, PublisherStates
  <2> QED BY <1>0, <1>6, <2>1, <2>2 DEF EndOfRun, Goto
<1>7. CASE SendAudio \/ SenderStep
  BY <1>0, <1>7 DEF SendAudio, SenderStep, NoAudioNow, TakeAudio, ParseAudio, LockContextForAudio, WriteAudio
<1>8. CASE UNCHANGED publishing
  BY <1>0, <1>8
<1> QED
  BY <1>1, <1>2, <1>3, <1>4, <1>5, <1>6, <1>7, <1>8
  DEF Next, PublisherStep, OnAudioData, OnAudioDataLocked, vars

LEMMA NextOthersTyped == TypeOK /\ [Next]_vars => OthersTyped'
<1> SUFFICES ASSUME TypeOK, [Next]_vars PROVE OthersTyped'
  OBVIOUS
<1>0. OthersTyped
  BY DEF TypeOK
<1>n. device.video \in Nat /\ device.audio \in Nat
  BY <1>0 DEF OthersTyped
<1> USE DEF OthersTyped, audio, others
<1>1. ASSUME NEW last \in BOOLEAN, OnData(last) PROVE OthersTyped'
  <2>1. device' \in [video : Nat, audio : Nat, amid : BOOLEAN]
    <3>1. device' = [video |-> device.video + 1, audio |-> device.audio, amid |-> ~last]
      BY <1>0, <1>1 DEF OnData
    <3>2. device.video + 1 \in Nat
      BY <1>n
    <3>3. (~last) \in BOOLEAN
      OBVIOUS
    <3> QED BY <1>n, <3>1, <3>2, <3>3
  <2> QED BY <1>0, <1>1, <2>1 DEF OnData
<1>2. ASSUME NEW last \in BOOLEAN, OnAudioData(last) PROVE OthersTyped'
  <2>1. device' = [video |-> device.video, audio |-> device.audio + 1, amid |-> device.amid]
    BY <1>0, <1>2 DEF OnAudioData
  <2>2. device' \in [video : Nat, audio : Nat, amid : BOOLEAN]
    <3>1. device.audio + 1 \in Nat
      BY <1>n
    <3>2. device.amid \in BOOLEAN
      BY <1>0
    <3> QED BY <1>n, <2>1, <3>1, <3>2
  <2> QED BY <1>0, <1>2, <2>2 DEF OnAudioData
<1>3. CASE OnAudioDataLocked
  BY <1>0, <1>3 DEF OnAudioDataLocked
<1>4. CASE AddSender \/ RemoveSender \/ SetStopped \/ Join
  BY <1>0, <1>4 DEF AddSender, RemoveSender, SetStopped, Join, ControlGoto
<1>5. CASE SendAudio \/ (SenderStep /\ ~TakeAudio)
  BY <1>0, <1>5 DEF SendAudio, SenderStep, NoAudioNow, ParseAudio, LockContextForAudio, WriteAudio
<1>6. CASE TakeAudio
  <2>1. audioBuffer' \in Nat
    <3>1. CASE audioBufferQueue = <<>>
      BY <1>0, <1>6, <3>1 DEF TakeAudio
    <3>2. CASE audioBufferQueue # <<>>
      <4>1. audioBufferQueue \in Seq(Nat)
        BY DEF TypeOK, QueuesTyped
      <4>2. Head(audioBufferQueue) \in Nat
        BY <3>2, <4>1, HeadTailProperties
      <4> QED BY <1>6, <3>2, <4>2 DEF TakeAudio
    <3> QED BY <3>1, <3>2
  <2>2. sender' \in {"parse", "crashed"} /\ UNCHANGED others
    BY <1>6 DEF TakeAudio
  <2> QED BY <1>0, <2>1, <2>2
<1>7. CASE PublisherStep
  <2>1. UNCHANGED <<audio, others>>
    BY <1>7 DEF PublisherStep, ReadStep, ReadWaits, ReadStopped, ReadFragment, ReadReturns, AvFormatStep,
      ProbeFails, ProbeSucceeds, SetUpFails, SetUpOutput, TryToAddAudioStream, OpenFails, OpenOutput,
      ReadFrame, ReadFrameFails, TakeVideoMarker, LockContext, WriteVideo, EndSending, CloseOutput,
      ParserStep, ConnectFails, Connect, SendFrame, SendFails, FragmentDone, EndOfRun, Goto, Fails
  <2> QED BY <1>0, <2>1
<1>8. CASE UNCHANGED vars
  BY <1>0, <1>8 DEF vars
<1> QED
  BY <1>1, <1>2, <1>3, <1>4, <1>5, <1>6, <1>7, <1>8 DEF Next

\* Every variable keeps its type, and the buffer queues their limit.
THEOREM TypeCorrect == Spec => []TypeOK
<1>1. TypeOK /\ [Next]_vars => TypeOK'
  BY NextQueuesTyped, NextFlagsTyped, NextPublishingTyped, NextOthersTyped DEF TypeOK
<1> QED BY InitTypeOK, <1>1, PTL DEF Spec

-----------------------------------------------------------------------------
(* The output context.  It is open from "read" to "close"; the flag that   *)
(* lets audio in is set only between, and lowered while an audio write may *)
(* still be going on, which the release then waits for.                    *)

Streaming == {"read", "mark", "lock", "write", "end"}

ContextInv ==
  /\ publisher \in Streaming \cup {"close"} => outputContext = "open"
  /\ sendingVideoPacket => outputContext = "open" /\ publisher \in Streaming \cup {"crashed"}
  /\ sender = "write" => outputContext = "open" /\ publisher \in Streaming \cup {"close", "crashed"}
  /\ publisher \in {"probe", "set up", "connect", "next", "parse", "report", "done"} =>
       outputContext \in {"none", "freed"}

\* What the threads that have left the client no longer do.
ControlInv ==
  /\ control \in {"removed", "joining", "stopped"} => sender = "idle" /\ io = "idle"
  /\ control = "stopped" => publisher = "done"

LEMMA InitSafety == Init => ContextInv /\ ControlInv
BY DEF Init, ContextInv, ControlInv, Streaming

LEMMA NextContextInv == TypeOK /\ ContextInv /\ [Next]_vars => ContextInv'
<1> SUFFICES ASSUME TypeOK, ContextInv, [Next]_vars PROVE ContextInv'
  OBVIOUS
<1> USE DEF ContextInv, Streaming
<1>1. CASE UNCHANGED <<publisher, outputContext, sendingVideoPacket, sender>>
  BY <1>1
<1>2. CASE ReadStopped \/ ReadFragment
  <2>1. UNCHANGED <<outputContext, sendingVideoPacket, sender>>
    BY <1>2 DEF ReadStopped, ReadFragment, ReadReturns, flags, audio
  <2>2. publisher \in {"probe", "read", "next"}
    BY <1>2 DEF ReadStopped, ReadFragment, ReadReturns, Reading
  <2>3. \/ publisher' \in {publisher, "crashed"}
        \/ publisher = "next" /\ publisher' \in {"report", "parse"}
    BY <1>2 DEF ReadStopped, ReadFragment
  <2> QED BY <2>1, <2>2, <2>3
<1>3. CASE ProbeFails \/ ProbeSucceeds \/ SetUpFails \/ SetUpOutput \/ TryToAddAudioStream
  <2>1. UNCHANGED <<sendingVideoPacket, sender>>
    BY <1>3 DEF ProbeFails, ProbeSucceeds, SetUpFails, SetUpOutput, TryToAddAudioStream, Fails, Goto,
      flags, audio, demuxer
  <2>2. \/ publisher \in {"probe", "set up"} /\ publisher' = "report" /\ outputContext' \in {"none", "freed"}
        \/ publisher = "probe" /\ publisher' = "set up" /\ outputContext' = outputContext
        \/ publisher = "set up" /\ publisher' = "add audio" /\ outputContext' = "set up"
        \/ publisher = "add audio" /\ publisher' = "open" /\ outputContext' = outputContext
    BY <1>3 DEF ProbeFails, ProbeSucceeds, SetUpFails, SetUpOutput, TryToAddAudioStream, Fails, Goto
  <2> QED BY <2>1, <2>2
<1>4. CASE OpenFails
  <2>1. UNCHANGED <<sendingVideoPacket, sender>>
    BY <1>4 DEF OpenFails, Fails, Goto, flags, audio, demuxer
  <2>2. publisher = "open" /\ publisher' = "report" /\ outputContext' = "freed"
    BY <1>4 DEF OpenFails, Fails, Goto
  <2> QED BY <2>1, <2>2
<1>o. CASE OpenOutput
  <2>1. UNCHANGED sender
    BY <1>o DEF OpenOutput, Goto, audio, demuxer
  <2>2. publisher = "open" /\ publisher' = "read" /\ outputContext' = "open"
    BY <1>o DEF OpenOutput, Goto
  <2> QED BY <2>1, <2>2
<1>5. CASE ReadFrame \/ ReadFrameFails \/ TakeVideoMarker \/ LockContext \/ WriteVideo \/ EndSending
  <2>1. UNCHANGED <<outputContext, sender>>
    BY <1>5 DEF ReadFrame, ReadFrameFails, TakeVideoMarker, LockContext, WriteVideo, EndSending, Goto,
      audio, demuxer
  <2>2. /\ publisher \in Streaming
        /\ \/ publisher' \in Streaming /\ sendingVideoPacket' = sendingVideoPacket
           \/ publisher' = "close" /\ ~sendingVideoPacket'
    BY <1>5 DEF ReadFrame, ReadFrameFails, TakeVideoMarker, LockContext, WriteVideo, EndSending, Goto,
      flags
  <2> QED BY <2>1, <2>2
<1>6. CASE CloseOutput
  BY <1>6 DEF CloseOutput, FormatContextFree, Fails, Goto, flags, audio, demuxer
<1>7. CASE ParserStep \/ EndOfRun
  <2>1. UNCHANGED <<sendingVideoPacket, sender>>
    BY <1>7 DEF ParserStep, ConnectFails, Connect, SendFrame, SendFails, FragmentDone, EndOfRun, Fails,
      Goto, flags, audio, demuxer
  <2>2. \/ publisher \in {"connect", "parse"} /\ publisher' \in {"report", "next", "parse"}
        \/ publisher = "report" /\ publisher' = "done"
    BY <1>7 DEF ParserStep, ConnectFails, Connect, SendFrame, SendFails, FragmentDone, EndOfRun, Fails,
      Goto
  <2>3. outputContext' \in {outputContext, "none"}
    BY <1>7 DEF ParserStep, ConnectFails, Connect, SendFrame, SendFails, FragmentDone, EndOfRun, Fails
  <2> QED BY <2>1, <2>2, <2>3
<1>8. CASE SendAudio \/ SenderStep
  <2>1. UNCHANGED <<publisher, outputContext, sendingVideoPacket>>
    BY <1>8 DEF SendAudio, SenderStep, NoAudioNow, TakeAudio, ParseAudio, LockContextForAudio,
      WriteAudio, flags, publishing, demuxer
  <2>2. sender' = "write" => sendingVideoPacket
    BY <1>8 DEF SendAudio, SenderStep, NoAudioNow, TakeAudio, ParseAudio, LockContextForAudio, Recheck,
      WriteAudio
  <2> QED BY <2>1, <2>2
<1>9. CASE ReadWaits \/ AddSender \/ RemoveSender \/ SetStopped \/ Join
  BY <1>1, <1>9 DEF ReadWaits, AddSender, RemoveSender, SetStopped, Join, ControlGoto, flags, audio,
    demuxer
<1>10. ASSUME NEW last \in BOOLEAN, OnData(last) \/ OnAudioData(last) \/ OnAudioDataLocked
       PROVE  ContextInv'
  BY <1>1, <1>10 DEF OnData, OnAudioData, OnAudioDataLocked, flags, audio, demuxer, publishing
<1>11. CASE UNCHANGED vars
  BY <1>1, <1>11 DEF vars, flags, publishing, demuxer, audio
<1> QED
  BY <1>2, <1>3, <1>4, <1>o, <1>5, <1>6, <1>7, <1>8, <1>9, <1>10, <1>11
  DEF Next, PublisherStep, ReadStep, AvFormatStep

LEMMA NextControlInv == TypeOK /\ ControlInv /\ [Next]_vars => ControlInv'
<1> SUFFICES ASSUME TypeOK, ControlInv, [Next]_vars PROVE ControlInv'
  OBVIOUS
<1> USE DEF ControlInv
<1>1. CASE UNCHANGED <<publisher, control, sender, io>>
  BY <1>1
<1>2. CASE ReadStep
  BY <1>2 DEF ReadStep, ReadWaits, ReadStopped, ReadFragment, ReadReturns, Reading, audio, others
<1>3. CASE AvFormatStep
  BY <1>3 DEF AvFormatStep, ProbeFails, ProbeSucceeds, SetUpFails, SetUpOutput, TryToAddAudioStream,
    OpenFails, OpenOutput, ReadFrame, ReadFrameFails, TakeVideoMarker, LockContext, WriteVideo,
    EndSending, CloseOutput, Fails, Goto, audio, others
<1>4. CASE ParserStep \/ EndOfRun
  BY <1>4 DEF ParserStep, ConnectFails, Connect, SendFrame, SendFails, FragmentDone, EndOfRun, Fails,
    Goto, audio, others
<1>5. CASE SendAudio \/ SenderStep
  BY <1>5 DEF SendAudio, SenderStep, NoAudioNow, TakeAudio, ParseAudio, LockContextForAudio,
    WriteAudio, publishing, others
<1>6. CASE AddSender \/ RemoveSender \/ SetStopped \/ Join
  BY <1>6 DEF AddSender, RemoveSender, EngineFree, SetStopped, Join, Joinable, ControlGoto, audio
<1>7. ASSUME NEW last \in BOOLEAN, OnData(last) \/ OnAudioData(last) \/ OnAudioDataLocked
      PROVE  ControlInv'
  BY <1>7 DEF OnData, OnAudioData, OnAudioDataLocked, audio, publishing
<1>8. CASE UNCHANGED vars
  BY <1>1, <1>8 DEF vars, publishing, audio, others
<1> QED
  BY <1>2, <1>3, <1>4, <1>5, <1>6, <1>7, <1>8 DEF Next, PublisherStep

LEMMA Safety == Spec => [](TypeOK /\ ContextInv /\ ControlInv)
<1>1. Init => TypeOK /\ ContextInv /\ ControlInv
  BY InitTypeOK, InitSafety
<1>2. TypeOK /\ ContextInv /\ ControlInv /\ [Next]_vars => (TypeOK /\ ContextInv /\ ControlInv)'
  BY NextQueuesTyped, NextFlagsTyped, NextPublishingTyped, NextOthersTyped, NextContextInv,
     NextControlInv DEF TypeOK
<1> QED BY <1>1, <1>2, PTL DEF Spec

\* The output context is open whenever the publishing thread or the audio
\* engine's thread writes to it: EndSending lowers the flag before the
\* release, and the release and the writes exclude each other.
THEOREM ContextIsOpen == Spec => []ContextOpenWhileWritten
<1>1. ContextInv /\ TypeOK => ContextOpenWhileWritten
  BY DEF ContextInv, ContextOpenWhileWritten, Streaming, TypeOK
<1> QED BY Safety, <1>1, PTL

\* When Stop has returned no thread is inside the client and its output
\* context is released.
THEOREM QuietAfterStop == Spec => []StoppedMeansQuiet
<1>1. ContextInv /\ ControlInv => StoppedMeansQuiet
  BY DEF ContextInv, ControlInv, StoppedMeansQuiet
<1> QED BY Safety, <1>1, PTL

-----------------------------------------------------------------------------
(* The deques.  SendAudio takes the front of audioBufferQueue when it sees *)
(* an audio marker: the queue is never empty then, because there are never *)
(* more audio markers than audio fragments.                                *)

Kinds == {PACKET_VIDEO, PACKET_AUDIO}
AudioAt(q) == {i \in 1..Len(q) : q[i] = PACKET_AUDIO}
AudioMarks(q) == Cardinality(AudioAt(q))

LEMMA MarksFinite ==
  ASSUME NEW q \in Seq(Kinds)
  PROVE  IsFiniteSet(AudioAt(q)) /\ AudioMarks(q) \in Nat
<1>1. IsFiniteSet(1..Len(q))
  BY FS_Interval
<1>2. AudioAt(q) \in SUBSET (1..Len(q))
  BY DEF AudioAt
<1>3. IsFiniteSet(AudioAt(q))
  BY <1>1, <1>2, FS_Subset
<1> QED BY <1>3, FS_CardinalityType DEF AudioMarks

\* A marker at the end adds one audio marker, or none.
LEMMA MarksAppend ==
  ASSUME NEW q \in Seq(Kinds), NEW k \in Kinds
  PROVE  AudioMarks(Append(q, k)) = IF k = PACKET_AUDIO THEN AudioMarks(q) + 1 ELSE AudioMarks(q)
<1>0. Len(q) \in Nat
  OBVIOUS
<1>1. /\ Len(Append(q, k)) = Len(q) + 1 /\ Append(q, k)[Len(q) + 1] = k
      /\ \A i \in 1..Len(q) : Append(q, k)[i] = q[i]
  BY AppendProperties
<1>2. \A i : i \in 1..Len(Append(q, k)) <=> i \in 1..Len(q) \/ i = Len(q) + 1
  BY <1>0, <1>1
<1>3. CASE k = PACKET_AUDIO
  <2>1. AudioAt(Append(q, k)) = AudioAt(q) \cup {Len(q) + 1}
    BY <1>1, <1>2, <1>3 DEF AudioAt
  <2>2. Len(q) + 1 \notin AudioAt(q)
    BY <1>0 DEF AudioAt
  <2> QED BY <1>3, <2>1, <2>2, MarksFinite, FS_AddElement DEF AudioMarks
<1>4. CASE k # PACKET_AUDIO
  <2>1. AudioAt(Append(q, k)) = AudioAt(q)
    BY <1>1, <1>2, <1>4 DEF AudioAt
  <2> QED BY <1>4, <2>1 DEF AudioMarks
<1> QED BY <1>3, <1>4

\* Without its first marker a queue has one audio marker less, or as many.
LEMMA MarksTail ==
  ASSUME NEW q \in Seq(Kinds), q # <<>>
  PROVE  AudioMarks(Tail(q)) = IF Head(q) = PACKET_AUDIO THEN AudioMarks(q) - 1 ELSE AudioMarks(q)
<1> DEFINE Rest == AudioAt(q) \ {1}
           Shift == [i \in AudioAt(Tail(q)) |-> i + 1]
<1>0. Len(q) \in Nat \ {0} /\ Head(q) = q[1]
  OBVIOUS
<1>1. /\ Tail(q) \in Seq(Kinds) /\ Len(Tail(q)) = Len(q) - 1
      /\ \A i \in 1..Len(Tail(q)) : Tail(q)[i] = q[i + 1]
  BY HeadTailProperties
<1>2. IsFiniteSet(AudioAt(Tail(q)))
  BY <1>1, MarksFinite
<1>3. ASSUME NEW i \in AudioAt(Tail(q)) PROVE i \in Nat /\ i + 1 \in Rest
  BY <1>0, <1>1, <1>3 DEF AudioAt
<1>4. ASSUME NEW j \in Rest PROVE j \in Nat /\ j - 1 \in AudioAt(Tail(q))
  BY <1>0, <1>1, <1>4 DEF AudioAt
<1>5. Shift \in [AudioAt(Tail(q)) -> Rest]
  BY <1>3
<1>6. \A i, k \in AudioAt(Tail(q)) : Shift[i] = Shift[k] => i = k
  BY <1>3
<1>7. \A j \in Rest : \E i \in AudioAt(Tail(q)) : Shift[i] = j
  BY <1>4
<1>8. ExistsBijection(AudioAt(Tail(q)), Rest)
  BY <1>5, <1>6, <1>7 DEF ExistsBijection, Bijection, Injection, Surjection, IsInjective
<1>9. AudioMarks(Tail(q)) = Cardinality(Rest)
  BY <1>2, <1>8, FS_Bijection DEF AudioMarks
<1>10. 1 \in AudioAt(q) <=> Head(q) = PACKET_AUDIO
  BY <1>0 DEF AudioAt
<1> QED BY <1>9, <1>10, MarksFinite, FS_RemoveElement DEF AudioMarks

MarksCovered == AudioMarks(packetTypeQueue) <= Len(audioBufferQueue) /\ sender # "crashed"

\* The thread that was notified, and the client not stopped, finds data.
Woken ==
  /\ reader = "notified" /\ ~stopped => mediaBufferQueue # <<>>
  /\ publisher # "crashed"

LEMMA InitMarksCovered == Init => MarksCovered
<1> SUFFICES ASSUME Init PROVE MarksCovered
  OBVIOUS
<1>1. AudioAt(packetTypeQueue) = {} /\ Len(audioBufferQueue) = 0
  BY DEF Init, AudioAt
<1> QED BY <1>1, FS_EmptySet DEF Init, MarksCovered, AudioMarks

LEMMA NextMarksCovered == TypeOK /\ MarksCovered /\ [Next]_vars => MarksCovered'
<1> SUFFICES ASSUME TypeOK, MarksCovered, [Next]_vars PROVE MarksCovered'
  OBVIOUS
<1>0. packetTypeQueue \in Seq(Kinds) /\ audioBufferQueue \in Seq(Nat) /\ accepted \in Nat
  BY DEF TypeOK, QueuesTyped, Kinds
<1>m. AudioMarks(packetTypeQueue) \in Nat /\ AudioMarks(packetTypeQueue) <= Len(audioBufferQueue)
  BY <1>0, MarksFinite DEF MarksCovered
<1>n. Len(audioBufferQueue) \in Nat
  BY <1>0
<1>k. PACKET_VIDEO \in Kinds /\ PACKET_AUDIO \in Kinds /\ PACKET_VIDEO # PACKET_AUDIO
  BY DEF Kinds, PACKET_VIDEO, PACKET_AUDIO
<1>1. CASE UNCHANGED <<packetTypeQueue, audioBufferQueue>> /\ sender' # "crashed"
  BY <1>1 DEF MarksCovered, AudioMarks, AudioAt
<1>2. ASSUME NEW last \in BOOLEAN, OnData(last) PROVE MarksCovered'
  <2>1. /\ audioBufferQueue' = audioBufferQueue /\ sender' = sender
        /\ packetTypeQueue' \in {packetTypeQueue, Append(packetTypeQueue, PACKET_VIDEO)}
    BY <1>2 DEF OnData, AcceptVideo, audio
  <2>2. AudioMarks(Append(packetTypeQueue, PACKET_VIDEO)) = AudioMarks(packetTypeQueue)
    BY <1>0, <1>k, MarksAppend
  <2>3. AudioMarks(packetTypeQueue') <= Len(audioBufferQueue)
    BY <1>m, <2>1, <2>2
  <2>4. AudioMarks(packetTypeQueue)' = AudioMarks(packetTypeQueue')
    BY DEF AudioMarks, AudioAt
  <2> QED BY <2>1, <2>3, <2>4 DEF MarksCovered
<1>3. CASE OnAudioDataLocked
  <2>1. CASE AudioQueueFull
    BY <1>1, <1>3, <2>1 DEF OnAudioDataLocked, audio, MarksCovered
  <2>2. CASE ~AudioQueueFull
    <3>1. /\ audioBufferQueue' = Append(audioBufferQueue, accepted) /\ sender' = sender
          /\ packetTypeQueue' \in {packetTypeQueue, Append(packetTypeQueue, PACKET_AUDIO)}
      BY <1>3, <2>2 DEF OnAudioDataLocked, audio
    <3>2. AudioMarks(Append(packetTypeQueue, PACKET_AUDIO)) = AudioMarks(packetTypeQueue) + 1
      BY <1>0, <1>k, MarksAppend
    <3>3. Len(audioBufferQueue') = Len(audioBufferQueue) + 1
      BY <1>0, <3>1, AppendProperties
    <3>4. AudioMarks(packetTypeQueue') <= Len(audioBufferQueue')
      <4>1. \/ AudioMarks(packetTypeQueue') = AudioMarks(packetTypeQueue)
            \/ AudioMarks(packetTypeQueue') = AudioMarks(packetTypeQueue) + 1
        BY <3>1, <3>2
      <4> QED BY <1>m, <1>n, <3>3, <4>1
    <3>5. AudioMarks(packetTypeQueue)' = AudioMarks(packetTypeQueue')
      BY DEF AudioMarks, AudioAt
    <3> QED BY <3>1, <3>4, <3>5 DEF MarksCovered
  <2> QED BY <2>1, <2>2
<1>4. CASE TakeVideoMarker
  <2>1. audioBufferQueue' = audioBufferQueue /\ sender' = sender
    BY <1>4 DEF TakeVideoMarker, audio
  <2>2. AudioMarks(packetTypeQueue') = AudioMarks(packetTypeQueue)
    <3>1. CASE packetTypeQueue # <<>> /\ Head(packetTypeQueue) = PACKET_VIDEO
      BY <1>0, <1>4, <1>k, <3>1, MarksTail DEF TakeVideoMarker
    <3>2. CASE ~(packetTypeQueue # <<>> /\ Head(packetTypeQueue) = PACKET_VIDEO)
      BY <1>4, <3>2 DEF TakeVideoMarker
    <3> QED BY <3>1, <3>2
  <2>3. AudioMarks(packetTypeQueue)' = AudioMarks(packetTypeQueue')
    BY DEF AudioMarks, AudioAt
  <2> QED BY <2>1, <2>2, <2>3 DEF MarksCovered
<1>5. CASE TakeAudio
  <2>1. /\ packetTypeQueue # <<>> /\ Head(packetTypeQueue) = PACKET_AUDIO
        /\ packetTypeQueue' = Tail(packetTypeQueue)
    BY <1>5 DEF TakeAudio, AudioIsNext
  <2>2. AudioMarks(packetTypeQueue') = AudioMarks(packetTypeQueue) - 1
    BY <1>0, <2>1, MarksTail
  <2>3. packetTypeQueue' \in Seq(Kinds)
    BY <1>0, <2>1, HeadTailProperties
  <2>4. AudioMarks(packetTypeQueue') \in Nat
    BY <2>3, MarksFinite
  <2>5. Len(audioBufferQueue) >= 1
    BY <1>m, <1>n, <2>2, <2>4
  <2>6. audioBufferQueue # <<>>
    BY <2>5
  <2>7. audioBufferQueue' = Tail(audioBufferQueue) /\ sender' = "parse"
    BY <1>5, <2>6 DEF TakeAudio
  <2>8. Len(audioBufferQueue') = Len(audioBufferQueue) - 1
    BY <1>0, <2>6, <2>7, HeadTailProperties
  <2>9. AudioMarks(packetTypeQueue') <= Len(audioBufferQueue')
    BY <1>m, <1>n, <2>2, <2>8
  <2>10. AudioMarks(packetTypeQueue)' = AudioMarks(packetTypeQueue')
    BY DEF AudioMarks, AudioAt
  <2> QED BY <2>7, <2>9, <2>10 DEF MarksCovered
<1>6. CASE PublisherStep /\ ~TakeVideoMarker
  <2>1. UNCHANGED <<packetTypeQueue, audioBufferQueue, sender>>
    BY <1>6 DEF PublisherStep, ReadStep, ReadWaits, ReadStopped, ReadFragment, ReadReturns, AvFormatStep,
      ProbeFails, ProbeSucceeds, SetUpFails, SetUpOutput, TryToAddAudioStream, OpenFails, OpenOutput,
      ReadFrame, ReadFrameFails, LockContext, WriteVideo, EndSending, CloseOutput, ParserStep,
      ConnectFails, Connect, SendFrame, SendFails, FragmentDone, EndOfRun, Goto, Fails, queues, audio
  <2> QED BY <1>1, <2>1 DEF MarksCovered
<1>7. CASE SendAudio \/ (SenderStep /\ ~TakeAudio)
  BY <1>1, <1>7 DEF SendAudio, SenderStep, NoAudioNow, ParseAudio, LockContextForAudio, WriteAudio, queues
<1>8. CASE AddSender \/ RemoveSender \/ SetStopped \/ Join
  BY <1>1, <1>8 DEF AddSender, RemoveSender, SetStopped, Join, ControlGoto, queues, audio, MarksCovered
<1>9. ASSUME NEW last \in BOOLEAN, OnAudioData(last) PROVE MarksCovered'
  BY <1>1, <1>9 DEF OnAudioData, queues, audio, MarksCovered
<1>10. CASE UNCHANGED vars
  BY <1>1, <1>10 DEF vars, queues, audio, MarksCovered
<1> QED
  BY <1>2, <1>3, <1>4, <1>5, <1>6, <1>7, <1>8, <1>9, <1>10 DEF Next

LEMMA NextWoken ==
  ASSUME ~SpuriousWakeups
  PROVE  TypeOK /\ Woken /\ [Next]_vars => Woken'
<1> SUFFICES ASSUME TypeOK, Woken, [Next]_vars PROVE Woken'
  OBVIOUS
<1>0. mediaBufferQueue \in Seq(BOOLEAN) /\ MaxQueue \in Nat \ {0}
  BY BoundAssumption DEF TypeOK, QueuesTyped
<1>1. CASE UNCHANGED <<reader, stopped, mediaBufferQueue>> /\ publisher' # "crashed"
  BY <1>1 DEF Woken
<1>2. ASSUME NEW last \in BOOLEAN, OnData(last) PROVE Woken'
  <2>1. mediaBufferQueue' # <<>>
    <3>1. CASE Len(mediaBufferQueue) >= MaxQueue
      <4>1. mediaBufferQueue' = mediaBufferQueue
        BY <1>2, <3>1 DEF OnData
      <4>2. mediaBufferQueue # <<>>
        BY <1>0, <3>1
      <4> QED BY <4>1, <4>2
    <3>2. CASE ~(Len(mediaBufferQueue) >= MaxQueue)
      <4>1. mediaBufferQueue' = Append(mediaBufferQueue, ~device.amid)
        BY <1>2, <3>2 DEF OnData, AcceptVideo
      <4>2. (~device.amid) \in BOOLEAN
        OBVIOUS
      <4> QED BY <1>0, <4>1, <4>2, AppendProperties
    <3> QED BY <3>1, <3>2
  <2>2. publisher' = publisher
    BY <1>2 DEF OnData
  <2> QED BY <2>1, <2>2 DEF Woken
<1>3. CASE ReadWaits
  BY <1>3 DEF ReadWaits, Woken
<1>4. CASE ReadStopped
  <2>1. reader' = "out" /\ publisher' \in {"report", publisher}
    BY <1>4 DEF ReadStopped, ReadReturns
  <2> QED BY <2>1 DEF Woken
<1>5. CASE ReadFragment
  <2>1. ~stopped /\ (mediaBufferQueue # <<>> \/ reader = "notified")
    BY <1>5 DEF ReadFragment, ReadReturns, Awake, StopSeen
  <2>2. mediaBufferQueue # <<>>
    BY <2>1 DEF Woken
  <2>3. reader' = "out" /\ publisher' \in {"parse", publisher}
    BY <1>5, <2>2 DEF ReadFragment, ReadReturns
  <2> QED BY <2>3 DEF Woken
<1>6. CASE SetStopped
  <2>1. stopped' /\ publisher' = publisher
    BY <1>6 DEF SetStopped, ControlGoto
  <2> QED BY <2>1 DEF Woken
<1>7. CASE AvFormatStep \/ ParserStep \/ EndOfRun
  <2>1. publisher' # "crashed" /\ UNCHANGED <<reader, mediaBufferQueue>>
    BY <1>7 DEF AvFormatStep, ProbeFails, ProbeSucceeds, SetUpFails, SetUpOutput, TryToAddAudioStream,
      OpenFails, OpenOutput, ReadFrame, ReadFrameFails, TakeVideoMarker, LockContext, WriteVideo,
      EndSending, CloseOutput, ParserStep, ConnectFails, Connect, SendFrame, SendFails, FragmentDone,
      EndOfRun, Goto, Fails, queues
  <2>2. stopped' = stopped
    BY <1>7 DEF AvFormatStep, ProbeFails, ProbeSucceeds, SetUpFails, SetUpOutput, TryToAddAudioStream,
      OpenFails, OpenOutput, ReadFrame, ReadFrameFails, TakeVideoMarker, LockContext, WriteVideo,
      EndSending, CloseOutput, ParserStep, ConnectFails, Connect, SendFrame, SendFails, FragmentDone,
      EndOfRun, Fails, flags
  <2> QED BY <1>1, <2>1, <2>2
<1>8. CASE SendAudio \/ SenderStep \/ OnAudioDataLocked
  <2>1. UNCHANGED <<reader, stopped, mediaBufferQueue, publisher>>
    BY <1>8 DEF SendAudio, SenderStep, NoAudioNow, TakeAudio, ParseAudio, LockContextForAudio, WriteAudio,
      OnAudioDataLocked, queues, flags, publishing
  <2> QED BY <1>1, <2>1 DEF Woken
<1>9. CASE AddSender \/ RemoveSender \/ Join
  BY <1>1, <1>9 DEF AddSender, RemoveSender, Join, ControlGoto, queues, Woken
<1>10. ASSUME NEW last \in BOOLEAN, OnAudioData(last) PROVE Woken'
  BY <1>1, <1>10 DEF OnAudioData, queues, flags, publishing, Woken
<1>11. CASE UNCHANGED vars
  BY <1>1, <1>11 DEF vars, queues, flags, publishing, Woken
<1> QED
  BY <1>2, <1>3, <1>4, <1>5, <1>6, <1>7, <1>8, <1>9, <1>10, <1>11 DEF Next, PublisherStep, ReadStep

\* Where a wait returns only when notified, neither thread ever takes the
\* front of an empty deque: not the publishing thread, which does not look
\* again after its wait, nor SendAudio, which looks at the markers only.
THEOREM DequesNotReadEmpty ==
  ASSUME ~SpuriousWakeups
  PROVE  Spec => []EmptyDequesNotRead
<1>1. Init => TypeOK /\ MarksCovered /\ Woken
  BY InitTypeOK, InitMarksCovered DEF Init, Woken
<1>2. TypeOK /\ MarksCovered /\ Woken /\ [Next]_vars => (TypeOK /\ MarksCovered /\ Woken)'
  BY NextQueuesTyped, NextFlagsTyped, NextPublishingTyped, NextOthersTyped, NextMarksCovered, NextWoken
  DEF TypeOK
<1>3. TypeOK /\ MarksCovered /\ Woken => EmptyDequesNotRead
  BY DEF MarksCovered, Woken, EmptyDequesNotRead
<1> QED BY <1>1, <1>2, <1>3, PTL DEF Spec

-----------------------------------------------------------------------------
(* The place of the audio.  For each marker, frames[i] is how many video   *)
(* frames were accepted before it, and marks[i] how many audio markers     *)
(* were made before it.  The buffer an audio marker stands for came no     *)
(* later than the marker, and a video marker is taken for each frame that  *)
(* is emitted: so the frames before the first marker are emitted.          *)

Placed(frames, marks) ==
  LET q == packetTypeQueue
      n == Len(packetTypeQueue)
  IN  /\ frames \in [1..(n + 1) -> Nat] /\ marks \in [1..(n + 1) -> Nat]
      /\ frames[n + 1] = accepted
      /\ marks[n + 1] - marks[1] <= Len(audioBufferQueue)
      /\ frames[1] + (IF publisher = "mark" THEN 1 ELSE 0) <= emitted
      /\ \A k, l \in 1..(n + 1) : k <= l => marks[k] <= marks[l]
      /\ \A i \in 1..n : q[i] = PACKET_VIDEO =>
           frames[i + 1] = frames[i] + 1 /\ marks[i + 1] = marks[i]
      /\ \A i \in 1..n : q[i] = PACKET_AUDIO =>
           /\ frames[i + 1] = frames[i] /\ marks[i + 1] = marks[i] + 1
           /\ audioBufferQueue[marks[i + 1] - marks[1]] <= frames[i]

PlaceInv ==
  /\ \A j \in 1..Len(audioBufferQueue) : audioBufferQueue[j] <= accepted
  /\ AudioNotAhead
  /\ \E frames, marks : Placed(frames, marks)

\* A function on the places of the markers, with one more at the end.
LEMMA Extended ==
  ASSUME NEW n \in Nat, NEW g \in [1..(n + 1) -> Nat], NEW x \in Nat
  PROVE  \E f \in [1..(n + 2) -> Nat] : f[n + 2] = x /\ \A k \in 1..(n + 1) : f[k] = g[k]
<1> DEFINE f == [k \in 1..(n + 2) |-> IF k = n + 2 THEN x ELSE g[k]]
<1>1. \A k \in 1..(n + 2) : k # n + 2 => k \in 1..(n + 1)
  OBVIOUS
<1>2. n + 2 \in 1..(n + 2) /\ \A k \in 1..(n + 1) : k \in 1..(n + 2) /\ k # n + 2
  OBVIOUS
<1>3. f \in [1..(n + 2) -> Nat] /\ f[n + 2] = x /\ \A k \in 1..(n + 1) : f[k] = g[k]
  BY <1>1, <1>2
<1> HIDE DEF f
<1> QED BY <1>3

\* And with the first one gone.
LEMMA Shifted ==
  ASSUME NEW n \in Nat, NEW g \in [1..(n + 1) -> Nat]
  PROVE  \E f \in [1..n -> Nat] : \A k \in 1..n : f[k] = g[k + 1]
<1> DEFINE f == [k \in 1..n |-> g[k + 1]]
<1>1. \A k \in 1..n : k + 1 \in 1..(n + 1)
  OBVIOUS
<1>2. f \in [1..n -> Nat] /\ \A k \in 1..n : f[k] = g[k + 1]
  BY <1>1
<1> HIDE DEF f
<1> QED BY <1>2

\* An audio marker's buffer is in the queue.
LEMMA PlacedWithin ==
  ASSUME TypeOK, NEW frames, NEW marks, Placed(frames, marks),
         NEW i \in 1..Len(packetTypeQueue), packetTypeQueue[i] = PACKET_AUDIO
  PROVE  marks[i + 1] - marks[1] \in 1..Len(audioBufferQueue)
<1> DEFINE n == Len(packetTypeQueue)
<1>1. n \in Nat /\ Len(audioBufferQueue) \in Nat
  BY LenProperties DEF TypeOK, QueuesTyped
<1>2. marks[i + 1] = marks[i] + 1 /\ marks[n + 1] - marks[1] <= Len(audioBufferQueue)
  BY DEF Placed
<1>3. 1 \in 1..(n + 1) /\ i \in 1..(n + 1) /\ i + 1 \in 1..(n + 1) /\ n + 1 \in 1..(n + 1)
      /\ 1 <= i /\ i + 1 <= n + 1
  BY <1>1
<1>4. marks \in [1..(n + 1) -> Nat] /\ marks[1] <= marks[i] /\ marks[i + 1] <= marks[n + 1]
  BY <1>3 DEF Placed
<1>5. marks[1] \in Nat /\ marks[i] \in Nat /\ marks[i + 1] \in Nat /\ marks[n + 1] \in Nat
  BY <1>3, <1>4
<1> QED BY <1>1, <1>2, <1>4, <1>5

\* A video frame and its marker are counted together.
LEMMA VideoMarkerKeeps ==
  ASSUME TypeOK, PlaceInv, packetTypeQueue' = Append(packetTypeQueue, PACKET_VIDEO),
         accepted' = accepted + 1, UNCHANGED <<audioBufferQueue, publisher, emitted, sender, audioBuffer>>
  PROVE  PlaceInv'
<1> DEFINE q == packetTypeQueue
           n == Len(packetTypeQueue)
<1>1. PICK frames, marks : Placed(frames, marks)
  BY DEF PlaceInv
<1>2. q \in Seq({PACKET_VIDEO, PACKET_AUDIO}) /\ n \in Nat /\ accepted \in Nat
      /\ audioBufferQueue \in Seq(Nat)
  BY LenProperties DEF TypeOK, QueuesTyped
<1>3. frames \in [1..(n + 1) -> Nat] /\ marks \in [1..(n + 1) -> Nat]
  BY <1>1 DEF Placed
<1>4. /\ Len(q') = n + 1 /\ q'[n + 1] = PACKET_VIDEO
      /\ \A i \in 1..n : q'[i] = q[i]
  BY <1>2, AppendProperties
<1>5. accepted + 1 \in Nat /\ marks[n + 1] \in Nat /\ 1 \in 1..(n + 1) /\ n + 1 \in 1..(n + 1)
  BY <1>2, <1>3
<1> HIDE DEF q, n
<1>6. PICK fs \in [1..(n + 2) -> Nat] : fs[n + 2] = accepted + 1 /\ \A k \in 1..(n + 1) : fs[k] = frames[k]
  <2>1. n \in Nat /\ frames \in [1..(n + 1) -> Nat]
    BY <1>2, <1>3
  <2>2. \A x \in Nat : \E f \in [1..(n + 2) -> Nat] : f[n + 2] = x /\ \A k \in 1..(n + 1) : f[k] = frames[k]
    BY <2>1, Extended, Zenon
  <2> QED BY <1>5, <2>2, Zenon
<1>7. PICK ms \in [1..(n + 2) -> Nat] : ms[n + 2] = marks[n + 1] /\ \A k \in 1..(n + 1) : ms[k] = marks[k]
  <2>1. n \in Nat /\ marks \in [1..(n + 1) -> Nat]
    BY <1>2, <1>3
  <2>2. \A x \in Nat : \E f \in [1..(n + 2) -> Nat] : f[n + 2] = x /\ \A k \in 1..(n + 1) : f[k] = marks[k]
    BY <2>1, Extended, Zenon
  <2> QED BY <1>5, <2>2, Zenon
<1>8. (n + 1) + 1 = n + 2 /\ \A i \in 1..(n + 1) : i \in 1..n \/ i = n + 1
  BY <1>2
<1>9. \A i \in 1..n : i \in 1..(n + 1) /\ i + 1 \in 1..(n + 1)
  BY <1>2
<1>10. /\ frames[n + 1] = accepted /\ marks[n + 1] - marks[1] <= Len(audioBufferQueue)
       /\ frames[1] + (IF publisher = "mark" THEN 1 ELSE 0) <= emitted
  BY <1>1 DEF Placed, n
<1>11. \A k, l \in 1..(n + 2) : k <= l => ms[k] <= ms[l]
  <2> SUFFICES ASSUME NEW k \in 1..(n + 2), NEW l \in 1..(n + 2), k <= l PROVE ms[k] <= ms[l]
    OBVIOUS
  <2>1. CASE l \in 1..(n + 1)
    <3>1. k \in 1..(n + 1)
      BY <1>2, <2>1
    <3>2. marks[k] <= marks[l]
      BY <1>1, <2>1, <3>1 DEF Placed, n
    <3> QED BY <1>7, <2>1, <3>1, <3>2
  <2>2. CASE l = n + 2 /\ k \in 1..(n + 1)
    <3>1. k <= n + 1
      BY <1>2, <2>2
    <3>2. marks[k] <= marks[n + 1]
      BY <1>1, <1>5, <2>2, <3>1 DEF Placed, n
    <3> QED BY <1>7, <2>2, <3>2
  <2>3. CASE l = n + 2 /\ k = n + 2
    BY <1>5, <1>7, <2>3
  <2>4. (l \in 1..(n + 1) \/ l = n + 2) /\ (k \in 1..(n + 1) \/ k = n + 2)
    BY <1>2
  <2> QED BY <2>1, <2>2, <2>3, <2>4
<1>12. ASSUME NEW i \in 1..(n + 1), q'[i] = PACKET_VIDEO
       PROVE  fs[i + 1] = fs[i] + 1 /\ ms[i + 1] = ms[i]
  <2>1. CASE i \in 1..n
    <3>1. frames[i + 1] = frames[i] + 1 /\ marks[i + 1] = marks[i]
      BY <1>1, <1>4, <1>12, <2>1 DEF Placed, n, q
    <3> QED BY <1>6, <1>7, <1>9, <2>1, <3>1
  <2>2. CASE i = n + 1
    BY <1>5, <1>6, <1>7, <1>8, <1>10, <2>2
  <2> QED BY <1>8, <2>1, <2>2
<1>13. ASSUME NEW i \in 1..(n + 1), q'[i] = PACKET_AUDIO
       PROVE  /\ fs[i + 1] = fs[i] /\ ms[i + 1] = ms[i] + 1
              /\ audioBufferQueue[ms[i + 1] - ms[1]] <= fs[i]
  <2>1. i \in 1..n
    BY <1>4, <1>8, <1>13 DEF PACKET_VIDEO, PACKET_AUDIO
  <2>2. /\ frames[i + 1] = frames[i] /\ marks[i + 1] = marks[i] + 1
        /\ audioBufferQueue[marks[i + 1] - marks[1]] <= frames[i]
    BY <1>1, <1>4, <1>13, <2>1 DEF Placed, n, q
  <2> QED BY <1>5, <1>6, <1>7, <1>9, <2>1, <2>2
<1>14. Placed(fs, ms)'
  <2>1. fs[n + 2] = accepted' /\ ms[n + 2] - ms[1] <= Len(audioBufferQueue')
    BY <1>5, <1>6, <1>7, <1>10
  <2>2. fs[1] + (IF publisher' = "mark" THEN 1 ELSE 0) <= emitted'
    BY <1>5, <1>6, <1>10
  <2>3. Len(packetTypeQueue') = n + 1 /\ packetTypeQueue' = q'
    BY <1>4 DEF q
  <2> QED BY <1>6, <1>7, <1>8, <1>11, <1>12, <1>13, <2>1, <2>2, <2>3 DEF Placed
<1>15. \A j \in 1..Len(audioBufferQueue) : audioBufferQueue[j] <= accepted + 1
  <2> SUFFICES ASSUME NEW j \in 1..Len(audioBufferQueue) PROVE audioBufferQueue[j] <= accepted + 1
    OBVIOUS
  <2>1. audioBufferQueue[j] \in Nat /\ audioBufferQueue[j] <= accepted
    BY <1>2, ElementOfSeq DEF PlaceInv
  <2>2. accepted \in Nat
    BY <1>2
  <2>3. \A x, y \in Nat : x <= y => x <= y + 1
    OBVIOUS
  <2> QED BY <2>1, <2>2, <2>3, Zenon
<1> QED BY <1>14, <1>15 DEF PlaceInv, AudioNotAhead

\* While the queues stay the same and no frame is counted twice.
LEMMA PlaceUnmoved ==
  ASSUME TypeOK, PlaceInv, UNCHANGED <<packetTypeQueue, audioBufferQueue, accepted, audio>>,
         \/ UNCHANGED <<publisher, emitted>>
         \/ emitted' = emitted /\ publisher' # "mark"
         \/ emitted' = emitted + 1 /\ publisher # "mark"
  PROVE  PlaceInv'
<1>1. UNCHANGED <<packetTypeQueue, audioBufferQueue, accepted, sender, audioBuffer>>
  BY DEF audio
<1>2. emitted \in Nat /\ emitted' \in Nat /\ emitted <= emitted' /\ audioBuffer \in Nat
  <2>1. emitted \in Nat /\ audioBuffer \in Nat
    BY DEF TypeOK, PublishingTyped, OthersTyped
  <2>2. emitted' = emitted \/ emitted' = emitted + 1
    OBVIOUS
  <2> QED BY <2>1, <2>2
<1>3. PICK frames, marks : Placed(frames, marks)
  BY DEF PlaceInv
<1>4. frames[1] \in Nat
  <2>1. Len(packetTypeQueue) \in Nat
    BY LenProperties DEF TypeOK, QueuesTyped
  <2>2. 1 \in 1..(Len(packetTypeQueue) + 1)
    BY <2>1
  <2>3. frames \in [1..(Len(packetTypeQueue) + 1) -> Nat]
    BY <1>3 DEF Placed
  <2> QED BY <2>2, <2>3
<1>5. frames[1] + (IF publisher' = "mark" THEN 1 ELSE 0) <= emitted'
  <2>1. frames[1] + (IF publisher = "mark" THEN 1 ELSE 0) <= emitted
    BY <1>3 DEF Placed
  <2> QED BY <1>2, <1>4, <2>1
<1>6. Placed(frames, marks)'
  BY <1>1, <1>3, <1>5 DEF Placed
<1>7. AudioNotAhead'
  <2>1. AudioNotAhead
    BY DEF PlaceInv
  <2> QED BY <1>1, <1>2, <2>1 DEF AudioNotAhead
<1>8. \A j \in 1..Len(audioBufferQueue') : audioBufferQueue'[j] <= accepted'
  BY <1>1 DEF PlaceInv
<1> QED BY <1>6, <1>7, <1>8 DEF PlaceInv

\* A fragment at the end of its queue changes no other fragment's place.
LEMMA FragmentKeeps ==
  ASSUME TypeOK, PlaceInv, audioBufferQueue' = Append(audioBufferQueue, accepted),
         UNCHANGED <<packetTypeQueue, accepted, publisher, emitted, sender, audioBuffer>>
  PROVE  PlaceInv'
<1>1. PICK frames, marks : Placed(frames, marks)
  BY DEF PlaceInv
<1>2. audioBufferQueue \in Seq(Nat) /\ Len(audioBufferQueue) \in Nat /\ accepted \in Nat
  BY LenProperties DEF TypeOK, QueuesTyped
<1>3. /\ Len(audioBufferQueue') = Len(audioBufferQueue) + 1
      /\ audioBufferQueue'[Len(audioBufferQueue) + 1] = accepted
      /\ \A j \in 1..Len(audioBufferQueue) : audioBufferQueue'[j] = audioBufferQueue[j]
  BY <1>2, AppendProperties
<1>4. ASSUME NEW i \in 1..Len(packetTypeQueue), packetTypeQueue[i] = PACKET_AUDIO
      PROVE  audioBufferQueue'[marks[i + 1] - marks[1]] <= frames[i]
  <2> DEFINE j == marks[i + 1] - marks[1]
  <2>1. j \in 1..Len(audioBufferQueue)
    BY <1>1, <1>4, PlacedWithin
  <2>2. audioBufferQueue[j] <= frames[i]
    BY <1>1, <1>4 DEF Placed
  <2> HIDE DEF j
  <2>3. audioBufferQueue'[j] <= frames[i]
    BY <1>3, <2>1, <2>2
  <2> QED BY <2>3 DEF j
<1>5. marks[Len(packetTypeQueue) + 1] - marks[1] <= Len(audioBufferQueue')
  <2>1. marks[Len(packetTypeQueue) + 1] - marks[1] <= Len(audioBufferQueue)
    BY <1>1 DEF Placed
  <2>2. marks[Len(packetTypeQueue) + 1] \in Nat /\ marks[1] \in Nat
    <3>1. Len(packetTypeQueue) \in Nat
      BY LenProperties DEF TypeOK, QueuesTyped
    <3>2. marks \in [1..(Len(packetTypeQueue) + 1) -> Nat]
      BY <1>1 DEF Placed
    <3>3. 1 \in 1..(Len(packetTypeQueue) + 1) /\ Len(packetTypeQueue) + 1 \in 1..(Len(packetTypeQueue) + 1)
      BY <3>1
    <3> QED BY <3>2, <3>3
  <2> QED BY <1>2, <1>3, <2>1, <2>2
<1>6. Placed(frames, marks)'
  BY <1>1, <1>4, <1>5 DEF Placed
<1>7. \A j \in 1..Len(audioBufferQueue') : audioBufferQueue'[j] <= accepted
  <2> SUFFICES ASSUME NEW j \in 1..Len(audioBufferQueue') PROVE audioBufferQueue'[j] <= accepted
    OBVIOUS
  <2>1. j \in 1..Len(audioBufferQueue) \/ j = Len(audioBufferQueue) + 1
    BY <1>2, <1>3
  <2> QED BY <1>2, <1>3, <2>1 DEF PlaceInv
<1> QED BY <1>6, <1>7 DEF PlaceInv, AudioNotAhead

\* An audio marker is behind the fragments that came before it.
LEMMA AudioMarkerKeeps ==
  ASSUME TypeOK, PlaceInv, audioBufferQueue' = Append(audioBufferQueue, accepted),
         packetTypeQueue' = Append(packetTypeQueue, PACKET_AUDIO),
         UNCHANGED <<accepted, publisher, emitted, sender, audioBuffer>>
  PROVE  PlaceInv'
<1> DEFINE q == packetTypeQueue
           n == Len(packetTypeQueue)
           a == audioBufferQueue
           m == Len(audioBufferQueue)
<1>1. PICK frames, marks : Placed(frames, marks)
  BY DEF PlaceInv
<1>2. /\ q \in Seq({PACKET_VIDEO, PACKET_AUDIO}) /\ n \in Nat /\ accepted \in Nat
      /\ a \in Seq(Nat) /\ m \in Nat
  BY LenProperties DEF TypeOK, QueuesTyped
<1>3. frames \in [1..(n + 1) -> Nat] /\ marks \in [1..(n + 1) -> Nat]
  BY <1>1 DEF Placed
<1>4. /\ Len(q') = n + 1 /\ q'[n + 1] = PACKET_AUDIO
      /\ \A i \in 1..n : q'[i] = q[i]
  BY <1>2, AppendProperties
<1>5. /\ Len(a') = m + 1 /\ a'[m + 1] = accepted
      /\ \A j \in 1..m : a'[j] = a[j]
  BY <1>2, AppendProperties
<1>6. \A j \in 1..(m + 1) : a'[j] <= accepted
  <2> SUFFICES ASSUME NEW j \in 1..(m + 1) PROVE a'[j] <= accepted
    OBVIOUS
  <2>1. j \in 1..m \/ j = m + 1
    BY <1>2
  <2> HIDE DEF m
  <2>2. \A k \in 1..m : a[k] <= accepted
    BY DEF PlaceInv, m
  <2>3. CASE j \in 1..m
    BY <1>5, <2>2, <2>3, Zenon
  <2>4. CASE j = m + 1
    <3>1. accepted <= accepted
      BY <1>2
    <3> QED BY <1>5, <2>4, <3>1, Zenon
  <2> QED BY <2>1, <2>3, <2>4, Zenon
<1>7. /\ frames[n + 1] = accepted /\ marks[n + 1] - marks[1] <= m
      /\ frames[1] + (IF publisher = "mark" THEN 1 ELSE 0) <= emitted
  BY <1>1 DEF Placed
<1>8. \A i \in 1..n : packetTypeQueue[i] = PACKET_AUDIO => marks[i + 1] - marks[1] \in 1..m
  BY <1>1, PlacedWithin
<1> HIDE DEF q, n, a, m
<1>9. marks[n + 1] \in Nat /\ marks[1] \in Nat /\ 1 \in 1..(n + 1) /\ n + 1 \in 1..(n + 1)
  BY <1>2, <1>3
<1>10. PICK fs \in [1..(n + 2) -> Nat] : fs[n + 2] = accepted /\ \A k \in 1..(n + 1) : fs[k] = frames[k]
  <2>1. n \in Nat /\ frames \in [1..(n + 1) -> Nat]
    BY <1>2, <1>3
  <2>2. \A x \in Nat : \E f \in [1..(n + 2) -> Nat] : f[n + 2] = x /\ \A k \in 1..(n + 1) : f[k] = frames[k]
    BY <2>1, Extended, Zenon
  <2> QED BY <1>2, <2>2, Zenon
<1>11. PICK ms \in [1..(n + 2) -> Nat] : ms[n + 2] = marks[n + 1] + 1 /\ \A k \in 1..(n + 1) : ms[k] = marks[k]
  <2>1. n \in Nat /\ marks \in [1..(n + 1) -> Nat]
    BY <1>2, <1>3
  <2>2. \A x \in Nat : \E f \in [1..(n + 2) -> Nat] : f[n + 2] = x /\ \A k \in 1..(n + 1) : f[k] = marks[k]
    BY <2>1, Extended, Zenon
  <2>3. marks[n + 1] + 1 \in Nat
    BY <1>9
  <2> QED BY <2>2, <2>3, Zenon
<1>12. (n + 1) + 1 = n + 2 /\ \A i \in 1..(n + 1) : i \in 1..n \/ i = n + 1
  BY <1>2
<1>13. \A i \in 1..n : i \in 1..(n + 1) /\ i + 1 \in 1..(n + 1)
  BY <1>2
<1>14. \A k, l \in 1..(n + 2) : k <= l => ms[k] <= ms[l]
  <2> SUFFICES ASSUME NEW k \in 1..(n + 2), NEW l \in 1..(n + 2), k <= l PROVE ms[k] <= ms[l]
    OBVIOUS
  <2>1. CASE l \in 1..(n + 1)
    <3>1. k \in 1..(n + 1)
      BY <1>2, <2>1
    <3>2. marks[k] <= marks[l]
      BY <1>1, <2>1, <3>1 DEF Placed, n
    <3> QED BY <1>11, <2>1, <3>1, <3>2
  <2>2. CASE l = n + 2 /\ k \in 1..(n + 1)
    <3>1. k <= n + 1
      BY <1>2, <2>2
    <3>2. marks[k] <= marks[n + 1] /\ marks[k] \in Nat
      BY <1>1, <1>3, <1>9, <2>2, <3>1 DEF Placed, n
    <3>3. ms[k] = marks[k] /\ ms[l] = marks[n + 1] + 1
      BY <1>11, <2>2
    <3> QED BY <1>9, <3>2, <3>3
  <2>3. CASE l = n + 2 /\ k = n + 2
    <3>1. ms[n + 2] \in Nat
      BY <1>9, <1>11
    <3> QED BY <2>3, <3>1
  <2>4. (l \in 1..(n + 1) \/ l = n + 2) /\ (k \in 1..(n + 1) \/ k = n + 2)
    BY <1>2
  <2> QED BY <2>1, <2>2, <2>3, <2>4
<1>15. ASSUME NEW i \in 1..(n + 1), q'[i] = PACKET_VIDEO
       PROVE  fs[i + 1] = fs[i] + 1 /\ ms[i + 1] = ms[i]
  <2>1. i \in 1..n
    BY <1>4, <1>12, <1>15 DEF PACKET_VIDEO, PACKET_AUDIO
  <2>2. frames[i + 1] = frames[i] + 1 /\ marks[i + 1] = marks[i]
    BY <1>1, <1>4, <1>15, <2>1 DEF Placed, n, q
  <2> QED BY <1>10, <1>11, <1>13, <2>1, <2>2
<1>16. ASSUME NEW i \in 1..(n + 1), q'[i] = PACKET_AUDIO
       PROVE  fs[i + 1] = fs[i] /\ ms[i + 1] = ms[i] + 1 /\ a'[ms[i + 1] - ms[1]] <= fs[i]
  <2>1. CASE i \in 1..n
    <3>1. /\ frames[i + 1] = frames[i] /\ marks[i + 1] = marks[i] + 1
          /\ a[marks[i + 1] - marks[1]] <= frames[i]
      BY <1>1, <1>4, <1>16, <2>1 DEF Placed, n, q, a
    <3>2. marks[i + 1] - marks[1] \in 1..m
      BY <1>4, <1>8, <1>16, <2>1 DEF q
    <3>3. a'[marks[i + 1] - marks[1]] <= frames[i]
      BY <1>5, <3>1, <3>2
    <3> QED BY <1>9, <1>10, <1>11, <1>13, <2>1, <3>1, <3>3
  <2>2. CASE i = n + 1
    <3>1. fs[i] = accepted /\ fs[i + 1] = accepted
      BY <1>7, <1>9, <1>10, <1>12, <2>2
    <3>2. ms[i] = marks[n + 1] /\ ms[i + 1] = marks[n + 1] + 1 /\ ms[1] = marks[1]
      BY <1>9, <1>11, <1>12, <2>2
    <3>3. marks[1] <= marks[n + 1]
      <4>1. 1 <= n + 1
        BY <1>2
      <4> QED BY <1>1, <1>9, <4>1 DEF Placed, n
    <3>4. ms[i + 1] - ms[1] \in 1..(m + 1)
      <4>1. \A x, y, z \in Nat : y <= x /\ x - y <= z => (x + 1) - y \in 1..(z + 1)
        OBVIOUS
      <4>2. (marks[n + 1] + 1) - marks[1] \in 1..(m + 1)
        BY <1>2, <1>7, <1>9, <3>3, <4>1, Zenon
      <4>3. ms[i + 1] - ms[1] = (marks[n + 1] + 1) - marks[1]
        BY <3>2, Zenon
      <4> QED BY <4>2, <4>3, Zenon
    <3> QED BY <1>6, <3>1, <3>2, <3>4
  <2> QED BY <1>12, <2>1, <2>2
<1>17. Placed(fs, ms)'
  <2>1. fs[n + 2] = accepted' /\ ms[n + 2] - ms[1] <= Len(audioBufferQueue')
    <3>1. ms[n + 2] = marks[n + 1] + 1 /\ ms[1] = marks[1]
      BY <1>9, <1>11
    <3>2. Len(audioBufferQueue') = m + 1
      BY <1>5 DEF a
    <3>3. \A x, y, z \in Nat : x - y <= z => (x + 1) - y <= z + 1
      OBVIOUS
    <3>4. (marks[n + 1] + 1) - marks[1] <= m + 1
      BY <1>2, <1>7, <1>9, <3>3, Zenon
    <3>5. fs[n + 2] = accepted'
      BY <1>10, Zenon
    <3> QED BY <3>1, <3>2, <3>4, <3>5, Zenon
  <2>2. fs[1] + (IF publisher' = "mark" THEN 1 ELSE 0) <= emitted'
    BY <1>7, <1>9, <1>10
  <2>3. Len(packetTypeQueue') = n + 1 /\ packetTypeQueue' = q' /\ audioBufferQueue' = a'
    BY <1>4 DEF q, a
  <2> QED BY <1>10, <1>11, <1>12, <1>14, <1>15, <1>16, <2>1, <2>2, <2>3 DEF Placed
<1>18. \A j \in 1..Len(audioBufferQueue') : audioBufferQueue'[j] <= accepted'
  BY <1>5, <1>6 DEF a
<1> QED BY <1>17, <1>18 DEF PlaceInv, AudioNotAhead

\* A video marker that is taken is that of a frame that was emitted.
LEMMA VideoMarkerTaken ==
  ASSUME TypeOK, PlaceInv, publisher = "mark", publisher' = "lock",
         packetTypeQueue # <<>>, Head(packetTypeQueue) = PACKET_VIDEO,
         packetTypeQueue' = Tail(packetTypeQueue),
         UNCHANGED <<audioBufferQueue, accepted, emitted, sender, audioBuffer>>
  PROVE  PlaceInv'
<1> DEFINE q == packetTypeQueue
           n == Len(packetTypeQueue)
<1>1. PICK frames, marks : Placed(frames, marks)
  BY DEF PlaceInv
<1>2. q \in Seq({PACKET_VIDEO, PACKET_AUDIO}) /\ n \in Nat /\ n >= 1 /\ emitted \in Nat
  <2>1. q \in Seq({PACKET_VIDEO, PACKET_AUDIO}) /\ emitted \in Nat
    BY DEF TypeOK, QueuesTyped, PublishingTyped
  <2>2. Len(q) \in Nat /\ Len(q) >= 1
    BY <2>1
  <2> QED BY <2>1, <2>2
<1>3. frames \in [1..(n + 1) -> Nat] /\ marks \in [1..(n + 1) -> Nat]
  BY <1>1 DEF Placed
<1>4. /\ q[1] = PACKET_VIDEO /\ Len(q') = n - 1
      /\ \A i \in 1..(n - 1) : q'[i] = q[i + 1]
  BY <1>2, HeadTailProperties
<1>5. /\ frames[1 + 1] = frames[1] + 1 /\ marks[1 + 1] = marks[1]
      /\ frames[1] + 1 <= emitted
      /\ frames[n + 1] = accepted /\ marks[n + 1] - marks[1] <= Len(audioBufferQueue)
  <2>1. 1 \in 1..n
    BY <1>2
  <2>2. frames[1 + 1] = frames[1] + 1 /\ marks[1 + 1] = marks[1]
    BY <1>1, <1>4, <2>1 DEF Placed
  <2>3. frames[1] + 1 <= emitted
    BY <1>1 DEF Placed
  <2>4. frames[n + 1] = accepted /\ marks[n + 1] - marks[1] <= Len(audioBufferQueue)
    BY <1>1 DEF Placed
  <2> QED BY <2>2, <2>3, <2>4
<1> HIDE DEF q, n
<1>6. PICK fs \in [1..n -> Nat] : \A k \in 1..n : fs[k] = frames[k + 1]
  BY <1>2, <1>3, Shifted, Zenon
<1>7. PICK ms \in [1..n -> Nat] : \A k \in 1..n : ms[k] = marks[k + 1]
  BY <1>2, <1>3, Shifted, Zenon
<1>8. (n - 1) + 1 = n /\ 1 \in 1..n /\ n \in 1..n
  BY <1>2
<1>9. \A k \in 1..n : k + 1 \in 1..(n + 1)
  BY <1>2
<1>10. \A i \in 1..(n - 1) : i \in 1..n /\ i + 1 \in 1..n
  BY <1>2
<1>11. \A k, l \in 1..n : k <= l => ms[k] <= ms[l]
  <2> SUFFICES ASSUME NEW k \in 1..n, NEW l \in 1..n, k <= l PROVE ms[k] <= ms[l]
    OBVIOUS
  <2>1. k + 1 <= l + 1 /\ k + 1 \in 1..(n + 1) /\ l + 1 \in 1..(n + 1)
    BY <1>2, <1>9
  <2>2. marks[k + 1] <= marks[l + 1]
    BY <1>1, <2>1 DEF Placed, n
  <2> QED BY <1>7, <2>2
<1>12. ASSUME NEW i \in 1..(n - 1), q'[i] = PACKET_VIDEO
       PROVE  fs[i + 1] = fs[i] + 1 /\ ms[i + 1] = ms[i]
  <2> DEFINE l == i + 1
  <2>1. l \in 1..n /\ q[l] = PACKET_VIDEO
    BY <1>4, <1>10, <1>12
  <2>2. fs[i] = frames[l] /\ ms[i] = marks[l]
    BY <1>6, <1>7, <1>10
  <2> HIDE DEF l
  <2>3. frames[l + 1] = frames[l] + 1 /\ marks[l + 1] = marks[l]
    BY <1>1, <2>1 DEF Placed, n, q
  <2>4. fs[l] = fs[i] + 1 /\ ms[l] = ms[i]
    BY <1>6, <1>7, <2>1, <2>2, <2>3
  <2> QED BY <2>4 DEF l
<1>13. ASSUME NEW i \in 1..(n - 1), q'[i] = PACKET_AUDIO
       PROVE  fs[i + 1] = fs[i] /\ ms[i + 1] = ms[i] + 1 /\ audioBufferQueue[ms[i + 1] - ms[1]] <= fs[i]
  <2> DEFINE l == i + 1
  <2>1. l \in 1..n /\ q[l] = PACKET_AUDIO
    BY <1>4, <1>10, <1>13
  <2>2. fs[i] = frames[l] /\ ms[i] = marks[l]
    BY <1>6, <1>7, <1>10
  <2> HIDE DEF l
  <2>3. /\ frames[l + 1] = frames[l] /\ marks[l + 1] = marks[l] + 1
        /\ audioBufferQueue[marks[l + 1] - marks[1]] <= frames[l]
    BY <1>1, <2>1 DEF Placed, n, q
  <2>4. fs[l] = fs[i] /\ ms[l] = ms[i] + 1 /\ ms[l] = marks[l + 1] /\ ms[1] = marks[1]
    BY <1>5, <1>6, <1>7, <1>8, <2>1, <2>2, <2>3
  <2>5. audioBufferQueue[ms[l] - ms[1]] <= fs[i]
    BY <2>2, <2>3, <2>4
  <2> QED BY <2>4, <2>5 DEF l
<1>14. Placed(fs, ms)'
  <2>1. fs[n] = accepted' /\ ms[n] - ms[1] <= Len(audioBufferQueue')
    BY <1>5, <1>6, <1>7, <1>8
  <2>2. fs[1] + (IF publisher' = "mark" THEN 1 ELSE 0) <= emitted'
    <3>1. fs[1] = frames[1] + 1 /\ fs[1] \in Nat
      BY <1>5, <1>6, <1>8
    <3> QED BY <1>2, <1>5, <3>1
  <2>3. Len(packetTypeQueue') = n - 1 /\ packetTypeQueue' = q'
    BY <1>4 DEF q
  <2> QED BY <1>6, <1>7, <1>8, <1>11, <1>12, <1>13, <2>1, <2>2, <2>3 DEF Placed
<1> QED BY <1>14 DEF PlaceInv, AudioNotAhead

\* The buffer an audio marker stands for goes out behind the frames before.
LEMMA AudioTaken ==
  ASSUME TypeOK, PlaceInv, TakeAudio
  PROVE  PlaceInv'
<1> DEFINE q == packetTypeQueue
           n == Len(packetTypeQueue)
           a == audioBufferQueue
           m == Len(audioBufferQueue)
<1>0. q # <<>> /\ Head(q) = PACKET_AUDIO /\ q' = Tail(q)
  BY DEF TakeAudio, AudioIsNext
<1>1. PICK frames, marks : Placed(frames, marks)
  BY DEF PlaceInv
<1>2. /\ q \in Seq({PACKET_VIDEO, PACKET_AUDIO}) /\ n \in Nat /\ n >= 1 /\ emitted \in Nat
      /\ a \in Seq(Nat) /\ m \in Nat
  <2>1. q \in Seq({PACKET_VIDEO, PACKET_AUDIO}) /\ a \in Seq(Nat) /\ emitted \in Nat
    BY DEF TypeOK, QueuesTyped, PublishingTyped
  <2>2. Len(q) \in Nat /\ Len(q) >= 1
    BY <1>0, <2>1
  <2>3. Len(a) \in Nat
    BY <2>1, LenProperties
  <2> QED BY <2>1, <2>2, <2>3
<1>3. frames \in [1..(n + 1) -> Nat] /\ marks \in [1..(n + 1) -> Nat]
  BY <1>1 DEF Placed
<1>4. /\ q[1] = PACKET_AUDIO /\ Len(q') = n - 1
      /\ \A i \in 1..(n - 1) : q'[i] = q[i + 1]
  BY <1>0, <1>2, HeadTailProperties
<1>5. \A i \in 1..n : q[i] = PACKET_AUDIO => marks[i + 1] - marks[1] \in 1..m
  BY <1>1, PlacedWithin
<1>6. /\ frames[1 + 1] = frames[1] /\ marks[1 + 1] = marks[1] + 1
      /\ a[marks[1 + 1] - marks[1]] <= frames[1]
      /\ frames[1] + (IF publisher = "mark" THEN 1 ELSE 0) <= emitted
      /\ frames[n + 1] = accepted /\ marks[n + 1] - marks[1] <= m
  <2>1. 1 \in 1..n
    BY <1>2
  <2>2. /\ frames[1 + 1] = frames[1] /\ marks[1 + 1] = marks[1] + 1
        /\ a[marks[1 + 1] - marks[1]] <= frames[1]
    BY <1>1, <1>4, <2>1 DEF Placed
  <2>3. /\ frames[1] + (IF publisher = "mark" THEN 1 ELSE 0) <= emitted
        /\ frames[n + 1] = accepted /\ marks[n + 1] - marks[1] <= m
    BY <1>1 DEF Placed
  <2> QED BY <2>2, <2>3
<1>7. \A j \in 1..m : a[j] <= accepted
  BY DEF PlaceInv
<1> HIDE DEF q, n, a, m
<1>8. (n - 1) + 1 = n /\ 1 \in 1..n /\ n \in 1..n /\ 1 \in 1..(n + 1)
      /\ 1 + 1 \in 1..(n + 1) /\ n + 1 \in 1..(n + 1)
  BY <1>2
<1>9. frames[1] \in Nat /\ marks[1] \in Nat /\ marks[1 + 1] - marks[1] = 1
  <2>1. frames[1] \in Nat /\ marks[1] \in Nat
    BY <1>3, <1>8
  <2> QED BY <1>6, <2>1
<1>10. m >= 1 /\ a[1] <= frames[1] /\ a[1] \in Nat
  <2>1. 1 \in 1..m
    BY <1>4, <1>5, <1>8, <1>9
  <2>2. a[1] \in Nat
    BY <1>2, <2>1, ElementOfSeq DEF a, m
  <2> QED BY <1>2, <1>6, <1>9, <2>1, <2>2
<1>11. /\ a # <<>> /\ Head(a) = a[1] /\ Len(Tail(a)) = m - 1
       /\ \A j \in 1..(m - 1) : Tail(a)[j] = a[j + 1]
  BY <1>2, <1>10, HeadTailProperties DEF a, m
<1>12. /\ sender' = "parse" /\ audioBuffer' = a[1] /\ a' = Tail(a)
       /\ UNCHANGED <<accepted, emitted, publisher>>
  BY <1>11 DEF TakeAudio, a, publishing, demuxer
<1>13. PICK fs \in [1..n -> Nat] : \A k \in 1..n : fs[k] = frames[k + 1]
  BY <1>2, <1>3, Shifted, Zenon
<1>14. PICK ms \in [1..n -> Nat] : \A k \in 1..n : ms[k] = marks[k + 1]
  BY <1>2, <1>3, Shifted, Zenon
<1>15. \A k \in 1..n : k + 1 \in 1..(n + 1)
  BY <1>2
<1>16. \A i \in 1..(n - 1) : i \in 1..n /\ i + 1 \in 1..n
  BY <1>2
<1>17. \A k, l \in 1..n : k <= l => ms[k] <= ms[l]
  <2> SUFFICES ASSUME NEW k \in 1..n, NEW l \in 1..n, k <= l PROVE ms[k] <= ms[l]
    OBVIOUS
  <2>1. k + 1 <= l + 1 /\ k + 1 \in 1..(n + 1) /\ l + 1 \in 1..(n + 1)
    BY <1>2, <1>15
  <2>2. marks[k + 1] <= marks[l + 1]
    BY <1>1, <2>1 DEF Placed, n
  <2> QED BY <1>14, <2>2
<1>18. ASSUME NEW i \in 1..(n - 1), q'[i] = PACKET_VIDEO
       PROVE  fs[i + 1] = fs[i] + 1 /\ ms[i + 1] = ms[i]
  <2> DEFINE l == i + 1
  <2>1. l \in 1..n /\ q[l] = PACKET_VIDEO
    BY <1>4, <1>16, <1>18
  <2>2. fs[i] = frames[l] /\ ms[i] = marks[l]
    BY <1>13, <1>14, <1>16
  <2> HIDE DEF l
  <2>3. frames[l + 1] = frames[l] + 1 /\ marks[l + 1] = marks[l]
    BY <1>1, <2>1 DEF Placed, n, q
  <2>4. fs[l] = fs[i] + 1 /\ ms[l] = ms[i]
    BY <1>13, <1>14, <2>1, <2>2, <2>3
  <2> QED BY <2>4 DEF l
<1>19. ASSUME NEW i \in 1..(n - 1), q'[i] = PACKET_AUDIO
       PROVE  fs[i + 1] = fs[i] /\ ms[i + 1] = ms[i] + 1 /\ a'[ms[i + 1] - ms[1]] <= fs[i]
  <2> DEFINE l == i + 1
             j == marks[l + 1] - marks[1]
  <2>1. l \in 1..n /\ q[l] = PACKET_AUDIO
    BY <1>4, <1>16, <1>19
  <2>2. fs[i] = frames[l] /\ ms[i] = marks[l]
    BY <1>13, <1>14, <1>16
  <2>a. 1 + 1 <= l
    BY <1>2
  <2> HIDE DEF l
  <2>3. /\ frames[l + 1] = frames[l] /\ marks[l + 1] = marks[l] + 1
        /\ a[marks[l + 1] - marks[1]] <= frames[l]
    BY <1>1, <2>1 DEF Placed, n, q, a
  <2>4. /\ fs[l] = fs[i] /\ ms[l] = ms[i] + 1 /\ ms[l] = marks[l + 1] /\ ms[1] = marks[1 + 1]
    BY <1>8, <1>13, <1>14, <2>1, <2>2, <2>3
  <2>5. marks[1 + 1] <= marks[l] /\ marks[l] \in Nat
    <3>1. l \in 1..(n + 1)
      BY <1>2, <2>1
    <3> QED BY <1>1, <1>3, <1>8, <2>a, <3>1 DEF Placed, n
  <2>6. j \in 1..m
    BY <1>5, <2>1
  <2>7. j >= 2
    <3>1. \A x, y \in Nat : y + 1 <= x => (x + 1) - y >= 2
      OBVIOUS
    <3>2. marks[1] + 1 <= marks[l]
      BY <1>6, <2>5
    <3> QED BY <1>9, <2>3, <2>5, <3>1, <3>2, Zenon
  <2> HIDE DEF j
  <2>8. j - 1 \in 1..(m - 1) /\ (j - 1) + 1 = j
    BY <1>2, <2>6, <2>7
  <2>9. a'[j - 1] = a[j]
    BY <1>11, <1>12, <2>8
  <2>10. ms[l] - ms[1] = j - 1
    <3>1. \A x, y \in Nat : x - (y + 1) = (x - y) - 1
      OBVIOUS
    <3>2. marks[l + 1] \in Nat
      BY <1>3, <1>15, <2>1
    <3>3. marks[l + 1] - (marks[1] + 1) = (marks[l + 1] - marks[1]) - 1
      BY <1>9, <3>1, <3>2, Zenon
    <3> QED BY <1>6, <2>4, <3>3, Zenon DEF j
  <2>11. a[j] <= frames[l]
    BY <2>3 DEF j
  <2>12. a'[ms[l] - ms[1]] <= fs[i]
    BY <2>2, <2>9, <2>10, <2>11
  <2> QED BY <2>4, <2>12 DEF l
<1>20. Placed(fs, ms)'
  <2>1. fs[n] = accepted'
    BY <1>6, <1>8, <1>12, <1>13
  <2>2. ms[n] - ms[1] <= Len(audioBufferQueue')
    <3>1. \A x, y, z \in Nat : x - y <= z => x - (y + 1) <= z - 1
      OBVIOUS
    <3>2. marks[n + 1] \in Nat
      BY <1>3, <1>8
    <3>3. marks[n + 1] - (marks[1] + 1) <= m - 1
      BY <1>2, <1>6, <1>9, <3>1, <3>2, Zenon
    <3>4. ms[n] = marks[n + 1] /\ ms[1] = marks[1] + 1
      BY <1>6, <1>8, <1>14
    <3>5. Len(audioBufferQueue') = m - 1
      BY <1>11, <1>12 DEF a
    <3> QED BY <3>3, <3>4, <3>5, Zenon
  <2>3. fs[1] + (IF publisher' = "mark" THEN 1 ELSE 0) <= emitted'
    BY <1>6, <1>8, <1>12, <1>13
  <2>4. Len(packetTypeQueue') = n - 1 /\ packetTypeQueue' = q' /\ audioBufferQueue' = a'
    BY <1>4 DEF q, a
  <2> QED BY <1>8, <1>13, <1>14, <1>17, <1>18, <1>19, <2>1, <2>2, <2>3, <2>4 DEF Placed
<1>21. \A j \in 1..Len(audioBufferQueue') : audioBufferQueue'[j] <= accepted'
  <2> SUFFICES ASSUME NEW j \in 1..(m - 1) PROVE a'[j] <= accepted
    BY <1>11, <1>12 DEF a
  <2>1. j + 1 \in 1..m
    BY <1>2
  <2>2. a[j + 1] <= accepted
    BY <1>7, <2>1
  <2> QED BY <1>11, <1>12, <2>2, Zenon
<1>22. audioBuffer' <= emitted'
  <2>1. frames[1] <= emitted
    <3>1. \A x, y \in Nat : x + (IF publisher = "mark" THEN 1 ELSE 0) <= y => x <= y
      OBVIOUS
    <3> QED BY <1>2, <1>6, <1>9, <3>1, ZenonT(60)
  <2>2. \A x, y, z \in Nat : x <= y /\ y <= z => x <= z
    OBVIOUS
  <2>3. emitted \in Nat
    BY <1>2
  <2>4. a[1] <= emitted
    BY <1>9, <1>10, <2>1, <2>2, <2>3, Zenon
  <2> QED BY <1>12, <2>4, Zenon
<1> QED BY <1>20, <1>21, <1>22 DEF PlaceInv, AudioNotAhead

LEMMA InitPlaceInv == Init => PlaceInv
<1> SUFFICES ASSUME Init PROVE PlaceInv
  OBVIOUS
<1>1. /\ packetTypeQueue = <<>> /\ audioBufferQueue = <<>> /\ accepted = 0 /\ emitted = 0
      /\ publisher # "mark" /\ sender = "idle"
  BY DEF Init
<1>2. Len(packetTypeQueue) = 0 /\ Len(audioBufferQueue) = 0 /\ 0 + 1 = 1 /\ 1..0 = {} /\ 1..1 = {1}
  BY <1>1
<1>3. PICK f \in [1..1 -> Nat] : f[1] = 0
  <2>1. [k \in 1..1 |-> 0] \in [1..1 -> Nat] /\ [k \in 1..1 |-> 0][1] = 0
    OBVIOUS
  <2> QED BY <2>1
<1>4. f[1] - f[1] <= 0 /\ f[1] + 0 <= 0 /\ \A k, l \in 1..1 : k <= l => f[k] <= f[l]
  BY <1>3
<1>5. Placed(f, f)
  BY <1>1, <1>2, <1>3, <1>4 DEF Placed
<1>6. \E frames, marks : Placed(frames, marks)
  BY <1>5
<1> QED BY <1>1, <1>2, <1>6 DEF PlaceInv, AudioNotAhead

LEMMA NextPlaceInv == TypeOK /\ PlaceInv /\ [Next]_vars => PlaceInv'
<1> SUFFICES ASSUME TypeOK, PlaceInv, [Next]_vars PROVE PlaceInv'
  OBVIOUS
<1>0. ASSUME UNCHANGED <<packetTypeQueue, audioBufferQueue, accepted, audio>>,
             \/ UNCHANGED <<publisher, emitted>>
             \/ emitted' = emitted /\ publisher' # "mark"
             \/ emitted' = emitted + 1 /\ publisher # "mark"
      PROVE  PlaceInv'
  BY <1>0, PlaceUnmoved
<1>1. ASSUME NEW last \in BOOLEAN, OnData(last) PROVE PlaceInv'
  <2>1. UNCHANGED <<audioBufferQueue, publisher, emitted, audio>>
    BY <1>1 DEF OnData, demuxer
  <2>2. CASE UNCHANGED <<packetTypeQueue, accepted>>
    BY <1>0, <2>1, <2>2
  <2>3. CASE packetTypeQueue' = Append(packetTypeQueue, PACKET_VIDEO) /\ accepted' = accepted + 1
    BY <2>1, <2>3, VideoMarkerKeeps DEF audio
  <2> QED BY <1>1, <2>2, <2>3 DEF OnData, AcceptVideo
<1>2. CASE OnAudioDataLocked
  <2>1. UNCHANGED <<accepted, publisher, emitted, audio>>
    BY <1>2 DEF OnAudioDataLocked, publishing, demuxer
  <2>2. CASE AudioQueueFull
    BY <1>0, <1>2, <2>1, <2>2 DEF OnAudioDataLocked
  <2>3. CASE ~AudioQueueFull /\ io # "last audio"
    <3>1. audioBufferQueue' = Append(audioBufferQueue, accepted) /\ packetTypeQueue' = packetTypeQueue
      BY <1>2, <2>3 DEF OnAudioDataLocked
    <3> QED BY <2>1, <3>1, FragmentKeeps DEF audio
  <2>4. CASE ~AudioQueueFull /\ io = "last audio"
    <3>1. /\ audioBufferQueue' = Append(audioBufferQueue, accepted)
          /\ packetTypeQueue' = Append(packetTypeQueue, PACKET_AUDIO)
      BY <1>2, <2>4 DEF OnAudioDataLocked
    <3> QED BY <2>1, <3>1, AudioMarkerKeeps DEF audio
  <2> QED BY <2>2, <2>3, <2>4
<1>3. CASE TakeVideoMarker
  <2>1. /\ publisher = "mark" /\ publisher' = "lock"
        /\ UNCHANGED <<audioBufferQueue, accepted, emitted, audio>>
    BY <1>3 DEF TakeVideoMarker, demuxer
  <2>2. CASE packetTypeQueue # <<>> /\ Head(packetTypeQueue) = PACKET_VIDEO
    <3>1. packetTypeQueue' = Tail(packetTypeQueue)
      BY <1>3, <2>2 DEF TakeVideoMarker
    <3> QED BY <2>1, <2>2, <3>1, VideoMarkerTaken DEF audio
  <2>3. CASE ~(packetTypeQueue # <<>> /\ Head(packetTypeQueue) = PACKET_VIDEO)
    <3>1. packetTypeQueue' = packetTypeQueue
      BY <1>3, <2>3 DEF TakeVideoMarker
    <3> QED BY <1>0, <2>1, <3>1
  <2> QED BY <2>2, <2>3
<1>4. CASE TakeAudio
  BY <1>4, AudioTaken
<1>5. CASE ReadFrame \/ SendFrame
  <2>1. UNCHANGED <<queues, audio>> /\ publisher # "mark" /\ emitted' = emitted + 1
    BY <1>5 DEF ReadFrame, SendFrame, Goto
  <2> QED BY <1>0, <2>1 DEF queues
<1>6. CASE ReadStep
  <2>1. UNCHANGED <<packetTypeQueue, audioBufferQueue, accepted, audio, emitted>>
    BY <1>6 DEF ReadStep, ReadWaits, ReadStopped, ReadFragment, ReadReturns, queues, demuxer
  <2>2. publisher' = publisher \/ publisher' # "mark"
    BY <1>6 DEF ReadStep, ReadWaits, ReadStopped, ReadFragment
  <2> QED BY <1>0, <2>1, <2>2
<1>7. CASE (AvFormatStep \/ ParserStep \/ EndOfRun) /\ ~TakeVideoMarker /\ ~ReadFrame /\ ~SendFrame
  <2>1. UNCHANGED <<queues, audio>> /\ publisher' # "mark"
    BY <1>7 DEF AvFormatStep, ProbeFails, ProbeSucceeds, SetUpFails, SetUpOutput, TryToAddAudioStream,
      OpenFails, OpenOutput, ReadFrameFails, LockContext, WriteVideo, EndSending, CloseOutput,
      ParserStep, ConnectFails, Connect, SendFails, FragmentDone, EndOfRun, Goto, Fails
  <2>2. emitted' = emitted
    BY <1>7 DEF AvFormatStep, ProbeFails, ProbeSucceeds, SetUpFails, SetUpOutput, TryToAddAudioStream,
      OpenFails, OpenOutput, ReadFrameFails, LockContext, WriteVideo, EndSending, CloseOutput,
      ParserStep, ConnectFails, Connect, SendFails, FragmentDone, EndOfRun, Fails, demuxer
  <2> QED BY <1>0, <2>1, <2>2 DEF queues
<1>8. ASSUME UNCHANGED <<queues, audioBuffer, publisher, emitted>>,
             sender' \in {"parse", "lock", "write"} => sender \in {"parse", "lock", "write"}
      PROVE  PlaceInv'
  <2>0. PICK frames, marks : Placed(frames, marks)
    BY DEF PlaceInv
  <2>1. Placed(frames, marks)'
    BY <1>8, <2>0 DEF Placed, queues
  <2>2. AudioNotAhead'
    BY <1>8 DEF PlaceInv, AudioNotAhead
  <2>3. \A j \in 1..Len(audioBufferQueue') : audioBufferQueue'[j] <= accepted'
    BY <1>8 DEF PlaceInv, queues
  <2> QED BY <2>1, <2>2, <2>3 DEF PlaceInv
<1>9. CASE SendAudio \/ (SenderStep /\ ~TakeAudio)
  <2>1. UNCHANGED <<queues, audioBuffer, publishing>>
    BY <1>9 DEF SendAudio, SenderStep, NoAudioNow, ParseAudio, LockContextForAudio, WriteAudio
  <2>2. sender' \in {"parse", "lock", "write"} => sender \in {"parse", "lock", "write"}
    BY <1>9 DEF SendAudio, SenderStep, NoAudioNow, ParseAudio, LockContextForAudio, WriteAudio
  <2> QED BY <1>8, <2>1, <2>2 DEF publishing, demuxer
<1>10. CASE AddSender \/ RemoveSender \/ SetStopped \/ Join
  <2>1. UNCHANGED <<queues, audio, publisher, emitted>>
    BY <1>10 DEF AddSender, RemoveSender, SetStopped, Join, ControlGoto, demuxer
  <2> QED BY <1>0, <2>1 DEF queues
<1>11. ASSUME NEW last \in BOOLEAN, OnAudioData(last) PROVE PlaceInv'
  <2>1. UNCHANGED <<queues, audio, publisher, emitted>>
    BY <1>11 DEF OnAudioData, publishing, demuxer
  <2> QED BY <1>0, <2>1 DEF queues
<1>12. CASE UNCHANGED vars
  <2>1. UNCHANGED <<queues, audio, publisher, emitted>>
    BY <1>12 DEF vars, publishing, demuxer
  <2> QED BY <1>0, <2>1 DEF queues
<1> QED
  BY <1>1, <1>2, <1>3, <1>4, <1>5, <1>6, <1>7, <1>9, <1>10, <1>11, <1>12 DEF Next, PublisherStep

\* An audio fragment goes out behind the video frames accepted before it,
\* for every limit of the queues, however the three threads interleave and
\* whatever the full queues drop.
THEOREM AudioBehindVideo == Spec => []AudioNotAhead
<1>1. PlaceInv => AudioNotAhead
  BY DEF PlaceInv
<1>2. Spec => []PlaceInv
  BY InitPlaceInv, NextPlaceInv, TypeCorrect, PTL DEF Spec
<1> QED BY <1>1, <1>2, PTL

-----------------------------------------------------------------------------
(* The video's notifications, and the waits of the publishing thread *)

ClientInv ==
  /\ stopped <=> control \in {"joining", "stopped"}
  /\ reader # "out" => publisher \in {"probe", "read", "next"} /\ ~endOfInput
  /\ endOfInput => stopped /\ publisher \notin {"connect", "next", "parse"}
  /\ notified => publisher = "done"
  /\ reader = "waiting" => mediaBufferQueue = <<>>

\* What ManagerModule sees of a client.
seen == <<control, mediaBufferQueue, publisher, reader, endOfInput, notified>>

\* Steps of the publishing thread outside ReadMediaData, up to its report.
LEMMA PublishingSteps ==
  ASSUME TypeOK, ClientInv, AvFormatStep \/ ParserStep
  PROVE  /\ UNCHANGED <<stopped, control, mediaBufferQueue, reader, endOfInput, notified>>
         /\ reader = "out" /\ publisher \notin {"report", "done"} /\ publisher' \notin {"done", "crashed"}
         /\ endOfInput => publisher' \notin {"connect", "next", "parse"}
<1>1. UNCHANGED <<stopped, control, mediaBufferQueue, reader, notified>>
  BY DEF AvFormatStep, ParserStep, ProbeFails, ProbeSucceeds, SetUpFails, SetUpOutput,
     TryToAddAudioStream, OpenFails, OpenOutput, ReadFrame, ReadFrameFails, TakeVideoMarker, LockContext,
     WriteVideo, EndSending, CloseOutput, ConnectFails, Connect, SendFrame, SendFails, FragmentDone, Goto,
     Fails, flags, queues, others
<1>2. endOfInput' = endOfInput
  BY DEF AvFormatStep, ParserStep, ProbeFails, ProbeSucceeds, SetUpFails, SetUpOutput,
     TryToAddAudioStream, OpenFails, OpenOutput, ReadFrame, ReadFrameFails, TakeVideoMarker, LockContext,
     WriteVideo, EndSending, CloseOutput, ConnectFails, Connect, SendFrame, SendFails, FragmentDone,
     Fails, demuxer
<1>3. publisher \in {"probe", "read"} => reader = "out"
  BY DEF ClientInv, AvFormatStep, ParserStep, ProbeFails, ProbeSucceeds, Probed, SetUpFails, SetUpOutput,
     TryToAddAudioStream, OpenFails, OpenOutput, ReadFrame, ReadFrameFails, TakeVideoMarker, LockContext,
     WriteVideo, EndSending, CloseOutput, ConnectFails, Connect, SendFrame, SendFails, FragmentDone, Goto,
     Fails
<1>4. \/ publisher \in {"probe", "set up", "add audio", "open", "read", "mark", "lock", "write", "end",
                        "close"} /\
         publisher' \in {"set up", "add audio", "open", "read", "mark", "lock", "write", "end", "close",
                         "report"}
      \/ publisher \in {"connect", "parse"} /\ publisher' \in {"next", "parse", "report"}
  BY DEF AvFormatStep, ParserStep, ProbeFails, ProbeSucceeds, SetUpFails, SetUpOutput,
     TryToAddAudioStream, OpenFails, OpenOutput, ReadFrame, ReadFrameFails, TakeVideoMarker, LockContext,
     WriteVideo, EndSending, CloseOutput, ConnectFails, Connect, SendFrame, SendFails, FragmentDone, Goto,
     Fails
<1>5. reader = "out"
  BY <1>3, <1>4 DEF ClientInv
<1> QED
  BY <1>1, <1>2, <1>4, <1>5 DEF ClientInv

\* The audio's steps are not seen.
LEMMA AudioSteps ==
  ASSUME SendAudio \/ SenderStep \/ OnAudioDataLocked \/ (\E last \in BOOLEAN : OnAudioData(last))
  PROVE  UNCHANGED <<seen, stopped>>
<1>1. CASE SendAudio \/ SenderStep
  BY <1>1 DEF SendAudio, SenderStep, NoAudioNow, TakeAudio, ParseAudio, LockContextForAudio, WriteAudio,
     seen, publishing, demuxer, others, queues, flags
<1>2. CASE OnAudioDataLocked \/ (\E last \in BOOLEAN : OnAudioData(last))
  BY <1>2 DEF OnAudioDataLocked, OnAudioData, seen, publishing, demuxer, queues, flags
<1> QED BY <1>1, <1>2

\* A fragment that comes leaves the queue with something in it.
LEMMA QueuedAfterOnData ==
  ASSUME TypeOK, NEW last \in BOOLEAN, OnData(last) PROVE mediaBufferQueue' # <<>>
<1>0. mediaBufferQueue \in Seq(BOOLEAN) /\ MaxQueue \in Nat \ {0}
  BY BoundAssumption DEF TypeOK, QueuesTyped
<1>1. CASE Len(mediaBufferQueue) >= MaxQueue
  <2>1. mediaBufferQueue' = mediaBufferQueue
    BY <1>1 DEF OnData
  <2>2. mediaBufferQueue # <<>>
    BY <1>0, <1>1
  <2> QED BY <2>1, <2>2
<1>2. CASE ~(Len(mediaBufferQueue) >= MaxQueue)
  <2>1. mediaBufferQueue' = Append(mediaBufferQueue, ~device.amid)
    BY <1>2 DEF OnData, AcceptVideo
  <2>2. (~device.amid) \in BOOLEAN
    OBVIOUS
  <2> QED BY <1>0, <2>1, <2>2, AppendProperties
<1> QED BY <1>1, <1>2

LEMMA ClientInvInit == Init => ClientInv
BY DEF Init, ClientInv

LEMMA ClientInvNext == TypeOK /\ ClientInv /\ [Next]_vars => ClientInv'
<1> SUFFICES ASSUME TypeOK, ClientInv, [Next]_vars PROVE ClientInv'
  OBVIOUS
<1>1. CASE UNCHANGED <<seen, stopped>>
  BY <1>1 DEF ClientInv, seen
<1>2. CASE ReadWaits
  <2>1. UNCHANGED <<stopped, control, mediaBufferQueue, publisher, endOfInput, notified>>
    BY <1>2 DEF ReadWaits, flags, others, queues, demuxer
  <2> QED BY <1>2, <2>1 DEF ClientInv, ReadWaits, Reading
<1>3. CASE ReadStopped \/ ReadFragment
  <2>1. UNCHANGED <<stopped, control, notified>> /\ reader' = "out" /\ ~endOfInput
    BY <1>3 DEF ReadStopped, ReadFragment, ReadReturns, Reading, flags, others
  <2>2. publisher \in {"probe", "read", "next"}
    BY <1>3 DEF ReadStopped, ReadFragment, ReadReturns, Reading
  <2>3. CASE ReadStopped
    <3>1. \/ publisher = "next" /\ publisher' = "report" /\ endOfInput' = endOfInput
          \/ publisher # "next" /\ publisher' = publisher /\ endOfInput' /\ stopped
      BY <2>3 DEF ReadStopped, StopSeen
    <3> QED BY <2>1, <2>2, <3>1 DEF ClientInv
  <2>4. CASE ReadFragment
    <3>1. endOfInput' = endOfInput
      BY <2>4 DEF ReadFragment
    <3> QED BY <2>1, <2>2, <3>1 DEF ClientInv
  <2> QED BY <1>3, <2>3, <2>4
<1>4. CASE AvFormatStep \/ ParserStep
  BY <1>4, PublishingSteps DEF ClientInv
<1>5. CASE EndOfRun
  <2>1. /\ UNCHANGED <<stopped, control, mediaBufferQueue, reader, endOfInput>>
        /\ publisher = "report" /\ publisher' = "done"
    BY <1>5 DEF EndOfRun, Goto, flags, others, queues, demuxer
  <2> QED BY <2>1 DEF ClientInv
<1>6. ASSUME NEW last \in BOOLEAN, OnData(last) PROVE ClientInv'
  <2>1. UNCHANGED <<stopped, control, publisher, endOfInput, notified>>
    BY <1>6 DEF OnData, flags, demuxer
  <2>2. reader' = IF reader = "waiting" THEN "notified" ELSE reader
    BY <1>6 DEF OnData, NotifyAll
  <2> QED BY <2>1, <2>2 DEF ClientInv
<1>7. CASE SetStopped
  <2>1. /\ UNCHANGED <<mediaBufferQueue, publisher, endOfInput, notified>>
        /\ stopped' /\ control' = "joining"
        /\ reader' = IF reader = "waiting" THEN "notified" ELSE reader
    BY <1>7 DEF SetStopped, ControlGoto, NotifyAll, demuxer, queues
  <2> QED BY <2>1 DEF ClientInv
<1>8. CASE AddSender \/ RemoveSender \/ Join
  <2>1. UNCHANGED <<mediaBufferQueue, publisher, endOfInput, notified, stopped, reader>>
    BY <1>8 DEF AddSender, RemoveSender, Join, ControlGoto, demuxer, queues
  <2>2. control \in {"joining", "stopped"} <=> control' \in {"joining", "stopped"}
    BY <1>8 DEF AddSender, RemoveSender, Join, ControlGoto
  <2> QED BY <2>1, <2>2 DEF ClientInv
<1>9. CASE UNCHANGED vars
  BY <1>1, <1>9 DEF vars, flags, publishing, demuxer, others, queues, seen
<1> QED
  BY <1>1, <1>2, <1>3, <1>4, <1>5, <1>6, <1>7, <1>8, <1>9, AudioSteps DEF Next, PublisherStep, ReadStep

LEMMA ClientInvHolds == Spec => [](TypeOK /\ ClientInv)
<1>1. Init => TypeOK /\ ClientInv
  BY InitTypeOK, ClientInvInit
<1>2. TypeOK /\ ClientInv /\ [Next]_vars => (TypeOK /\ ClientInv)'
  BY NextQueuesTyped, NextFlagsTyped, NextPublishingTyped, NextOthersTyped, ClientInvNext DEF TypeOK
<1> QED BY <1>1, <1>2, PTL DEF Spec

\* The publishing thread does not wait while video is in the queue: the check
\* and the wait of ReadMediaData miss no notification of OnData.
NoVideoWhileWaiting == reader = "waiting" => mediaBufferQueue = <<>>

\* m_lock is held from the check for data to the wait (RtmpClient.cpp:210): what
\* OnData queues is seen, or its notification comes when the thread waits.
THEOREM VideoWakes == Spec => []NoVideoWhileWaiting
<1>1. ClientInv => NoVideoWhileWaiting
  BY DEF ClientInv, NoVideoWhileWaiting
<1> QED BY <1>1, ClientInvHolds, PTL

\* The notification of Stop that came before the wait does not come again.
StrandedForEver ==
  [][control = "joining" /\ reader = "waiting" => control' = "joining" /\ reader' = "waiting"]_vars

\* ReadMediaData looks at m_stopped after its wait and not before it: a
\* publishing thread that waits when Stop has notified it (RtmpClient.cpp:88)
\* and joins it waits for ever, and Stop with it.
THEOREM StrandedClientStays == ASSUME ~SpuriousWakeups PROVE Spec => StrandedForEver
<1>1. ASSUME TypeOK, ClientInv, [Next]_vars, control = "joining", reader = "waiting"
      PROVE  control' = "joining" /\ reader' = "waiting"
  <2>1. publisher \in {"probe", "read", "next"}
    BY <1>1 DEF ClientInv
  <2>2. ~ReadStep
    BY <1>1 DEF ReadStep, ReadWaits, ReadStopped, ReadFragment, ReadReturns, Awake
  <2>3. ~(AvFormatStep \/ ParserStep)
    BY <1>1, PublishingSteps
  <2>4. ~EndOfRun /\ ~Join
    BY <2>1 DEF EndOfRun, Goto, Join, Joinable
  <2>5. ~AddSender /\ ~RemoveSender /\ ~SetStopped /\ ~(\E last \in BOOLEAN : OnData(last))
    BY <1>1 DEF AddSender, RemoveSender, SetStopped, ControlGoto, OnData
  <2>6. CASE SendAudio \/ SenderStep \/ OnAudioDataLocked \/ (\E last \in BOOLEAN : OnAudioData(last))
    BY <1>1, <2>6, AudioSteps DEF seen
  <2>7. CASE UNCHANGED vars
    BY <1>1, <2>7 DEF vars, publishing, others
  <2> QED
    BY <1>1, <2>2, <2>3, <2>4, <2>5, <2>6, <2>7 DEF Next, PublisherStep
<1> QED BY <1>1, ClientInvHolds, PTL DEF Spec, StrandedForEver

-----------------------------------------------------------------------------
(* The client as ManagerModule has it *)

Device == "device"
NoDevice == "no device"

\* ManagerModule knows where the publishing thread is by whom it waits for;
\* once ReadMediaData has seen m_stopped it will wait no more.
Run ==
  IF control = "stopped" THEN "none"
  ELSE IF publisher = "done" THEN "done"
  ELSE IF publisher = "report" \/ endOfInput THEN "ending"
  ELSE IF reader = "waiting" THEN "waiting"
  ELSE IF reader = "notified" THEN "woken" ELSE "busy"

\* The server is started after the sender is added; AddSender stands for both.
Call ==
  IF control = "starting" THEN "start server"
  ELSE IF control = "running" THEN "none"
  ELSE IF control = "removed" THEN "set stopped"
  ELSE IF control = "joining" THEN "join" ELSE "erase"

Server ==
  IF control = "starting" THEN "none" ELSE IF control = "running" THEN "open" ELSE "stopped"

\* The whole program with this one device; nobody is told to stop, the engine
\* is between two rounds, and "pending" is what this client has reported.
Composed == INSTANCE ManagerModule WITH
  UniqueIDs <- {Device}, NoID <- NoDevice,
  main <- "running", step <- 0,
  thread <- [m \in {"notifier", "engine", "io", "http"} |-> "idle"],
  id <- IF control = "running" THEN NoDevice ELSE Device, call <- Call,
  clients <- IF control = "stopped" THEN {} ELSE {Device},
  publisher <- [c \in {Device} |-> Run], data <- [c \in {Device} |-> mediaBufferQueue # <<>>],
  server <- [c \in {Device} |-> Server],
  senders <- IF control \in {"starting", "running"} THEN {Device} ELSE {}, round <- {},
  pending <- notified

LEMMA ConstantsComposed == NoDevice \notin {Device}
BY DEF NoDevice, Device

LEMMA Unseen ==
  ASSUME Run' = Run, control' = control, mediaBufferQueue' = mediaBufferQueue, notified' = notified
  PROVE  UNCHANGED Composed!vars
BY DEF Composed!vars, Composed!mainVars, Composed!callVars, Composed!clientVars, Composed!engineVars,
   Call, Server

\* Reading and what follows, on the publishing thread.
LEMMA PublisherComposed ==
  ASSUME TypeOK, ClientInv, ControlInv, Woken, ~SpuriousWakeups, PublisherStep
  PROVE  [Composed!PublisherStep(Device)]_(Composed!vars)
<1> USE DEF Composed!PublisherGoto, Composed!mainVars, Composed!callVars, Composed!clientVars,
            Composed!engineVars
<1>0. publisher # "done" => control # "stopped"
  BY DEF ControlInv
<1>1. CASE ReadWaits
  <2>1. UNCHANGED <<control, mediaBufferQueue, publisher, endOfInput, notified>>
    BY <1>1 DEF ReadWaits, others, queues, demuxer
  <2>2. Run = "busy" /\ Run' = "waiting" /\ mediaBufferQueue = <<>>
    BY <1>0, <1>1, <2>1 DEF ReadWaits, Reading, Run
  <2>3. Composed!ReadWaits(Device)
    BY <2>1, <2>2 DEF Composed!ReadWaits, Call, Server
  <2> QED BY <2>3 DEF Composed!PublisherStep
<1>2. CASE ReadStopped
  <2>1. UNCHANGED <<control, mediaBufferQueue, notified>> /\ reader' = "out" /\ ~endOfInput /\ stopped
    BY <1>2 DEF ReadStopped, ReadReturns, Reading, others, StopSeen
  <2>2. publisher \in {"probe", "read", "next"}
    BY <1>2 DEF ReadStopped, ReadReturns, Reading
  <2>3. control = "joining"
    BY <1>0, <2>1, <2>2 DEF ClientInv
  <2>4. Run' = "ending"
    BY <1>2, <2>1, <2>2, <2>3 DEF ReadStopped, Run
  <2>5. (Run = "busy" /\ mediaBufferQueue # <<>>) \/ Run = "woken"
    BY <1>2, <2>1, <2>2, <2>3 DEF ReadStopped, ReadReturns, Awake, Run
  <2>6. \E from \in {"busy", "woken"} : Composed!ReadReturns(Device, from)
    BY <2>1, <2>3, <2>4, <2>5 DEF Composed!ReadReturns, Composed!ClientStopped, Call, Server
  <2> QED BY <2>6 DEF Composed!PublisherStep
<1>3. CASE ReadFragment
  <2>1. UNCHANGED <<control, endOfInput, notified>> /\ reader' = "out" /\ ~endOfInput /\ ~stopped
    BY <1>3 DEF ReadFragment, ReadReturns, Reading, others, StopSeen
  <2>2. publisher \in {"probe", "read", "next"}
    BY <1>3 DEF ReadFragment, ReadReturns, Reading
  <2>3. control \notin {"joining", "stopped"}
    BY <2>1 DEF ClientInv
  <2>4. mediaBufferQueue # <<>> /\ (reader = "out" \/ reader = "notified")
    BY <1>3, <2>1 DEF ReadFragment, ReadReturns, Awake, Woken
  <2>5. Run' = "busy"
    <3>1. publisher' \in {"probe", "read", "next", "parse"}
      BY <1>3, <2>2, <2>4 DEF ReadFragment
    <3> QED BY <2>1, <2>3, <3>1 DEF Run
  <2>6. Run \in {"busy", "woken"}
    BY <2>1, <2>2, <2>3, <2>4 DEF Run
  <2>7. \E from \in {"busy", "woken"} : Composed!ReadReturns(Device, from)
    BY <2>1, <2>3, <2>4, <2>5, <2>6 DEF Composed!ReadReturns, Composed!ClientStopped, Call, Server
  <2> QED BY <2>7 DEF Composed!PublisherStep
<1>4. CASE AvFormatStep \/ ParserStep
  <2>1. /\ UNCHANGED <<stopped, control, mediaBufferQueue, reader, endOfInput, notified>>
        /\ reader = "out" /\ publisher \notin {"report", "done"} /\ publisher' \notin {"done", "crashed"}
    BY <1>4, PublishingSteps
  <2>2. CASE endOfInput \/ publisher' # "report"
    <3>1. Run' = Run
      BY <1>0, <2>1, <2>2 DEF Run
    <3> QED BY <2>1, <3>1, Unseen
  <2>3. CASE ~endOfInput /\ publisher' = "report"
    <3>1. Run = "busy" /\ Run' = "ending"
      BY <1>0, <2>1, <2>3 DEF Run
    <3>2. Composed!PublishingFails(Device)
      BY <2>1, <3>1 DEF Composed!PublishingFails, Call, Server
    <3> QED BY <3>2 DEF Composed!PublisherStep
  <2> QED BY <2>2, <2>3
<1>5. CASE EndOfRun
  <2>1. UNCHANGED <<control, mediaBufferQueue, endOfInput, stopped>> /\ notified' = ~stopped
    BY <1>5 DEF EndOfRun, Goto, Report, others, queues, demuxer, flags
  <2>2. Run = "ending" /\ Run' = "done"
    BY <1>0, <1>5, <2>1 DEF EndOfRun, Goto, Run
  <2>3. CASE control = "joining"
    <3>1. notified' = FALSE /\ notified = FALSE
      BY <1>5, <2>1, <2>3 DEF ClientInv, EndOfRun, Goto, TypeOK, PublishingTyped, FlagsTyped
    <3> QED BY <2>1, <2>2, <2>3, <3>1 DEF Composed!PublisherStep, Composed!RunEnds, Composed!ClientStopped, Call, Server
  <2>4. CASE control # "joining"
    <3>1. notified' = TRUE
      BY <1>0, <1>5, <2>1, <2>4 DEF ClientInv, EndOfRun, Goto, TypeOK, PublishingTyped, FlagsTyped
    <3> QED BY <1>0, <2>1, <2>2, <2>4, <3>1 DEF Composed!PublisherStep, Composed!RunEnds, Composed!Notify, Composed!Woken, Composed!ClientStopped, Call, Server
  <2> QED BY <2>3, <2>4
<1> QED
  BY <1>1, <1>2, <1>3, <1>4, <1>5 DEF PublisherStep, ReadStep

\* ManagerModule's step of each step of another thread.
LEMMA OthersComposed ==
  ASSUME TypeOK, ClientInv, ControlInv
  PROVE  /\ AddSender => Composed!StartServer
         /\ SetStopped => Composed!SetStopped
         /\ Join => Composed!Join
         /\ \A last \in BOOLEAN : OnData(last) => Composed!OnData(Device)
<1> USE DEF Composed!CallGoto, Composed!mainVars, Composed!callVars, Composed!clientVars,
            Composed!engineVars, Call, Server
<1>1. ASSUME AddSender PROVE Composed!StartServer
  <2>1. /\ control = "starting" /\ control' = "running"
        /\ UNCHANGED <<mediaBufferQueue, publisher, reader, endOfInput, notified>>
    BY <1>1 DEF AddSender, ControlGoto, queues, demuxer
  <2>2. Run' = Run
    BY <2>1 DEF Run
  <2> QED BY <2>1, <2>2 DEF Composed!StartServer
<1>2. ASSUME SetStopped PROVE Composed!SetStopped
  <2>1. /\ control = "removed" /\ control' = "joining"
        /\ UNCHANGED <<mediaBufferQueue, publisher, endOfInput, notified>>
        /\ reader' = IF reader = "waiting" THEN "notified" ELSE reader
    BY <1>2 DEF SetStopped, ControlGoto, NotifyAll, queues, demuxer
  <2>2. Run' = Composed!Woken(Run)
    BY <2>1 DEF Run, Composed!Woken, ClientInv
  <2> QED BY <2>1, <2>2 DEF Composed!SetStopped
<1>3. ASSUME Join PROVE Composed!Join
  <2>1. /\ control = "joining" /\ control' = "stopped" /\ publisher = "done"
        /\ UNCHANGED <<mediaBufferQueue, notified>>
    BY <1>3 DEF Join, Joinable, ControlGoto, queues
  <2>2. Run = "done" /\ Run' = "none"
    BY <2>1 DEF Run
  <2> QED BY <2>1, <2>2 DEF Composed!Join
<1>4. ASSUME NEW last \in BOOLEAN, OnData(last) PROVE Composed!OnData(Device)
  <2>1. /\ control = "running" /\ UNCHANGED <<control, publisher, endOfInput, notified>>
        /\ reader' = IF reader = "waiting" THEN "notified" ELSE reader
    BY <1>4 DEF OnData, NotifyAll, demuxer
  <2>2. Run' = Composed!Woken(Run)
    BY <2>1 DEF Run, Composed!Woken, ClientInv
  <2>3. mediaBufferQueue' # <<>>
    BY <1>4, QueuedAfterOnData
  <2> QED BY <2>1, <2>2, <2>3 DEF Composed!OnData, Composed!IoRuns
<1> QED
  BY <1>1, <1>2, <1>3, <1>4

\* Every step of the client is a step of ManagerModule or one that it does not
\* see.  RemoveSender stands for four steps, of which three are the server's
\* and its engine's: FreePort, AcceptCanceled, ServerStopped and RemoveSender.
PartOfComposition == [][~RemoveSender => [Composed!Next]_(Composed!vars)]_vars

\* What ManagerModule says of a client is what it does: who waits and who is
\* woken, in ReadMediaData, OnData and Stop, when the end of Run is reported
\* to the notifier, and that Stop joins the thread before the client goes.
THEOREM ClientIsPartOfComposition == ASSUME ~SpuriousWakeups PROVE Spec => PartOfComposition
<1> DEFINE Inv == TypeOK /\ ClientInv /\ ControlInv /\ Woken
<1>1. ASSUME Inv, [Next]_vars, ~RemoveSender PROVE [Composed!Next]_(Composed!vars)
  <2>1. CASE PublisherStep
    BY <1>1, <2>1, PublisherComposed DEF Composed!Next
  <2>2. CASE AddSender \/ SetStopped \/ Join
    BY <1>1, <2>2, OthersComposed DEF Composed!Next, Composed!CallStep
  <2>3. ASSUME NEW last \in BOOLEAN, OnData(last) PROVE [Composed!Next]_(Composed!vars)
    BY <1>1, <2>3, OthersComposed DEF Composed!Next
  <2>4. CASE SendAudio \/ SenderStep \/ OnAudioDataLocked \/ (\E last \in BOOLEAN : OnAudioData(last))
    <3>1. UNCHANGED seen
      BY <2>4, AudioSteps
    <3> QED BY <3>1, Unseen DEF seen, Run
  <2>5. CASE UNCHANGED vars
    <3>1. UNCHANGED seen
      BY <2>5 DEF vars, publishing, demuxer, others, queues, seen
    <3> QED BY <3>1, Unseen DEF seen, Run
  <2> QED
    BY <1>1, <2>1, <2>2, <2>3, <2>4, <2>5 DEF Next
<1>2. Init => Inv
  BY InitTypeOK, InitSafety, ClientInvInit DEF Init, Woken
<1>3. Inv /\ [Next]_vars => Inv'
  BY NextQueuesTyped, NextFlagsTyped, NextPublishingTyped, NextOthersTyped, ClientInvNext, NextControlInv,
     NextWoken DEF TypeOK
<1> QED
  BY <1>1, <1>2, <1>3, PTL DEF Spec, PartOfComposition
=============================================================================
