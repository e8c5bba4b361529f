# JT1078ToRTMP: TLA+ specifications

JT1078ToRTMP receives the media streams of JT/T 1078 vehicle devices on TCP ports and publishes them
over RTMP. A client asks for a port over HTTP, the device connects to it, and the server notifies
an HTTP back end of what happens. This directory specifies the concurrent core of that program in
TLA+: the modules are checked with TLC on small instances, and their safety properties are proved
with TLAPS for every value of the constants. All paths below are relative to `src/src/`.

## 1. Inventory

### Threads

| thread | started by | runs |
|---|---|---|
| main | `main.cpp` | `ManagerModule`: Start, wait for `q`, Stop |
| HTTP | libmicrohttpd, one polling thread | all handlers of `HttpServer`, hence `GetPort` and `FreePort`, hence `RtmpClient::Start`/`Stop` and `MediaServer::Start`/`Stop` |
| io | `MediaServerManager::Start` | `io_context.run()`: every accept and read handler of every port |
| publishing, one per client | `RtmpClient::Start` | `RtmpClient::Run` |
| audio | `AudioSenderEngine::Start` | `SendAudio` of every client, in turn |
| notifier | `HttpNotifier::Start` | `HttpNotifier::Run` |
| counter | `MediaCounter::Start` | writes counters to files once a second |

### Components

| component | state | operations | talks to | what makes it correct |
|---|---|---|---|---|
| `HttpServer`, `RequestParser` | `m_mediaPorts`; one `ConnectionInfo` per request | `/media` alloc and dealloc, `/rtmpNotify` | calls `MediaServerManager`, `HttpNotifier` | what is parsed is the body of the request, up to its first zero byte; one port per ID; the registry agrees with the manager's |
| `MediaServerManager` | `m_mediaServerMap` | `GetPort`, `FreePort`, Start, Stop | creates `RtmpClient` and `MediaServer`; `PortAllocator` | nothing is left behind by an attempt that fails |
| `PortAllocator` | deque of unused, list of used ports | `AllocatePort`, `FreePort` | | no port lost or given twice; freed ports return |
| `MediaServer` | acceptor, at most one session, `m_stopped` | Start, Stop, accept handler, `OnSessionError` | owns `MediaSession` and the parser; notifies | one device at a time; Stop ends and leaves nothing running |
| `MediaSession` | socket, read buffer, `m_stopped` | Start, Stop, read handler, `ParseData` | parser, `RtmpClient` (callback), `MediaServer` (listener) | no callback after Stop; errors reported once |
| `JT1078MediaParser` | `m_buffer`, `m_size`, `m_pos` | `Parse`, `GetPacket` | | delivers what was sent however it is cut; stays inside its buffer |
| `RtmpClient` | three queues, five flags, the output context | `OnData`, `OnAudioData`, `Run`, `SendAudio`, Start, Stop | `HttpNotifier`, `AudioSenderEngine`, `MediaCounter` | no empty deque read; context used only while open; audio not ahead of its video; Stop ends |
| `AudioSenderEngine` | map of senders, mutex, `m_stop` | `AddSender`, `RemoveSender`, `Run` | `RtmpClient::SendAudio` | a removed sender is not called; who adds or removes one is not kept waiting for ever |
| `HttpNotifier` | message queue, `m_lock`, `m_stopped` | `Notify...`, `Run`, Stop | posts with curl | messages sent once and in order; bounded queue; Stop ends |
| `MediaCounter` | map of counters with their files, thread | Register, UnRegister, UpdateCounter, Start, Stop | | files are open while they are written to and closed once; what is counted is stored |
| `ManagerModule` | the three modules | Start, Stop, deletion | all of the above | nobody waits for a thread that is stopped, nobody uses what is destroyed, the program ends |
| `Configuration`, `Logger`, `MediaParser` (unused), `MediaServerManagerMock` (stale) | | | | not modelled |

`include/` is vendored (Boost, curl, libmicrohttpd, srs_librtmp). What the code relies on (asio's
completion of operations, condition variables, libavformat's reading) is modelled at its place of use.

### What is hard

* Four threads meet in an `RtmpClient`, with two queue locks, a context lock and unguarded flags.
* `MediaServer::Stop` runs on the HTTP thread beside handlers of the io thread that use the same
  acceptor, socket and session pointer without a lock.
* Every wait is `if (empty) wait`, without a look at `m_stopped` before it and without a loop.
* The parser's buffer outlives connections, and packets are cut anywhere.
* Failure half way through `GetPort`; exhaustion of ports; full queues.
* The program's end: seven kinds of threads, stopped one after the other by waits for each other, and
  an interface without a virtual destructor (`IMediaServerManager.h:7`).
* A request's body comes in pieces, is gathered as bytes and parsed as a C string; a request can end
  before, between and after the pieces.

`PROJECT.json` lists these hazards line by line, each with the properties that cover it, or with why none does.

## 2. Modules

| module | models | state |
|---|---|---|
| `PortService` | what a client of `/media` can rely on: each ID has at most one port, no port two IDs | abstract: `assigned`, `pending`, `answer` |
| `MediaPorts` | `HttpServer` + `MediaServerManager` + `PortAllocator` + `MediaServer::Start` | the allocator, both registries, the loop of `GetPort`, ports of other processes |
| `RtmpClient` | one `RtmpClient`, its four threads | queues, flags, output context, where each thread is |
| `HttpNotifier` | notifying threads, the notifier's thread, Stop | queue, lock, where each thread is |
| `JT1078MediaParser` | the parser, `ParseData`, the device's stream | buffer, size, pos, bytes under way |
| `MediaServer` | `MediaServer` + `MediaSession`: handlers against Stop | acceptor, accept, session, socket, read, both threads |
| `HttpConnections` | `HttpServer`'s connections and `RequestParser`: the gathering of a body, the choice of a handler, the end of a request | per connection: request, `con_cls`, outcome; the `ConnectionInfo`s |
| `MediaCounter` | the counter's map and files, its thread, the clients that register | `m_stopped`, thread, clients, counts, open files |
| `ManagerModule` | the whole program: `ManagerModule`, `main`, `AudioSenderEngine` with all clients, and whom `GetPort`, `FreePort`, the io thread, the publishing threads and the notifier wait for | where each thread is; clients, servers, senders |
| `MCJT1078MediaParser` | the bodies TLC sends through the parser | |
| `*Proofs` | the theorems about the module of that name | |

How state and actions correspond to the code:

* A variable has the name of the member it stands for, without `m_`. History variables, which only
  properties read, are marked where they are declared.
* A block under a mutex in which no thread blocks is one action. A lock held across something
  that may block (`m_formatContextlock` around a write, the audio engine's mutex around
  `SendAudio`) or that is released twice (`HttpNotifier::m_lock`) is a state.
* A check outside a lock and the use of its result are two actions (`OnAudioData` and
  `OnAudioDataLocked`, `SendAudio` and `TakeAudio`, `Look` and `CloseSocket`).
* The HTTP handlers are single actions in `MediaPorts`, because one thread runs them all; only
  `GetPort`'s loop is cut into attempts, between which other processes bind and release ports.
* Undefined behaviour (`front()` of an empty deque, a data race on a deque, the use of a destroyed
  object) leads to a state from which nothing follows, and a property says whether it is reached.
* `ManagerModule` composes what the other modules show in detail. It keeps of each component whom it
  waits for and whom it wakes: a queue is whether it holds anything, a server whether it is open, has
  been told to stop, or is deaf to it (the connection accepted just before `close`, in `MediaServer`).
  It discharges what the detailed modules assume of each other: the engine has no round under way
  with a client that was removed (`EngineFree` in `RtmpClient`), and the io thread calls no client
  that is being stopped.
* What `ManagerModule` says of its parts is not left to reading: `MediaServerProofs`, `RtmpClientProofs`
  and `HttpNotifierProofs` each instantiate it as `Composed`, with one device or none and everybody else
  idle, and prove that a step of the detailed module is a step of `ManagerModule` or one it does not see
  (see "The parts and the composition" below).
* Deleting the manager through `IMediaServerManager` is undefined behaviour, of which the model has
  the outcome of the build: the memory is freed and no member destroyed.
* Payload is abstract: a video fragment is whether it begins a frame, an audio fragment how many
  frames were accepted before it, a message its thread and number. Only the parser has cells, since
  its property is about them: headers of 18, 26 and 30 bytes become 2, 3 and 4 cells, of which the
  first is `dataType` and the last `bodyLength`. The other header cells are 0, as the high bytes of
  `timeStamp` are.

The abstract specification is `PortService`; `MediaPorts` implements it with `assigned <- mediaPorts`
and `pending <- allocating`. It is checked as a property and proved.

### The parts and the composition

`ManagerModule` is the abstract specification of its three waiting parts. The mappings:

| part | what is mapped | steps |
|---|---|---|
| `MediaServer` | `server[c]` is "open" until `close`, then "closing" if the accept is canceled and "deaf" if a handler already has its connection, then "stopped"; `call` follows Stop | `CloseAcceptor` is `FreePort`, the return of Stop is `AcceptCanceled`, `Destroy` is `ServerStopped`; all other steps are not seen. Besides, `DoRead` comes only where `OnData` is enabled, and `NotifyDeviceDisconnect` where the action of that name is |
| `RtmpClient` | `publisher[c]` from `reader` and the place in `Run`, `data[c]` is `mediaBufferQueue # <<>>`, `pending` what the client has reported, `call` follows Start and Stop | `AddSender` stands for `AddSender` and `StartServer`, `RemoveSender` for `FreePort`, `AcceptCanceled`, `ServerStopped` and `RemoveSender`, three of which are the server's and the engine's; the theorem leaves `RemoveSender` out |
| `HttpNotifier` | `thread["notifier"]` from `notifier`, `pending` is `queue # <<>>`, `main` and `step` from Stop | as long as the queue is not full (`[]Roomy`), since the broken lock of a full one is not in `ManagerModule` |

A mapping shows steps, not initial states: a detailed module begins where its object is made, in the
middle of a behaviour of `ManagerModule`. The mapping of `MediaServer` corrected `ManagerModule`: its
`NotifyDeviceDisconnect` demanded that the server was not stopped, but `OnSessionError` may still be under
way when Stop finds the server stopped and returns (`MediaServer.cpp:52`); it may come as long as the
server's object exists.

## 3. Runs

Runs that pass, with what their bounds make happen:

| run | bounds | what it shows |
|---|---|---|
| `MediaPorts` | 2 devices, 4 ports, 2 attempts, any foreign ports | `AllocatorPartitions`, `RegistriesAgree`, `OnePublisherPerID`, `UsedPortsAccounted`, `ImplementsPortService` (safety: every answer is one `PortService` gives; that `GetPort` ends is not part of it). Four ports and two devices reach exhaustion after three deallocations; two attempts reach failure, retry and give-up. |
| `RtmpClient` | both publishing loops, queue of 2, 3 video and 3 audio fragments | `EmptyDequesNotRead`, `ContextOpenWhileWritten`, `AudioNotAhead`, `StoppedMeansQuiet`, `VideoServed`, `StopReleasesWaiter`. More fragments than places, so that fragments of both kinds are dropped, also inside a frame; three are needed for a frame to be emitted while another waits. |
| `HttpNotifier` | 2 threads, 2 messages each, full at 2 messages | `InOrder`, `MessagePresent`, `Exclusive`, `NotifiedIsSent`, `StopEnds`. Four messages overflow the queue, and the second unlock meets a lock another thread holds. |
| `JT1078MediaParser` | 3 packets, chunks of 1 to 3 cells, buffer of 8, 1 reconnection | `InBounds`, `DeliveredAsSent`, `NothingHeldBack`, `LoopEnds`. Every cut of every stream; the buffer holds the largest packet less one cell, and a chunk, exactly. Bodies are empty or look like headers. |
| `MediaServer` | none needed, the state space is finite | `NoDataAfterStop`, `MisuseOnlyOnError`, `DisconnectReported`, `AcceptsAgain`, `StopEnds` |
| `HttpConnections` | 2 connections, buffer of 3, bodies of 0 to 4 | `OneInfoPerRequest`, `BodyParsedToZero`. Bodies that leave room for the terminating zero, fill the buffer and exceed it, with a first zero byte anywhere or nowhere, cut in every way; memory that another request has freed is used again, with what was in it. |
| `MediaCounter` | 2 devices, 2 updates each | `FilesAccounted`, `Recorded`. Two devices, so that one registers while the other is stored. |
| `ManagerModule` | 2 devices, else finite | `ObjectsOutliveUse`, `WaitedForRuns`, `ExitsUnlessStranded`. With two devices one client is started or stopped while the engine, the io thread and its own threads are busy with the other. |

`TypeOK` is checked in each. Deadlock is checked in `HttpConnections`; every other of these systems
may stop for good (no more requests, the bound on what a device sends, Stop, undefined behaviour).

Runs that fail, each on one property that says what the code or a comment says:

| run | property | what happens |
|---|---|---|
| `MediaPortsRetry` | `RetryCanSucceed` | `bind` fails, the acceptor stays open, and the 99 retries fail on `open` (`MediaServer.cpp:15`, `:22`) |
| `MediaPortsLeak` | `DeallocatedPortsReturn` | `FreePort(int)` does not free the port in the allocator (`MediaServerManager.cpp:85`) |
| `RtmpClientStop` | `StopTerminates` | the wakeup of Stop is lost between two reads; `join` does not return (`RtmpClient.cpp:211`, `:626`) |
| `JT1078MediaParserSplit` | `SplitHeadersHarmless` | a cut audio header is taken for a pass-through packet (`JT1078MediaParser.cpp:57`) |

The properties that pass beside these are stated so that they hold of the code as it is, and delimit
the defects: `StopReleasesWaiter` and `StopEnds` say in which cases Stop does end, `Exclusive` that the
notifier's lock works until the queue is full, `MisuseOnlyOnError` which race alone is left in
`MediaServer`, `DeliveredAsSent` that the listed harms are the only ones, `Stranded` (in
`ExitsUnlessStranded`) which four waits alone can keep the program from ending: three that were lost
(`WaitLost`: the notifier's, a client's, a deaf server's), and that of `GetPort` or `FreePort` for the audio
engine's mutex, if the engine, which locks it again right after each round (`AudioSenderEngine.cpp:45-52`),
takes it every time it is free. Such a property leaves out the case it delimits, and does not cover the hazard that
is that case; `PROJECT.json` says so with the hazard.

More defects showed while the models were written and have no run of their own:

* A full notifier queue grows: `Push` reports it, unlocks, pushes without the lock and unlocks again, which
  also releases the lock another thread may hold (`HttpNotifier.cpp:108`; excluded by `Roomy`).
* `HttpNotifier::Stop` loses its wakeup like the client's when it comes while a message is being
  posted, or before the first wait (`HttpNotifier.cpp:87`); the program then does not exit (`WaitLost`).
* A connection accepted just before `close` keeps the accept handler accepting on a closed acceptor, and
  `MediaServer::Stop` waits for ever (`MediaServer.cpp:87`; `WaitLost`, and the premise of `StopEnds`).
* `OnSessionError` destroys the session that Stop is using, or is still running when the server is
  destroyed (`MediaServer.cpp:36`, `:52`; what `MisuseOnlyOnError` leaves).
* `~MediaServerManager` is never run (`IMediaServerManager.h:7`): clients whose ports were not freed go on
  publishing while the program exits, and may notify through the notifier that was destroyed before
  them; `ObjectsOutliveUse` leaves this use out and says that nothing else runs then.
* `MediaCounter::Start` clears `m_stopped` after it has started the thread that looks at it
  (`MediaCounter.cpp:29`): the thread may end at once, and nothing is stored (the last disjunct of
  `Recorded`). What is counted after the last round before UnRegister is never stored either.
* What is notified while the notifier is already stopped, by the threads stopped after it, is queued
  and never sent (`ManagerModule.cpp:34`).
* Audio that was past the check of `m_noAudio`, or in the queue, when audio was refused is still
  parsed and written (`RtmpClient.cpp:128`, `:161`), to an output without an audio stream. No property
  covers it: `ContextOpenWhileWritten` and `EmptyDequesNotRead` say that nothing worse comes of it.
* A body with a zero byte is parsed up to it and what follows is ignored, a request of its own before the
  zero included (`HttpServer.cpp:215`, `:218`); `BodyParsedToZero` says that this is all that is lost.
* A session closed while it parses starts its next read on a closed socket and reports a disconnect
  that nobody made (`MediaSession.cpp:45`).

How far some of these defects reach is proved (section 4): the three lost waits are for ever
(`StrandedClientStays`, `DeafnessIsForEver`; the notifier's unless another thread happens to notify,
`StrandedNotifierStays`), no retry of `GetPort` succeeds (`RetriesInVain`), the range of ports serves each
port once in the life of the program (`PortsServeOnce`), and a counter's thread that missed its start
stores nothing (`MissedStoresNothing`).

### Fairness

* Threads go on with what they have begun: weak fairness of each thread's steps. `std::thread`s are
  scheduled by the system, and their blocking calls (the RTMP server, the notified HTTP server)
  are assumed to return; without that assumption the code, which sets no timeout on a post, promises nothing.
* The io thread runs every handler that is due (`MediaServer`): weak fairness of its steps, and
  strong fairness of the handler of the accept and of that of the read, which are disabled while
  another handler runs. asio queues completed handlers and starves none.
* The whole program (`ManagerModule`): weak fairness of main, of the calls of `GetPort` and `FreePort`, and of
  each thread, and strong fairness of the end of the HTTP thread, which is disabled while a request is
  served: libmicrohttpd looks at its shutdown flag in every turn of its loop. Nothing is assumed of who gets
  the audio engine's mutex: under weak fairness `AddSender` and `RemoveSender`, disabled in every round, may wait for
  ever, and TLC finds that they do if `Stranded` does not name that wait. Nor does `RtmpClient` assume it.
* `MediaCounter`'s thread goes on, and main that joins it. The HTTP connections need no fairness:
  clients may stay away, and no liveness is claimed of them.
* Nothing is assumed of devices, HTTP clients, other processes, or of whether Stop is called.
* `SpuriousWakeups = FALSE` in all runs: the standard lets a wait return unnotified, the
  implementation on Linux does so rarely. With it, every one of the waits under an `if` goes wrong:
  an empty deque is read (`RtmpClient.cpp:212`, `HttpNotifier.cpp:88`) or Stop returns too early
  (`MediaServer.cpp:41`, `MediaSession.cpp:28`). The theorems that need the assumption state it; the
  others hold either way.

## 4. Proofs

Each `*Proofs` module proves an inductive invariant and the theorems that follow from it.

| theorem | property | argument |
|---|---|---|
| `MediaPortsProofs!TypeCorrect` | `TypeOK` | |
| `AllocatorNeverLosesPorts` | `AllocatorPartitions` | taking the head of an injective sequence and appending a port that is not in it keep the partition; needs that the try in progress puts back what it took |
| `RegistriesStayInverse` | `RegistriesAgree` | both maps change in the same handler; a port from the unused deque is served by nobody, by `UsedPortsAccounted` and the partition |
| `ClientsFollowPorts` | `OnePublisherPerID` | `FreePort` stops the client of the ID the server's map names, which is the caller's by `RegistriesAgree` |
| `ExhaustionIsLeak` | `UsedPortsAccounted` | |
| `PortsServeOnce` | `ForgottenForEver`: a deallocated port is never served again | a port that was deallocated stays in the used list, by `UsedPortsAccounted`, and `GetPort` takes ports from the other |
| `RetriesInVain` | `OnlyFirstTry`: a port is granted only by a first attempt | after a failed attempt the acceptor is open until `GetPort` returns |
| `PortServiceImplemented` | `ImplementsPortService` | every step maps to a step of `PortService` or a stutter; a granted port is free there because the registries agree |
| `RtmpClientProofs!TypeCorrect` | `TypeOK` | |
| `ContextIsOpen` | `ContextOpenWhileWritten` | the context is open from `OpenOutput` to `CloseOutput`; `sendingVideoPacket` implies it, and the re-check under the lock carries it to the audio thread |
| `QuietAfterStop` | `StoppedMeansQuiet` | the removed sender is idle and stays idle; `Join` waits for the publishing thread |
| `DequesNotReadEmpty` | `EmptyDequesNotRead`, without spurious wakeups | there are at least as many audio buffers as audio markers; a notified reader finds data, or `m_stopped` |
| `AudioBehindVideo` | `AudioNotAhead` | `PlaceInv`: two functions on the places of the markers, the frames and the audio markers before each; the buffer an audio marker stands for came no later than the marker, and at most as many video markers are taken as frames are emitted |
| `VideoWakes` | `NoVideoWhileWaiting`: the publishing thread does not wait while video is queued | `ClientInv`: the check for data and the wait are under the lock `OnData` takes, and only a thread that reads waits |
| `StrandedClientStays` | `StrandedForEver`, without spurious wakeups: a thread that waits while it is joined waits for ever, and Stop with it | nobody but `OnData` and `SetStopped` notifies, and both come before `join`; the audio threads do not touch the wait (`AudioSteps`) |
| `ClientIsPartOfComposition` | `PartOfComposition`, without spurious wakeups | one lemma per thread (`PublisherComposed`, `OthersComposed`); `ClientInv` says where the publishing thread is when it waits and when its end was reported |
| `HttpNotifierProofs!TypeCorrect` | `TypeOK` | |
| `ExclusiveUse` | `Exclusive` | a temporal theorem: under `[]Roomy` the flag `m_lock` has one owner |
| `MessageIsPresent` | `MessagePresent`, without spurious wakeups | only the notifier's thread takes messages out |
| `SentInOrder` | `InOrder` | sent, in hand and queued messages are one sequence (`Order`), to which only `PushBack` appends; a thread that pushes has made a message it has not queued |
| `MessageWakes` | `NoMessageWhileWaiting`: the thread does not wait while a message is queued | `WaitInv`; every push notifies, also one through the broken lock |
| `StrandedNotifierStays` | `StrandedUnlessNotified`, without spurious wakeups: a thread that waits while it is joined is ended by a message or not at all | Stop has notified before it joins |
| `NotifierIsPartOfComposition` | `PartOfComposition`, without spurious wakeups and under `[]Roomy` | `MutexInv` (of `ExclusiveUse`) puts the notifications outside the thread's block; a message is in the queue when it is taken (`MessageInv`) |
| `JT1078MediaParserProofs!TypeCorrect` | `TypeOK` | |
| `BufferInBounds` | `InBounds` | a complete packet's size is at most `size`, so `pos + size` does not grow but in `Parse`, which checks it |
| `PacketsDelivered` | `DeliveredAsSent` | `PlaceInv`: while the stream is unharmed, buffer and stream together are the encodings of the packets not delivered yet, whose calls are the rest of `media`; the parser always stands at the beginning of a packet |
| `NothingLost` | `NothingHeldBack`, if a chunk and the largest packet less one byte fit in the buffer | the same invariant, and `~Complete` while the session reads: what the buffer holds is less than its first packet. With the code's sizes (66560, 4096, 30) the premise admits bodies of up to 62435 bytes; `bodyLength` could say up to 65535 |
| `LoopTakesHeaders` | `RoundsTakeHeaders`: every round of `ParseData`'s loop takes at least a header and at most what is held | the same bounds as `BufferInBounds`; so the loop has at most 66560 / 18 rounds, whatever is sent |
| `MediaServerProofs!TypeCorrect` | `TypeOK` | |
| `QuietAfterStop` | `NoDataAfterStop`, without spurious wakeups | once the accept is canceled no session begins; behind the session's handshake its last read has failed |
| `MisuseNeedsError` | `MisuseOnlyOnError`, without spurious wakeups | the same invariant: `m_stopped` of session and server separate all handlers but the one that resets the session |
| `NoWaitWithoutAnswer` | `WaitsAnswered`: who waits in Stop waits for a handler still to run that will notify, or the server is deaf | `UnderWay`: while the session is not stopped a read is under way, while the server is not, an accept; `close` cancels both or finds them completed |
| `DeafnessIsForEver` | `DeafForEver`, without spurious wakeups: a deaf server stays deaf and its Stop does not return | only a canceled accept sets `m_stopped`, and no accept on a closed acceptor is canceled |
| `ServerIsPartOfComposition` | `PartOfComposition` and `CallbacksAsComposed`, without spurious wakeups | `StepComposed`, one case per step of `ManagerModule`; "closing" and "deaf" are decided by `close` and stay (`EndingStep`, `DeafStep`) |
| `ManagerModuleProofs!TypeCorrect` | `TypeOK` | |
| `NobodyWaitsForTheGone` | `WaitedForRuns` | `InTurn`: the modules are started and end in the order of `StartOrder` and `StopOrder`, so that io thread and engine run whenever the HTTP thread does; a call is made on the HTTP thread only |
| `NoDanglingUse` | `ObjectsOutliveUse` | `Lifetimes`: a client leaves the engine's map while no round is under way, before it is destroyed, and its server's callbacks have ended; `Served`: a client that nobody is starting or stopping has an open server |
| `NobodyWaitsInACircle` | `SomebodyGoes`: who waits in a request or in the stop of the modules waits for a thread that can go on, or the wait is one of `WaitLost` | `InTurn` and `Lifetimes` with `WaitInv`; the engine's mutex is held only in a round, which waits for nobody |
| `MediaCounterProofs!TypeCorrect` | `TypeOK` | |
| `FilesStayAccounted` | `FilesAccounted` | `MapInv`: the map changes only between rounds; the file in hand is that of the client being registered or just erased |
| `FilesGrow` | `NeverAhead`, `FilesOnlyGrow`: what is stored of a registered device is at most what was counted, and does not decrease | an entry starts over together with its file, and the round under way holds entries of the map only (`FilesAccounted`) |
| `MissedStoresNothing` | `Missed`: a thread that ended at its first look has stored nothing, and has gone for ever | |
| `HttpConnectionsProofs!TypeCorrect` | `TypeOK` | the size of a buffer is bounded by `Room` |
| `InfosBelong` | `OneInfoPerRequest` | a `ConnectionInfo` is allocated on the first call, when `con_cls` is NULL, and freed in the callback that clears it |
| `BodiesParsedToZero` | `BodyParsedToZero` | what a buffer holds and what is left of the body add up to the body; the C string in the buffer ends at the first zero of what it holds, and behind it the memory is zero |

Assumptions on the constants are the named `ASSUME`s of the modules; TLC evaluates them in every run.

Every safety property of the passing runs is proved. The definitions above that no run lists
(`WaitsAnswered`, `DeafForEver`, `NoVideoWhileWaiting`, `StrandedForEver`, `NoMessageWhileWaiting`,
`StrandedUnlessNotified`, `SomebodyGoes`, the three `PartOfComposition`, `ForgottenForEver`, `OnlyFirstTry`,
`RoundsTakeHeaders`, `FilesOnlyGrow` and the inductive invariants) are in the `*Proofs` modules; TLC
agreed to each on the instances of section 3 before it was proved.

Only model-checked: liveness (`VideoServed`, `StopReleasesWaiter`, `NotifiedIsSent`, `StopEnds`, `LoopEnds`,
`DisconnectReported`, `AcceptsAgain`, `ExitsUnlessStranded`, `Recorded`), which the prover cannot treat.
What of these is safety is proved for every instance: `VideoWakes` of `VideoServed`, `MessageWakes` of
`NotifiedIsSent`, `NoWaitWithoutAnswer` of `MediaServer`'s `StopEnds`, `NobodyWaitsInACircle` of
`ExitsUnlessStranded`, `LoopTakesHeaders` of `LoopEnds`. What is missing is that a thread which can go on
does, that is fairness and ENABLED. The predicates with which `SomebodyGoes` says that a thread can go on
are state formulas for that reason; TLC finds that on the instance of `ManagerModule` each implies that
the thread's step is enabled.

## 5. Not modelled

* Payloads, codecs, time stamps, JSON, logging, configuration (read before any thread starts). A body of
  a request is its length and the place of its first zero byte.
* `MediaParser` (nothing uses it) and `MediaServerManagerMock` (nothing includes it).
* That a read or a post never returns: the code has no timeouts, and nothing in it depends on one.
* Memory: the unguarded `bool`s are read and written atomically.
* Payload types other than H.264 and AAC; the parser treats their packets like the others and
  `MediaSession` drops them.
* `MediaCounter::Register` closing its file again when the ID is registered already: `HttpServer` keeps
  one client for an ID, and a client unregisters before the ID is free (`OnePublisherPerID`).
* The exit of a program whose HTTP server failed to start is modelled (`main` ignores the result); a
  failure of `std::thread` is an exception and ends it.

## 6. Plan

Done, in this order: `PortService` and `MediaPorts` (the service the program offers), `RtmpClient` (where
most threads meet), `HttpNotifier`, `JT1078MediaParser`, `MediaServer`, `ManagerModule` (the composition,
with the audio engine and the stop order), `MediaCounter`, `HttpConnections`, each with its proofs.

The mappings from `MediaServer`, `RtmpClient` and `HttpNotifier` to `ManagerModule` came last, with the
safety that their liveness rests on.

Left:

* `RtmpClient`'s `RemoveSender` as the four steps it stands for, and the `SendAudio` the engine makes in a
  round as a step of `ManagerModule`, which keeps of it only that a round is under way.
* `GetPort` of `MediaPorts` against the calls of `ManagerModule`, where it is one wait for the engine.
* Of `MediaServer`, the safety of `DisconnectReported`: a session that ended was reported, once.
