---------------------------- MODULE ManagerModule ----------------------------
(***************************************************************************)
(* The program as a whole: ManagerModule, which starts and stops the       *)
(* notifier, the media server manager and the HTTP server, and destroys    *)
(* them; the audio sender engine with all its clients; GetPort and         *)
(* FreePort on the HTTP thread; the io thread and the publishing threads.  *)
(*                                                                         *)
(* It composes what the other modules show in detail, and keeps of each    *)
(* component whom it waits for and whom it wakes.  A queue is whether it   *)
(* holds anything: taking one element out leaves either.  A notification   *)
(* is lost when nobody waits, as in RtmpClient and HttpNotifier, and       *)
(* MediaServer::Stop may find a connection accepted just before it, as in  *)
(* MediaServer: that server is "deaf" to the end of its accept.            *)
(*                                                                         *)
(* The flags that stop a thread follow from where the thread is that sets  *)
(* them: m_notifier is stopped once main has asked it to, a client's       *)
(* m_stopped is set while it is joined.                                    *)
(*                                                                         *)
(* ManagerModule deletes the MediaServerManager through an interface whose *)
(* destructor is not virtual, which is undefined behaviour.  What is built *)
(* frees its memory and destroys none of its members: the clients of ports *)
(* that were not freed run on until the process ends.                      *)
(***************************************************************************)
EXTENDS Naturals, Sequences

CONSTANTS
  UniqueIDs,  \* the devices, each with at most one RtmpClient and MediaServer
  NoID

ASSUME IDAssumption == NoID \notin UniqueIDs

VARIABLES
  main,       \* where the main thread is
  step,       \* how many modules it has started, or asked to stop
  thread,     \* where the thread of each module is
  id, call,   \* the client GetPort or FreePort is at, and how far
  clients,    \* the RtmpClients that exist
  publisher,  \* where the publishing thread of each is
  data,       \* whether its m_mediaBufferQueue holds anything
  server,     \* the MediaServer of each
  senders,    \* AudioSenderEngine::m_senders
  round,      \* the senders still to be called in this round
  pending     \* whether the notifier's m_notifiesMsg holds anything

mainVars == <<main, step>>
callVars == <<id, call>>
clientVars == <<clients, publisher, data, server>>
engineVars == <<senders, round>>
vars == <<mainVars, thread, callVars, clientVars, engineVars, pending>>

StartOrder == <<"notifier", "engine", "io", "http">>
\* Mutant: the media server manager is stopped before the HTTP server.
ManagerBeforeHttp == <<"notifier", "io", "http", "engine">>
StopOrder == <<"notifier", "http", "io", "engine">>
Modules == {"notifier", "engine", "io", "http"}

Init ==
  /\ main = "starting" /\ step = 0
  /\ thread = [m \in Modules |-> "none"]
  /\ id = NoID /\ call = "none"
  /\ clients = {} /\ senders = {} /\ round = {}
  /\ publisher = [c \in UniqueIDs |-> "none"]
  /\ data = [c \in UniqueIDs |-> FALSE]
  /\ server = [c \in UniqueIDs |-> "none"]
  /\ pending = FALSE

Goto(m, from, to) == thread[m] = from /\ thread' = [thread EXCEPT ![m] = to]

Gone(m) == thread[m] \in {"none", "gone"}

\* Main has set the module's flag, or called io_context::stop or MHD_stop_daemon.
Asked(m) == main \in {"stopping", "destroyed", "exited"} /\ \E i \in 1 .. step : StopOrder[i] = m

\* notify_all on the condition variable of the notifier, of a client.
Woken(place) == IF place = "waiting" THEN "woken" ELSE place
Notify == pending' = TRUE /\ thread' = [thread EXCEPT !["notifier"] = Woken(@)]

-----------------------------------------------------------------------------
(* The main thread: ManagerModule::Start, Run, Stop and the destructors *)

\* The HTTP server may fail to start; main goes on without it.
StartModule ==
  /\ main = "starting" /\ step < 4 /\ step' = step + 1
  /\ \E first \in {"idle"} \cup (IF step = 3 THEN {"none"} ELSE {}) :
       thread' = [thread EXCEPT ![StartOrder[step + 1]] = first]
  /\ UNCHANGED <<main, callVars, clientVars, engineVars, pending>>

Started ==
  /\ main = "starting" /\ step = 4 /\ main' = "running" /\ step' = 0
  /\ UNCHANGED <<thread, callVars, clientVars, engineVars, pending>>

\* Key q is pressed.
Quit ==
  /\ main = "running" /\ main' = "stopping"
  /\ UNCHANGED <<step, thread, callVars, clientVars, engineVars, pending>>

Joined == IF step = 0 THEN TRUE ELSE Gone(StopOrder[step])

\* The module stopped last has ended; the next one is asked to.
StopModule ==
  /\ main = "stopping" /\ step < 4 /\ Joined
  /\ step' = step + 1
  /\ thread' = IF step = 0 THEN [thread EXCEPT !["notifier"] = Woken(@)] ELSE thread
  /\ UNCHANGED <<main, callVars, clientVars, engineVars, pending>>

\* The HTTP server, the manager (but see above) and the notifier are deleted.
Stopped ==
  /\ main = "stopping" /\ step = 4 /\ Joined /\ main' = "destroyed"
  /\ UNCHANGED <<step, thread, callVars, clientVars, engineVars, pending>>

\* The process ends, with the threads that still run.
Exit ==
  /\ main = "destroyed" /\ main' = "exited"
  /\ UNCHANGED <<step, thread, callVars, clientVars, engineVars, pending>>

MainStep ==
  StartModule \/ Started \/ StopModule \/ Stopped \/ Exit

-----------------------------------------------------------------------------
(* The HTTP thread *)

HttpIdle == thread["http"] = "idle" /\ call = "none"

\* MHD_stop_daemon waits for the handler that is running.
HttpEnds ==
  /\ HttpIdle /\ Asked("http") /\ Goto("http", "idle", "gone")
  /\ UNCHANGED <<mainVars, callVars, clientVars, engineVars, pending>>

RtmpNotify == HttpIdle /\ Notify /\ UNCHANGED <<mainVars, callVars, clientVars, engineVars>>

\* RtmpClient::Start starts the publishing thread, then adds the sender.
GetPort(c) ==
  /\ HttpIdle /\ c \notin clients
  /\ clients' = clients \cup {c} /\ id' = c /\ call' = "add sender"
  /\ publisher' = [publisher EXCEPT ![c] = "busy"] /\ data' = [data EXCEPT ![c] = FALSE]
  /\ UNCHANGED <<mainVars, thread, server, engineVars, pending>>

FreePort(c) ==
  /\ HttpIdle /\ server[c] = "open"
  /\ id' = c /\ call' = "wait server"
  /\ \E end \in {"closing", "deaf"} : server' = [server EXCEPT ![c] = end]
  /\ UNCHANGED <<mainVars, thread, clients, publisher, data, engineVars, pending>>

-----------------------------------------------------------------------------
(* What GetPort and FreePort wait for *)

CallGoto(from, to) ==
  /\ call = from /\ call' = to /\ id' = IF to = "none" THEN NoID ELSE id
  /\ UNCHANGED mainVars

\* The engine holds its mutex for a whole round and the sleep after it.
MutexFree == thread["engine"] # "round"

\* Mutant: the engine is given a null pointer, which it refuses no more.
NullAdded == senders \cup {NoID}
Added == senders \cup {id}

AddSender ==
  /\ MutexFree /\ CallGoto("add sender", "start server") /\ senders' = Added
  /\ UNCHANGED <<thread, clientVars, round, pending>>

StartServer ==
  /\ CallGoto("start server", "none") /\ server' = [server EXCEPT ![id] = "open"]
  /\ UNCHANGED <<thread, clients, publisher, data, engineVars, pending>>

\* GetPort gives up; its locals are destroyed, with ~RtmpClient.
GiveUp ==
  /\ CallGoto("start server", "remove sender")
  /\ UNCHANGED <<thread, clientVars, engineVars, pending>>

ServerStopped ==
  /\ CallGoto("wait server", "remove sender") /\ server[id] = "stopped"
  /\ UNCHANGED <<thread, clientVars, engineVars, pending>>

\* Mutant: the sender stays in the engine's map.
Kept == senders
Removed == senders \ {id}

RemoveSender ==
  /\ MutexFree /\ CallGoto("remove sender", "set stopped") /\ senders' = Removed
  /\ UNCHANGED <<thread, clientVars, round, pending>>

SetStopped ==
  /\ CallGoto("set stopped", "join")
  /\ publisher' = [publisher EXCEPT ![id] = Woken(@)]
  /\ UNCHANGED <<thread, clients, data, server, engineVars, pending>>

\* The client is destroyed, then its server (MediaServerInfo).
Join ==
  /\ CallGoto("join", "erase") /\ publisher[id] = "done"
  /\ clients' = clients \ {id} /\ publisher' = [publisher EXCEPT ![id] = "none"]
  /\ UNCHANGED <<thread, data, server, engineVars, pending>>

Erase ==
  /\ CallGoto("erase", "none") /\ server' = [server EXCEPT ![id] = "none"]
  /\ UNCHANGED <<thread, clients, publisher, data, engineVars, pending>>

CallStep ==
  AddSender \/ StartServer \/ GiveUp \/ ServerStopped \/ RemoveSender \/ SetStopped \/ Join \/ Erase

-----------------------------------------------------------------------------
(* AudioSenderEngine::Run *)

EngineGoto(from, to) ==
  Goto("engine", from, to) /\ UNCHANGED <<mainVars, callVars, clientVars, senders, pending>>

\* Mutant: m_stop is not looked at.
NeverAsked == FALSE
EngineAsked == Asked("engine")

EngineEnds == EngineAsked /\ EngineGoto("idle", "gone") /\ UNCHANGED round
BeginRound == ~EngineAsked /\ EngineGoto("idle", "round") /\ round' = senders

\* To whichever sender is next in the map.
SendAudio == EngineGoto("round", "round") /\ \E c \in round : round' = round \ {c}

\* The engine has slept with its mutex held, and releases it.
EndRound == round = {} /\ EngineGoto("round", "idle") /\ UNCHANGED round

EngineStep ==
  EngineEnds \/ BeginRound \/ SendAudio \/ EndRound

-----------------------------------------------------------------------------
(* The io thread *)

IoRuns == thread["io"] = "idle"

\* OnData of a server that is not stopped yet.
OnData(c) ==
  /\ IoRuns /\ server[c] \in {"open", "closing", "deaf"}
  /\ data' = [data EXCEPT ![c] = TRUE] /\ publisher' = [publisher EXCEPT ![c] = Woken(@)]
  /\ UNCHANGED <<mainVars, thread, callVars, clients, server, engineVars, pending>>

\* Also of a server that Stop has just found stopped: OnSessionError may still run.
NotifyDeviceDisconnect(c) ==
  /\ IoRuns /\ server[c] # "none" /\ Notify
  /\ UNCHANGED <<mainVars, callVars, clientVars, engineVars>>

AcceptCanceled(c) ==
  /\ IoRuns /\ server[c] = "closing" /\ server' = [server EXCEPT ![c] = "stopped"]
  /\ UNCHANGED <<mainVars, thread, callVars, clients, publisher, data, engineVars, pending>>

IoEnds ==
  /\ Asked("io") /\ Goto("io", "idle", "gone")
  /\ UNCHANGED <<mainVars, callVars, clientVars, engineVars, pending>>

-----------------------------------------------------------------------------
(* The publishing threads: RtmpClient::Run *)

PublisherGoto(c, from, to) ==
  /\ publisher[c] = from /\ publisher' = [publisher EXCEPT ![c] = to]
  /\ UNCHANGED <<mainVars, callVars, clients, server, engineVars>>

ClientStopped(c) == id = c /\ call = "join"

ReadWaits(c) ==
  ~data[c] /\ PublisherGoto(c, "busy", "waiting") /\ UNCHANGED <<thread, data, pending>>

ReadReturns(c, from) ==
  /\ from = "woken" \/ data[c]
  /\ IF ClientStopped(c) THEN PublisherGoto(c, from, "ending") /\ UNCHANGED data
     ELSE PublisherGoto(c, from, "busy") /\ \E more \in BOOLEAN : data' = [data EXCEPT ![c] = more]
  /\ UNCHANGED <<thread, pending>>

PublishingFails(c) == PublisherGoto(c, "busy", "ending") /\ UNCHANGED <<thread, data, pending>>

RunEnds(c) ==
  /\ PublisherGoto(c, "ending", "done") /\ UNCHANGED data
  /\ IF ClientStopped(c) THEN UNCHANGED <<thread, pending>> ELSE Notify

PublisherStep(c) ==
  /\ main # "exited"
  /\ \/ ReadWaits(c) \/ PublishingFails(c) \/ RunEnds(c)
     \/ \E from \in {"busy", "woken"} : ReadReturns(c, from)

-----------------------------------------------------------------------------
(* HttpNotifier::Run *)

NotifierGoto(from, to) ==
  Goto("notifier", from, to) /\ UNCHANGED <<mainVars, callVars, clientVars, engineVars>>

NotifierWaits == ~pending /\ NotifierGoto("idle", "waiting") /\ UNCHANGED pending

NotifierReads(from) ==
  /\ from = "woken" \/ pending
  /\ IF Asked("notifier") THEN NotifierGoto(from, "gone") /\ UNCHANGED pending
     ELSE NotifierGoto(from, "idle") /\ pending' \in BOOLEAN

NotifierStep == NotifierWaits \/ \E from \in {"idle", "woken"} : NotifierReads(from)

-----------------------------------------------------------------------------
Next ==
  \/ MainStep \/ Quit
  \/ HttpEnds \/ RtmpNotify \/ CallStep
  \/ EngineStep \/ IoEnds \/ NotifierStep
  \/ \E c \in UniqueIDs : \/ GetPort(c) \/ FreePort(c)
                          \/ OnData(c) \/ NotifyDeviceDisconnect(c) \/ AcceptCanceled(c)
                          \/ PublisherStep(c)

\* Every thread goes on with what it has begun.  Nothing is assumed of HTTP
\* clients, devices and the key that ends the program, nor of who gets the
\* engine's mutex in the moment between two rounds: std::mutex may give it to
\* the engine every time.  The end of the HTTP thread is strongly fair, because
\* libmicrohttpd looks at its shutdown flag between the requests it serves.
Spec ==
  /\ Init /\ [][Next]_vars
  /\ WF_vars(MainStep) /\ SF_vars(HttpEnds) /\ WF_vars(CallStep)
  /\ WF_vars(EngineStep) /\ WF_vars(IoEnds) /\ WF_vars(NotifierStep)
  /\ \A c \in UniqueIDs : WF_vars(AcceptCanceled(c)) /\ WF_vars(PublisherStep(c))

-----------------------------------------------------------------------------
(* Properties *)

\* Every variable has its type.
TypeOK ==
  /\ main \in {"starting", "running", "stopping", "destroyed", "exited"} /\ step \in 0 .. 4
  /\ thread \in [Modules -> {"none", "idle", "waiting", "woken", "round", "gone"}]
  /\ id \in UniqueIDs \cup {NoID}
  /\ call \in {"none", "add sender", "start server", "wait server", "remove sender", "set stopped",
               "join", "erase"}
  /\ clients \subseteq UniqueIDs /\ senders \subseteq UniqueIDs /\ round \subseteq UniqueIDs
  /\ publisher \in [UniqueIDs -> {"none", "busy", "waiting", "woken", "ending", "done"}]
  /\ data \in [UniqueIDs -> BOOLEAN]
  /\ server \in [UniqueIDs -> {"none", "open", "closing", "deaf", "stopped"}]
  /\ pending \in BOOLEAN

\* Every object outlives its use by another thread: the engine's map and the
\* round it is in name clients that exist, the io thread's callbacks go to a
\* client that exists, and a publishing thread has its client.  When the
\* modules are deleted, the publishing threads of ports that were not freed
\* are all that runs: they alone may use the notifier after its end.
ObjectsOutliveUse ==
  /\ senders \cup round \subseteq clients
  /\ \A c \in UniqueIDs : IoRuns /\ server[c] \in {"open", "closing", "deaf"} => c \in clients
  /\ \A c \in UniqueIDs : publisher[c] # "none" => c \in clients
  /\ main \in {"destroyed", "exited"} =>
       (\A m \in Modules : Gone(m)) /\ \A c \in clients : server[c] = "open"

\* Who waits for a thread finds it running: FreePort the io thread, for as
\* long as requests are served, and a request the engine it adds its client to.
WaitedForRuns ==
  /\ call = "wait server" => IoRuns
  /\ thread["http"] = "idle" => ~Gone("io") /\ ~Gone("engine")

\* A wait that Stop has tried to end and did not: a notification came too
\* early (the notifier, a client), or the end of an accept was not seen.
WaitLost ==
  \/ Asked("notifier") /\ thread["notifier"] = "waiting"
  \/ call = "join" /\ publisher[id] = "waiting"
  \/ call = "wait server" /\ server[id] = "deaf"

\* The HTTP thread waits for the engine's mutex (AddSender, RemoveSender).
WaitsForEngine == call \in {"add sender", "remove sender"}

\* One of these waits is for ever: one that was lost, or the fourth, for a
\* mutex that is free again and again and that the engine, which locks it
\* right after it has unlocked it, takes every time.
Stranded ==
  \/ <>[]WaitLost
  \/ <>[]WaitsForEngine /\ []<>MutexFree

\* Main, the HTTP thread, the io thread, the engine and the clients never
\* wait for each other in a circle: the program ends once it is told to,
\* unless one of the four defective waits is for ever.
ExitsUnlessStranded == <>(main = "stopping") => <>(main = "exited") \/ Stranded
=============================================================================
