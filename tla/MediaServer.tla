---------------------------- MODULE MediaServer ----------------------------
(***************************************************************************)
(* A MediaServer with its MediaSession: the io thread, which runs the      *)
(* handlers of asynchronous accepts and reads, one at a time, and the HTTP *)
(* thread, which stops the server (MediaServerManager::FreePort) and then  *)
(* destroys it.                                                            *)
(*                                                                         *)
(* Of asio: an operation is pending until it completes, and its handler    *)
(* runs some time after.  close() completes what is pending with           *)
(* operation_canceled and does not touch what is complete already; an      *)
(* operation started on a closed descriptor completes with                 *)
(* bad_descriptor.  m_acceptor, m_socket and m_mediaSession are used by    *)
(* both threads without a lock; each use is one step here.                 *)
(*                                                                         *)
(* Using an object that is destroyed is undefined behaviour, and so is     *)
(* destroying one whose handler is still to run: the program goes no       *)
(* further.                                                                *)
(***************************************************************************)

CONSTANT SpuriousWakeups  \* whether m_condition.wait() may return unnotified

ASSUME FlagAssumption == SpuriousWakeups \in BOOLEAN

VARIABLES
  acceptor,        \* m_acceptor: "open" or "closed"
  accept,          \* the asynchronous accept, or "none"
  serverStopped,   \* MediaServer::m_stopped
  session,         \* m_mediaSession: "none" or "alive"
  socket,          \* its m_socket: "open" or "closed"
  read,            \* its asynchronous read, or "none"
  sessionStopped,  \* its m_stopped
  io,              \* where the io thread is
  http             \* where the HTTP thread is in FreePort and Stop

serverVars == <<acceptor, accept, serverStopped>>
sessionVars == <<session, socket, read, sessionStopped>>
vars == <<serverVars, sessionVars, io, http>>

\* MediaServer::Start succeeded.
Init ==
  /\ acceptor = "open" /\ accept = "pending" /\ serverStopped = FALSE
  /\ session = "none" /\ socket = "closed" /\ read = "none" /\ sessionStopped = FALSE
  /\ io = "idle" /\ http = "serving"

InSessionStop == {"close socket", "session check", "session waiting", "session woken"}

\* Stop is inside a session that is destroyed, or the server is destroyed
\* while a handler runs or is still to run.
Misuse ==
  \/ http \in InSessionStop /\ session = "none"
  \/ http = "destroyed" /\ (io # "idle" \/ accept # "none" \/ read # "none")

-----------------------------------------------------------------------------
(* Devices *)

DeviceConnects ==
  /\ accept = "pending" /\ accept' = "connected"
  /\ UNCHANGED <<acceptor, serverStopped, sessionVars, io, http>>

DeviceSends ==
  /\ read = "pending" /\ read' = "data"
  /\ UNCHANGED <<serverVars, session, socket, sessionStopped, io, http>>

DeviceDisconnects ==
  /\ read = "pending" /\ read' = "failed"
  /\ UNCHANGED <<serverVars, session, socket, sessionStopped, io, http>>

-----------------------------------------------------------------------------
(* MediaServer::DoAccept and its handler *)

IoGoto(from, to) == io = from /\ io' = to /\ UNCHANGED http

\* Mutant: a connection is waited for only once.
AcceptOnce == "none"
AcceptStarted == IF acceptor = "open" THEN "pending" ELSE "bad descriptor"

Accepted ==
  /\ accept = "connected" /\ accept' = "none" /\ IoGoto("idle", "accepted")
  /\ UNCHANGED <<acceptor, serverStopped, sessionVars>>

\* remote_endpoint() throws when the device is gone already; nothing catches it.
RemoteGone == IoGoto("accepted", "terminated") /\ UNCHANGED <<serverVars, sessionVars>>

RejectConnection ==
  session = "alive" /\ IoGoto("accepted", "accept again") /\ UNCHANGED <<serverVars, sessionVars>>

StartSession ==
  /\ session = "none" /\ IoGoto("accepted", "accept again")
  /\ session' = "alive" /\ socket' = "open" /\ read' = "pending"
  /\ sessionStopped' = FALSE
  /\ UNCHANGED serverVars

AcceptFailed ==
  /\ accept = "bad descriptor" /\ accept' = "none" /\ IoGoto("idle", "accept again")
  /\ UNCHANGED <<acceptor, serverStopped, sessionVars>>

DoAccept ==
  /\ IoGoto("accept again", "idle") /\ accept' = AcceptStarted
  /\ UNCHANGED <<acceptor, serverStopped, sessionVars>>

\* Mutant: the waiting Stop is not notified.
NotNotified(from, to) == UNCHANGED http
Notify(from, to) == http' = IF http = from THEN to ELSE http

AcceptCanceled ==
  /\ io = "idle" /\ accept = "canceled" /\ accept' = "none"
  /\ serverStopped' = TRUE /\ Notify("waiting", "woken")
  /\ UNCHANGED <<acceptor, sessionVars, io>>

AcceptHandler ==
  Accepted \/ RemoteGone \/ RejectConnection \/ StartSession \/ AcceptFailed \/ DoAccept \/ AcceptCanceled

-----------------------------------------------------------------------------
(* MediaSession::DoRead, its handler, and MediaServer::OnSessionError *)

ReadCompletes ==
  /\ read = "data" /\ read' = "none" /\ IoGoto("idle", "parse data")
  /\ UNCHANGED <<serverVars, session, socket, sessionStopped>>

\* ParseData, which calls m_mediaDataCallback, and the next read.
DoRead ==
  /\ IoGoto("parse data", "idle")
  /\ read' = IF socket = "open" THEN "pending" ELSE "bad descriptor"
  /\ UNCHANGED <<serverVars, session, socket, sessionStopped>>

SessionError(error) == error # "canceled"

ReadFails ==
  /\ io = "idle" /\ read \in {"failed", "canceled", "bad descriptor"} /\ read' = "none"
  /\ sessionStopped' = TRUE /\ Notify("session waiting", "session woken")
  /\ io' = IF SessionError(read) THEN "session error" ELSE "idle"
  /\ UNCHANGED <<serverVars, session, socket>>

\* MediaSession::Stop on the io thread does not wait: m_stopped is set.
OnSessionError ==
  /\ IoGoto("session error", "reset") /\ socket' = "closed"
  /\ UNCHANGED <<serverVars, session, read, sessionStopped>>

\* Mutant: the session is kept.
KeepSession == UNCHANGED session
Reset == session' = "none"

ResetSession ==
  /\ IoGoto("reset", "notify") /\ Reset
  /\ UNCHANGED <<serverVars, socket, read, sessionStopped>>

NotifyDeviceDisconnect == IoGoto("notify", "idle") /\ UNCHANGED <<serverVars, sessionVars>>

ReadHandler ==
  ReadCompletes \/ DoRead \/ ReadFails \/ OnSessionError \/ ResetSession \/ NotifyDeviceDisconnect

-----------------------------------------------------------------------------
(* FreePort: MediaServer::Stop with MediaSession::Stop, then destruction *)

HttpGoto(from, to) == http = from /\ http' = to /\ UNCHANGED io

StopCalled == HttpGoto("serving", "close acceptor") /\ UNCHANGED <<serverVars, sessionVars>>

CloseAcceptor ==
  /\ HttpGoto("close acceptor", "look") /\ acceptor' = "closed"
  /\ accept' = IF accept = "pending" THEN "canceled" ELSE accept
  /\ UNCHANGED <<serverStopped, sessionVars>>

Look ==
  /\ HttpGoto("look", IF session = "alive" THEN "close socket" ELSE "check")
  /\ UNCHANGED <<serverVars, sessionVars>>

\* Mutant: close(2) on the native handle, of which asio learns nothing.
NativeClose == socket' = "closed" /\ UNCHANGED read
Close == socket' = "closed" /\ read' = IF read = "pending" THEN "canceled" ELSE read

CloseSocket ==
  /\ HttpGoto("close socket", "session check") /\ Close
  /\ UNCHANGED <<serverVars, session, sessionStopped>>

\* Mutant: the read that is under way is not waited for.
WithoutWait == "check"
UntilStopped == IF sessionStopped THEN "check" ELSE "session waiting"

SessionCheck ==
  HttpGoto("session check", UntilStopped) /\ UNCHANGED <<serverVars, sessionVars>>

Check ==
  /\ HttpGoto("check", IF serverStopped THEN "returned" ELSE "waiting")
  /\ UNCHANGED <<serverVars, sessionVars>>

\* The states of the waits from which the thread goes on.
Awake ==
  {"session woken", "woken"} \cup (IF SpuriousWakeups THEN {"session waiting", "waiting"} ELSE {})

WaitReturns ==
  /\ http \in Awake
  /\ HttpGoto(http, IF http \in InSessionStop THEN "check" ELSE "returned")
  /\ UNCHANGED <<serverVars, sessionVars>>

Destroy ==
  /\ HttpGoto("returned", "destroyed") /\ session' = "none"
  /\ UNCHANGED <<serverVars, socket, read, sessionStopped>>

StopStep == CloseAcceptor \/ Look \/ CloseSocket \/ SessionCheck \/ Check \/ WaitReturns \/ Destroy

Over == Misuse \/ io = "terminated"

IoStep == ~Over /\ (AcceptHandler \/ ReadHandler)
HttpStep == ~Over /\ StopStep

Next ==
  \/ ~Over /\ (DeviceConnects \/ DeviceSends \/ DeviceDisconnects \/ StopCalled)
  \/ IoStep \/ HttpStep

\* The io thread runs the handlers that are due, the HTTP thread what it
\* has begun.  At most one handler of the accept is due, and one of the read;
\* which is next is asio's choice, and it starves neither.
Spec ==
  /\ Init /\ [][Next]_vars
  /\ WF_vars(IoStep) /\ WF_vars(HttpStep)
  /\ SF_vars(~Over /\ (Accepted \/ AcceptFailed \/ AcceptCanceled))
  /\ SF_vars(~Over /\ (ReadCompletes \/ ReadFails))

-----------------------------------------------------------------------------
(* Properties *)

\* The values of the flags, and of the rest.
Flags == {serverStopped, sessionStopped} \subseteq BOOLEAN

Places ==
  /\ acceptor \in {"open", "closed"}
  /\ accept \in {"none", "pending", "connected", "canceled", "bad descriptor"}
  /\ session \in {"none", "alive"} /\ socket \in {"open", "closed"}
  /\ read \in {"none", "pending", "data", "failed", "canceled", "bad descriptor"}
  /\ io \in {"idle", "accepted", "accept again", "parse data", "session error", "reset", "notify",
             "terminated"}
  /\ http \in {"serving", "close acceptor", "look", "check", "waiting", "woken", "returned",
               "destroyed"} \cup InSessionStop

\* Every variable has its type, and only an open descriptor has a pending
\* operation: close() leaves none behind that would never complete.
TypeOK ==
  /\ Flags /\ Places
  /\ accept = "pending" => acceptor = "open"
  /\ read = "pending" => socket = "open"

\* When Stop returns the io thread hands no more data to the callback: the
\* RTMP client, stopped next, is not called any more.
NoDataAfterStop ==
  http \in {"returned", "destroyed"} => io # "parse data" /\ read \notin {"pending", "data"}

\* The one way to use a destroyed object is OnSessionError running while
\* Stop does: the handshakes over m_stopped keep the threads apart otherwise.
MisuseOnlyOnError == Misuse => io \in {"session error", "reset", "notify"}

\* A device that leaves is reported, and its place is free for another one.
DisconnectReported == read = "failed" ~> (io = "notify" /\ session = "none") \/ Over

\* A server whose place is free listens, unless it is stopped.
AcceptsAgain == session = "none" ~> (accept = "pending" \/ http # "serving" \/ Over)

\* Stop ends if it found the accept pending, whatever the session and its
\* device do meanwhile.
StopEnds == accept = "canceled" ~> (http = "destroyed" \/ Over)
=============================================================================
