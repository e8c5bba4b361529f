------------------------- MODULE MediaServerProofs -------------------------
(***************************************************************************)
(* What holds of a MediaServer in every behaviour.  Whether Stop ends is   *)
(* liveness and stays with the model checker.                              *)
(***************************************************************************)
EXTENDS MediaServer, TLAPS

IoError == {"session error", "reset"}

\* The flags are only ever set to TRUE or FALSE.
LEMMA FlagsHold == Spec => []Flags
<1>1. Init => Flags
  BY DEF Init, Flags
<1>2. Flags /\ [Next]_vars => Flags'
  BY DEF Flags, Next, IoStep, HttpStep, vars, serverVars, sessionVars, DeviceConnects, DeviceSends,
         DeviceDisconnects, StopCalled, AcceptHandler, Accepted, RemoteGone, RejectConnection,
         StartSession, AcceptFailed, DoAccept, AcceptCanceled, ReadHandler, ReadCompletes, DoRead,
         ReadFails, OnSessionError, ResetSession, NotifyDeviceDisconnect, StopStep, CloseAcceptor,
         Look, CloseSocket, SessionCheck, Check, WaitReturns, Destroy
<1> QED
  BY <1>1, <1>2, PTL DEF Spec

\* A handler of a read runs when its read is over.
OneRead == io \in {"parse data"} \cup IoError => read = "none"

Pending ==
  /\ accept = "pending" => acceptor = "open"
  /\ read = "pending" => socket = "open"

ServerInv == Places /\ Pending /\ OneRead

\* Init and every step establish the rest.
LEMMA ServerInvHolds == Spec => []ServerInv
<1> USE DEF ServerInv, serverVars, sessionVars
<1>1. Init => ServerInv
  BY DEF Init, Places, Pending, OneRead, IoError
<1>2. ASSUME ServerInv, AcceptHandler PROVE ServerInv'
  <2>1. Places'
    BY <1>2 DEF Places, InSessionStop, AcceptHandler, Accepted, RemoteGone, RejectConnection,
                StartSession, AcceptFailed, DoAccept, AcceptCanceled, IoGoto, Notify,
                AcceptStarted
  <2>2. (Pending /\ OneRead)'
    BY <1>2 DEF Pending, OneRead, IoError, AcceptHandler, Accepted, RemoteGone, RejectConnection,
                StartSession, AcceptFailed, DoAccept, AcceptCanceled, IoGoto, Notify,
                AcceptStarted
  <2> QED
    BY <2>1, <2>2
<1>3. ASSUME ServerInv, ReadHandler PROVE ServerInv'
  <2>1. Places'
    BY <1>3 DEF Places, InSessionStop, ReadHandler, ReadCompletes, DoRead, ReadFails,
                OnSessionError, ResetSession, NotifyDeviceDisconnect, IoGoto, Notify,
                SessionError, Reset
  <2>2. (Pending /\ OneRead)'
    BY <1>3 DEF Pending, OneRead, IoError, ReadHandler, ReadCompletes, DoRead, ReadFails,
                OnSessionError, ResetSession, NotifyDeviceDisconnect, IoGoto, Notify,
                SessionError, Reset
  <2> QED
    BY <2>1, <2>2
<1>4. ASSUME ServerInv, StopStep PROVE ServerInv'
  <2>1. Places'
    BY <1>4 DEF Places, InSessionStop, StopStep, CloseAcceptor, Look, CloseSocket, SessionCheck,
                Check, WaitReturns, Awake, Destroy, HttpGoto, Close, UntilStopped
  <2>2. (Pending /\ OneRead)'
    BY <1>4 DEF Pending, OneRead, IoError, StopStep, CloseAcceptor, Look, CloseSocket,
                SessionCheck, Check, WaitReturns, Awake, Destroy, HttpGoto, Close, UntilStopped
  <2> QED
    BY <2>1, <2>2
<1>5. ASSUME ServerInv, DeviceConnects \/ DeviceSends \/ DeviceDisconnects \/ StopCalled
      PROVE ServerInv'
  <2>1. Places'
    BY <1>5 DEF Places, InSessionStop, DeviceConnects, DeviceSends, DeviceDisconnects, StopCalled, HttpGoto
  <2>2. (Pending /\ OneRead)'
    BY <1>5 DEF Pending, OneRead, IoError, DeviceConnects, DeviceSends, DeviceDisconnects, StopCalled, HttpGoto
  <2> QED
    BY <2>1, <2>2
<1>6. ASSUME ServerInv, UNCHANGED vars PROVE ServerInv'
  <2>1. /\ acceptor' = acceptor /\ accept' = accept /\ session' = session /\ socket' = socket
        /\ read' = read /\ io' = io /\ http' = http
    BY <1>6 DEF vars
  <2>2. Places'
    <3>1. Places
      BY <1>6
    <3>2. http' \in {"serving", "close acceptor", "look", "check", "waiting", "woken", "returned",
                    "destroyed"} \cup InSessionStop
      BY <2>1, <3>1 DEF Places
    <3> QED
      BY <2>1, <3>1, <3>2, ZenonT(60) DEF Places, InSessionStop
  <2>3. (Pending /\ OneRead)'
    BY <1>6, <2>1 DEF Pending, OneRead
  <2> QED
    BY <2>2, <2>3
<1>7. ServerInv /\ [Next]_vars => ServerInv'
  BY <1>2, <1>3, <1>4, <1>5, <1>6 DEF Next, IoStep, HttpStep
<1> QED
  BY <1>1, <1>7, PTL DEF Spec

\* The types hold, and close() leaves no pending operation behind
\* (MediaServer.cpp:33, MediaSession.cpp:25).
THEOREM TypeCorrect == Spec => []TypeOK
<1>1. Flags /\ ServerInv => TypeOK
  BY DEF ServerInv, Pending, TypeOK
<1> QED
  BY <1>1, FlagsHold, ServerInvHolds, PTL

-----------------------------------------------------------------------------
(* The handshakes over m_stopped *)

Closed == http \notin {"serving", "close acceptor"}
SessionPassed == http \in {"check", "waiting", "woken", "returned", "destroyed"}

\* Once the accept is canceled no handler of an accept runs that could make
\* another session.
Ending == accept = "canceled" \/ serverStopped

OneAccept ==
  /\ io \in {"accepted", "accept again"} => accept = "none" /\ ~serverStopped
  /\ accept # "none" => ~serverStopped
  /\ Ending => Closed
  /\ acceptor = "closed" <=> Closed
  /\ http \in {"woken", "returned", "destroyed"} => serverStopped
  /\ http = "destroyed" => io # "terminated"

\* A session is over when it has stopped: its last read has failed.
SessionOver ==
  /\ sessionStopped => read = "none" /\ io # "parse data"
  /\ session = "none" /\ http # "destroyed" =>
       read = "none" /\ io \notin {"parse data"} \cup IoError
  /\ http \in InSessionStop /\ session = "none" => io = "notify"
  /\ http = "session woken" => sessionStopped

\* Behind the handshake with the session no read is under way, if the
\* acceptor's handshake is going to succeed.
Quiet == Ending /\ SessionPassed => read = "none" /\ io # "parse data"

StopInv == ServerInv /\ OneAccept /\ SessionOver /\ Quiet

LEMMA StopInvInit == Init => StopInv
BY DEF Init, StopInv, ServerInv, Places, Pending, OneRead, IoError, OneAccept, Ending, Closed,
   SessionOver, InSessionStop, Quiet, SessionPassed

\* A handler of an accept preserves the handshakes.
LEMMA AcceptStep == ASSUME StopInv, ServerInv', ~Over, AcceptHandler PROVE StopInv'
<1> USE DEF StopInv, ServerInv, Places, Pending, OneRead, IoError, OneAccept, Ending, Closed,
            SessionOver, InSessionStop, Quiet, SessionPassed, serverVars, sessionVars
<1>1. CASE Accepted BY <1>1 DEF Accepted, IoGoto
<1>2. CASE RemoteGone BY <1>2 DEF RemoteGone, IoGoto
<1>3. CASE RejectConnection BY <1>3 DEF RejectConnection, IoGoto
<1>4. CASE StartSession BY <1>4 DEF StartSession, IoGoto, Over, Misuse
<1>5. CASE AcceptFailed BY <1>5 DEF AcceptFailed, IoGoto
<1>6. CASE DoAccept BY <1>6 DEF DoAccept, IoGoto, AcceptStarted
<1>7. CASE AcceptCanceled BY <1>7 DEF AcceptCanceled, Notify
<1> QED BY <1>1, <1>2, <1>3, <1>4, <1>5, <1>6, <1>7 DEF AcceptHandler

\* A handler of a read preserves them.
LEMMA ReadStep == ASSUME StopInv, ServerInv', ~Over, ReadHandler PROVE StopInv'
<1> USE DEF StopInv, ServerInv, Places, Pending, OneRead, IoError, OneAccept, Ending, Closed,
            SessionOver, InSessionStop, Quiet, SessionPassed, serverVars, sessionVars
<1>1. CASE ReadCompletes BY <1>1 DEF ReadCompletes, IoGoto, Over, Misuse
<1>2. CASE DoRead BY <1>2 DEF DoRead, IoGoto, Over, Misuse
<1>3. CASE ReadFails BY <1>3 DEF ReadFails, Notify, SessionError, Over, Misuse
<1>4. CASE OnSessionError BY <1>4 DEF OnSessionError, IoGoto
<1>5. CASE ResetSession BY <1>5 DEF ResetSession, Reset, IoGoto
<1>6. CASE NotifyDeviceDisconnect BY <1>6 DEF NotifyDeviceDisconnect, IoGoto, Over, Misuse
<1> QED BY <1>1, <1>2, <1>3, <1>4, <1>5, <1>6 DEF ReadHandler

\* So does the thread in Stop, if its waits end only when they are notified.
LEMMA StopStepKeeps == ASSUME StopInv, ServerInv', ~Over, StopStep, ~SpuriousWakeups PROVE StopInv'
<1> USE DEF StopInv, ServerInv, Places, Pending, OneRead, IoError, OneAccept, Ending, Closed,
            SessionOver, InSessionStop, Quiet, SessionPassed, serverVars, sessionVars, HttpGoto
<1>1. CASE CloseAcceptor BY <1>1 DEF CloseAcceptor
<1>2. CASE Look BY <1>2 DEF Look
<1>3. CASE CloseSocket BY <1>3 DEF CloseSocket, Close, Over, Misuse
<1>4. CASE SessionCheck BY <1>4 DEF SessionCheck, UntilStopped, Over, Misuse
<1>5. CASE Check BY <1>5, ZenonT(60) DEF Check
<1>6. CASE WaitReturns BY <1>6, ZenonT(60) DEF WaitReturns, Awake
<1>7. CASE Destroy BY <1>7 DEF Destroy, Over
<1> QED BY <1>1, <1>2, <1>3, <1>4, <1>5, <1>6, <1>7 DEF StopStep

\* A device, and the call of Stop, leave them alone.
LEMMA DeviceStep ==
  ASSUME StopInv, ServerInv', DeviceConnects \/ DeviceSends \/ DeviceDisconnects \/ StopCalled
  PROVE StopInv'
<1> USE DEF StopInv, ServerInv, Places, Pending, OneRead, IoError, OneAccept, Ending, Closed,
            SessionOver, InSessionStop, Quiet, SessionPassed, serverVars, sessionVars
<1>1. CASE DeviceConnects BY <1>1 DEF DeviceConnects
<1>2. CASE DeviceSends BY <1>2 DEF DeviceSends
<1>3. CASE DeviceDisconnects BY <1>3 DEF DeviceDisconnects
<1>4. CASE StopCalled BY <1>4 DEF StopCalled, HttpGoto
<1> QED BY <1>1, <1>2, <1>3, <1>4

\* The handshakes hold in every behaviour without spurious wakeups.
LEMMA StopInvHolds == ASSUME ~SpuriousWakeups PROVE Spec => []StopInv
<1>1. StopInv /\ ServerInv' /\ [Next]_vars => StopInv'
  <2> SUFFICES ASSUME StopInv, ServerInv', [Next]_vars PROVE StopInv'
    OBVIOUS
  <2>1. CASE DeviceConnects \/ DeviceSends \/ DeviceDisconnects \/ StopCalled
    BY <2>1, DeviceStep
  <2>2. CASE IoStep
    BY <2>2, AcceptStep, ReadStep DEF IoStep
  <2>3. CASE HttpStep
    BY <2>3, StopStepKeeps DEF HttpStep
  <2>4. CASE UNCHANGED vars
    BY <2>4 DEF vars, serverVars, sessionVars, StopInv, OneAccept, Ending, Closed, SessionOver,
                InSessionStop, IoError, Quiet, SessionPassed
  <2> QED
    BY <2>1, <2>2, <2>3, <2>4 DEF Next
<1> QED
  BY <1>1, StopInvInit, ServerInvHolds, PTL DEF Spec

\* When MediaServer::Stop has returned (MediaServer.cpp:44) no data reaches
\* the callback any more, if waits end only when they are notified.
THEOREM QuietAfterStop == ASSUME ~SpuriousWakeups PROVE Spec => []NoDataAfterStop
<1>1. StopInv => NoDataAfterStop
  BY DEF StopInv, OneAccept, Quiet, Ending, SessionPassed, NoDataAfterStop
<1> QED
  BY <1>1, StopInvHolds, PTL

\* A destroyed session or server is used only when OnSessionError
\* (MediaServer.cpp:47) and Stop run at the same time.
THEOREM MisuseNeedsError == ASSUME ~SpuriousWakeups PROVE Spec => []MisuseOnlyOnError
<1>1. ASSUME StopInv, Misuse PROVE io \in IoError \cup {"notify"}
  <2>1. CASE http \in InSessionStop /\ session = "none"
    BY <1>1, <2>1 DEF StopInv, SessionOver
  <2>2. CASE http = "destroyed" /\ (io # "idle" \/ accept # "none" \/ read # "none")
    <3>1. accept = "none" /\ read = "none" /\ io \notin {"accepted", "accept again", "parse data"}
      BY <1>1, <2>2 DEF StopInv, OneAccept, Quiet, Ending, SessionPassed
    <3>2. io # "terminated"
      BY <1>1, <2>2 DEF StopInv, OneAccept
    <3> QED
      BY <1>1, <2>2, <3>1, <3>2 DEF StopInv, ServerInv, Places, IoError
  <2> QED
    BY <1>1, <2>1, <2>2 DEF Misuse
<1>2. StopInv => MisuseOnlyOnError
  BY <1>1 DEF MisuseOnlyOnError, IoError
<1> QED
  BY <1>2, StopInvHolds, PTL

-----------------------------------------------------------------------------
(* What Stop's waits wait for *)

\* An accept is under way: pending, complete, or in its handler.
AcceptUnderWay == accept # "none" \/ io \in {"accepted", "accept again"}

\* The end of a read is still to be handled; then m_stopped is set.
ReadToEnd == read \in {"data", "failed", "canceled", "bad descriptor"} \/ io = "parse data"

\* A connection was accepted just before close(), or accepting goes on on the
\* closed acceptor: no accept is canceled any more.
Deaf == Closed /\ ~Ending

UnderWay ==
  /\ io # "terminated" => AcceptUnderWay \/ serverStopped
  /\ session = "alive" /\ ~sessionStopped => read # "none" \/ io = "parse data"
  /\ http = "session waiting" => ~sessionStopped /\ session = "alive"
  /\ http \in {"session check", "session waiting"} => socket = "closed"
  /\ io \in IoError => sessionStopped
  /\ http = "waiting" => ~serverStopped

WaitInv == ServerInv /\ UnderWay

\* Who waits in Stop waits for a handler that is still to run and will notify
\* it: no notification came before the wait.  The one exception is a deaf
\* server, which accepts for ever.
WaitsAnswered ==
  /\ http = "session waiting" => ~sessionStopped /\ ReadToEnd
  /\ http = "waiting" /\ io # "terminated" =>
       ~serverStopped /\ (accept = "canceled" \/ (Deaf /\ AcceptUnderWay))

LEMMA WaitInvInit == Init => WaitInv
BY DEF Init, WaitInv, ServerInv, Places, Pending, OneRead, IoError, UnderWay, AcceptUnderWay

\* Every step that is taken keeps what is under way under way.
LEMMA WaitInvNext == WaitInv /\ ServerInv' /\ [Next]_vars => WaitInv'
<1> SUFFICES ASSUME WaitInv, ServerInv', [Next]_vars PROVE UnderWay'
  BY DEF WaitInv
<1> USE DEF WaitInv, ServerInv, Places, Pending, OneRead, IoError, UnderWay, AcceptUnderWay, InSessionStop,
            serverVars, sessionVars
<1>1. ASSUME ~Over, AcceptHandler PROVE UnderWay'
  <2>1. CASE Accepted BY <2>1 DEF Accepted, IoGoto
  <2>2. CASE RemoteGone BY <2>2 DEF RemoteGone, IoGoto
  <2>3. CASE RejectConnection BY <2>3 DEF RejectConnection, IoGoto
  <2>4. CASE StartSession BY <1>1, <2>4 DEF StartSession, IoGoto, Over, Misuse
  <2>5. CASE AcceptFailed BY <2>5 DEF AcceptFailed, IoGoto
  <2>6. CASE DoAccept BY <2>6 DEF DoAccept, IoGoto, AcceptStarted
  <2>7. CASE AcceptCanceled BY <2>7 DEF AcceptCanceled, Notify
  <2> QED BY <1>1, <2>1, <2>2, <2>3, <2>4, <2>5, <2>6, <2>7 DEF AcceptHandler
<1>2. ASSUME ~Over, ReadHandler PROVE UnderWay'
  <2>1. CASE ReadCompletes BY <2>1 DEF ReadCompletes, IoGoto
  <2>2. CASE DoRead BY <2>2 DEF DoRead, IoGoto
  <2>3. CASE ReadFails BY <2>3 DEF ReadFails, Notify, SessionError
  <2>4. CASE OnSessionError BY <2>4 DEF OnSessionError, IoGoto
  <2>5. CASE ResetSession BY <2>5 DEF ResetSession, Reset, IoGoto
  <2>6. CASE NotifyDeviceDisconnect BY <2>6 DEF NotifyDeviceDisconnect, IoGoto
  <2> QED BY <1>2, <2>1, <2>2, <2>3, <2>4, <2>5, <2>6 DEF ReadHandler
<1>s. ASSUME UNCHANGED <<serverVars, session, sessionStopped, read, io>>, socket' \in {socket, "closed"},
             http' = "session waiting" => ~sessionStopped /\ session = "alive",
             http' \in {"session check", "session waiting"} => socket' = "closed",
             http' = "waiting" => ~serverStopped
      PROVE  UnderWay'
  BY <1>s
<1>3. ASSUME ~Over, StopStep PROVE UnderWay'
  <2>1. CASE CloseAcceptor
    <3>1. http' = "look" /\ (accept # "none" => accept' # "none")
      BY <2>1 DEF CloseAcceptor, HttpGoto
    <3>2. UNCHANGED <<serverStopped, sessionVars, io>>
      BY <2>1 DEF CloseAcceptor, HttpGoto
    <3> QED BY <3>1, <3>2
  <2>2. CASE Look
    <3>1. http' \in {"close socket", "check"} /\ UNCHANGED <<serverVars, sessionVars, io>>
      BY <2>2 DEF Look, HttpGoto
    <3> QED BY <1>s, <3>1
  <2>3. CASE CloseSocket
    <3>1. /\ http' = "session check" /\ socket' = "closed" /\ UNCHANGED <<serverVars, session, sessionStopped, io>>
          /\ read # "none" => read' # "none"
      BY <2>3 DEF CloseSocket, Close, HttpGoto
    <3> QED BY <3>1
  <2>4. CASE SessionCheck
    <3>1. /\ http = "session check" /\ http' = IF sessionStopped THEN "check" ELSE "session waiting"
          /\ UNCHANGED <<serverVars, sessionVars, io>>
      BY <2>4 DEF SessionCheck, UntilStopped, HttpGoto
    <3>2. session = "alive" /\ socket = "closed"
      BY <1>3, <3>1 DEF Over, Misuse
    <3> QED BY <1>s, <3>1, <3>2
  <2>5. CASE Check
    <3>1. /\ http' = IF serverStopped THEN "returned" ELSE "waiting"
          /\ UNCHANGED <<serverVars, sessionVars, io>>
      BY <2>5 DEF Check, HttpGoto
    <3> QED BY <1>s, <3>1
  <2>6. CASE WaitReturns
    <3>1. http' \in {"check", "returned"} /\ UNCHANGED <<serverVars, sessionVars, io>>
      BY <2>6 DEF WaitReturns, HttpGoto
    <3> QED BY <1>s, <3>1
  <2>7. CASE Destroy
    <3>1. /\ http' = "destroyed" /\ session' = "none"
          /\ UNCHANGED <<serverVars, socket, read, sessionStopped, io>>
      BY <2>7 DEF Destroy, HttpGoto
    <3> QED BY <3>1
  <2> QED BY <1>3, <2>1, <2>2, <2>3, <2>4, <2>5, <2>6, <2>7 DEF StopStep
<1>4. CASE DeviceConnects BY <1>4 DEF DeviceConnects
<1>5. CASE DeviceSends BY <1>5 DEF DeviceSends
<1>6. CASE DeviceDisconnects BY <1>6 DEF DeviceDisconnects
<1>7. CASE StopCalled BY <1>7 DEF StopCalled, HttpGoto
<1>8. CASE UNCHANGED vars
  <2>1. UNCHANGED <<serverVars, sessionVars, io, http>>
    BY <1>8 DEF vars
  <2> QED BY <1>s, <2>1
<1> QED BY <1>1, <1>2, <1>3, <1>4, <1>5, <1>6, <1>7, <1>8 DEF Next, IoStep, HttpStep

\* What is waited for is under way in every behaviour, spurious wakeups or not.
LEMMA WaitInvHolds == Spec => []WaitInv
BY WaitInvInit, WaitInvNext, ServerInvHolds, PTL DEF Spec

\* In Stop (MediaServer.cpp:41) and in the session's (MediaSession.cpp:28) the
\* check of m_stopped and the wait miss no notification: with weak fairness
\* of the handlers the waits end, unless the server is deaf.
THEOREM NoWaitWithoutAnswer == Spec => []WaitsAnswered
<1>1. WaitInv => WaitsAnswered
  <2> SUFFICES ASSUME WaitInv PROVE WaitsAnswered
    OBVIOUS
  <2>1. ASSUME http = "session waiting" PROVE ~sessionStopped /\ ReadToEnd
    BY <2>1 DEF WaitInv, UnderWay, ServerInv, Places, Pending, ReadToEnd
  <2>2. ASSUME http = "waiting", io # "terminated"
        PROVE  ~serverStopped /\ (accept = "canceled" \/ (Deaf /\ AcceptUnderWay))
    BY <2>2 DEF WaitInv, UnderWay, Deaf, Closed, Ending
  <2> QED
    BY <2>1, <2>2 DEF WaitsAnswered
<1> QED
  BY <1>1, WaitInvHolds, PTL

\* A deaf server stays deaf, and its Stop does not return.
DeafForEver == [][Deaf => Deaf' /\ http' # "returned"]_vars

LEMMA DeafStep ==
  ASSUME ~SpuriousWakeups, StopInv, [Next]_vars, Deaf PROVE Deaf' /\ http' # "returned"
<1> DEFINE I == /\ accept \notin {"pending", "canceled"} /\ acceptor = "closed" /\ ~serverStopped
                /\ http \notin {"serving", "close acceptor", "woken", "returned", "destroyed"}
<1>1. I
  BY DEF StopInv, ServerInv, Pending, OneAccept, Deaf, Closed, Ending
<1>2. ASSUME ~Over, AcceptHandler PROVE I'
  <2> USE <1>1 DEF serverVars, sessionVars, IoGoto
  <2>1. CASE Accepted BY <2>1 DEF Accepted
  <2>2. CASE RemoteGone BY <2>2 DEF RemoteGone
  <2>3. CASE RejectConnection BY <2>3 DEF RejectConnection
  <2>4. CASE StartSession BY <2>4 DEF StartSession
  <2>5. CASE AcceptFailed BY <2>5 DEF AcceptFailed
  <2>6. CASE DoAccept BY <2>6 DEF DoAccept, AcceptStarted
  <2>7. CASE AcceptCanceled BY <2>7 DEF AcceptCanceled
  <2> QED BY <1>2, <2>1, <2>2, <2>3, <2>4, <2>5, <2>6, <2>7 DEF AcceptHandler
<1>3. ASSUME ~Over, ReadHandler PROVE I'
  <2> USE <1>1 DEF serverVars, sessionVars, IoGoto
  <2>1. CASE ReadCompletes BY <2>1 DEF ReadCompletes
  <2>2. CASE DoRead BY <2>2 DEF DoRead
  <2>3. CASE ReadFails BY <2>3 DEF ReadFails, Notify
  <2>4. CASE OnSessionError BY <2>4 DEF OnSessionError
  <2>5. CASE ResetSession BY <2>5 DEF ResetSession
  <2>6. CASE NotifyDeviceDisconnect BY <2>6 DEF NotifyDeviceDisconnect
  <2> QED BY <1>3, <2>1, <2>2, <2>3, <2>4, <2>5, <2>6 DEF ReadHandler
<1>4. ASSUME ~Over, StopStep PROVE I'
  <2> USE <1>1 DEF serverVars, sessionVars, HttpGoto
  <2>1. CASE CloseAcceptor BY <2>1 DEF CloseAcceptor
  <2>2. CASE Look BY <2>2 DEF Look
  <2>3. CASE CloseSocket BY <2>3 DEF CloseSocket
  <2>4. CASE SessionCheck BY <2>4 DEF SessionCheck, UntilStopped
  <2>5. CASE Check BY <2>5 DEF Check
  <2>6. CASE WaitReturns BY <2>6 DEF WaitReturns, Awake, InSessionStop
  <2>7. CASE Destroy BY <2>7 DEF Destroy
  <2> QED BY <1>4, <2>1, <2>2, <2>3, <2>4, <2>5, <2>6, <2>7 DEF StopStep
<1>5. ASSUME DeviceConnects PROVE I' BY <1>1, <1>5 DEF DeviceConnects
<1>6. ASSUME DeviceSends PROVE I' BY <1>1, <1>6 DEF DeviceSends, serverVars
<1>7. ASSUME DeviceDisconnects PROVE I' BY <1>1, <1>7 DEF DeviceDisconnects, serverVars
<1>8. ASSUME StopCalled PROVE I' BY <1>1, <1>8 DEF StopCalled, HttpGoto
<1>9. ASSUME UNCHANGED vars PROVE I' BY <1>1, <1>9 DEF vars, serverVars
<1>10. I'
  BY <1>2, <1>3, <1>4, <1>5, <1>6, <1>7, <1>8, <1>9 DEF Next, IoStep, HttpStep
<1> QED
  BY <1>10 DEF Deaf, Closed, Ending

\* A connection accepted just before m_acceptor.close() (MediaServer.cpp:33) is
\* no race that time heals: the error is not looked at (MediaServer.cpp:87), the
\* accepts go on, and FreePort never returns.
THEOREM DeafnessIsForEver == ASSUME ~SpuriousWakeups PROVE Spec => DeafForEver
BY DeafStep, StopInvHolds, PTL DEF Spec, DeafForEver

-----------------------------------------------------------------------------
(* The server as ManagerModule has it *)

Device == "device"
NoDevice == "no device"

\* Where GetPort and FreePort are: ManagerModule's FreePort begins with close(),
\* which decides whether the server is deaf to it.
Call ==
  IF ~Closed THEN "none" ELSE IF http = "destroyed" THEN "remove sender" ELSE "wait server"

Server ==
  IF ~Closed THEN "open"
  ELSE IF http \in {"returned", "destroyed"} THEN "stopped"
  ELSE IF Ending THEN "closing" ELSE "deaf"

\* The whole program with this one device, whose client exists and is in the
\* engine's map; nobody is told to stop.  The queues of the client and of the
\* notifier are left full, their threads busy: adding to a queue shows as the
\* right to add to it.
Composed == INSTANCE ManagerModule WITH
  UniqueIDs <- {Device}, NoID <- NoDevice,
  main <- "running", step <- 0,
  thread <- [m \in {"notifier", "engine", "io", "http"} |-> "idle"],
  id <- IF Closed THEN Device ELSE NoDevice, call <- Call,
  clients <- {Device}, publisher <- [c \in {Device} |-> "busy"],
  data <- [c \in {Device} |-> TRUE], server <- [c \in {Device} |-> Server],
  senders <- {Device}, round <- {}, pending <- TRUE

StopReturns == http # "returned" /\ http' = "returned"
CoarseStep == CloseAcceptor \/ StopReturns \/ Destroy

LEMMA ConstantsComposed == NoDevice \notin {Device}
BY DEF NoDevice, Device


\* A server that Stop will find stopped goes on to be one.
LEMMA EndingStep == ASSUME StopInv, [Next]_vars, Closed, Ending PROVE Ending'
<1> USE DEF Ending
<1>1. ASSUME ~Over, AcceptHandler PROVE Ending'
  <2> USE DEF serverVars, IoGoto
  <2>1. CASE Accepted BY <2>1 DEF Accepted
  <2>2. CASE RemoteGone BY <2>2 DEF RemoteGone
  <2>3. CASE RejectConnection BY <2>3 DEF RejectConnection
  <2>4. CASE StartSession BY <2>4 DEF StartSession
  <2>5. CASE AcceptFailed BY <2>5 DEF AcceptFailed
  <2>6. CASE DoAccept BY <2>6 DEF DoAccept, AcceptStarted, StopInv, OneAccept
  <2>7. CASE AcceptCanceled BY <2>7 DEF AcceptCanceled
  <2> QED BY <1>1, <2>1, <2>2, <2>3, <2>4, <2>5, <2>6, <2>7 DEF AcceptHandler
<1>2. ASSUME ~Over, ReadHandler PROVE Ending'
  <2>1. UNCHANGED serverVars
    BY <1>2 DEF ReadHandler, ReadCompletes, DoRead, ReadFails, OnSessionError, ResetSession,
                NotifyDeviceDisconnect
  <2> QED BY <2>1 DEF serverVars
<1>3. ASSUME ~Over, StopStep PROVE Ending'
  <2>1. CASE CloseAcceptor BY <2>1 DEF CloseAcceptor, sessionVars
  <2>2. CASE ~CloseAcceptor
    <3>1. UNCHANGED serverVars
      BY <1>3, <2>2 DEF StopStep, Look, CloseSocket, SessionCheck, Check, WaitReturns, Destroy
    <3> QED BY <3>1 DEF serverVars
  <2> QED BY <2>1, <2>2
<1>4. CASE DeviceConnects BY <1>4 DEF DeviceConnects
<1>5. CASE DeviceSends \/ DeviceDisconnects BY <1>5 DEF DeviceSends, DeviceDisconnects, serverVars
<1>6. CASE StopCalled BY <1>6 DEF StopCalled, serverVars
<1>7. CASE UNCHANGED vars BY <1>7 DEF vars, serverVars
<1> QED BY <1>1, <1>2, <1>3, <1>4, <1>5, <1>6, <1>7 DEF Next, IoStep, HttpStep

\* Where Stop gets in one step: closed, returned and destroyed each by one.
LEMMA HttpPlaces ==
  ASSUME [Next]_vars, ~CloseAcceptor, ~Destroy
  PROVE  /\ Closed' = Closed /\ (http' = "destroyed" <=> http = "destroyed")
         /\ http = "returned" => http' = "returned"
<1> USE DEF Closed
<1>1. CASE AcceptHandler
  BY <1>1 DEF AcceptHandler, IoGoto, Accepted, RemoteGone, RejectConnection, StartSession, AcceptFailed,
              DoAccept, AcceptCanceled, Notify
<1>2. CASE ReadHandler
  BY <1>2 DEF ReadHandler, IoGoto, ReadCompletes, DoRead, ReadFails, Notify, OnSessionError, ResetSession,
              NotifyDeviceDisconnect
<1>3. CASE Look BY <1>3 DEF Look, HttpGoto
<1>4. CASE CloseSocket BY <1>4 DEF CloseSocket, HttpGoto
<1>5. CASE SessionCheck BY <1>5 DEF SessionCheck, HttpGoto, UntilStopped
<1>6. CASE Check BY <1>6 DEF Check, HttpGoto
<1>7. CASE WaitReturns BY <1>7 DEF WaitReturns, HttpGoto, Awake, InSessionStop
<1>8. CASE DeviceConnects \/ DeviceSends \/ DeviceDisconnects
  BY <1>8 DEF DeviceConnects, DeviceSends, DeviceDisconnects
<1>9. CASE StopCalled BY <1>9 DEF StopCalled, HttpGoto
<1>10. CASE UNCHANGED vars BY <1>10 DEF vars
<1> QED
  BY <1>1, <1>2, <1>3, <1>4, <1>5, <1>6, <1>7, <1>8, <1>9, <1>10 DEF Next, IoStep, HttpStep, StopStep

\* A step that is none of ManagerModule's leaves what it knows of the server.
LEMMA FineStep ==
  ASSUME ~SpuriousWakeups, StopInv, [Next]_vars, ~CoarseStep
  PROVE  Closed' = Closed /\ Call' = Call /\ Server' = Server
<1>1. /\ Closed' = Closed /\ (http' = "destroyed" <=> http = "destroyed")
      /\ http' = "returned" <=> http = "returned"
  BY HttpPlaces DEF CoarseStep, StopReturns
<1>2. Closed => (Ending' <=> Ending)
  <2>1. CASE Ending BY <2>1, EndingStep
  <2>2. CASE ~Ending BY <2>2, DeafStep DEF Deaf
  <2> QED BY <2>1, <2>2
<1> QED
  BY <1>1, <1>2 DEF Call, Server

\* ManagerModule's step of each step of the server that it tells apart.
LEMMA StepComposed ==
  ASSUME ~SpuriousWakeups, StopInv, [Next]_vars
  PROVE  /\ CloseAcceptor => Composed!FreePort(Device)
         /\ StopReturns => Composed!AcceptCanceled(Device)
         /\ Destroy => Composed!ServerStopped
         /\ DoRead /\ ~Over => Composed!OnData(Device)
         /\ NotifyDeviceDisconnect => Composed!NotifyDeviceDisconnect(Device)
         /\ ~CoarseStep => UNCHANGED Composed!vars
<1> USE DEF Composed!mainVars, Composed!callVars, Composed!clientVars, Composed!engineVars
<1>1. ASSUME CloseAcceptor PROVE Composed!FreePort(Device)
  <2>1. ~Closed /\ Closed' /\ http' = "look"
    BY <1>1 DEF CloseAcceptor, HttpGoto, Closed
  <2>2. Call = "none" /\ Call' = "wait server" /\ Server = "open" /\ Server' \in {"closing", "deaf"}
    BY <2>1 DEF Call, Server
  <2> QED
    BY <2>1, <2>2 DEF Composed!FreePort, Composed!HttpIdle
<1>2. ASSUME StopReturns PROVE Composed!AcceptCanceled(Device)
  <2>1. (Check \/ WaitReturns) /\ UNCHANGED <<serverVars, sessionVars>>
    <3>1. http' # http
      BY <1>2 DEF StopReturns
    <3>2. StopStep
      BY <1>2, <3>1 DEF StopReturns, Next, IoStep, HttpStep, vars, DeviceConnects, DeviceSends,
         DeviceDisconnects, StopCalled, HttpGoto, AcceptHandler, ReadHandler, IoGoto, Accepted,
         RemoteGone, RejectConnection, StartSession, AcceptFailed, DoAccept, AcceptCanceled, Notify,
         ReadCompletes, DoRead, ReadFails, OnSessionError, ResetSession, NotifyDeviceDisconnect
    <3> QED
      BY <1>2, <3>2 DEF StopReturns, StopStep, HttpGoto, CloseAcceptor, Look, CloseSocket, SessionCheck,
         UntilStopped, Check, WaitReturns, Destroy
  <2>2. http \in {"check", "waiting", "woken"} \cup InSessionStop /\ (http = "check" \/ http \in Awake)
    BY <1>2, <2>1 DEF StopReturns, Check, WaitReturns, HttpGoto, StopInv, ServerInv, Places, Awake,
       InSessionStop
  <2>3. serverStopped
    BY <1>2, <2>1, <2>2 DEF StopReturns, Check, WaitReturns, HttpGoto, StopInv, OneAccept, Awake,
       InSessionStop
  <2>4. Closed /\ Closed' /\ Ending
    BY <1>2, <2>2, <2>3 DEF StopReturns, Closed, Ending, InSessionStop
  <2>5. Call = "wait server" /\ Call' = "wait server" /\ Server = "closing" /\ Server' = "stopped"
    BY <1>2, <2>2, <2>4 DEF StopReturns, Call, Server, InSessionStop
  <2> QED
    BY <2>4, <2>5 DEF Composed!AcceptCanceled, Composed!IoRuns
<1>3. ASSUME Destroy PROVE Composed!ServerStopped
  <2>1. http = "returned" /\ http' = "destroyed"
    BY <1>3 DEF Destroy, HttpGoto
  <2>2. /\ Closed /\ Closed' /\ Call = "wait server" /\ Call' = "remove sender"
        /\ Server = "stopped" /\ Server' = "stopped"
    BY <2>1 DEF Closed, Call, Server
  <2> QED
    BY <2>2 DEF Composed!ServerStopped, Composed!CallGoto
<1>4. ASSUME DoRead, ~Over PROVE Composed!OnData(Device)
  <2>1. Server # "stopped"
    BY <1>4 DEF DoRead, IoGoto, Server, StopInv, OneAccept, Quiet, SessionPassed, Ending
  <2>2. Server \in {"open", "closing", "deaf"}
    BY <2>1 DEF Server
  <2>3. ~CoarseStep
    BY <1>4 DEF CoarseStep, StopReturns, DoRead, IoGoto, CloseAcceptor, Destroy, HttpGoto
  <2>4. Closed' = Closed /\ Call' = Call /\ Server' = Server
    BY <2>3, FineStep
  <2> QED
    BY <2>2, <2>4 DEF Composed!OnData, Composed!IoRuns, Composed!Woken
<1>5. ASSUME NotifyDeviceDisconnect PROVE Composed!NotifyDeviceDisconnect(Device)
  <2>1. ~CoarseStep
    BY <1>5 DEF CoarseStep, StopReturns, NotifyDeviceDisconnect, IoGoto, CloseAcceptor, Destroy, HttpGoto
  <2>2. Closed' = Closed /\ Call' = Call /\ Server' = Server
    BY <2>1, FineStep
  <2>3. Server # "none"
    BY DEF Server
  <2> QED
    BY <2>2, <2>3 DEF Composed!NotifyDeviceDisconnect, Composed!IoRuns, Composed!Notify, Composed!Woken
<1>6. ASSUME ~CoarseStep PROVE UNCHANGED Composed!vars
  BY <1>6, FineStep DEF Composed!vars
<1> QED
  BY <1>1, <1>2, <1>3, <1>4, <1>5, <1>6

\* Every step of the server, of its devices and of Stop is a step of
\* ManagerModule or one that it does not see.
PartOfComposition == [][Composed!Next]_(Composed!vars)

\* The callbacks come when ManagerModule lets them come: its guards hold.
\* Data is parsed and handed on in DoRead, the end of a connection is told in
\* NotifyDeviceDisconnect.
CallbacksAsComposed ==
  [][ /\ DoRead /\ ~Over => Composed!OnData(Device)
      /\ NotifyDeviceDisconnect => Composed!NotifyDeviceDisconnect(Device) ]_vars

\* What ManagerModule says of a server, its Stop in FreePort and its callbacks
\* (MediaServerManager.cpp:82, MediaServer.cpp:29 and :104) is what the server
\* does: "deaf" is decided when m_acceptor is closed, data comes until Stop
\* returns and not after, and the end of a connection may be told even then.
THEOREM ServerIsPartOfComposition ==
  ASSUME ~SpuriousWakeups PROVE Spec => PartOfComposition /\ CallbacksAsComposed
<1>1. ASSUME StopInv, [Next]_vars PROVE [Composed!Next]_(Composed!vars)
  <2>1. CASE CoarseStep
    <3>1. \/ Composed!FreePort(Device) \/ Composed!AcceptCanceled(Device) \/ Composed!ServerStopped
      BY <1>1, <2>1, StepComposed DEF CoarseStep
    <3>2. Composed!Next
      BY <3>1 DEF Composed!Next, Composed!CallStep
    <3> QED BY <3>2
  <2>2. CASE ~CoarseStep
    BY <1>1, <2>2, StepComposed
  <2> QED BY <2>1, <2>2
<1>2. ASSUME StopInv, [Next]_vars
      PROVE  /\ DoRead /\ ~Over => Composed!OnData(Device)
             /\ NotifyDeviceDisconnect => Composed!NotifyDeviceDisconnect(Device)
  BY <1>2, StepComposed
<1> QED
  BY <1>1, <1>2, StopInvHolds, PTL DEF Spec, PartOfComposition, CallbacksAsComposed

=============================================================================
