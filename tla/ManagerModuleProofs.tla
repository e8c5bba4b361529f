------------------------ MODULE ManagerModuleProofs ------------------------
(***************************************************************************)
(* What holds of the whole program however many devices it serves.  That   *)
(* it ends is liveness and stays with the model checker.                   *)
(***************************************************************************)
EXTENDS ManagerModule, TLAPS

\* The orders, module by module.
LEMMA Orders ==
  /\ StartOrder[1] = "notifier" /\ StartOrder[2] = "engine" /\ StartOrder[3] = "io"
  /\ StartOrder[4] = "http"
  /\ StopOrder[1] = "notifier" /\ StopOrder[2] = "http" /\ StopOrder[3] = "io"
  /\ StopOrder[4] = "engine"
BY DEF StartOrder, StopOrder

Steps == step \in 0 .. 4

\* When a module has been asked to stop.
LEMMA WhenAsked ==
  ASSUME Steps
  PROVE /\ Asked("http") => main \in {"stopping", "destroyed", "exited"} /\ step >= 2
        /\ Asked("io") => main \in {"stopping", "destroyed", "exited"} /\ step >= 3
        /\ Asked("engine") => main \in {"stopping", "destroyed", "exited"} /\ step >= 4
<1>1. \A i \in 1 .. step : i \in {1, 2, 3, 4} /\ step >= i
  BY DEF Steps
<1> QED
  BY <1>1, Orders DEF Asked

\* What some actions do to the threads and the servers, their queues aside.
LEMMA StartModuleDoes ==
  ASSUME Steps, StartModule
  PROVE /\ main = "starting" /\ step < 4 /\ step' = step + 1
        /\ UNCHANGED <<main, callVars, clientVars, engineVars>>
        /\ \E m \in Modules : \E first \in {"idle", "none"} :
             /\ thread' = [thread EXCEPT ![m] = first]
             /\ step = 1 <=> m = "engine"
             /\ step = 2 <=> m = "io"
             /\ step = 3 <=> m = "http"
             /\ step # 3 => first = "idle"
<1>1. /\ main = "starting" /\ step < 4 /\ step' = step + 1
      /\ UNCHANGED <<main, callVars, clientVars, engineVars>>
  BY DEF StartModule
<1>2. \E first \in {"idle"} \cup (IF step = 3 THEN {"none"} ELSE {}) :
        thread' = [thread EXCEPT ![StartOrder[step + 1]] = first]
  BY DEF StartModule
<1> DEFINE m == StartOrder[step + 1]
<1>3. step = 0 \/ step = 1 \/ step = 2 \/ step = 3
  BY <1>1 DEF Steps
<1>4. /\ m \in Modules
      /\ step = 1 <=> m = "engine"
      /\ step = 2 <=> m = "io"
      /\ step = 3 <=> m = "http"
  BY <1>3, Orders DEF Modules
<1>5. \E first \in {"idle"} \cup (IF step = 3 THEN {"none"} ELSE {}) : thread' = [thread EXCEPT ![m] = first]
  BY <1>2
<1> HIDE DEF m
<1>6. PICK first \in {"idle"} \cup (IF step = 3 THEN {"none"} ELSE {}) : thread' = [thread EXCEPT ![m] = first]
  BY <1>5
<1>7. first \in {"idle", "none"} /\ (step # 3 => first = "idle")
  OBVIOUS
<1>8. \E w \in Modules : \E f \in {"idle", "none"} :
        /\ thread' = [thread EXCEPT ![w] = f]
        /\ step = 1 <=> w = "engine"
        /\ step = 2 <=> w = "io"
        /\ step = 3 <=> w = "http"
        /\ step # 3 => f = "idle"
  BY <1>4, <1>6, <1>7
<1> QED BY <1>1, <1>8

LEMMA StopModuleDoes ==
  ASSUME Steps, StopModule
  PROVE /\ main = "stopping" /\ step < 4 /\ step' = step + 1
        /\ UNCHANGED <<main, callVars, clientVars, engineVars>>
        /\ UNCHANGED thread \/ thread' = [thread EXCEPT !["notifier"] = Woken(@)]
        /\ step = 1 => Gone("notifier")
        /\ step = 2 => Gone("http")
        /\ step = 3 => Gone("io")
<1>1. /\ main = "stopping" /\ step < 4 /\ step' = step + 1
      /\ UNCHANGED <<main, callVars, clientVars, engineVars>>
  BY DEF StopModule
<1>2. UNCHANGED thread \/ thread' = [thread EXCEPT !["notifier"] = Woken(@)]
  BY DEF StopModule
<1>3. Joined
  BY DEF StopModule
<1>4. /\ step = 1 => Gone("notifier")
      /\ step = 2 => Gone("http")
      /\ step = 3 => Gone("io")
  BY <1>3, Orders DEF Joined
<1> QED BY <1>1, <1>2, <1>4

LEMMA FreePortDoes ==
  ASSUME NEW c, FreePort(c)
  PROVE /\ HttpIdle /\ server[c] = "open" /\ id' = c /\ call' = "wait server"
        /\ server' = [server EXCEPT ![c] = "closing"] \/ server' = [server EXCEPT ![c] = "deaf"]
        /\ UNCHANGED <<mainVars, thread, clients, publisher, engineVars>>
<1>1. server' = [server EXCEPT ![c] = "closing"] \/ server' = [server EXCEPT ![c] = "deaf"]
  BY Zenon DEF FreePort
<1> QED
  BY <1>1 DEF FreePort

LEMMA NotifierDoes ==
  ASSUME NEW from, NotifierReads(from)
  PROVE NotifierGoto(from, "gone") \/ NotifierGoto(from, "idle")
BY Zenon DEF NotifierReads

LEMMA ReadDoes ==
  ASSUME NEW c, NEW from, ReadReturns(c, from)
  PROVE UNCHANGED thread /\ (PublisherGoto(c, from, "busy") \/ PublisherGoto(c, from, "ending"))
BY Zenon DEF ReadReturns

LEMMA RunEndsDoes ==
  ASSUME NEW c, RunEnds(c)
  PROVE /\ PublisherGoto(c, "ending", "done")
        /\ UNCHANGED thread \/ thread' = [thread EXCEPT !["notifier"] = Woken(@)]
BY Zenon DEF RunEnds, Notify

Flags == data \in [UniqueIDs -> BOOLEAN] /\ pending \in BOOLEAN

\* The flags are only ever set to TRUE or FALSE.
LEMMA FlagsHold == Spec => []Flags
<1>1. Init => Flags
  BY DEF Init, Flags
<1>2. Flags /\ [Next]_vars => Flags'
  <2> SUFFICES ASSUME Flags, [Next]_vars PROVE Flags'
    OBVIOUS
  <2> USE DEF Flags, mainVars, callVars, clientVars, engineVars, Goto, CallGoto, PublisherGoto,
              EngineGoto, NotifierGoto
  <2>1. CASE MainStep \/ Quit \/ HttpEnds \/ EngineStep \/ IoEnds
    BY <2>1 DEF MainStep, StartModule, Started, StopModule, Stopped, Exit, Quit,
                HttpEnds, EngineStep, EngineEnds, BeginRound, SendAudio, EndRound, IoEnds
  <2>2. CASE RtmpNotify \/ NotifierStep
    BY <2>2 DEF RtmpNotify, Notify, NotifierStep, NotifierWaits, NotifierReads
  <2>3. CASE CallStep
    BY <2>3 DEF CallStep, AddSender, StartServer, GiveUp, ServerStopped, RemoveSender, SetStopped,
                Join, Erase
  <2>4. ASSUME NEW c \in UniqueIDs, GetPort(c) \/ FreePort(c) PROVE Flags'
    BY <2>4 DEF GetPort, FreePort
  <2>5. ASSUME NEW c \in UniqueIDs, OnData(c) \/ NotifyDeviceDisconnect(c) \/ AcceptCanceled(c)
        PROVE Flags'
    BY <2>5 DEF OnData, NotifyDeviceDisconnect, AcceptCanceled, Notify
  <2>6. ASSUME NEW c \in UniqueIDs, PublisherStep(c) PROVE Flags'
    BY <2>6 DEF PublisherStep, ReadWaits, ReadReturns, PublishingFails, RunEnds, Notify
  <2>7. CASE UNCHANGED vars
    BY <2>7 DEF vars
  <2> QED
    BY <2>1, <2>2, <2>3, <2>4, <2>5, <2>6, <2>7 DEF Next
<1> QED
  BY <1>1, <1>2, PTL DEF Spec

\* The modules are counted.
LEMMA StepsHold == Spec => []Steps
<1>1. Init => Steps
  BY DEF Init, Steps
<1>2. Steps /\ [Next]_vars => Steps'
  <2> SUFFICES ASSUME Steps, [Next]_vars PROVE Steps'
    OBVIOUS
  <2> USE DEF Steps, mainVars, callVars, clientVars, engineVars, Goto, CallGoto, PublisherGoto,
              EngineGoto, NotifierGoto
  <2>1. CASE MainStep \/ Quit \/ HttpEnds \/ EngineStep \/ IoEnds
    <3>1. step' = step \/ step' = 0 \/ (step < 4 /\ step' = step + 1)
      BY <2>1 DEF MainStep, StartModule, Started, StopModule, Stopped, Exit, Quit,
                  HttpEnds, EngineStep, EngineEnds, BeginRound, SendAudio, EndRound, IoEnds
    <3> QED
      BY <3>1
  <2>2. CASE RtmpNotify \/ NotifierStep
    BY <2>2 DEF RtmpNotify, Notify, NotifierStep, NotifierWaits, NotifierReads
  <2>3. CASE CallStep
    BY <2>3 DEF CallStep, AddSender, StartServer, GiveUp, ServerStopped, RemoveSender, SetStopped,
                Join, Erase
  <2>4. ASSUME NEW c \in UniqueIDs, GetPort(c) \/ FreePort(c) PROVE Steps'
    BY <2>4 DEF GetPort, FreePort
  <2>5. ASSUME NEW c \in UniqueIDs, OnData(c) \/ NotifyDeviceDisconnect(c) \/ AcceptCanceled(c)
        PROVE Steps'
    BY <2>5 DEF OnData, NotifyDeviceDisconnect, AcceptCanceled, Notify
  <2>6. ASSUME NEW c \in UniqueIDs, PublisherStep(c) PROVE Steps'
    BY <2>6 DEF PublisherStep, ReadWaits, ReadReturns, PublishingFails, RunEnds, Notify
  <2>7. CASE UNCHANGED vars
    BY <2>7 DEF vars
  <2> QED
    BY <2>1, <2>2, <2>3, <2>4, <2>5, <2>6, <2>7 DEF Next
<1> QED
  BY <1>1, <1>2, PTL DEF Spec

\* Who is called has been named, and calls are made by the HTTP thread.
Named ==
  /\ call = "none" <=> id = NoID
  /\ call # "none" => thread["http"] = "idle"
  /\ main = "starting" /\ step < 4 => thread["http"] = "none"
  /\ main = "starting" /\ step < 2 => thread["engine"] = "none"

Places ==
  /\ main \in {"starting", "running", "stopping", "destroyed", "exited"}
  /\ thread \in [Modules -> {"none", "idle", "waiting", "woken", "round", "gone"}]
  /\ id \in UniqueIDs \cup {NoID}
  /\ call \in {"none", "add sender", "start server", "wait server", "remove sender", "set stopped",
               "join", "erase"}
  /\ clients \subseteq UniqueIDs /\ senders \subseteq UniqueIDs /\ round \subseteq UniqueIDs
  /\ publisher \in [UniqueIDs -> {"none", "busy", "waiting", "woken", "ending", "done"}]
  /\ server \in [UniqueIDs -> {"none", "open", "closing", "deaf", "stopped"}]

TypeInv == Places /\ Named

\* Starting and stopping a module preserve the types.
LEMMA StartModuleTypes == ASSUME TypeInv, Steps, StartModule PROVE TypeInv'
<1>1. /\ main = "starting" /\ step < 4 /\ step' = step + 1
      /\ UNCHANGED <<main, callVars, clientVars, engineVars>>
  BY StartModuleDoes
<1>2. PICK m \in Modules, first \in {"idle", "none"} :
        /\ thread' = [thread EXCEPT ![m] = first]
        /\ step = 1 <=> m = "engine"
        /\ step = 2 <=> m = "io"
        /\ step = 3 <=> m = "http"
        /\ step # 3 => first = "idle"
  BY StartModuleDoes
<1>3. Places'
  BY <1>1, <1>2 DEF TypeInv, Places, callVars, clientVars, engineVars
<1>4. Named'
  <2>1. call = "none"
    BY <1>1 DEF TypeInv, Named
  <2>2. step \in {0, 1, 2, 3}
    BY <1>1 DEF Steps
  <2>3. /\ step # 3 => thread'["http"] = thread["http"]
        /\ step # 1 => thread'["engine"] = thread["engine"]
    BY <1>2 DEF TypeInv, Places, Modules
  <2> QED
    BY <1>1, <2>1, <2>2, <2>3 DEF TypeInv, Named, callVars
<1> QED
  BY <1>3, <1>4 DEF TypeInv

LEMMA StopModuleTypes == ASSUME TypeInv, Steps, StopModule PROVE TypeInv'
<1>1. /\ main = "stopping" /\ step < 4 /\ step' = step + 1
      /\ UNCHANGED <<main, callVars, clientVars, engineVars>>
  BY StopModuleDoes
<1>2. UNCHANGED thread \/ thread' = [thread EXCEPT !["notifier"] = Woken(@)]
  BY StopModuleDoes
<1>3. Places'
  <2>1. CASE UNCHANGED thread
    BY <1>1, <2>1 DEF TypeInv, Places, callVars, clientVars, engineVars
  <2>2. CASE thread' = [thread EXCEPT !["notifier"] = Woken(@)]
    BY <1>1, <2>2 DEF TypeInv, Places, callVars, clientVars, engineVars, Woken, Modules
  <2> QED
    BY <1>2, <2>1, <2>2
<1>4. Named'
  BY <1>1, <1>2 DEF TypeInv, Named, Places, callVars, Modules
<1> QED
  BY <1>3, <1>4 DEF TypeInv

\* The main thread preserves the types.
LEMMA MainTypes == ASSUME TypeInv, Steps, MainStep \/ Quit PROVE TypeInv'
<1> USE IDAssumption DEF TypeInv, Places, Named, Modules, mainVars, callVars, clientVars, engineVars
<1>1. CASE StartModule BY <1>1, StartModuleTypes
<1>2. CASE Started BY <1>2 DEF Started
<1>3. CASE StopModule BY <1>3, StopModuleTypes
<1>4. CASE Stopped BY <1>4, Orders DEF Stopped, Joined, Gone
<1>5. CASE Exit BY <1>5 DEF Exit
<1>7. CASE Quit BY <1>7 DEF Quit
<1> QED BY <1>1, <1>2, <1>3, <1>4, <1>5, <1>7 DEF MainStep

\* So does the HTTP thread.
LEMMA HttpTypes ==
  ASSUME TypeInv, Steps,
         HttpEnds \/ RtmpNotify \/ (\E c \in UniqueIDs : GetPort(c) \/ FreePort(c))
  PROVE TypeInv'
<1> USE IDAssumption DEF TypeInv, Places, Named, Modules, mainVars, callVars, clientVars, engineVars
<1>1. CASE HttpEnds BY <1>1, WhenAsked DEF HttpEnds, HttpIdle, Goto
<1>2. CASE RtmpNotify BY <1>2 DEF RtmpNotify, HttpIdle, Notify, Woken
<1>3. ASSUME NEW c \in UniqueIDs, GetPort(c) PROVE TypeInv' BY <1>3 DEF GetPort, HttpIdle
<1>4. ASSUME NEW c \in UniqueIDs, FreePort(c) PROVE TypeInv'
  BY <1>4, FreePortDoes, ZenonT(60) DEF HttpIdle
<1> QED BY <1>1, <1>2, <1>3, <1>4

\* So does a call of GetPort or FreePort.
LEMMA CallTypes == ASSUME TypeInv, Steps, CallStep PROVE TypeInv'
<1> USE IDAssumption DEF TypeInv, Places, Named, Modules, mainVars, callVars, clientVars, engineVars
<1>1. CASE AddSender BY <1>1 DEF AddSender, CallGoto, MutexFree, Added
<1>2. CASE StartServer BY <1>2 DEF StartServer, CallGoto
<1>3. CASE GiveUp BY <1>3 DEF GiveUp, CallGoto
<1>4. CASE ServerStopped BY <1>4 DEF ServerStopped, CallGoto
<1>5. CASE RemoveSender BY <1>5 DEF RemoveSender, CallGoto, MutexFree, Removed
<1>6. CASE SetStopped BY <1>6 DEF SetStopped, CallGoto, Woken
<1>7. CASE Join BY <1>7 DEF Join, CallGoto
<1>8. CASE Erase BY <1>8 DEF Erase, CallGoto
<1> QED BY <1>1, <1>2, <1>3, <1>4, <1>5, <1>6, <1>7, <1>8 DEF CallStep

\* So do the engine, the notifier and the end of the io thread.
LEMMA ThreadTypes == ASSUME TypeInv, Steps, EngineStep \/ NotifierStep \/ IoEnds PROVE TypeInv'
<1> USE IDAssumption DEF TypeInv, Places, Named, Modules, mainVars, callVars, clientVars, engineVars
<1>1. CASE EngineEnds BY <1>1, WhenAsked DEF EngineEnds, EngineGoto, Goto, EngineAsked
<1>2. CASE BeginRound BY <1>2 DEF BeginRound, EngineGoto, Goto
<1>3. CASE SendAudio BY <1>3 DEF SendAudio, EngineGoto, Goto
<1>4. CASE EndRound BY <1>4 DEF EndRound, EngineGoto, Goto
<1>5. CASE NotifierWaits BY <1>5 DEF NotifierWaits, NotifierGoto, Goto
<1>6. ASSUME NEW from \in {"idle", "woken"}, NotifierReads(from) PROVE TypeInv'
  <2>1. NotifierGoto(from, "gone") \/ NotifierGoto(from, "idle")
    BY <1>6, NotifierDoes
  <2>2. CASE NotifierGoto(from, "gone")
    BY <2>2 DEF NotifierGoto, Goto
  <2>3. CASE NotifierGoto(from, "idle")
    BY <2>3 DEF NotifierGoto, Goto
  <2> QED
    BY <2>1, <2>2, <2>3
<1>7. CASE IoEnds BY <1>7, WhenAsked DEF IoEnds, Goto
<1> QED BY <1>1, <1>2, <1>3, <1>4, <1>5, <1>6, <1>7 DEF EngineStep, NotifierStep

\* So do the io thread and the publishing threads.
LEMMA ClientTypes ==
  ASSUME TypeInv, Steps,
         \E c \in UniqueIDs : OnData(c) \/ NotifyDeviceDisconnect(c) \/ AcceptCanceled(c) \/ PublisherStep(c)
  PROVE TypeInv'
<1> USE IDAssumption DEF TypeInv, Places, Named, Modules, mainVars, callVars, clientVars, engineVars
<1>1. ASSUME NEW c \in UniqueIDs, OnData(c) PROVE TypeInv' BY <1>1 DEF OnData, IoRuns, Woken
<1>2. ASSUME NEW c \in UniqueIDs, NotifyDeviceDisconnect(c) PROVE TypeInv'
  BY <1>2 DEF NotifyDeviceDisconnect, IoRuns, Notify, Woken
<1>3. ASSUME NEW c \in UniqueIDs, AcceptCanceled(c) PROVE TypeInv'
  BY <1>3 DEF AcceptCanceled, IoRuns
<1>4. ASSUME NEW c \in UniqueIDs, ReadWaits(c) PROVE TypeInv' BY <1>4 DEF ReadWaits, PublisherGoto
<1>5. ASSUME NEW c \in UniqueIDs, NEW from \in {"busy", "woken"}, ReadReturns(c, from) PROVE TypeInv'
  <2>1. UNCHANGED thread /\ (PublisherGoto(c, from, "busy") \/ PublisherGoto(c, from, "ending"))
    BY <1>5, ReadDoes
  <2>2. Places'
    BY <2>1 DEF PublisherGoto
  <2>3. Named'
    BY <2>1 DEF PublisherGoto
  <2> QED
    BY <2>2, <2>3
<1>6. ASSUME NEW c \in UniqueIDs, PublishingFails(c) PROVE TypeInv'
  BY <1>6 DEF PublishingFails, PublisherGoto
<1>7. ASSUME NEW c \in UniqueIDs, RunEnds(c) PROVE TypeInv'
  <2>1. /\ PublisherGoto(c, "ending", "done")
        /\ UNCHANGED thread \/ thread' = [thread EXCEPT !["notifier"] = Woken(@)]
    BY <1>7, RunEndsDoes
  <2>2. Places'
    BY <2>1, ZenonT(60) DEF PublisherGoto, Woken
  <2>3. Named'
    BY <2>1 DEF PublisherGoto, Woken
  <2> QED
    BY <2>2, <2>3
<1> QED BY <1>1, <1>2, <1>3, <1>4, <1>5, <1>6, <1>7 DEF PublisherStep

\* The types hold.
LEMMA TypeInvHolds == Spec => []TypeInv
<1>1. Init => TypeInv
  BY DEF Init, TypeInv, Places, Named, Modules
<1>2. TypeInv /\ Steps /\ [Next]_vars => TypeInv'
  <2>1. ASSUME TypeInv, UNCHANGED vars PROVE TypeInv'
    BY <2>1 DEF TypeInv, Places, Named, vars, mainVars, callVars, clientVars, engineVars
  <2> QED
    BY <2>1, MainTypes, HttpTypes, CallTypes, ThreadTypes, ClientTypes DEF Next
<1> QED
  BY <1>1, <1>2, StepsHold, PTL DEF Spec

\* The variables keep their types in every behaviour (all components).
THEOREM TypeCorrect == Spec => []TypeOK
<1>1. Flags /\ Steps /\ TypeInv => TypeOK
  BY DEF Flags, Steps, TypeInv, Places, TypeOK
<1> QED
  BY <1>1, FlagsHold, StepsHold, TypeInvHolds, PTL

-----------------------------------------------------------------------------
(* The order of starting and stopping (ManagerModule.cpp:16, 34) *)

\* What main has started runs until main has asked it to stop, and what
\* main has asked to stop, but for the last one, has stopped.
Ended(i) == (main = "stopping" /\ step > i) \/ main \in {"destroyed", "exited"}

InTurn ==
  /\ thread["io"] \in {"none", "idle", "gone"}
  /\ main = "starting" =>
       /\ step >= 3 => thread["io"] = "idle"
       /\ step >= 2 => ~Gone("engine")
  /\ main = "running" => step = 0
  /\ Ended(1) => Gone("notifier")
  /\ Ended(2) => Gone("http")
  /\ Ended(3) => Gone("io")
  /\ Ended(4) => Gone("engine")
  /\ thread["http"] = "idle" => thread["io"] = "idle" /\ ~Gone("engine")

\* Starting and stopping a module preserve the order.
LEMMA StartModuleInTurn == ASSUME TypeInv, Steps, InTurn, StartModule PROVE InTurn'
<1>1. /\ main = "starting" /\ step < 4 /\ step' = step + 1
      /\ UNCHANGED <<main, callVars, clientVars, engineVars>>
  BY StartModuleDoes
<1>2. PICK m \in Modules, first \in {"idle", "none"} :
        /\ thread' = [thread EXCEPT ![m] = first]
        /\ step = 1 <=> m = "engine"
        /\ step = 2 <=> m = "io"
        /\ step = 3 <=> m = "http"
        /\ step # 3 => first = "idle"
  BY StartModuleDoes
<1>3. /\ thread'["io"] = IF step = 2 THEN "idle" ELSE thread["io"]
      /\ thread'["engine"] = IF step = 1 THEN "idle" ELSE thread["engine"]
      /\ step # 3 => thread'["http"] = "none" \/ thread'["http"] = thread["http"]
  BY <1>1, <1>2 DEF TypeInv, Places, Modules
<1>4. step # 3 => thread["http"] = "none"
  BY <1>1 DEF TypeInv, Named, Steps
<1>5. step \in {0, 1, 2, 3}
  BY <1>1 DEF Steps
<1> QED
  BY <1>1, <1>3, <1>4, <1>5 DEF InTurn, Ended, Gone

LEMMA StopModuleInTurn == ASSUME TypeInv, Steps, InTurn, StopModule PROVE InTurn'
<1>1. /\ main = "stopping" /\ step < 4 /\ step' = step + 1
      /\ UNCHANGED <<main, callVars, clientVars, engineVars>>
  BY StopModuleDoes
<1>2. UNCHANGED thread \/ thread' = [thread EXCEPT !["notifier"] = Woken(@)]
  BY StopModuleDoes
<1>3. /\ step = 1 => Gone("notifier")
      /\ step = 2 => Gone("http")
      /\ step = 3 => Gone("io")
  BY StopModuleDoes
<1>4. /\ \A m \in {"io", "http", "engine"} : thread'[m] = thread[m]
      /\ Gone("notifier") => Gone("notifier")'
  BY <1>2 DEF TypeInv, Places, Modules, Woken, Gone
<1>5. step \in {0, 1, 2, 3}
  BY <1>1 DEF Steps
<1> QED
  BY <1>1, <1>3, <1>4, <1>5 DEF InTurn, Ended, Gone

LEMMA StoppedInTurn == ASSUME InTurn, Stopped PROVE InTurn'
<1>1. /\ main = "stopping" /\ main' = "destroyed" /\ step = 4 /\ step' = step /\ thread' = thread
  BY DEF Stopped
<1>2. Gone("engine")
  BY Orders DEF Stopped, Joined
<1> QED
  BY <1>1, <1>2 DEF InTurn, Ended, Gone

LEMMA QuitInTurn == ASSUME InTurn, Quit PROVE InTurn'
<1>1. main = "running" /\ main' = "stopping" /\ step' = step /\ thread' = thread
  BY DEF Quit
<1>2. step = 0
  BY <1>1 DEF InTurn
<1> QED
  BY <1>1, <1>2 DEF InTurn, Ended, Gone

\* The main thread preserves the order.
LEMMA MainInTurn == ASSUME TypeInv, Steps, InTurn, MainStep \/ Quit PROVE InTurn'
<1> USE DEF InTurn, Ended, TypeInv, Places, Named, Modules, Gone, mainVars, callVars, clientVars, engineVars
<1>1. CASE StartModule BY <1>1, StartModuleInTurn
<1>2. CASE Started BY <1>2 DEF Started
<1>3. CASE StopModule BY <1>3, StopModuleInTurn
<1>4. CASE Stopped BY <1>4, StoppedInTurn
<1>5. CASE Exit BY <1>5 DEF Exit
<1>7. CASE Quit BY <1>7, QuitInTurn
<1> QED BY <1>1, <1>2, <1>3, <1>4, <1>5, <1>7 DEF MainStep

\* So does the HTTP thread.
LEMMA HttpInTurn ==
  ASSUME TypeInv, Steps, InTurn,
         HttpEnds \/ RtmpNotify \/ (\E c \in UniqueIDs : GetPort(c) \/ FreePort(c))
  PROVE InTurn'
<1> USE DEF InTurn, Ended, TypeInv, Places, Named, Modules, Gone, mainVars, callVars, clientVars, engineVars
<1>1. CASE HttpEnds BY <1>1, WhenAsked DEF HttpEnds, HttpIdle, Goto
<1>2. CASE RtmpNotify BY <1>2 DEF RtmpNotify, HttpIdle, Notify, Woken
<1>3. ASSUME NEW c \in UniqueIDs, GetPort(c) PROVE InTurn' BY <1>3 DEF GetPort, HttpIdle
<1>4. ASSUME NEW c \in UniqueIDs, FreePort(c) PROVE InTurn'
  BY <1>4, FreePortDoes DEF HttpIdle
<1> QED BY <1>1, <1>2, <1>3, <1>4

\* So does a call of GetPort or FreePort.
LEMMA CallInTurn == ASSUME TypeInv, Steps, InTurn, CallStep PROVE InTurn'
<1> USE DEF InTurn, Ended, TypeInv, Places, Named, Modules, Gone, mainVars, callVars, clientVars, engineVars
<1>1. CASE AddSender BY <1>1 DEF AddSender, CallGoto, MutexFree, Added
<1>2. CASE StartServer BY <1>2 DEF StartServer, CallGoto
<1>3. CASE GiveUp BY <1>3 DEF GiveUp, CallGoto
<1>4. CASE ServerStopped BY <1>4 DEF ServerStopped, CallGoto
<1>5. CASE RemoveSender BY <1>5 DEF RemoveSender, CallGoto, MutexFree, Removed
<1>6. CASE SetStopped BY <1>6 DEF SetStopped, CallGoto, Woken
<1>7. CASE Join BY <1>7 DEF Join, CallGoto
<1>8. CASE Erase BY <1>8 DEF Erase, CallGoto
<1> QED BY <1>1, <1>2, <1>3, <1>4, <1>5, <1>6, <1>7, <1>8 DEF CallStep

\* The engine and the io thread end after the HTTP thread.
LEMMA EngineEndsInTurn == ASSUME TypeInv, Steps, InTurn, EngineEnds PROVE InTurn'
<1>1. /\ main \in {"stopping", "destroyed", "exited"} /\ step >= 4 /\ UNCHANGED mainVars
      /\ thread' = [thread EXCEPT !["engine"] = "gone"]
  BY WhenAsked DEF EngineEnds, EngineGoto, EngineAsked, Goto
<1>2. /\ thread'["engine"] = "gone"
      /\ \A m \in Modules \ {"engine"} : thread'[m] = thread[m]
  BY <1>1 DEF TypeInv, Places, Modules
<1>3. Gone("http")
  BY <1>1 DEF InTurn, Ended, Steps
<1> QED
  BY <1>1, <1>2, <1>3 DEF InTurn, Ended, Gone, Modules, mainVars

LEMMA IoEndsInTurn == ASSUME TypeInv, Steps, InTurn, IoEnds PROVE InTurn'
<1>1. /\ main \in {"stopping", "destroyed", "exited"} /\ step >= 3 /\ UNCHANGED mainVars
      /\ thread' = [thread EXCEPT !["io"] = "gone"]
  BY WhenAsked DEF IoEnds, Goto
<1>2. /\ thread'["io"] = "gone"
      /\ \A m \in Modules \ {"io"} : thread'[m] = thread[m]
  BY <1>1 DEF TypeInv, Places, Modules
<1>3. Gone("http")
  BY <1>1 DEF InTurn, Ended, Steps
<1> QED
  BY <1>1, <1>2, <1>3 DEF InTurn, Ended, Gone, Modules, mainVars

\* So do the engine, the notifier and the end of the io thread.
LEMMA ThreadInTurn == ASSUME TypeInv, Steps, InTurn, EngineStep \/ NotifierStep \/ IoEnds PROVE InTurn'
<1> USE DEF InTurn, Ended, TypeInv, Places, Named, Modules, Gone, mainVars, callVars, clientVars, engineVars
<1>1. CASE EngineEnds BY <1>1, EngineEndsInTurn
<1>2. CASE BeginRound BY <1>2 DEF BeginRound, EngineGoto, Goto
<1>3. CASE SendAudio BY <1>3 DEF SendAudio, EngineGoto, Goto
<1>4. CASE EndRound BY <1>4 DEF EndRound, EngineGoto, Goto
<1>5. CASE NotifierWaits BY <1>5 DEF NotifierWaits, NotifierGoto, Goto
<1>6. ASSUME NEW from \in {"idle", "woken"}, NotifierReads(from) PROVE InTurn'
  <2>1. NotifierGoto(from, "gone") \/ NotifierGoto(from, "idle")
    BY <1>6, NotifierDoes
  <2>2. InTurn'
    BY <2>1, ZenonT(60) DEF NotifierGoto, Goto
  <2> QED
    BY <2>2
<1>7. CASE IoEnds BY <1>7, IoEndsInTurn
<1> QED BY <1>1, <1>2, <1>3, <1>4, <1>5, <1>6, <1>7 DEF EngineStep, NotifierStep

\* So do the io thread and the publishing threads.
LEMMA ClientInTurn ==
  ASSUME TypeInv, Steps, InTurn,
         \E c \in UniqueIDs : OnData(c) \/ NotifyDeviceDisconnect(c) \/ AcceptCanceled(c) \/ PublisherStep(c)
  PROVE InTurn'
<1> USE DEF InTurn, Ended, TypeInv, Places, Named, Modules, Gone, mainVars, callVars, clientVars, engineVars
<1>1. ASSUME NEW c \in UniqueIDs, OnData(c) PROVE InTurn' BY <1>1 DEF OnData, IoRuns, Woken
<1>2. ASSUME NEW c \in UniqueIDs, NotifyDeviceDisconnect(c) PROVE InTurn'
  BY <1>2 DEF NotifyDeviceDisconnect, IoRuns, Notify, Woken
<1>3. ASSUME NEW c \in UniqueIDs, AcceptCanceled(c) PROVE InTurn' BY <1>3 DEF AcceptCanceled, IoRuns
<1>4. ASSUME NEW c \in UniqueIDs, ReadWaits(c) PROVE InTurn' BY <1>4 DEF ReadWaits, PublisherGoto
<1>5. ASSUME NEW c \in UniqueIDs, NEW from \in {"busy", "woken"}, ReadReturns(c, from) PROVE InTurn'
  <2>1. UNCHANGED thread /\ (PublisherGoto(c, from, "busy") \/ PublisherGoto(c, from, "ending"))
    BY <1>5, ReadDoes
  <2>2. InTurn'
    BY <2>1, ZenonT(60) DEF PublisherGoto
  <2> QED
    BY <2>2
<1>6. ASSUME NEW c \in UniqueIDs, PublishingFails(c) PROVE InTurn'
  BY <1>6 DEF PublishingFails, PublisherGoto
<1>7. ASSUME NEW c \in UniqueIDs, RunEnds(c) PROVE InTurn'
  <2>1. /\ PublisherGoto(c, "ending", "done")
        /\ UNCHANGED thread \/ thread' = [thread EXCEPT !["notifier"] = Woken(@)]
    BY <1>7, RunEndsDoes
  <2>2. InTurn'
    BY <2>1, ZenonT(60) DEF PublisherGoto, Woken
  <2> QED
    BY <2>2
<1> QED BY <1>1, <1>2, <1>3, <1>4, <1>5, <1>6, <1>7 DEF PublisherStep

\* The order holds.
LEMMA InTurnHolds == Spec => []InTurn
<1>1. Init => InTurn
  BY DEF Init, InTurn, Modules, Gone
<1>2. TypeInv /\ Steps /\ InTurn /\ [Next]_vars => InTurn'
  <2>1. ASSUME TypeInv, Steps, InTurn, UNCHANGED vars PROVE InTurn'
    BY <2>1 DEF InTurn, Ended, Gone, vars, mainVars, callVars, clientVars, engineVars
  <2> QED
    BY <2>1, MainInTurn, HttpInTurn, CallInTurn, ThreadInTurn, ClientInTurn DEF Next
<1> QED
  BY <1>1, <1>2, TypeInvHolds, StepsHold, PTL DEF Spec

\* Who waits for a thread finds it running (MediaServer.cpp:69, AudioSenderEngine.cpp:25).
THEOREM NobodyWaitsForTheGone == Spec => []WaitedForRuns
<1>1. TypeInv /\ InTurn => WaitedForRuns
  BY DEF TypeInv, Named, InTurn, WaitedForRuns, IoRuns, Gone
<1> QED
  BY <1>1, TypeInvHolds, InTurnHolds, PTL

-----------------------------------------------------------------------------
(* The lifetimes of the clients (RtmpClient.cpp:206, MediaServerManager.h:43) *)

\* A client leaves the engine's map and the round it is in before it is
\* destroyed, and its server's callbacks are over.
Lifetimes ==
  /\ round # {} => thread["engine"] = "round"
  /\ senders \cup round \subseteq clients
  /\ call \notin {"none", "erase"} => id \in clients
  /\ call \in {"set stopped", "join"} => id \notin senders \cup round
  /\ \A c \in UniqueIDs : publisher[c] # "none" => c \in clients
  /\ \A c \in UniqueIDs : server[c] # "none" => c \in clients \/ (call = "erase" /\ id = c)
  /\ call \in {"add sender", "start server"} => server[id] = "none"
  /\ call \in {"remove sender", "set stopped", "join", "erase"} =>
       server[id] \in {"none", "stopped"}

\* No round is under way when the engine is started.
LEMMA StartModuleKeepsRound ==
  ASSUME TypeInv, Steps, Lifetimes, StartModule
  PROVE round # {} => thread'["engine"] = "round"
<1>1. /\ main = "starting" /\ step < 4 /\ step' = step + 1
      /\ UNCHANGED <<main, callVars, clientVars, engineVars>>
  BY StartModuleDoes
<1>2. PICK m \in Modules, first \in {"idle", "none"} :
        /\ thread' = [thread EXCEPT ![m] = first]
        /\ step = 1 <=> m = "engine"
        /\ step = 2 <=> m = "io"
        /\ step = 3 <=> m = "http"
        /\ step # 3 => first = "idle"
  BY StartModuleDoes
<1>3. step = 1 => round = {}
  <2>1. main = "starting" /\ (step = 1 => step < 2)
    BY <1>1 DEF Steps
  <2>2. step = 1 => thread["engine"] = "none"
    BY <2>1 DEF TypeInv, Named
  <2>3. thread["engine"] = "none" => round = {}
    BY DEF Lifetimes
  <2> QED
    BY <2>2, <2>3
<1>4. step # 1 => thread'["engine"] = thread["engine"]
  BY <1>2 DEF TypeInv, Places, Modules
<1> QED
  BY <1>3, <1>4 DEF Lifetimes

\* FreePort names a client that exists.
LEMMA FreePortKeeps ==
  ASSUME TypeInv, Lifetimes, NEW c \in UniqueIDs, FreePort(c)
  PROVE Lifetimes'
<1>1. /\ server[c] = "open" /\ call = "none" /\ call' = "wait server" /\ id' = c
      /\ UNCHANGED <<main, thread, clients, publisher, senders, round>>
      /\ server' = [server EXCEPT ![c] = "closing"] \/ server' = [server EXCEPT ![c] = "deaf"]
  BY FreePortDoes DEF HttpIdle, mainVars, engineVars
<1>2. c \in clients
  BY <1>1 DEF Lifetimes
<1>3. \A d \in UniqueIDs : server'[d] # "none" => d \in clients
  BY <1>1, <1>2 DEF TypeInv, Places, Lifetimes
<1> QED
  BY <1>1, <1>2, <1>3 DEF Lifetimes

\* The main thread preserves the lifetimes.
LEMMA MainLifetimes == ASSUME TypeInv, Steps, Lifetimes, MainStep \/ Quit PROVE Lifetimes'
<1> USE IDAssumption DEF Lifetimes, TypeInv, Places, Named, Modules, mainVars, callVars, clientVars, engineVars
<1>1. CASE StartModule
  <2>1. main' = main /\ UNCHANGED <<callVars, clientVars, engineVars>>
    BY <1>1, StartModuleDoes
  <2>2. round # {} => thread'["engine"] = "round"
    BY <1>1, StartModuleKeepsRound
  <2> QED
    BY <2>1, <2>2
<1>2. CASE Started BY <1>2 DEF Started
<1>3. CASE StopModule BY <1>3, StopModuleDoes DEF Woken, Gone
<1>4. CASE Stopped BY <1>4, Orders DEF Stopped, Joined, Gone
<1>5. CASE Exit BY <1>5 DEF Exit
<1>7. CASE Quit BY <1>7 DEF Quit
<1> QED BY <1>1, <1>2, <1>3, <1>4, <1>5, <1>7 DEF MainStep

\* So does the HTTP thread.
LEMMA HttpLifetimes ==
  ASSUME TypeInv, Steps, Lifetimes,
         HttpEnds \/ RtmpNotify \/ (\E c \in UniqueIDs : GetPort(c) \/ FreePort(c))
  PROVE Lifetimes'
<1> USE IDAssumption DEF Lifetimes, TypeInv, Places, Named, Modules, mainVars, callVars, clientVars, engineVars
<1>1. CASE HttpEnds BY <1>1, WhenAsked DEF HttpEnds, HttpIdle, Goto
<1>2. CASE RtmpNotify BY <1>2 DEF RtmpNotify, HttpIdle, Notify, Woken
<1>3. ASSUME NEW c \in UniqueIDs, GetPort(c) PROVE Lifetimes' BY <1>3 DEF GetPort, HttpIdle
<1>4. ASSUME NEW c \in UniqueIDs, FreePort(c) PROVE Lifetimes' BY <1>4, FreePortKeeps
<1> QED BY <1>1, <1>2, <1>3, <1>4

\* So does a call of GetPort or FreePort.
LEMMA CallLifetimes == ASSUME TypeInv, Steps, Lifetimes, CallStep PROVE Lifetimes'
<1> USE IDAssumption DEF Lifetimes, TypeInv, Places, Named, Modules, mainVars, callVars, clientVars, engineVars
<1>1. CASE AddSender BY <1>1 DEF AddSender, CallGoto, MutexFree, Added
<1>2. CASE StartServer BY <1>2 DEF StartServer, CallGoto
<1>3. CASE GiveUp BY <1>3 DEF GiveUp, CallGoto
<1>4. CASE ServerStopped BY <1>4 DEF ServerStopped, CallGoto
<1>5. CASE RemoveSender BY <1>5 DEF RemoveSender, CallGoto, MutexFree, Removed
<1>6. CASE SetStopped BY <1>6 DEF SetStopped, CallGoto, Woken
<1>7. CASE Join BY <1>7 DEF Join, CallGoto
<1>8. CASE Erase BY <1>8 DEF Erase, CallGoto
<1> QED BY <1>1, <1>2, <1>3, <1>4, <1>5, <1>6, <1>7, <1>8 DEF CallStep

\* So do the engine, the notifier and the end of the io thread.
LEMMA ThreadLifetimes ==
  ASSUME TypeInv, Steps, Lifetimes,
         EngineStep \/ NotifierStep \/ IoEnds
  PROVE Lifetimes'
<1> USE IDAssumption DEF Lifetimes, TypeInv, Places, Named, Modules, mainVars, callVars, clientVars, engineVars
<1>1. CASE EngineEnds BY <1>1, WhenAsked DEF EngineEnds, EngineGoto, Goto, EngineAsked
<1>2. CASE BeginRound BY <1>2 DEF BeginRound, EngineGoto, Goto
<1>3. CASE SendAudio BY <1>3 DEF SendAudio, EngineGoto, Goto
<1>4. CASE EndRound BY <1>4 DEF EndRound, EngineGoto, Goto
<1>5. CASE NotifierWaits BY <1>5 DEF NotifierWaits, NotifierGoto, Goto
<1>6. ASSUME NEW from \in {"idle", "woken"}, NotifierReads(from) PROVE Lifetimes'
  <2>1. NotifierGoto(from, "gone") \/ NotifierGoto(from, "idle")
    BY <1>6, NotifierDoes
  <2>2. Lifetimes'
    BY <2>1 DEF NotifierGoto, Goto
  <2> QED
    BY <2>2
<1>7. CASE IoEnds BY <1>7, WhenAsked DEF IoEnds, Goto
<1> QED BY <1>1, <1>2, <1>3, <1>4, <1>5, <1>6, <1>7 DEF EngineStep, NotifierStep

\* So do the io thread and the publishing threads.
LEMMA ClientLifetimes ==
  ASSUME TypeInv, Steps, Lifetimes,
         \E c \in UniqueIDs : OnData(c) \/ NotifyDeviceDisconnect(c) \/ AcceptCanceled(c) \/ PublisherStep(c)
  PROVE Lifetimes'
<1> USE IDAssumption DEF Lifetimes, TypeInv, Places, Named, Modules, mainVars, callVars, clientVars, engineVars
<1>1. ASSUME NEW c \in UniqueIDs, OnData(c) PROVE Lifetimes' BY <1>1 DEF OnData, IoRuns, Woken
<1>2. ASSUME NEW c \in UniqueIDs, NotifyDeviceDisconnect(c) PROVE Lifetimes'
  BY <1>2 DEF NotifyDeviceDisconnect, IoRuns, Notify, Woken
<1>3. ASSUME NEW c \in UniqueIDs, AcceptCanceled(c) PROVE Lifetimes'
  BY <1>3 DEF AcceptCanceled, IoRuns
<1>4. ASSUME NEW c \in UniqueIDs, ReadWaits(c) PROVE Lifetimes' BY <1>4 DEF ReadWaits, PublisherGoto
<1>5. ASSUME NEW c \in UniqueIDs, NEW from \in {"busy", "woken"}, ReadReturns(c, from) PROVE Lifetimes'
  <2>1. UNCHANGED thread /\ (PublisherGoto(c, from, "busy") \/ PublisherGoto(c, from, "ending"))
    BY <1>5, ReadDoes
  <2>2. Lifetimes'
    BY <2>1 DEF PublisherGoto
  <2> QED
    BY <2>2
<1>6. ASSUME NEW c \in UniqueIDs, PublishingFails(c) PROVE Lifetimes'
  BY <1>6 DEF PublishingFails, PublisherGoto
<1>7. ASSUME NEW c \in UniqueIDs, RunEnds(c) PROVE Lifetimes'
  <2>1. /\ PublisherGoto(c, "ending", "done")
        /\ UNCHANGED thread \/ thread' = [thread EXCEPT !["notifier"] = Woken(@)]
    BY <1>7, RunEndsDoes
  <2>2. Lifetimes'
    BY <2>1 DEF PublisherGoto, Woken
  <2> QED
    BY <2>2
<1> QED BY <1>1, <1>2, <1>3, <1>4, <1>5, <1>6, <1>7 DEF PublisherStep

\* The lifetimes hold.
LEMMA LifetimesHold == Spec => []Lifetimes
<1>1. Init => Lifetimes
  BY DEF Init, Lifetimes
<1>2. TypeInv /\ Steps /\ Lifetimes /\ [Next]_vars => Lifetimes'
  <2>1. ASSUME TypeInv, Steps, Lifetimes, UNCHANGED vars PROVE Lifetimes'
    BY <2>1 DEF Lifetimes, vars, mainVars, callVars, clientVars, engineVars
  <2> QED
    BY <2>1, MainLifetimes, HttpLifetimes, CallLifetimes, ThreadLifetimes, ClientLifetimes DEF Next
<1> QED
  BY <1>1, <1>2, TypeInvHolds, StepsHold, PTL DEF Spec

-----------------------------------------------------------------------------
(* The clients nobody is starting or stopping (MediaServerManager.cpp:62, 85) *)

Served ==
  /\ \A c \in clients : server[c] = "open" \/ id = c
  /\ call = "erase" => id \notin clients

\* The calls of GetPort and FreePort leave the other clients' servers open.
LEMMA CallServed ==
  ASSUME TypeInv, Served,
         CallStep \/ (\E c \in UniqueIDs : GetPort(c) \/ FreePort(c) \/ AcceptCanceled(c))
  PROVE Served'
<1> USE IDAssumption DEF Served, TypeInv, Places, Named, mainVars, clientVars, engineVars
<1>1. CASE AddSender BY <1>1 DEF AddSender, CallGoto
<1>2. CASE StartServer BY <1>2 DEF StartServer, CallGoto
<1>3. CASE GiveUp BY <1>3 DEF GiveUp, CallGoto
<1>4. CASE ServerStopped BY <1>4 DEF ServerStopped, CallGoto
<1>5. CASE RemoveSender BY <1>5 DEF RemoveSender, CallGoto
<1>6. CASE SetStopped BY <1>6 DEF SetStopped, CallGoto
<1>7. CASE Join BY <1>7 DEF Join, CallGoto
<1>8. CASE Erase BY <1>8 DEF Erase, CallGoto
<1>9. ASSUME NEW c \in UniqueIDs, GetPort(c) PROVE Served' BY <1>9 DEF GetPort, HttpIdle
<1>10. ASSUME NEW c \in UniqueIDs, FreePort(c) PROVE Served'
  <2>1. /\ call = "none" /\ call' = "wait server" /\ id' = c /\ UNCHANGED clients
        /\ server' = [server EXCEPT ![c] = "closing"] \/ server' = [server EXCEPT ![c] = "deaf"]
    <3> HIDE DEF Served, TypeInv, Places, Named, mainVars
    <3> QED
      BY <1>10, FreePortDoes DEF HttpIdle
  <2>2. \A d \in UniqueIDs \ {c} : server'[d] = server[d]
    BY <2>1
  <2>3. \A d \in clients : server[d] = "open"
    BY <2>1
  <2> QED
    BY <2>1, <2>2, <2>3
<1>11. ASSUME NEW c \in UniqueIDs, AcceptCanceled(c) PROVE Served'
  BY <1>11 DEF AcceptCanceled, callVars
<1> QED
  BY <1>1, <1>2, <1>3, <1>4, <1>5, <1>6, <1>7, <1>8, <1>9, <1>10, <1>11 DEF CallStep

\* What the other actions do changes neither clients nor servers.
LEMMA OthersDoNotServe ==
  ASSUME MainStep \/ Quit \/ HttpEnds \/ RtmpNotify \/ EngineStep \/ IoEnds \/ NotifierStep
           \/ (\E c \in UniqueIDs : OnData(c) \/ NotifyDeviceDisconnect(c) \/ PublisherStep(c))
  PROVE UNCHANGED <<callVars, clients, server>>
<1> USE DEF mainVars, callVars, clientVars, engineVars
<1>1. CASE MainStep \/ Quit
  BY <1>1, Zenon DEF MainStep, Quit, StartModule, Started, StopModule, Stopped, Exit
<1>2. CASE HttpEnds \/ RtmpNotify \/ IoEnds
  BY <1>2, Zenon DEF HttpEnds, RtmpNotify, IoEnds
<1>3. CASE EngineStep
  BY <1>3, Zenon DEF EngineStep, EngineEnds, BeginRound, SendAudio, EndRound, EngineGoto
<1>4. CASE NotifierStep
  BY <1>4, Zenon DEF NotifierStep, NotifierWaits, NotifierReads, NotifierGoto
<1>5. ASSUME NEW c \in UniqueIDs, OnData(c) \/ NotifyDeviceDisconnect(c) PROVE UNCHANGED <<callVars, clients, server>>
  BY <1>5, Zenon DEF OnData, NotifyDeviceDisconnect
<1>6. ASSUME NEW c \in UniqueIDs, PublisherStep(c) PROVE UNCHANGED <<callVars, clients, server>>
  BY <1>6, Zenon DEF PublisherStep, ReadWaits, ReadReturns, PublishingFails, RunEnds, PublisherGoto
<1> QED BY <1>1, <1>2, <1>3, <1>4, <1>5, <1>6

LEMMA ServedHold == Spec => []Served
<1>1. Init => Served
  BY DEF Init, Served
<1>2. TypeInv /\ Served /\ [Next]_vars => Served'
  <2>1. ASSUME Served, UNCHANGED <<callVars, clients, server>> PROVE Served'
    BY <2>1 DEF Served, callVars
  <2>2. UNCHANGED vars => UNCHANGED <<callVars, clients, server>>
    BY DEF vars, callVars, clientVars
  <2> QED
    BY <2>1, <2>2, CallServed, OthersDoNotServe DEF Next
<1> QED
  BY <1>1, <1>2, TypeInvHolds, PTL DEF Spec

\* Every object outlives its use by another thread (RtmpClient.cpp:210, MediaServerManager.cpp:83).
THEOREM NoDanglingUse == Spec => []ObjectsOutliveUse
<1>1. ASSUME TypeInv, InTurn, Lifetimes, Served PROVE ObjectsOutliveUse
  <2>1. ASSUME NEW c \in UniqueIDs, IoRuns, server[c] \in {"open", "closing", "deaf"} PROVE c \in clients
    <3>1. ~(call = "erase" /\ id = c)
      BY <1>1, <2>1 DEF Lifetimes
    <3> QED
      BY <1>1, <2>1, <3>1 DEF Lifetimes
  <2>2. ASSUME main \in {"destroyed", "exited"}
        PROVE (\A m \in Modules : Gone(m)) /\ \A c \in clients : server[c] = "open"
    <3>1. \A m \in Modules : Gone(m)
      BY <1>1, <2>2 DEF InTurn, Ended, Modules
    <3>2. id = NoID
      BY <1>1, <3>1 DEF TypeInv, Named, Gone, Modules
    <3>3. \A c \in clients : c # NoID
      BY <1>1, IDAssumption DEF TypeInv, Places
    <3> QED
      BY <1>1, <3>1, <3>2, <3>3 DEF Served
  <2> QED
    BY <1>1, <2>1, <2>2 DEF Lifetimes, ObjectsOutliveUse
<1> QED
  BY <1>1, TypeInvHolds, InTurnHolds, LifetimesHold, ServedHold, PTL

-----------------------------------------------------------------------------
(* Who waits for whom, when main stops and when a request is handled *)

\* The notifier, the engine, a publishing thread is not in a wait.
NotifierGoes == thread["notifier"] \in {"idle", "woken"}
EngineGoes == thread["engine"] \in {"idle", "round"}
PublisherGoes(c) == publisher[c] \in {"busy", "woken", "ending"}

\* The HTTP thread is not in a wait, or what it waits for has happened.
HttpGoes ==
  \/ HttpIdle
  \/ call \in {"start server", "set stopped", "erase"}
  \/ call \in {"add sender", "remove sender"} /\ MutexFree
  \/ call = "wait server" /\ server[id] = "stopped"
  \/ call = "join" /\ publisher[id] = "done"

\* The thread that it waits for is not in a wait itself.
AnswererGoes ==
  \/ call \in {"add sender", "remove sender"} /\ EngineGoes
  \/ call = "wait server" /\ server[id] = "closing" /\ IoRuns
  \/ call = "join" /\ PublisherGoes(id)

\* So for the thread that main joins.
JoinedGoes ==
  \/ step = 1 /\ NotifierGoes
  \/ step = 2 /\ (HttpGoes \/ AnswererGoes)
  \/ step = 3 /\ IoRuns
  \/ step = 4 /\ EngineGoes

\* Waits end at a thread that goes on, whoever waits and for whom: the only
\* waits that do not are the three that were lost.  Who waits for the engine's
\* mutex finds it free, or held in a round that goes on.
SomebodyGoes ==
  /\ call # "none" => HttpGoes \/ AnswererGoes \/ WaitLost
  /\ main = "stopping" => Joined \/ JoinedGoes \/ WaitLost

\* What is joined has been started, and each thread waits for its own kind.
WaitInv ==
  /\ \A c \in clients : publisher[c] # "none"
  /\ call = "wait server" => server[id] \in {"closing", "deaf", "stopped"}
  /\ thread["notifier"] # "round"
  /\ thread["engine"] \in {"none", "idle", "round", "gone"}
  /\ thread["http"] \in {"none", "idle", "gone"}

\* The steps of main, of the HTTP thread and of GetPort and FreePort.
LEMMA MainWaits == ASSUME TypeInv, Steps, WaitInv, MainStep \/ Quit PROVE WaitInv'
<1> USE DEF WaitInv, TypeInv, Places, Modules, mainVars, callVars, clientVars, engineVars
<1>1. CASE StartModule
  <2>1. /\ UNCHANGED <<callVars, clientVars, engineVars>>
        /\ \E m \in Modules : \E first \in {"idle", "none"} : thread' = [thread EXCEPT ![m] = first]
    BY <1>1, StartModuleDoes
  <2> QED BY <2>1
<1>2. CASE StopModule
  <2>1. /\ UNCHANGED <<callVars, clientVars, engineVars>>
        /\ UNCHANGED thread \/ thread' = [thread EXCEPT !["notifier"] = Woken(@)]
    BY <1>2, StopModuleDoes
  <2> QED BY <2>1 DEF Woken
<1>3. CASE Started \/ Stopped \/ Exit \/ Quit BY <1>3 DEF Started, Stopped, Exit, Quit
<1> QED BY <1>1, <1>2, <1>3 DEF MainStep

LEMMA HttpWaits ==
  ASSUME TypeInv, WaitInv, HttpEnds \/ RtmpNotify \/ (\E c \in UniqueIDs : GetPort(c) \/ FreePort(c))
  PROVE  WaitInv'
<1> USE IDAssumption DEF WaitInv, TypeInv, Places, Modules, mainVars, callVars, clientVars, engineVars
<1>1. CASE HttpEnds BY <1>1 DEF HttpEnds, HttpIdle, Goto
<1>2. CASE RtmpNotify BY <1>2 DEF RtmpNotify, Notify, Woken
<1>3. ASSUME NEW c \in UniqueIDs, GetPort(c) PROVE WaitInv'
  <2>1. /\ call' = "add sender" /\ clients' = clients \cup {c} /\ UNCHANGED thread
        /\ publisher' = [publisher EXCEPT ![c] = "busy"]
    BY <1>3 DEF GetPort
  <2>2. ASSUME NEW d \in clients' PROVE publisher'[d] # "none"
    <3>1. DOMAIN publisher = UniqueIDs /\ d \in UniqueIDs /\ (d = c \/ publisher[d] # "none")
      BY <2>1, <2>2
    <3> HIDE DEF WaitInv, TypeInv, Places
    <3> QED BY <2>1, <3>1
  <2> QED BY <2>1, <2>2
<1>4. ASSUME NEW c \in UniqueIDs, FreePort(c) PROVE WaitInv'
  <2>1. /\ id' = c /\ UNCHANGED <<thread, clients, publisher>>
        /\ server' = [server EXCEPT ![c] = "closing"] \/ server' = [server EXCEPT ![c] = "deaf"]
    BY <1>4, FreePortDoes
  <2> QED BY <2>1
<1> QED BY <1>1, <1>2, <1>3, <1>4

LEMMA CallWaits == ASSUME TypeInv, Lifetimes, WaitInv, CallStep PROVE WaitInv'
<1> USE IDAssumption DEF WaitInv, TypeInv, Places, mainVars, callVars, clientVars, engineVars
<1>1. CASE AddSender BY <1>1 DEF AddSender, CallGoto
<1>2. CASE StartServer BY <1>2 DEF StartServer, CallGoto
<1>3. CASE GiveUp BY <1>3 DEF GiveUp, CallGoto
<1>4. CASE ServerStopped BY <1>4 DEF ServerStopped, CallGoto
<1>5. CASE RemoveSender BY <1>5 DEF RemoveSender, CallGoto
<1>6. CASE SetStopped BY <1>6 DEF SetStopped, CallGoto, Woken
<1>7. CASE Join BY <1>7 DEF Join, CallGoto
<1>8. CASE Erase BY <1>8 DEF Erase, CallGoto
<1> QED BY <1>1, <1>2, <1>3, <1>4, <1>5, <1>6, <1>7, <1>8 DEF CallStep

\* The steps of the engine, of the notifier, and of the io thread's end.
LEMMA ThreadWaits == ASSUME TypeInv, WaitInv, EngineStep \/ NotifierStep \/ IoEnds PROVE WaitInv'
<1> USE DEF WaitInv, TypeInv, Places, Modules, mainVars, callVars, clientVars, engineVars
<1>1. CASE EngineStep
  BY <1>1 DEF EngineStep, EngineEnds, BeginRound, SendAudio, EndRound, EngineGoto, Goto
<1>2. CASE NotifierWaits BY <1>2 DEF NotifierWaits, NotifierGoto, Goto
<1>3. ASSUME NEW from \in {"idle", "woken"}, NotifierReads(from) PROVE WaitInv'
  <2>1. NotifierGoto(from, "gone") \/ NotifierGoto(from, "idle")
    BY <1>3, NotifierDoes
  <2> QED BY <2>1 DEF NotifierGoto, Goto
<1>4. CASE IoEnds BY <1>4 DEF IoEnds, Goto
<1> QED BY <1>1, <1>2, <1>3, <1>4 DEF NotifierStep

\* The steps of the io thread and of the publishing threads.
LEMMA ClientWaits ==
  ASSUME TypeInv, WaitInv, NEW c \in UniqueIDs,
         OnData(c) \/ NotifyDeviceDisconnect(c) \/ AcceptCanceled(c) \/ PublisherStep(c)
  PROVE  WaitInv'
<1> USE DEF WaitInv, TypeInv, Places, Modules, mainVars, callVars, clientVars, engineVars
<1>1. CASE OnData(c) BY <1>1 DEF OnData, Woken
<1>2. CASE NotifyDeviceDisconnect(c) BY <1>2 DEF NotifyDeviceDisconnect, Notify, Woken
<1>3. CASE AcceptCanceled(c) 
  <2>1. call = "wait server" => id \in UniqueIDs
    BY DEF Named
  <2> QED BY <1>3, <2>1 DEF AcceptCanceled
<1>4. CASE ReadWaits(c) BY <1>4 DEF ReadWaits, PublisherGoto
<1>5. ASSUME NEW from \in {"busy", "woken"}, ReadReturns(c, from) PROVE WaitInv'
  <2>1. UNCHANGED thread /\ (PublisherGoto(c, from, "busy") \/ PublisherGoto(c, from, "ending"))
    BY <1>5, ReadDoes
  <2> QED BY <2>1 DEF PublisherGoto
<1>6. CASE PublishingFails(c) BY <1>6 DEF PublishingFails, PublisherGoto
<1>7. CASE RunEnds(c)
  <2>1. /\ PublisherGoto(c, "ending", "done")
        /\ UNCHANGED thread \/ thread' = [thread EXCEPT !["notifier"] = Woken(@)]
    BY <1>7, RunEndsDoes
  <2> QED BY <2>1 DEF PublisherGoto, Woken
<1> QED BY <1>1, <1>2, <1>3, <1>4, <1>5, <1>6, <1>7 DEF PublisherStep

LEMMA WaitInvHolds == Spec => []WaitInv
<1>1. Init => WaitInv
  BY DEF Init, WaitInv, Modules
<1>2. TypeInv /\ Steps /\ Lifetimes /\ WaitInv /\ [Next]_vars => WaitInv'
  <2>1. ASSUME WaitInv, UNCHANGED vars PROVE WaitInv'
    BY <2>1 DEF WaitInv, vars, mainVars, callVars, clientVars, engineVars
  <2> QED
    BY <2>1, MainWaits, HttpWaits, CallWaits, ThreadWaits, ClientWaits DEF Next
<1> QED
  BY <1>1, <1>2, TypeInvHolds, StepsHold, LifetimesHold, PTL DEF Spec

\* Neither the stop of the modules (ManagerModule.cpp:34) nor a request that
\* adds or removes a client ends in a circle of threads that wait for each
\* other: HTTP thread, engine mutex, io thread, publishing thread.
THEOREM NobodyWaitsInACircle == Spec => []SomebodyGoes
<1>1. ASSUME TypeInv, Steps, InTurn, Lifetimes, WaitInv, call # "none"
      PROVE  HttpGoes \/ AnswererGoes \/ WaitLost
  <2>1. thread["http"] = "idle" /\ IoRuns /\ EngineGoes /\ id \in UniqueIDs
    BY <1>1 DEF TypeInv, Named, Places, InTurn, WaitInv, IoRuns, EngineGoes, Gone
  <2>2. CASE call \in {"add sender", "remove sender", "start server", "set stopped", "erase"}
    BY <2>1, <2>2 DEF HttpGoes, AnswererGoes
  <2>3. CASE call = "wait server"
    BY <1>1, <2>1, <2>3 DEF WaitInv, HttpGoes, AnswererGoes, WaitLost
  <2>4. CASE call = "join"
    <3>1. publisher[id] \in {"busy", "waiting", "woken", "ending", "done"}
      BY <1>1, <2>1, <2>4 DEF Lifetimes, WaitInv, TypeInv, Places
    <3> QED
      BY <2>4, <3>1 DEF HttpGoes, AnswererGoes, PublisherGoes, WaitLost
  <2> QED
    BY <1>1, <2>2, <2>3, <2>4 DEF TypeInv, Places
<1>2. ASSUME TypeInv, Steps, InTurn, Lifetimes, WaitInv, main = "stopping"
      PROVE  Joined \/ JoinedGoes \/ WaitLost
  <2>1. step \in {0, 1, 2, 3, 4}
    BY <1>2 DEF Steps
  <2>2. CASE step = 0
    BY <2>2 DEF Joined
  <2>3. CASE step = 1
    <3>1. Asked("notifier")
      BY <1>2, <2>3, Orders DEF Asked
    <3>2. thread["notifier"] \in {"none", "idle", "waiting", "woken", "gone"}
      BY <1>2 DEF WaitInv, TypeInv, Places, Modules
    <3> QED
      BY <2>3, <3>1, <3>2, Orders DEF Joined, Gone, JoinedGoes, NotifierGoes, WaitLost
  <2>4. CASE step = 2
    <3>1. thread["http"] = "idle" => HttpGoes \/ AnswererGoes \/ WaitLost
      BY <1>1, <1>2 DEF HttpGoes, HttpIdle
    <3>2. thread["http"] \in {"none", "idle", "gone"}
      BY <1>2 DEF WaitInv
    <3> QED
      BY <2>4, <3>1, <3>2, Orders DEF Joined, Gone, JoinedGoes
  <2>5. CASE step = 3
    BY <1>2, <2>5, Orders DEF InTurn, Joined, Gone, JoinedGoes, IoRuns
  <2>6. CASE step = 4
    BY <1>2, <2>6, Orders DEF WaitInv, Joined, Gone, JoinedGoes, EngineGoes
  <2> QED
    BY <2>1, <2>2, <2>3, <2>4, <2>5, <2>6
<1>3. TypeInv /\ Steps /\ InTurn /\ Lifetimes /\ WaitInv => SomebodyGoes
  BY <1>1, <1>2 DEF SomebodyGoes
<1> QED
  BY <1>3, TypeInvHolds, StepsHold, InTurnHolds, LifetimesHold, WaitInvHolds, PTL
=============================================================================
