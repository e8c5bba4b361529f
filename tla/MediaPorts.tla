----------------------------- MODULE MediaPorts -----------------------------
(***************************************************************************)
(* The control path: the two /media handlers of HttpServer with their      *)
(* registry m_mediaPorts, MediaServerManager with its m_mediaServerMap,    *)
(* and PortAllocator.                                                      *)
(*                                                                         *)
(* All three run on the one libmicrohttpd polling thread, so a handler is  *)
(* interleaved only with the operating system: other processes bind and    *)
(* release ports while GetPort is trying them.  GetPort is therefore a     *)
(* loop of one action per attempt, and every other handler is one action.  *)
(*                                                                         *)
(* Taking the front of an empty deque is undefined behaviour; the model    *)
(* sets "undefined" and claims nothing of what follows.                    *)
(***************************************************************************)
EXTENDS Integers, Sequences, FiniteSets

CONSTANTS
  UniqueIDs,          \* non-empty device IDs clients ask ports for
  NoID,               \* "no request in progress"
  MIN_PORT_NUMBER, MAX_PORT_NUMBER,
  MAX_TRY_COUNT

ASSUME IDAssumption == NoID \notin UniqueIDs
ASSUME PortAssumption ==
  /\ MIN_PORT_NUMBER \in Nat \ {0} /\ MAX_PORT_NUMBER \in Nat
  /\ MIN_PORT_NUMBER <= MAX_PORT_NUMBER
ASSUME TryAssumption == MAX_TRY_COUNT \in Nat \ {0}

Ports == MIN_PORT_NUMBER .. MAX_PORT_NUMBER
NoPort == -1

VARIABLES
  portAllocator,   \* PortAllocator: [unused : deque, used : list]
  mediaServerMap,  \* MediaServerManager: the ID served on each port, or NoID
  rtmpClients,     \* how many RtmpClient objects run for each ID
  mediaPorts,      \* HttpServer: the port of each ID, or NoPort
  allocating,      \* the ID for which GetPort is running, or NoID
  tries,           \* i, the loop counter of GetPort
  acceptorOpen,    \* the new MediaServer's m_acceptor.is_open()
  answer,          \* the last answer sent, [err, port]
  undefined,       \* undefined behaviour was reached
  foreignPorts,    \* ports other processes have bound (environment)
  deallocated      \* history: ports whose server was deallocated

vars == <<portAllocator, mediaServerMap, rtmpClients, mediaPorts, allocating, tries,
          acceptorOpen, answer, undefined, foreignPorts, deallocated>>
requestVars == <<allocating, tries, acceptorOpen>>
registryVars == <<portAllocator, mediaServerMap, rtmpClients, mediaPorts>>
outerVars == <<undefined, foreignPorts, deallocated>>

ServedPorts == {p \in Ports : mediaServerMap[p] # NoID}

Service == INSTANCE PortService WITH assigned <- mediaPorts, pending <- allocating

-----------------------------------------------------------------------------
(* PortAllocator, as functions of its value. *)

PortAllocators == [unused : Seq(Ports), used : SUBSET Ports]

NewPortAllocator ==
  [unused |-> [i \in 1 .. MAX_PORT_NUMBER - MIN_PORT_NUMBER + 1 |-> MIN_PORT_NUMBER + i - 1],
   used |-> {}]

\* AllocatePort() on a non-empty deque: the front moves to the used list.
AfterAllocatePort(pa) ==
  [unused |-> Tail(pa.unused), used |-> pa.used \union {Head(pa.unused)}]

\* Mutant: the port stays in the used list.
AfterFreePortKept(pa, port) == [pa EXCEPT !.unused = Append(@, port)]
\* Mutant: GetPort does not give a port back that failed.
AfterFreePortForgotten(pa, port) == pa

\* FreePort(port): a port that is in use goes to the back of the deque.
AfterFreePort(pa, port) ==
  IF port \in pa.used
  THEN [unused |-> Append(pa.unused, port), used |-> pa.used \ {port}]
  ELSE pa

-----------------------------------------------------------------------------
(* HttpServer and MediaServerManager *)

Idle == allocating = NoID /\ ~undefined

Init ==
  /\ portAllocator = NewPortAllocator
  /\ mediaServerMap = [p \in Ports |-> NoID]
  /\ rtmpClients = [id \in UniqueIDs |-> 0]
  /\ mediaPorts = [id \in UniqueIDs |-> NoPort]
  /\ allocating = NoID /\ tries = 0 /\ acceptorOpen = FALSE
  /\ answer = [err |-> Service!ERR_OK, port |-> NoPort]
  /\ undefined = FALSE
  /\ foreignPorts \in SUBSET Ports
  /\ deallocated = {}

Answer(err, port) == answer' = [err |-> err, port |-> port]

\* A handler that changes nothing but sends an answer.
OnlyAnswer(err, port) == Answer(err, port) /\ UNCHANGED <<registryVars, requestVars, outerVars>>

\* An empty unique ID, an unknown method or a body that is not the JSON
\* expected: requestParseError, or the first branch of either handler.
RequestRejected == Idle /\ OnlyAnswer(Service!ERR_INVLIAD_PARAM, NoPort)

AllocateExisting(id) ==
  /\ Idle /\ mediaPorts[id] # NoPort
  /\ OnlyAnswer(Service!ERR_PORT_EXIST_FOR_THIS_UNIQUE_ID, mediaPorts[id])

\* Entry of GetPort: an RtmpClient is started before any port is tried.
AllocateNew(id) ==
  /\ Idle /\ mediaPorts[id] = NoPort
  /\ rtmpClients' = [rtmpClients EXCEPT ![id] = @ + 1]
  /\ allocating' = id
  /\ UNCHANGED <<portAllocator, mediaServerMap, mediaPorts, tries, acceptorOpen, answer, outerVars>>

\* Mutant: one attempt too many.
TryingOnceMore == allocating # NoID /\ ~undefined /\ tries <= MAX_TRY_COUNT

Trying == allocating # NoID /\ ~undefined /\ tries < MAX_TRY_COUNT

AllocatePortFromEmpty ==
  /\ Trying /\ portAllocator.unused = <<>>
  /\ undefined' = TRUE
  /\ UNCHANGED <<registryVars, requestVars, answer, foreignPorts, deallocated>>

\* MediaServer::Start(port): open() throws on an acceptor that is already
\* open, bind()/listen() on a port that some process listens on.
CanStart(port) ==
  ~acceptorOpen /\ port \notin foreignPorts /\ port \notin ServedPorts

\* GetPort returns; its locals, the MediaServer's acceptor with them, go.
GetPortReturns == allocating' = NoID /\ tries' = 0 /\ acceptorOpen' = FALSE

TrySucceeds ==
  /\ Trying /\ portAllocator.unused # <<>>
  /\ LET port == Head(portAllocator.unused) IN
       /\ CanStart(port)
       /\ mediaServerMap' = [mediaServerMap EXCEPT ![port] = allocating]
       /\ mediaPorts' = [mediaPorts EXCEPT ![allocating] = port]
       /\ Answer(Service!ERR_OK, port)
  /\ portAllocator' = AfterAllocatePort(portAllocator)
  /\ GetPortReturns
  /\ UNCHANGED <<rtmpClients, outerVars>>

CountTry == tries' = tries + 1

\* The catch block reports the failure and leaves m_acceptor open.
TryFails ==
  /\ Trying /\ portAllocator.unused # <<>>
  /\ LET port == Head(portAllocator.unused) IN
       /\ ~CanStart(port)
       /\ portAllocator' = AfterFreePort(AfterAllocatePort(portAllocator), port)
  /\ CountTry /\ acceptorOpen' = TRUE
  /\ UNCHANGED <<mediaServerMap, rtmpClients, mediaPorts, allocating, answer, outerVars>>

\* Mutant: the client is not stopped.
KeepClient(id) == UNCHANGED rtmpClients
DestroyClient(id) == rtmpClients' = [rtmpClients EXCEPT ![id] = @ - 1]

\* GetPort returns -1; ~RtmpClient stops the client it had started.
GiveUp ==
  /\ allocating # NoID /\ ~undefined /\ tries = MAX_TRY_COUNT
  /\ DestroyClient(allocating)
  /\ Answer(Service!ERR_FAILED, NoPort)
  /\ GetPortReturns
  /\ UNCHANGED <<portAllocator, mediaServerMap, mediaPorts, outerVars>>

DeallocateUnknown(id) ==
  /\ Idle /\ mediaPorts[id] = NoPort
  /\ OnlyAnswer(Service!ERR_FIND_NO_PORT_OF_THIS_UNIQUE_ID, NoPort)

\* Mutant: the client is stopped, the server stays in the map.
KeepServer(port) == DestroyClient(mediaServerMap[port]) /\ UNCHANGED <<mediaServerMap, deallocated>>

\* MediaServerManager::FreePort(port): the server and the client of the port
\* are stopped and erased.  m_portAllocator is not told.
FreePort(port) ==
  IF mediaServerMap[port] = NoID THEN UNCHANGED <<mediaServerMap, rtmpClients, deallocated>>
  ELSE /\ DestroyClient(mediaServerMap[port])
       /\ mediaServerMap' = [mediaServerMap EXCEPT ![port] = NoID]
       /\ deallocated' = deallocated \union {port}

\* Mutant: the ID stays in HttpServer's registry.
KeepID(id) == UNCHANGED mediaPorts
EraseID(id) == mediaPorts' = [mediaPorts EXCEPT ![id] = NoPort]

DeallocateKnown(id) ==
  /\ Idle /\ mediaPorts[id] # NoPort
  /\ FreePort(mediaPorts[id])
  /\ EraseID(id)
  /\ Answer(Service!ERR_OK, NoPort)
  /\ UNCHANGED <<portAllocator, requestVars, undefined, foreignPorts>>

\* Another process binds a port nobody listens on, or releases one.
ForeignBind(port) ==
  /\ ~undefined /\ port \notin ServedPorts /\ port \notin foreignPorts
  /\ foreignPorts' = foreignPorts \union {port}
  /\ UNCHANGED <<registryVars, requestVars, answer, undefined, deallocated>>

ForeignRelease(port) ==
  /\ ~undefined /\ port \in foreignPorts
  /\ foreignPorts' = foreignPorts \ {port}
  /\ UNCHANGED <<registryVars, requestVars, answer, undefined, deallocated>>

GetPortStep == TrySucceeds \/ TryFails \/ GiveUp \/ AllocatePortFromEmpty

Next ==
  \/ RequestRejected
  \/ \E id \in UniqueIDs : \/ AllocateExisting(id) \/ AllocateNew(id)
                           \/ DeallocateUnknown(id) \/ DeallocateKnown(id)
  \/ GetPortStep
  \/ \E port \in Ports : ForeignBind(port) \/ ForeignRelease(port)

Spec == Init /\ [][Next]_vars

-----------------------------------------------------------------------------
(* Properties *)

\* Every variable has its type.
TypeOK ==
  /\ portAllocator \in PortAllocators
  /\ mediaServerMap \in [Ports -> UniqueIDs \union {NoID}]
  /\ rtmpClients \in [UniqueIDs -> Int]
  /\ mediaPorts \in [UniqueIDs -> Ports \union {NoPort}]
  /\ allocating \in UniqueIDs \union {NoID}
  /\ tries \in 0 .. MAX_TRY_COUNT
  /\ acceptorOpen \in BOOLEAN
  /\ answer \in [err : Int, port : Ports \union {NoPort}]
  /\ undefined \in BOOLEAN
  /\ foreignPorts \in SUBSET Ports
  /\ deallocated \in SUBSET Ports

\* Every port is either in use or in the deque, and there exactly once.
Partitions(pa) ==
  /\ \A i, j \in 1 .. Len(pa.unused) : pa.unused[i] = pa.unused[j] => i = j
  /\ \A i \in 1 .. Len(pa.unused) : pa.unused[i] \notin pa.used
  /\ \A p \in Ports : p \in pa.used \/ \E i \in 1 .. Len(pa.unused) : pa.unused[i] = p

\* PortAllocator neither loses nor duplicates a port, however allocations,
\* failed attempts and deallocations follow each other.
AllocatorPartitions == Partitions(portAllocator)

\* HttpServer's registry and MediaServerManager's map, updated by different
\* functions and never compared by the code, are inverse to each other.
RegistriesAgree ==
  /\ \A id \in UniqueIDs : mediaPorts[id] # NoPort => mediaServerMap[mediaPorts[id]] = id
  /\ \A p \in Ports : mediaServerMap[p] # NoID => mediaPorts[mediaServerMap[p]] = p

\* The RTMP URL of a client is made from its unique ID alone: each ID that
\* holds or is getting a port has one client, every other ID none, also
\* after GetPort failed half way.
OnePublisherPerID ==
  \A id \in UniqueIDs :
    rtmpClients[id] = IF mediaPorts[id] # NoPort \/ allocating = id THEN 1 ELSE 0

\* A failed attempt gives its port back, so the used list holds the served
\* ports and those FreePort(int) forgot, and nothing else; the deque runs
\* empty only when these two make up the whole range.
UsedPortsAccounted ==
  /\ portAllocator.used = ServedPorts \union deallocated
  /\ undefined => Ports \subseteq ServedPorts \union deallocated

\* The handlers implement the abstract port service.
ImplementsPortService == Service!Spec

\* "Try to allocate media server port serveral times if failed": an attempt
\* on a port that no process listens on succeeds.
RetryCanSucceed ==
  [][tries' = tries + 1 => Head(portAllocator.unused) \in foreignPorts]_vars

\* A deallocated port can be allocated again: no port is in use unless a
\* media server listens on it.
DeallocatedPortsReturn == portAllocator.used \subseteq ServedPorts
=============================================================================
