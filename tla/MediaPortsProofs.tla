-------------------------- MODULE MediaPortsProofs --------------------------
(***************************************************************************)
(* Proofs about MediaPorts, for every port range, every set of devices and *)
(* every number of attempts.                                               *)
(*                                                                         *)
(* The safety invariants of MediaPorts are not inductive one by one: that  *)
(* a granted port is free in both registries comes from the allocator's    *)
(* partition, whose link to the registries is UsedPortsAccounted, and a    *)
(* device that is getting a port must not hold one.  IInv is their         *)
(* conjunction with that last fact.                                        *)
(***************************************************************************)
EXTENDS MediaPorts, TLAPS

\* The device for which GetPort runs holds no port yet.
PendingHoldsNothing == allocating # NoID => mediaPorts[allocating] = NoPort

IInv ==
  /\ TypeOK
  /\ AllocatorPartitions
  /\ RegistriesAgree
  /\ OnePublisherPerID
  /\ UsedPortsAccounted
  /\ PendingHoldsNothing

\* The constants, as the steps below use them.
LEMMA ConstantFacts ==
  /\ NoID \notin UniqueIDs
  /\ MIN_PORT_NUMBER \in Nat /\ MAX_PORT_NUMBER \in Nat
  /\ Ports \subseteq Nat
  /\ NoPort \in Int /\ NoPort \notin Ports
  /\ MAX_TRY_COUNT \in Nat
BY IDAssumption, PortAssumption, TryAssumption DEF Ports, NoPort

\* The constructor puts every port into the deque once.
LEMMA NewPortAllocatorFacts ==
  NewPortAllocator \in PortAllocators /\ Partitions(NewPortAllocator) /\ NewPortAllocator.used = {}
<1> DEFINE n == MAX_PORT_NUMBER - MIN_PORT_NUMBER + 1
           s == [i \in 1 .. n |-> MIN_PORT_NUMBER + i - 1]
<1>1. n \in Nat
  BY PortAssumption
<1>2. \A i \in 1 .. n : s[i] \in Ports
  BY <1>1, PortAssumption DEF Ports
<1>3. s \in Seq(Ports) /\ Len(s) = n
  BY <1>1, <1>2
<1>4. \A i, j \in 1 .. n : s[i] = s[j] => i = j
  BY <1>1, PortAssumption
<1>5. \A p \in Ports : \E i \in 1 .. n : s[i] = p
  <2> TAKE p \in Ports
  <2>1. p - MIN_PORT_NUMBER + 1 \in 1 .. n
    BY PortAssumption DEF Ports
  <2>2. s[p - MIN_PORT_NUMBER + 1] = p
    BY <2>1, PortAssumption DEF Ports
  <2> QED BY <2>1, <2>2
<1>6. NewPortAllocator = [unused |-> s, used |-> {}]
  BY DEF NewPortAllocator
<1> HIDE DEF n, s
<1> QED BY <1>3, <1>4, <1>5, <1>6 DEF PortAllocators, Partitions

\* AllocatePort moves the front of a non-empty deque, a port that was not in
\* use, to the used list, and nothing else.
LEMMA AllocatePortFacts ==
  ASSUME NEW pa \in PortAllocators, Partitions(pa), pa.unused # <<>>
  PROVE  /\ Head(pa.unused) \in Ports /\ Head(pa.unused) \notin pa.used
         /\ AfterAllocatePort(pa) \in PortAllocators
         /\ Partitions(AfterAllocatePort(pa))
         /\ AfterAllocatePort(pa).used = pa.used \union {Head(pa.unused)}
<1> DEFINE u == pa.unused
           h == Head(u)
           t == Tail(u)
<1>1. u \in Seq(Ports) /\ u # <<>> /\ pa.used \in SUBSET Ports
  BY DEF PortAllocators
<1>2. h \in Ports /\ h = u[1] /\ 1 \in 1 .. Len(u)
  BY <1>1
<1>3. t \in Seq(Ports) /\ Len(t) = Len(u) - 1 /\ \A i \in 1 .. Len(t) : t[i] = u[i + 1]
  BY <1>1
<1>4. h \notin pa.used
  BY <1>2 DEF Partitions
<1>5. \A i, j \in 1 .. Len(t) : t[i] = t[j] => i = j
  BY <1>1, <1>3 DEF Partitions
<1>6. \A i \in 1 .. Len(t) : t[i] \notin pa.used \union {h}
  <2> SUFFICES ASSUME NEW i \in 1 .. Len(t)
               PROVE  t[i] \notin pa.used \union {h}
    OBVIOUS
  <2>1. i + 1 \in 1 .. Len(u) /\ i + 1 # 1 /\ t[i] = u[i + 1]
    BY <1>1, <1>3
  <2>2. u[i + 1] \notin pa.used
    BY <2>1 DEF Partitions
  <2>3. u[i + 1] # u[1]
    BY <2>1, <1>2 DEF Partitions
  <2> QED BY <2>1, <2>2, <2>3, <1>2
<1>7. \A p \in Ports : p \in pa.used \union {h} \/ \E i \in 1 .. Len(t) : t[i] = p
  <2> SUFFICES ASSUME NEW p \in Ports, p \notin pa.used, p # h
               PROVE  \E i \in 1 .. Len(t) : t[i] = p
    OBVIOUS
  <2>1. PICK i \in 1 .. Len(u) : u[i] = p
    BY DEF Partitions
  <2>2. i - 1 \in 1 .. Len(t) /\ t[i - 1] = p
    BY <1>1, <1>2, <1>3, <2>1
  <2> QED BY <2>2
<1>8. AfterAllocatePort(pa) = [unused |-> t, used |-> pa.used \union {h}]
  BY DEF AfterAllocatePort
<1>9. AfterAllocatePort(pa).unused = t /\ AfterAllocatePort(pa).used = pa.used \union {h}
  BY <1>8
<1> HIDE DEF u, h, t
<1>10. AfterAllocatePort(pa) \in PortAllocators
  BY <1>1, <1>2, <1>3, <1>8 DEF PortAllocators
<1>11. Partitions(AfterAllocatePort(pa))
  BY <1>5, <1>6, <1>7, <1>9 DEF Partitions
<1> QED BY <1>2, <1>4, <1>9, <1>10, <1>11 DEF u, h

\* FreePort takes a port out of the used list, and puts it back into the
\* deque if it was in use.
LEMMA FreePortFacts ==
  ASSUME NEW pa \in PortAllocators, Partitions(pa), NEW port \in Ports
  PROVE  /\ AfterFreePort(pa, port) \in PortAllocators
         /\ Partitions(AfterFreePort(pa, port))
         /\ AfterFreePort(pa, port).used = pa.used \ {port}
<1>1. CASE port \notin pa.used
  BY <1>1 DEF AfterFreePort, PortAllocators
<1>2. CASE port \in pa.used
  <2> DEFINE u == pa.unused
             a == Append(u, port)
  <2>1. u \in Seq(Ports) /\ pa.used \in SUBSET Ports /\ Len(u) \in Nat
    BY DEF PortAllocators
  <2>2. /\ a \in Seq(Ports) /\ Len(a) = Len(u) + 1
        /\ a[Len(a)] = port /\ \A i \in 1 .. Len(u) : a[i] = u[i]
    BY <2>1
  <2>3. \A i \in 1 .. Len(a) : i = Len(a) \/ i \in 1 .. Len(u)
    BY <2>1, <2>2
  <2>4. \A i \in 1 .. Len(u) : u[i] # port /\ u[i] \notin pa.used
    BY <1>2 DEF Partitions
  <2>5. \A i, j \in 1 .. Len(a) : a[i] = a[j] => i = j
    BY <2>1, <2>2, <2>3, <2>4 DEF Partitions
  <2>6. \A i \in 1 .. Len(a) : a[i] \notin pa.used \ {port}
    BY <2>2, <2>3, <2>4
  <2>7. \A p \in Ports : p \in pa.used \ {port} \/ \E i \in 1 .. Len(a) : a[i] = p
    <3> SUFFICES ASSUME NEW p \in Ports, p \notin pa.used \ {port}
                 PROVE  \E i \in 1 .. Len(a) : a[i] = p
      OBVIOUS
    <3>1. CASE p = port
      BY <3>1, <2>1, <2>2
    <3>2. CASE p \notin pa.used
      <4>1. PICK i \in 1 .. Len(u) : u[i] = p
        BY <3>2 DEF Partitions
      <4> QED BY <4>1, <2>1, <2>2
    <3> QED BY <3>1, <3>2
  <2>8. AfterFreePort(pa, port) = [unused |-> a, used |-> pa.used \ {port}]
    BY <1>2 DEF AfterFreePort
  <2> HIDE DEF a
  <2>9. AfterFreePort(pa, port).unused = a /\ AfterFreePort(pa, port).used = pa.used \ {port}
    BY <2>8
  <2>10. AfterFreePort(pa, port) \in PortAllocators
    BY <2>1, <2>2, <2>8 DEF PortAllocators
  <2> QED BY <2>5, <2>6, <2>7, <2>9, <2>10 DEF Partitions
<1> QED BY <1>1, <1>2

-----------------------------------------------------------------------------
LEMMA InitIInv == Init => IInv
<1> SUFFICES ASSUME Init PROVE IInv
  OBVIOUS
<1> USE ConstantFacts, NewPortAllocatorFacts DEF Init
<1>1. TypeOK
  <2>1. acceptorOpen \in BOOLEAN /\ undefined \in BOOLEAN
    OBVIOUS
  <2> QED BY <2>1 DEF TypeOK, Service!ERR_OK
<1>2. ServedPorts = {}
  BY DEF ServedPorts
<1> QED
  BY <1>1, <1>2 DEF IInv, AllocatorPartitions, RegistriesAgree, OnePublisherPerID,
    UsedPortsAccounted, PendingHoldsNothing

\* A step that leaves the registries alone and neither begins nor ends a
\* GetPort keeps every part of IInv but the types, and what it claims of the
\* undefined state.
LEMMA RegistriesUntouched ==
  ASSUME IInv, TypeOK', UNCHANGED <<registryVars, allocating, deallocated>>,
         undefined' => undefined \/ Ports \subseteq portAllocator.used
  PROVE  IInv'
BY DEF IInv, AllocatorPartitions, RegistriesAgree, OnePublisherPerID, UsedPortsAccounted,
  PendingHoldsNothing, registryVars, ServedPorts, Ports

LEMMA TryFailsKeepsIInv == IInv /\ TryFails => IInv'
<1> SUFFICES ASSUME IInv, TryFails PROVE IInv'
  OBVIOUS
<1> DEFINE port == Head(portAllocator.unused)
           allocated == AfterAllocatePort(portAllocator)
<1>1. /\ TypeOK /\ Partitions(portAllocator) /\ portAllocator \in PortAllocators
      /\ portAllocator.unused # <<>>
  BY DEF IInv, TypeOK, AllocatorPartitions, TryFails
<1>2. /\ port \in Ports /\ port \notin portAllocator.used
      /\ allocated \in PortAllocators /\ Partitions(allocated)
      /\ allocated.used = portAllocator.used \union {port}
  BY <1>1, AllocatePortFacts
<1>3. /\ portAllocator' \in PortAllocators /\ Partitions(portAllocator')
      /\ portAllocator'.used = allocated.used \ {port}
  BY <1>2, FreePortFacts DEF TryFails
<1>4. portAllocator'.used = portAllocator.used
  BY <1>2, <1>3
<1>5. TypeOK'
  BY <1>1, <1>3, ConstantFacts DEF TypeOK, TryFails, CountTry, Trying, outerVars
<1> QED
  BY <1>3, <1>4, <1>5 DEF IInv, AllocatorPartitions, RegistriesAgree, OnePublisherPerID,
    UsedPortsAccounted, PendingHoldsNothing, TryFails, outerVars, ServedPorts, Partitions, Ports

LEMMA TrySucceedsKeepsIInv == IInv /\ TrySucceeds => IInv'
<1> SUFFICES ASSUME IInv, TrySucceeds PROVE IInv'
  OBVIOUS
<1> DEFINE port == Head(portAllocator.unused)
<1>1. /\ TypeOK /\ Partitions(portAllocator) /\ portAllocator \in PortAllocators
      /\ portAllocator.unused # <<>>
      /\ allocating \in UniqueIDs /\ mediaPorts[allocating] = NoPort
  BY DEF IInv, TypeOK, AllocatorPartitions, PendingHoldsNothing, TrySucceeds, Trying
<1>2. /\ port \in Ports /\ port \notin portAllocator.used
      /\ portAllocator' \in PortAllocators /\ Partitions(portAllocator')
      /\ portAllocator'.used = portAllocator.used \union {port}
  BY <1>1, AllocatePortFacts DEF TrySucceeds
<1>3. /\ mediaServerMap' = [mediaServerMap EXCEPT ![port] = allocating]
      /\ mediaPorts' = [mediaPorts EXCEPT ![allocating] = port]
      /\ allocating' = NoID /\ UNCHANGED <<rtmpClients, undefined, foreignPorts, deallocated>>
      /\ mediaServerMap[port] = NoID
  BY <1>2 DEF TrySucceeds, GetPortReturns, CanStart, ServedPorts, outerVars
<1> HIDE DEF port
<1>4. TypeOK'
  <2>1. tries' = 0 /\ acceptorOpen' = FALSE /\ answer' = [err |-> Service!ERR_OK, port |-> port]
    BY DEF TrySucceeds, GetPortReturns, Answer, port
  <2>2. acceptorOpen' \in BOOLEAN
    BY <2>1
  <2> QED BY <1>1, <1>2, <1>3, <2>1, <2>2, ConstantFacts DEF TypeOK, Service!ERR_OK
<1>5. RegistriesAgree'
  BY <1>1, <1>2, <1>3, ConstantFacts DEF IInv, TypeOK, RegistriesAgree
<1>6. OnePublisherPerID'
  BY <1>1, <1>2, <1>3, ConstantFacts DEF IInv, TypeOK, OnePublisherPerID
<1>7. UsedPortsAccounted'
  <2>1. ServedPorts' = ServedPorts \union {port}
    BY <1>1, <1>2, <1>3, ConstantFacts DEF ServedPorts, TypeOK, Ports
  <2> QED BY <1>2, <1>3, <2>1 DEF IInv, UsedPortsAccounted, Ports
<1> QED
  BY <1>2, <1>3, <1>4, <1>5, <1>6, <1>7, ConstantFacts DEF IInv, AllocatorPartitions,
    PendingHoldsNothing, Partitions, Ports

LEMMA DeallocateKnownKeepsIInv ==
  ASSUME IInv, NEW id \in UniqueIDs, DeallocateKnown(id) PROVE IInv'
<1> DEFINE port == mediaPorts[id]
<1>1. TypeOK /\ port \in Ports /\ mediaServerMap[port] = id /\ id # NoID
  BY ConstantFacts DEF IInv, TypeOK, RegistriesAgree, DeallocateKnown
<1>2. /\ mediaServerMap' = [mediaServerMap EXCEPT ![port] = NoID]
      /\ mediaPorts' = [mediaPorts EXCEPT ![id] = NoPort]
      /\ rtmpClients' = [rtmpClients EXCEPT ![id] = @ - 1]
      /\ deallocated' = deallocated \union {port}
      /\ answer' = [err |-> Service!ERR_OK, port |-> NoPort]
      /\ allocating = NoID /\ ~undefined
      /\ UNCHANGED <<portAllocator, allocating, tries, acceptorOpen, undefined, foreignPorts>>
  BY <1>1 DEF DeallocateKnown, FreePort, DestroyClient, EraseID, Answer, Idle, requestVars
<1> HIDE DEF port
<1>3. TypeOK'
  BY <1>1, <1>2, ConstantFacts DEF TypeOK, Service!ERR_OK
<1>4. RegistriesAgree'
  BY <1>1, <1>2, ConstantFacts DEF IInv, TypeOK, RegistriesAgree, port
<1>5. OnePublisherPerID'
  BY <1>1, <1>2, ConstantFacts DEF IInv, TypeOK, OnePublisherPerID, port
<1>6. UsedPortsAccounted'
  <2>1. ServedPorts' = ServedPorts \ {port} /\ port \in ServedPorts
    BY <1>1, <1>2, ConstantFacts DEF ServedPorts, TypeOK, Ports
  <2> QED BY <1>2, <2>1 DEF IInv, UsedPortsAccounted, Ports
<1> QED
  BY <1>2, <1>3, <1>4, <1>5, <1>6 DEF IInv, AllocatorPartitions, PendingHoldsNothing,
    Partitions, Ports

LEMMA AllocateNewKeepsIInv ==
  ASSUME IInv, NEW id \in UniqueIDs, AllocateNew(id) PROVE IInv'
<1>1. /\ rtmpClients' = [rtmpClients EXCEPT ![id] = @ + 1]
      /\ allocating' = id /\ allocating = NoID /\ mediaPorts[id] = NoPort /\ ~undefined
      /\ UNCHANGED <<portAllocator, mediaServerMap, mediaPorts, tries, acceptorOpen, answer,
                     undefined, foreignPorts, deallocated>>
  BY DEF AllocateNew, Idle, outerVars
<1>2. TypeOK'
  BY <1>1 DEF IInv, TypeOK
<1>3. OnePublisherPerID'
  BY <1>1, ConstantFacts DEF IInv, TypeOK, OnePublisherPerID
<1> QED
  BY <1>1, <1>2, <1>3 DEF IInv, AllocatorPartitions, RegistriesAgree, UsedPortsAccounted,
    PendingHoldsNothing, ServedPorts, Ports, Partitions

LEMMA GiveUpKeepsIInv == IInv /\ GiveUp => IInv'
<1> SUFFICES ASSUME IInv, GiveUp PROVE IInv'
  OBVIOUS
<1>1. /\ rtmpClients' = [rtmpClients EXCEPT ![allocating] = @ - 1]
      /\ allocating \in UniqueIDs /\ allocating' = NoID
      /\ tries' = 0 /\ acceptorOpen' = FALSE
      /\ answer' = [err |-> Service!ERR_FAILED, port |-> NoPort]
      /\ UNCHANGED <<portAllocator, mediaServerMap, mediaPorts, undefined, foreignPorts, deallocated>>
  BY DEF GiveUp, GetPortReturns, DestroyClient, Answer, outerVars, IInv, TypeOK
<1>2. TypeOK'
  <2>1. acceptorOpen' \in BOOLEAN
    BY <1>1
  <2> QED BY <1>1, <2>1, ConstantFacts DEF IInv, TypeOK, Service!ERR_FAILED
<1>3. OnePublisherPerID'
  BY <1>1, ConstantFacts DEF IInv, TypeOK, OnePublisherPerID, PendingHoldsNothing
<1> QED
  BY <1>1, <1>2, <1>3 DEF IInv, AllocatorPartitions, RegistriesAgree, UsedPortsAccounted,
    PendingHoldsNothing, ServedPorts, Ports, Partitions

LEMMA NextKeepsIInv == IInv /\ [Next]_vars => IInv'
<1> SUFFICES ASSUME IInv, [Next]_vars PROVE IInv'
  OBVIOUS
<1> USE DEF registryVars, requestVars, outerVars
<1> DEFINE Answers == \E err \in Int, port \in Ports \union {NoPort} : OnlyAnswer(err, port)
<1>a. Answers => IInv'
  <2> SUFFICES ASSUME NEW err \in Int, NEW port \in Ports \union {NoPort}, OnlyAnswer(err, port)
               PROVE  IInv'
    OBVIOUS
  <2>1. TypeOK'
    BY DEF OnlyAnswer, Answer, IInv, TypeOK
  <2> QED BY <2>1, RegistriesUntouched DEF OnlyAnswer
<1>1. CASE RequestRejected
  BY <1>1, <1>a DEF RequestRejected, Service!ERR_INVLIAD_PARAM
<1>2. ASSUME NEW id \in UniqueIDs, AllocateExisting(id) PROVE IInv'
  <2>1. mediaPorts[id] \in Ports \union {NoPort}
    BY DEF IInv, TypeOK
  <2> QED BY <1>2, <1>a, <2>1 DEF AllocateExisting, Service!ERR_PORT_EXIST_FOR_THIS_UNIQUE_ID
<1>3. ASSUME NEW id \in UniqueIDs, DeallocateUnknown(id) PROVE IInv'
  BY <1>3, <1>a DEF DeallocateUnknown, Service!ERR_FIND_NO_PORT_OF_THIS_UNIQUE_ID
<1>4. CASE AllocatePortFromEmpty
  <2>1. TypeOK'
    <3>1. undefined' \in BOOLEAN
      BY <1>4 DEF AllocatePortFromEmpty
    <3> QED BY <1>4, <3>1 DEF AllocatePortFromEmpty, IInv, TypeOK
  <2>2. Ports \subseteq portAllocator.used
    BY <1>4 DEF AllocatePortFromEmpty, IInv, AllocatorPartitions, Partitions
  <2> QED BY <1>4, <2>1, <2>2, RegistriesUntouched DEF AllocatePortFromEmpty
<1>5. ASSUME NEW port \in Ports, ForeignBind(port) \/ ForeignRelease(port) PROVE IInv'
  <2>1. TypeOK'
    BY <1>5 DEF ForeignBind, ForeignRelease, IInv, TypeOK
  <2> QED BY <1>5, <2>1, RegistriesUntouched DEF ForeignBind, ForeignRelease
<1>6. CASE UNCHANGED vars
  <2>1. TypeOK'
    BY <1>6 DEF vars, IInv, TypeOK
  <2> QED BY <1>6, <2>1, RegistriesUntouched DEF vars
<1> QED
  BY <1>1, <1>2, <1>3, <1>4, <1>5, <1>6, TryFailsKeepsIInv, TrySucceedsKeepsIInv, GiveUpKeepsIInv,
    AllocateNewKeepsIInv, DeallocateKnownKeepsIInv DEF Next, GetPortStep

\* In every reachable state IInv holds.
LEMMA Invariance == Spec => []IInv
<1> QED BY InitIInv, NextKeepsIInv, PTL DEF Spec

\* Every variable keeps its type; in particular GetPort never makes more than
\* MAX_TRY_COUNT attempts.
THEOREM TypeCorrect == Spec => []TypeOK
<1>1. IInv => TypeOK
  BY DEF IInv
<1> QED BY <1>1, Invariance, PTL

\* PortAllocator neither loses nor duplicates a port, whatever the range.
THEOREM AllocatorNeverLosesPorts == Spec => []AllocatorPartitions
<1>1. IInv => AllocatorPartitions
  BY DEF IInv
<1> QED BY <1>1, Invariance, PTL

\* HttpServer's registry and MediaServerManager's map stay inverse to each
\* other, although no code compares them.
THEOREM RegistriesStayInverse == Spec => []RegistriesAgree
<1>1. IInv => RegistriesAgree
  BY DEF IInv
<1> QED BY <1>1, Invariance, PTL

\* A device has an RTMP client exactly while it holds or is getting a port.
THEOREM ClientsFollowPorts == Spec => []OnePublisherPerID
<1>1. IInv => OnePublisherPerID
  BY DEF IInv
<1> QED BY <1>1, Invariance, PTL

\* The used list holds the served and the forgotten ports: undefined
\* behaviour is reached only when these are the whole range.
THEOREM ExhaustionIsLeak == Spec => []UsedPortsAccounted
<1>1. IInv => UsedPortsAccounted
  BY DEF IInv
<1> QED BY <1>1, Invariance, PTL

-----------------------------------------------------------------------------
(* Refinement *)

\* A step of the handlers is a step of the port service, or leaves what its
\* clients see alone.
LEMMA StepRefines == IInv /\ [Next]_vars => [Service!Next]_(Service!vars)
<1> SUFFICES ASSUME IInv, [Next]_vars PROVE [Service!Next]_(Service!vars)
  OBVIOUS
<1> USE DEF registryVars, requestVars, outerVars, Service!vars, Service!Answer, Answer, OnlyAnswer,
  Service!Next, Idle
<1>1. CASE RequestRejected
  BY <1>1 DEF RequestRejected, Service!Reject
<1>2. ASSUME NEW id \in UniqueIDs, AllocateExisting(id) PROVE Service!Next
  BY <1>2 DEF AllocateExisting, Service!Repeat
<1>3. ASSUME NEW id \in UniqueIDs, AllocateNew(id) PROVE Service!Next
  BY <1>3 DEF AllocateNew, Service!Begin
<1>4. ASSUME NEW id \in UniqueIDs, DeallocateUnknown(id) PROVE Service!Next
  BY <1>4 DEF DeallocateUnknown, Service!ReleaseUnknown
<1>5. ASSUME NEW id \in UniqueIDs, DeallocateKnown(id) PROVE Service!Next
  BY <1>5 DEF DeallocateKnown, EraseID, Service!Release
<1>6. CASE TrySucceeds
  <2> DEFINE port == Head(portAllocator.unused)
  <2>1. port \in Ports /\ mediaServerMap[port] = NoID
    BY <1>6, AllocatePortFacts DEF TrySucceeds, CanStart, ServedPorts, IInv, TypeOK, AllocatorPartitions
  <2>2. \A id \in UniqueIDs : mediaPorts[id] # port
    BY <2>1, ConstantFacts DEF IInv, RegistriesAgree
  <2>3. Service!Grant(port)
    BY <1>6, <2>2 DEF TrySucceeds, Trying, GetPortReturns, Service!Grant
  <2> QED BY <2>1, <2>3
<1>7. CASE GiveUp
  BY <1>7 DEF GiveUp, GetPortReturns, Service!Fail
<1>8. CASE TryFails \/ AllocatePortFromEmpty
  BY <1>8 DEF TryFails, AllocatePortFromEmpty
<1>9. ASSUME NEW port \in Ports, ForeignBind(port) \/ ForeignRelease(port)
      PROVE  UNCHANGED Service!vars
  BY <1>9 DEF ForeignBind, ForeignRelease
<1>10. CASE UNCHANGED vars
  BY <1>10 DEF vars
<1> QED
  BY <1>1, <1>2, <1>3, <1>4, <1>5, <1>6, <1>7, <1>8, <1>9, <1>10 DEF Next, GetPortStep

\* The /media handlers, for every range of ports, implement the abstract port
\* service: one port per device, one device per port, truthful answers.
THEOREM PortServiceImplemented == Spec => ImplementsPortService
<1>1. Init => Service!Init
  BY DEF Init, Service!Init
<1> QED BY <1>1, StepRefines, Invariance, PTL DEF Spec, ImplementsPortService, Service!Spec

-----------------------------------------------------------------------------
(* How far the two defects of GetPort and FreePort reach *)

\* A port that was deallocated is never served again.
ForgottenForEver ==
  [][deallocated \subseteq deallocated' /\ deallocated' \cap ServedPorts' = {}]_vars

\* A port is given to a device only by the first attempt of a GetPort.
Granted == \E p \in Ports : mediaServerMap[p] = NoID /\ mediaServerMap'[p] # NoID
OnlyFirstTry == [][Granted => tries = 0]_vars

\* The range serves each port once in the life of the program: FreePort(int)
\* does not tell the allocator, and no other path does
\* (MediaServerManager.cpp:85).
THEOREM PortsServeOnce == Spec => ForgottenForEver
<1> DEFINE Apart == deallocated \cap ServedPorts = {}
<1>1. Init => Apart
  BY DEF Init
<1>2. IInv /\ IInv' /\ Apart /\ [Next]_vars => deallocated \subseteq deallocated' /\ Apart'
  <2> SUFFICES ASSUME IInv, Apart, [Next]_vars
               PROVE  deallocated \subseteq deallocated' /\ Apart'
    OBVIOUS
  <2>1. CASE UNCHANGED <<mediaServerMap, deallocated>>
    BY <2>1 DEF ServedPorts, Ports
  <2>2. CASE TrySucceeds
    <3> DEFINE port == Head(portAllocator.unused)
    <3>1. port \in Ports /\ port \notin portAllocator.used
      BY <2>2, AllocatePortFacts DEF TrySucceeds, IInv, TypeOK, AllocatorPartitions
    <3>2. port \notin deallocated
      BY <3>1 DEF IInv, UsedPortsAccounted
    <3>3. /\ mediaServerMap' = [mediaServerMap EXCEPT ![port] = allocating]
          /\ deallocated' = deallocated
      BY <2>2 DEF TrySucceeds, outerVars
    <3> HIDE DEF port
    <3>4. ServedPorts' \subseteq ServedPorts \union {port}
      BY <3>1, <3>3 DEF ServedPorts, Ports, IInv, TypeOK
    <3> QED BY <3>2, <3>3, <3>4
  <2>3. ASSUME NEW id \in UniqueIDs, DeallocateKnown(id)
        PROVE  deallocated \subseteq deallocated' /\ Apart'
    <3> DEFINE port == mediaPorts[id]
    <3>1. port \in Ports
      BY <2>3 DEF DeallocateKnown, IInv, TypeOK
    <3>2. mediaServerMap[port] # NoID
      BY <2>3, ConstantFacts DEF DeallocateKnown, IInv, RegistriesAgree
    <3>3. /\ mediaServerMap' = [mediaServerMap EXCEPT ![port] = NoID]
          /\ deallocated' = deallocated \union {port}
      BY <2>3, <3>2 DEF DeallocateKnown, FreePort
    <3> HIDE DEF port
    <3>4. ServedPorts' = ServedPorts \ {port}
      BY <3>1, <3>3 DEF ServedPorts, Ports, IInv, TypeOK
    <3> QED BY <3>3, <3>4
  <2> QED
    BY <2>1, <2>2, <2>3 DEF Next, GetPortStep, RequestRejected, AllocateExisting, AllocateNew,
      DeallocateUnknown, OnlyAnswer, TryFails, GiveUp, AllocatePortFromEmpty, ForeignBind,
      ForeignRelease, vars, registryVars, requestVars, outerVars
<1> HIDE DEF Apart
<1>3. Spec => []Apart
  BY <1>1, <1>2, Invariance, PTL DEF Spec
<1>4. Apart /\ IInv /\ IInv' /\ [Next]_vars =>
        [deallocated \subseteq deallocated' /\ deallocated' \cap ServedPorts' = {}]_vars
  BY <1>2 DEF Apart
<1> QED BY <1>3, <1>4, Invariance, PTL DEF Spec, ForgottenForEver

\* The attempts after the first are in vain, whatever port they try: the
\* acceptor is open from the one that failed (MediaServer.cpp:15, 22).
THEOREM RetriesInVain == Spec => OnlyFirstTry
<1> DEFINE OpenAfterTry == tries # 0 => acceptorOpen
<1>1. Init => OpenAfterTry
  BY DEF Init
<1>2. OpenAfterTry /\ [Next]_vars => OpenAfterTry'
  BY DEF Next, GetPortStep, RequestRejected, AllocateExisting, AllocateNew, DeallocateUnknown,
    DeallocateKnown, OnlyAnswer, TrySucceeds, TryFails, GiveUp, GetPortReturns, CountTry,
    AllocatePortFromEmpty, ForeignBind, ForeignRelease, vars, registryVars, requestVars, outerVars
<1>3. OpenAfterTry /\ IInv /\ [Next]_vars => [Granted => tries = 0]_vars
  <2> SUFFICES ASSUME OpenAfterTry, IInv, [Next]_vars, Granted PROVE tries = 0
    OBVIOUS
  <2>1. PICK p \in Ports : mediaServerMap[p] = NoID /\ mediaServerMap'[p] # NoID
    BY DEF Granted
  <2>2. CASE TrySucceeds
    BY <2>2 DEF TrySucceeds, CanStart
  <2>3. ASSUME NEW id \in UniqueIDs, DeallocateKnown(id) PROVE FALSE
    BY <2>1, <2>3 DEF DeallocateKnown, FreePort, IInv, TypeOK
  <2>4. mediaServerMap' # mediaServerMap
    BY <2>1
  <2> QED
    BY <2>2, <2>3, <2>4 DEF Next, GetPortStep, RequestRejected, AllocateExisting, AllocateNew,
      DeallocateUnknown, OnlyAnswer, TryFails, GiveUp, AllocatePortFromEmpty, ForeignBind,
      ForeignRelease, vars, registryVars, requestVars, outerVars
<1> HIDE DEF OpenAfterTry
<1> QED BY <1>1, <1>2, <1>3, Invariance, PTL DEF Spec, OnlyFirstTry
=============================================================================
