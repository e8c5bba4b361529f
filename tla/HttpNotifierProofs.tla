------------------------- MODULE HttpNotifierProofs -------------------------
(***************************************************************************)
(* Proofs about HttpNotifier, for any set of notifying threads, any limit  *)
(* of the queue and any number of messages.                                *)
(***************************************************************************)
EXTENDS HttpNotifier, SequenceTheorems, TLAPS

\* What is in hand is a message when it is sent.
TypeInv == TypeOK /\ (notifier = "send" => msg \in Messages)

LEMMA InitTypeInv == Init => TypeInv
<1> SUFFICES ASSUME Init PROVE TypeInv
  OBVIOUS
<1>1. locked \in BOOLEAN /\ stopped \in BOOLEAN
  BY DEF Init
<1>2. queue \in Seq(Messages) /\ sent \in Seq(Messages) /\ msg \in Messages \cup {<<>>}
  BY DEF Init
<1>3. made \in [Producers -> Nat]
  BY DEF Init
<1> QED BY <1>1, <1>2, <1>3 DEF Init, TypeInv, TypeOK

LEMMA NextTypeInv == TypeInv /\ [Next]_vars => TypeInv'
<1> SUFFICES ASSUME TypeInv, [Next]_vars PROVE TypeInv'
  OBVIOUS
<1> USE DEF TypeInv, TypeOK, producing, sending
<1>1. ASSUME NEW p \in Producers, NotifyAction(p) PROVE TypeInv'
  <2>1. producer' \in [Producers -> {"idle", "lock", "size", "push back"}]
    BY <1>1 DEF NotifyAction, ProducerGoto
  <2>2. made' \in [Producers -> Nat]
    <3>1. made \in [Producers -> Nat] /\ made' = [made EXCEPT ![p] = made[p] + 1]
      BY <1>1 DEF NotifyAction
    <3> HIDE DEF TypeInv, TypeOK
    <3>2. made[p] + 1 \in Nat
      BY <3>1
    <3> QED BY <3>1, <3>2
  <2> QED BY <1>1, <2>1, <2>2 DEF NotifyAction
<1>2. ASSUME NEW p \in Producers, LockPush(p) PROVE TypeInv'
  <2>1. producer' \in [Producers -> {"idle", "lock", "size", "push back"}] /\ locked' \in BOOLEAN
    BY <1>2 DEF LockPush, ProducerGoto, Lock
  <2> QED BY <1>2, <2>1 DEF LockPush
<1>3. ASSUME NEW p \in Producers, CheckSize(p) PROVE TypeInv'
  <2>1. producer' \in [Producers -> {"idle", "lock", "size", "push back"}] /\ locked' \in BOOLEAN
    BY <1>3 DEF CheckSize, ProducerGoto, Unlock
  <2> QED BY <1>3, <2>1 DEF CheckSize
<1>4. ASSUME NEW p \in Producers, PushBack(p) PROVE TypeInv'
  <2>1. producer' \in [Producers -> {"idle", "lock", "size", "push back"}] /\ locked' \in BOOLEAN
    BY <1>4 DEF PushBack, ProducerGoto, Unlock
  <2>2. queue' \in Seq(Messages)
    <3>1. <<p, made[p]>> \in Messages
      BY DEF Messages
    <3>2. queue' = Append(queue, <<p, made[p]>>) /\ queue \in Seq(Messages)
      BY <1>4 DEF PushBack, Pushed
    <3> QED BY <3>1, <3>2, AppendProperties
  <2>3. notifier' = notifier \/ notifier' = "woken"
    BY <1>4 DEF PushBack, NotifyAll
  <2>4. UNCHANGED <<stopped, made, msg, sent, control>>
    BY <1>4 DEF PushBack
  <2> QED BY <2>1, <2>2, <2>3, <2>4
<1>5. CASE LockRun \/ Wait \/ NoWait \/ WaitReturns \/ Break
  <2>1. locked' \in BOOLEAN
    BY <1>5 DEF LockRun, Wait, NoWait, WaitReturns, Break, Lock, Unlock
  <2>2. notifier' \in {"empty", "waiting", "front", "done"}
    BY <1>5 DEF LockRun, Wait, NoWait, WaitReturns, Awake, Break, NotifierGoto
  <2>3. UNCHANGED <<queue, stopped, producer, made, msg, sent, control>>
    BY <1>5 DEF LockRun, Wait, NoWait, WaitReturns, Awake, Break, NotifierGoto
  <2> QED BY <2>1, <2>2, <2>3
<1>6. CASE PopFront
  <2>1. locked' \in BOOLEAN
    BY <1>6 DEF PopFront, Unlock
  <2>2. UNCHANGED <<stopped, producer, made, sent, control>>
    BY <1>6 DEF PopFront, NotifierGoto
  <2>3. CASE queue = <<>>
    <3>1. notifier' = "crashed" /\ UNCHANGED <<queue, msg>>
      BY <1>6, <2>3 DEF PopFront, NotifierGoto
    <3> QED BY <2>1, <2>2, <3>1
  <2>4. CASE queue # <<>>
    <3>1. notifier' = "send" /\ msg' = Head(queue) /\ queue' = Tail(queue)
      BY <1>6, <2>4 DEF PopFront, NotifierGoto
    <3>2. queue' \in Seq(Messages) /\ msg' \in Messages
      BY <2>4, <3>1, HeadTailProperties
    <3> QED BY <2>1, <2>2, <3>1, <3>2
  <2> QED BY <2>3, <2>4
<1>7. CASE Send
  <2>1. sent' \in Seq(Messages)
    BY <1>7, AppendProperties DEF Send, NotifierGoto
  <2>2. notifier' = "lock" /\ UNCHANGED <<queue, locked, stopped, producer, made, msg, control>>
    BY <1>7 DEF Send, NotifierGoto
  <2> QED BY <2>1, <2>2
<1>8. CASE StopCalled \/ Join
  BY <1>8 DEF StopCalled, Join
<1>9. CASE SetStopped
  <2>1. stopped' \in BOOLEAN
    BY <1>9 DEF SetStopped
  <2>2. notifier' = notifier \/ notifier' = "woken"
    BY <1>9 DEF SetStopped, NotifyAll
  <2>3. control' = "joining" /\ UNCHANGED <<queue, locked, producer, made, msg, sent>>
    BY <1>9 DEF SetStopped
  <2> QED BY <2>1, <2>2, <2>3
<1>10. CASE UNCHANGED vars
  BY <1>10 DEF vars
<1> QED
  BY <1>1, <1>2, <1>3, <1>4, <1>5, <1>6, <1>7, <1>8, <1>9, <1>10 DEF Next, Producer, Run

\* Every variable keeps its type.
THEOREM TypeCorrect == Spec => []TypeOK
<1>1. Init /\ [][Next]_vars => []TypeInv
  BY InitTypeInv, NextTypeInv, PTL
<1>2. TypeInv => TypeOK
  BY DEF TypeInv
<1> QED BY <1>1, <1>2, PTL DEF Spec

-----------------------------------------------------------------------------
(* Exclusion.  A thread in a deque operation holds m_lock, alone, as long  *)
(* as CheckSize does not release it.                                       *)

Inside(p) == producer[p] \in {"size", "push back"}
NotifierInside == notifier \in {"empty", "front"}

MutexInv ==
  /\ NotifierInside => locked /\ \A p \in Producers : ~Inside(p)
  /\ \A p \in Producers : Inside(p) => locked
  /\ \A p, q \in Producers : Inside(p) /\ Inside(q) => p = q

LEMMA MutexExcludes == TypeOK /\ MutexInv => ~Race
BY DEF TypeOK, MutexInv, Inside, NotifierInside, Race, Readers, Writers

LEMMA NextMutexInv == TypeOK /\ Roomy /\ MutexInv /\ [Next]_vars => MutexInv'
<1> SUFFICES ASSUME TypeOK, Roomy, MutexInv, [Next]_vars PROVE MutexInv'
  OBVIOUS
<1>0. producer \in [Producers -> {"idle", "lock", "size", "push back"}]
  BY DEF TypeOK
<1> USE DEF MutexInv, Inside, NotifierInside, producing, sending
<1>1. ASSUME NEW p \in Producers, NotifyAction(p) PROVE MutexInv'
  BY <1>0, <1>1 DEF NotifyAction, ProducerGoto
<1>2. ASSUME NEW p \in Producers, LockPush(p) PROVE MutexInv'
  <2>1. ~locked /\ locked' /\ notifier' = notifier
    BY <1>2 DEF LockPush, Lock
  <2>2. \A q \in Producers : Inside(q)' => q = p
    <3>1. producer' = [producer EXCEPT ![p] = "size"]
      BY <1>2 DEF LockPush, ProducerGoto
    <3> QED BY <1>0, <2>1, <3>1
  <2> QED BY <2>1, <2>2
<1>3. ASSUME NEW p \in Producers, CheckSize(p) PROVE MutexInv'
  <2>1. ~Full
    <3>1. p \in Readers
      BY <1>3 DEF CheckSize, ProducerGoto, Readers
    <3>2. Len(queue) <= MaxQueue
      BY <3>1 DEF Roomy
    <3>3. Len(queue) \in Nat
      <4>1. queue \in Seq(Messages)
        BY DEF TypeOK
      <4> QED BY <4>1, LenProperties
    <3> HIDE DEF MutexInv
    <3>4. MaxQueue \in Nat
      BY NotifierAssumption
    <3> QED BY <3>2, <3>3, <3>4 DEF Full
  <2>2. locked' = locked /\ notifier' = notifier
    BY <1>3, <2>1 DEF CheckSize
  <2>3. \A q \in Producers : Inside(q)' <=> Inside(q)
    BY <1>0, <1>3 DEF CheckSize, ProducerGoto
  <2> QED BY <2>2, <2>3
<1>4. ASSUME NEW p \in Producers, PushBack(p) PROVE MutexInv'
  <2>1. Inside(p)
    BY <1>4 DEF PushBack, ProducerGoto
  <2>2. \A q \in Producers : ~Inside(q)'
    BY <1>0, <1>4, <2>1 DEF PushBack, ProducerGoto
  <2>3. ~NotifierInside'
    BY <1>4, <2>1 DEF PushBack, NotifyAll
  <2> QED BY <2>2, <2>3
<1>5. CASE LockRun \/ WaitReturns
  <2>1. locked' /\ producer' = producer /\ \A p \in Producers : ~Inside(p)
    BY <1>5 DEF LockRun, WaitReturns, Awake, NotifierGoto, Lock
  <2> QED BY <2>1
<1>6. CASE NoWait
  BY <1>6 DEF NoWait, NotifierGoto
<1>7. CASE Wait \/ Break \/ PopFront
  <2>1. NotifierInside /\ producer' = producer /\ ~NotifierInside'
    BY <1>7 DEF Wait, Break, PopFront, NotifierGoto
  <2> QED BY <2>1
<1>8. CASE Send \/ StopCalled \/ Join
  <2>1. UNCHANGED <<locked, producer>> /\ (NotifierInside' => NotifierInside)
    BY <1>8 DEF Send, NotifierGoto, StopCalled, Join
  <2> QED BY <2>1
<1>9. CASE SetStopped
  <2>1. UNCHANGED <<locked, producer>> /\ (NotifierInside' => NotifierInside)
    BY <1>9 DEF SetStopped, NotifyAll
  <2> QED BY <2>1
<1>10. CASE UNCHANGED vars
  BY <1>10 DEF vars
<1> QED
  BY <1>1, <1>2, <1>3, <1>4, <1>5, <1>6, <1>7, <1>8, <1>9, <1>10 DEF Next, Producer, Run

\* m_lock keeps the threads apart, for any number of them, as long as no
\* message is pushed onto a full queue: the double unlock of Push is the
\* only way to a data race.
THEOREM ExclusiveUse == Spec => Exclusive
<1>1. Init => MutexInv
  BY DEF Init, MutexInv, Inside, NotifierInside
<1>2. Spec /\ []Roomy => []MutexInv
  BY <1>1, NextMutexInv, TypeCorrect, PTL DEF Spec
<1> QED BY <1>2, MutexExcludes, TypeCorrect, PTL DEF Exclusive

-----------------------------------------------------------------------------
(* The wait *)

MessageInv ==
  /\ notifier \in {"woken", "front"} /\ ~stopped => queue # <<>>
  /\ notifier # "crashed"

LEMMA NextMessageInv ==
  ASSUME ~SpuriousWakeups
  PROVE  TypeOK /\ MessageInv /\ [Next]_vars => MessageInv'
<1> SUFFICES ASSUME TypeOK, MessageInv, [Next]_vars PROVE MessageInv'
  OBVIOUS
<1> USE DEF MessageInv, producing, sending
<1>1. ASSUME NEW p \in Producers, NotifyAction(p) \/ LockPush(p) \/ CheckSize(p) PROVE MessageInv'
  BY <1>1 DEF NotifyAction, LockPush, CheckSize
<1>2. ASSUME NEW p \in Producers, PushBack(p) PROVE MessageInv'
  <2>1. queue' # <<>>
    <3>1. <<p, made[p]>> \in Messages /\ queue \in Seq(Messages)
      BY DEF TypeOK, Messages
    <3>2. Append(queue, <<p, made[p]>>) # <<>>
      BY <3>1, AppendProperties
    <3> QED BY <1>2, <3>2 DEF PushBack, Pushed
  <2>2. notifier' # "crashed"
    BY <1>2 DEF PushBack, NotifyAll
  <2> QED BY <2>1, <2>2
<1>3. CASE LockRun \/ Wait \/ NoWait \/ WaitReturns \/ Break \/ Send
  BY <1>3 DEF LockRun, Wait, NoWait, WaitReturns, Awake, Break, Send, NotifierGoto
<1>4. CASE PopFront
  <2>1. queue # <<>>
    BY <1>4 DEF PopFront, NotifierGoto, StopSeen
  <2> QED BY <1>4, <2>1 DEF PopFront, NotifierGoto
<1>5. CASE StopCalled \/ Join
  BY <1>5 DEF StopCalled, Join
<1>6. CASE SetStopped
  <2>1. stopped' /\ notifier' # "crashed"
    BY <1>6 DEF SetStopped, NotifyAll
  <2> QED BY <2>1
<1>7. CASE UNCHANGED vars
  BY <1>7 DEF vars
<1> QED BY <1>1, <1>2, <1>3, <1>4, <1>5, <1>6, <1>7 DEF Next, Producer, Run

\* Where a wait returns only when notified, the notifier's thread never
\* takes the front of an empty deque, although it does not look again.
THEOREM MessageIsPresent ==
  ASSUME ~SpuriousWakeups
  PROVE  Spec => []MessagePresent
<1>1. Init => MessageInv
  BY DEF Init, MessageInv
<1>2. MessageInv => MessagePresent
  BY DEF MessageInv, MessagePresent
<1>3. Spec => []MessageInv
  BY <1>1, NextMessageInv, TypeCorrect, PTL DEF Spec
<1> QED BY <1>2, <1>3, PTL

-----------------------------------------------------------------------------
(* The order of the messages.  Order holds what was notified so far: only  *)
(* PushBack changes it, by appending the message a thread has just made.   *)

AllQueued == UNION {{p} \X (1..Queued(p)) : p \in Producers}

OrderInv ==
  /\ InOrder
  /\ \A p \in Producers : producer[p] # "idle" => made[p] >= 1

LEMMA OrderType == TypeInv => Order \in Seq(Messages)
<1> SUFFICES ASSUME TypeInv PROVE Order \in Seq(Messages)
  OBVIOUS
<1>1. sent \in Seq(Messages) /\ queue \in Seq(Messages)
  BY DEF TypeInv, TypeOK
<1>2. InHand \in Seq(Messages)
  BY DEF TypeInv, InHand
<1>3. sent \o InHand \in Seq(Messages)
  BY <1>1, <1>2, ConcatProperties
<1> QED BY <1>1, <1>3, ConcatProperties DEF Order

\* A message that changes hands keeps its place.
LEMMA PopKeepsOrder == TypeInv /\ PopFront => Order' = Order
<1> SUFFICES ASSUME TypeInv, PopFront PROVE Order' = Order
  OBVIOUS
<1>1. sent \in Seq(Messages) /\ queue \in Seq(Messages) /\ sent' = sent /\ InHand = <<>>
  BY DEF TypeInv, TypeOK, PopFront, NotifierGoto, InHand
<1>2. CASE queue = <<>>
  <2>1. queue' = queue /\ InHand' = <<>>
    BY <1>2 DEF PopFront, NotifierGoto, InHand
  <2> QED BY <1>1, <2>1 DEF Order
<1>3. CASE queue # <<>>
  <2>1. queue' = Tail(queue) /\ InHand' = <<Head(queue)>>
    BY <1>3 DEF PopFront, NotifierGoto, InHand
  <2>2. (sent \o <<Head(queue)>>) \o Tail(queue) = (sent \o <<>>) \o queue
    BY <1>1, <1>3
  <2> QED BY <1>1, <2>1, <2>2 DEF Order
<1> QED BY <1>2, <1>3

LEMMA SendKeepsOrder == TypeInv /\ Send => Order' = Order
<1> SUFFICES ASSUME TypeInv, Send PROVE Order' = Order
  OBVIOUS
<1>1. sent \in Seq(Messages) /\ queue \in Seq(Messages) /\ queue' = queue /\ msg \in Messages
  BY DEF TypeInv, TypeOK, Send, NotifierGoto
<1>2. InHand = <<msg>> /\ InHand' = <<>> /\ sent' = Append(sent, msg)
  BY DEF Send, NotifierGoto, InHand
<1>3. (Append(sent, msg) \o <<>>) \o queue = (sent \o <<msg>>) \o queue
  BY <1>1
<1> QED BY <1>1, <1>2, <1>3 DEF Order

LEMMA PushAppends ==
  ASSUME NEW p \in Producers
  PROVE  TypeInv /\ PushBack(p) => Order' = Append(Order, <<p, made[p]>>)
<1> SUFFICES ASSUME TypeInv, PushBack(p) PROVE Order' = Append(Order, <<p, made[p]>>)
  OBVIOUS
<1> DEFINE m == <<p, made[p]>>
<1>1. sent \in Seq(Messages) /\ queue \in Seq(Messages) /\ m \in Messages
  BY DEF TypeInv, TypeOK, Messages
<1>2. InHand \in Seq(Messages)
  BY DEF TypeInv, InHand
<1>3. sent' = sent /\ InHand' = InHand /\ queue' = Append(queue, m)
  BY DEF PushBack, Pushed, NotifyAll, InHand
<1>4. sent \o InHand \in Seq(Messages)
  BY <1>1, <1>2, ConcatProperties
<1> HIDE DEF m
<1>5. \A s \in Seq(Messages) : s \o Append(queue, m) = Append(s \o queue, m)
  BY <1>1
<1> QED BY <1>3, <1>4, <1>5 DEF Order, m

\* While Order and what is queued stay the same, so does InOrder.
LEMMA OrderUnchanged ==
  ASSUME InOrder, Order' = Order, \A p \in Producers : Queued(p)' = Queued(p)
  PROVE  InOrder'
BY DEF InOrder

\* A thread's next message goes behind all its earlier ones.
LEMMA AppendKeepsInOrder ==
  ASSUME TypeInv, InOrder, NEW p \in Producers, PushBack(p), made[p] >= 1
  PROVE  InOrder'
<1> DEFINE m == <<p, made[p]>>
           k == Len(Order)
<1>1. Order \in Seq(Messages) /\ Order' = Append(Order, m)
  BY OrderType, PushAppends
<1>2. m \in Messages /\ made[p] \in Nat
  BY DEF TypeInv, TypeOK, Messages
<1>3. Queued(p) = made[p] - 1 /\ Queued(p)' = made[p]
  BY DEF PushBack, ProducerGoto, Queued, TypeInv, TypeOK
<1>4. \A q \in Producers \ {p} : Queued(q)' = Queued(q)
  BY DEF PushBack, ProducerGoto, Queued, TypeInv, TypeOK
<1>5. k \in Nat /\ Len(Order') = k + 1 /\ Order'[k + 1] = m /\ \A i \in 1..k : Order'[i] = Order[i]
  <2> HIDE DEF m
  <2> QED BY <1>1, <1>2, AppendProperties, LenProperties
<1>6. {Order[i] : i \in 1..k} = AllQueued
  BY DEF InOrder, AllQueued
<1> HIDE DEF k
<1>7. \A i \in 1..k : Order[i][1] = p => Order[i][2] \in 1..Queued(p)
  <2> SUFFICES ASSUME NEW i \in 1..k, Order[i][1] = p PROVE Order[i][2] \in 1..Queued(p)
    OBVIOUS
  <2>1. PICK q \in Producers : Order[i] \in {q} \X (1..Queued(q))
    BY <1>6 DEF AllQueued
  <2> QED BY <2>1
<1>8. ASSUME NEW i \in 1..(k + 1), NEW j \in 1..(k + 1), i < j, Order'[i][1] = Order'[j][1]
      PROVE  Order'[i][2] < Order'[j][2]
  <2>1. CASE j \in 1..k
    <3>1. i \in 1..k
      BY <1>5, <1>8, <2>1
    <3>2. Order[i][1] = Order[j][1]
      BY <1>5, <1>8, <2>1, <3>1
    <3>3. Order[i][2] < Order[j][2]
      BY <1>8, <2>1, <3>1, <3>2 DEF InOrder, k
    <3> QED BY <1>5, <2>1, <3>1, <3>3
  <2>2. CASE j = k + 1
    <3>1. i \in 1..k
      BY <1>5, <1>8, <2>2
    <3>2. Order'[j][1] = p /\ Order'[j][2] = made[p]
      BY <1>5, <2>2
    <3>3. Order[i][1] = p /\ Order'[i][2] = Order[i][2]
      BY <1>5, <1>8, <3>1, <3>2
    <3>4. Order[i][2] \in 1..(made[p] - 1)
      BY <1>3, <1>7, <3>1, <3>3
    <3> QED BY <1>2, <3>2, <3>3, <3>4
  <2> QED BY <1>5, <2>1, <2>2
<1>9. {Order'[i] : i \in 1..(k + 1)} = {Order[i] : i \in 1..k} \cup {m}
  <2> HIDE DEF m
  <2>1. 1..(k + 1) = 1..k \cup {k + 1}
    BY <1>5
  <2> QED BY <1>5, <2>1
<1>10. AllQueued' = AllQueued \cup {m}
  <2>1. 1..made[p] = 1..(made[p] - 1) \cup {made[p]}
    BY <1>2
  <2>2. {p} \X (1..Queued(p)') = ({p} \X (1..Queued(p))) \cup {m}
    BY <1>3, <2>1
  <2> HIDE DEF m
  <2>3. AllQueued' = UNION {{q} \X (1..Queued(q)') : q \in Producers}
    BY DEF AllQueued
  <2> QED BY <1>4, <2>2, <2>3 DEF AllQueued
<1> QED BY <1>5, <1>6, <1>8, <1>9, <1>10 DEF InOrder, AllQueued, k

LEMMA NextOrderInv == TypeInv /\ OrderInv /\ [Next]_vars => OrderInv'
<1> SUFFICES ASSUME TypeInv, OrderInv, [Next]_vars PROVE OrderInv'
  OBVIOUS
<1>0. /\ producer \in [Producers -> {"idle", "lock", "size", "push back"}]
      /\ made \in [Producers -> Nat]
  BY DEF TypeInv, TypeOK
<1> USE DEF OrderInv, producing, sending
<1>1. ASSUME NEW p \in Producers, NotifyAction(p) PROVE OrderInv'
  <2>1. Order' = Order
    BY <1>1 DEF NotifyAction, Order, InHand
  <2>2. producer' = [producer EXCEPT ![p] = "lock"] /\ made' = [made EXCEPT ![p] = made[p] + 1]
    BY <1>1 DEF NotifyAction, ProducerGoto
  <2>3. made'[p] = made[p] + 1 /\ made[p] \in Nat
    BY <1>0, <2>2
  <2>4. \A q \in Producers \ {p} : producer'[q] = producer[q] /\ made'[q] = made[q]
    BY <1>0, <2>2
  <2>5. producer[p] = "idle" /\ producer'[p] = "lock"
    BY <1>0, <1>1, <2>2 DEF NotifyAction, ProducerGoto
  <2>6. \A q \in Producers : Queued(q)' = Queued(q)
    <3>1. made'[p] - 1 = made[p]
      BY <2>3
    <3> HIDE DEF OrderInv
    <3> QED BY <2>4, <2>5, <3>1 DEF Queued
  <2>7. \A q \in Producers : producer'[q] # "idle" => made'[q] >= 1
    <3>1. made'[p] >= 1
      BY <2>3
    <3> QED BY <2>4, <3>1
  <2> QED BY <2>1, <2>6, <2>7, OrderUnchanged
<1>2. ASSUME NEW p \in Producers, LockPush(p) \/ CheckSize(p) PROVE OrderInv'
  <2>1. Order' = Order /\ made' = made
    BY <1>2 DEF LockPush, CheckSize, Order, InHand
  <2>2. \A q \in Producers : producer'[q] = "idle" <=> producer[q] = "idle"
    BY <1>0, <1>2 DEF LockPush, CheckSize, ProducerGoto
  <2>3. \A q \in Producers : Queued(q)' = Queued(q)
    BY <2>1, <2>2 DEF Queued
  <2> QED BY <2>1, <2>2, <2>3, OrderUnchanged
<1>3. ASSUME NEW p \in Producers, PushBack(p) PROVE OrderInv'
  <2>1. made[p] >= 1
    BY <1>3 DEF PushBack, ProducerGoto
  <2>2. InOrder'
    BY <1>3, <2>1, AppendKeepsInOrder
  <2>3. \A q \in Producers : producer'[q] # "idle" => made'[q] >= 1
    BY <1>0, <1>3 DEF PushBack, ProducerGoto
  <2> QED BY <2>2, <2>3
<1>4. CASE PopFront \/ Send
  <2>1. Order' = Order
    BY <1>4, PopKeepsOrder, SendKeepsOrder
  <2>2. producer' = producer /\ made' = made
    BY <1>4 DEF PopFront, Send, NotifierGoto
  <2>3. \A q \in Producers : Queued(q)' = Queued(q)
    BY <2>2 DEF Queued
  <2> QED BY <2>1, <2>2, <2>3, OrderUnchanged
<1>5. CASE LockRun \/ Wait \/ NoWait \/ WaitReturns \/ Break \/ StopCalled \/ SetStopped \/ Join
           \/ UNCHANGED vars
  <2>1. UNCHANGED <<queue, sent, msg, producer, made>> /\ (notifier' = "send" <=> notifier = "send")
    BY <1>5 DEF LockRun, Wait, NoWait, WaitReturns, Awake, Break, NotifierGoto, StopCalled,
                SetStopped, NotifyAll, Join, vars
  <2>2. Order' = Order
    BY <2>1 DEF Order, InHand
  <2>3. \A q \in Producers : Queued(q)' = Queued(q)
    BY <2>1 DEF Queued
  <2> QED BY <2>1, <2>2, <2>3, OrderUnchanged
<1> QED BY <1>1, <1>2, <1>3, <1>4, <1>5 DEF Next, Producer, Run

\* Whatever the other threads notify, and even where the lock fails for a
\* full queue, a thread's messages are sent in the order it notified them
\* in, each once.
THEOREM SentInOrder == Spec => []InOrder
<1>1. Init => OrderInv
  <2> SUFFICES ASSUME Init PROVE OrderInv
    OBVIOUS
  <2>1. Order = <<>> /\ Len(Order) = 0
    BY DEF Init, Order, InHand
  <2>2. \A p \in Producers : producer[p] = "idle" /\ Queued(p) = 0
    BY DEF Init, Queued
  <2>3. UNION {{p} \X (1..Queued(p)) : p \in Producers} = {}
    BY <2>2
  <2> QED BY <2>1, <2>2, <2>3 DEF OrderInv, InOrder
<1>2. Init /\ [][Next]_vars => []TypeInv
  BY InitTypeInv, NextTypeInv, PTL
<1>3. OrderInv => InOrder
  BY DEF OrderInv
<1> QED BY <1>1, <1>2, <1>3, NextOrderInv, PTL DEF Spec

-----------------------------------------------------------------------------
(* What a wait misses and what it does not *)

WaitInv ==
  /\ notifier = "waiting" => queue = <<>>
  /\ stopped <=> control \in {"joining", "stopped"}

LEMMA PushedNotEmpty ==
  ASSUME TypeOK, NEW p \in Producers, PushBack(p) PROVE queue' # <<>>
<1>1. <<p, made[p]>> \in Messages /\ queue \in Seq(Messages)
  BY DEF TypeOK, Messages
<1>2. Append(queue, <<p, made[p]>>) # <<>>
  BY <1>1, AppendProperties
<1> QED BY <1>2 DEF PushBack, Pushed

LEMMA NextWaitInv == TypeOK /\ WaitInv /\ [Next]_vars => WaitInv'
<1> SUFFICES ASSUME TypeOK, WaitInv, [Next]_vars PROVE WaitInv'
  OBVIOUS
<1> USE DEF WaitInv, producing, sending
<1>1. ASSUME NEW p \in Producers, NotifyAction(p) \/ LockPush(p) \/ CheckSize(p) PROVE WaitInv'
  <2>1. UNCHANGED <<queue, stopped, notifier, control>>
    BY <1>1 DEF NotifyAction, LockPush, CheckSize
  <2> QED BY <2>1
<1>2. ASSUME NEW p \in Producers, PushBack(p) PROVE WaitInv'
  <2>1. notifier' # "waiting" /\ UNCHANGED <<stopped, control>>
    BY <1>2 DEF PushBack, NotifyAll
  <2> QED BY <2>1
<1>3. CASE Run
  <2>1. UNCHANGED <<stopped, control>>
    BY <1>3 DEF Run, LockRun, Wait, NoWait, WaitReturns, Break, PopFront, Send, NotifierGoto
  <2>2. notifier' = "waiting" => queue' = <<>>
    BY <1>3 DEF Run, LockRun, Wait, NoWait, WaitReturns, Break, PopFront, Send, NotifierGoto
  <2> QED BY <2>1, <2>2
<1>4. CASE StopCalled \/ Join
  BY <1>4 DEF StopCalled, Join
<1>5. CASE SetStopped
  <2>1. stopped' /\ control' = "joining" /\ notifier' # "waiting"
    BY <1>5 DEF SetStopped, NotifyAll
  <2> QED BY <2>1
<1>6. CASE UNCHANGED vars
  BY <1>6 DEF vars
<1> QED BY <1>1, <1>2, <1>3, <1>4, <1>5, <1>6 DEF Next, Producer

LEMMA WaitInvHolds == Spec => []WaitInv
<1>1. Init => WaitInv
  BY DEF Init, WaitInv
<1> QED BY <1>1, NextWaitInv, TypeCorrect, PTL DEF Spec

\* The notifier's thread does not wait while a message is in the queue.
NoMessageWhileWaiting == notifier = "waiting" => queue = <<>>

\* The check for a message and the wait of Run miss no notification of Push,
\* not even when the double unlock of a full queue lets two threads in.
THEOREM MessageWakes == Spec => []NoMessageWhileWaiting
<1>1. WaitInv => NoMessageWhileWaiting
  BY DEF WaitInv, NoMessageWhileWaiting
<1> QED BY <1>1, WaitInvHolds, PTL

\* A thread that waits while it is joined is ended by a message or not at all.
StrandedUnlessNotified ==
  [][control = "joining" /\ notifier = "waiting" =>
       control' = "joining" /\ (notifier' = "waiting" \/ \E p \in Producers : PushBack(p))]_vars

\* Run looks at m_stopped after its wait and not before it: the notification
\* of Stop that came before the wait is lost, and Stop waits until another
\* thread happens to notify.
THEOREM StrandedNotifierStays == ASSUME ~SpuriousWakeups PROVE Spec => StrandedUnlessNotified
<1>1. ASSUME [Next]_vars, control = "joining", notifier = "waiting"
      PROVE  control' = "joining" /\ (notifier' = "waiting" \/ \E p \in Producers : PushBack(p))
  <2>1. ASSUME NEW p \in Producers, NotifyAction(p) \/ LockPush(p) \/ CheckSize(p)
        PROVE  control' = "joining" /\ notifier' = "waiting"
    BY <1>1, <2>1 DEF NotifyAction, LockPush, CheckSize, sending
  <2>2. ASSUME NEW p \in Producers, PushBack(p) PROVE control' = "joining"
    BY <1>1, <2>2 DEF PushBack
  <2>3. ~Run
    BY <1>1 DEF Run, LockRun, Wait, NoWait, WaitReturns, Awake, Break, PopFront, Send, NotifierGoto
  <2>4. ~StopCalled /\ ~SetStopped /\ ~Join
    BY <1>1 DEF StopCalled, SetStopped, Join
  <2>5. CASE UNCHANGED vars
    BY <1>1, <2>5 DEF vars, sending
  <2> QED
    BY <1>1, <2>1, <2>2, <2>3, <2>4, <2>5 DEF Next, Producer
<1> QED BY <1>1, PTL DEF Spec, StrandedUnlessNotified

-----------------------------------------------------------------------------
(* The notifier as ManagerModule has it *)

\* A thread that has m_lock and will find m_stopped set is as good as ended.
Place ==
  IF notifier \in {"waiting", "woken"} THEN notifier
  ELSE IF notifier = "done" \/ (notifier = "front" /\ stopped) THEN "gone" ELSE "idle"

NoDevice == "no device"

\* The whole program without a device: the notifications come as requests.
Composed == INSTANCE ManagerModule WITH
  UniqueIDs <- {}, NoID <- NoDevice,
  main <- IF control = "running" THEN "running" ELSE "stopping",
  step <- IF control = "joining" THEN 1 ELSE IF control = "stopped" THEN 2 ELSE 0,
  thread <- [m \in {"notifier", "engine", "io", "http"} |-> IF m = "notifier" THEN Place ELSE "idle"],
  id <- NoDevice, call <- "none",
  clients <- {}, publisher <- <<>>, data <- <<>>, server <- <<>>,
  senders <- {}, round <- {}, pending <- queue # <<>>

LEMMA Unseen ==
  ASSUME Place' = Place, control' = control, queue' = queue PROVE UNCHANGED Composed!vars
BY DEF Composed!vars, Composed!mainVars, Composed!callVars, Composed!clientVars, Composed!engineVars

\* A step of the thread from place to place.
LEMMA NotifierMoves ==
  ASSUME NEW from, NEW to, Place = from, Place' = to, control' = control
  PROVE  Composed!NotifierGoto(from, to)
BY DEF Composed!NotifierGoto, Composed!Goto, Composed!mainVars, Composed!callVars, Composed!clientVars,
       Composed!engineVars

LEMMA AskedComposed == WaitInv => (Composed!Asked("notifier") <=> stopped)
BY DEF WaitInv, Composed!Asked, Composed!StopOrder

LEMMA RunComposed ==
  ASSUME ~SpuriousWakeups, TypeOK, MessageInv, WaitInv, Run
  PROVE  [Composed!NotifierStep]_(Composed!vars)
<1>0. control' = control /\ stopped' = stopped
  BY DEF Run, LockRun, Wait, NoWait, WaitReturns, Break, PopFront, Send, NotifierGoto
<1>1. CASE LockRun \/ Send
  <2>1. Place' = Place /\ queue' = queue
    BY <1>0, <1>1 DEF LockRun, Send, NotifierGoto, Place
  <2> QED BY <1>0, <2>1, Unseen
<1>2. CASE Wait
  <2>1. Place = "idle" /\ Place' = "waiting" /\ queue = <<>> /\ queue' = queue
    BY <1>2 DEF Wait, NotifierGoto, Place
  <2>2. Composed!NotifierWaits
    BY <1>0, <2>1, NotifierMoves DEF Composed!NotifierWaits
  <2> QED BY <2>2 DEF Composed!NotifierStep
<1>3. ASSUME NoWait \/ WaitReturns PROVE [Composed!NotifierStep]_(Composed!vars)
  <2>1. /\ queue' = queue /\ notifier' = "front"
        /\ (notifier = "empty" /\ queue # <<>>) \/ notifier = "woken"
    BY <1>3 DEF NoWait, WaitReturns, Awake, NotifierGoto
  <2>2. Place' = IF stopped THEN "gone" ELSE "idle"
    BY <1>0, <2>1 DEF Place
  <2>3. CASE notifier = "empty" /\ ~stopped
    <3>1. Place' = Place
      BY <2>2, <2>3 DEF Place
    <3> QED BY <1>0, <2>1, <3>1, Unseen
  <2>4. CASE notifier = "woken" \/ stopped
    <3>1. Place \in {"idle", "woken"} /\ (Place = "woken" \/ queue # <<>>)
      BY <2>1 DEF Place
    <3>2. Composed!NotifierReads(Place)
      <4>1. CASE stopped
        BY <1>0, <2>1, <2>2, <3>1, <4>1, AskedComposed, NotifierMoves DEF Composed!NotifierReads
      <4>2. CASE ~stopped
        <5>1. Composed!NotifierGoto(Place, "idle") /\ ~Composed!Asked("notifier")
          BY <1>0, <2>2, <4>2, AskedComposed, NotifierMoves
        <5> QED BY <3>1, <5>1 DEF Composed!NotifierReads
      <4> QED BY <4>1, <4>2
    <3> QED BY <3>1, <3>2 DEF Composed!NotifierStep
  <2> QED BY <2>1, <2>3, <2>4
<1>4. CASE Break
  <2>1. Place' = Place /\ queue' = queue
    BY <1>0, <1>4 DEF Break, StopSeen, NotifierGoto, Place
  <2> QED BY <1>0, <2>1, Unseen
<1>5. CASE PopFront
  <2>1. ~stopped /\ notifier = "front" /\ queue # <<>>
    BY <1>5 DEF PopFront, StopSeen, NotifierGoto, MessageInv
  <2>2. Place = "idle" /\ Place' = "idle"
    BY <1>0, <1>5, <2>1 DEF PopFront, NotifierGoto, Place
  <2>3. Composed!NotifierGoto("idle", "idle") /\ ~Composed!Asked("notifier")
    BY <1>0, <2>1, <2>2, AskedComposed, NotifierMoves
  <2>4. Composed!NotifierReads("idle")
    BY <2>1, <2>3 DEF Composed!NotifierReads
  <2> QED BY <2>4 DEF Composed!NotifierStep
<1> QED BY <1>1, <1>2, <1>3, <1>4, <1>5 DEF Run

LEMMA PushComposed ==
  ASSUME TypeOK, WaitInv, NEW p \in Producers, PushBack(p) PROVE Composed!RtmpNotify
<1>1. /\ UNCHANGED <<control, stopped>> /\ queue' # <<>>
      /\ notifier' = IF notifier = "waiting" THEN "woken" ELSE notifier
  BY PushedNotEmpty DEF PushBack, NotifyAll
<1>2. Place' = Composed!Woken(Place)
  BY <1>1 DEF Place, Composed!Woken
<1> QED
  BY <1>1, <1>2 DEF Composed!RtmpNotify, Composed!HttpIdle, Composed!Notify, Composed!mainVars,
     Composed!callVars, Composed!clientVars, Composed!engineVars

LEMMA StopComposed ==
  ASSUME MutexInv, WaitInv
  PROVE  /\ StopCalled => Composed!Quit
         /\ SetStopped \/ Join => Composed!StopModule
<1> USE DEF Composed!callVars, Composed!clientVars, Composed!engineVars
<1>1. ASSUME StopCalled PROVE Composed!Quit
  <2>1. control = "running" /\ control' = "stopping" /\ queue' = queue /\ Place' = Place
    BY <1>1 DEF StopCalled, sending, Place
  <2> QED BY <2>1 DEF Composed!Quit
<1>2. ASSUME SetStopped PROVE Composed!StopModule
  <2>1. /\ control = "stopping" /\ control' = "joining" /\ queue' = queue /\ ~locked
        /\ notifier' = IF notifier = "waiting" THEN "woken" ELSE notifier
    BY <1>2 DEF SetStopped, NotifyAll
  <2>2. notifier # "front"
    BY <2>1 DEF MutexInv, NotifierInside
  <2>3. Place' = Composed!Woken(Place)
    BY <2>1, <2>2 DEF Place, Composed!Woken
  <2>4. [m \in {"notifier", "engine", "io", "http"} |-> IF m = "notifier" THEN Place ELSE "idle"]' =
          [[m \in {"notifier", "engine", "io", "http"} |-> IF m = "notifier" THEN Place ELSE "idle"]
             EXCEPT !["notifier"] = Composed!Woken(@)]
    BY <2>3
  <2> QED BY <2>1, <2>4 DEF Composed!StopModule, Composed!Joined
<1>3. ASSUME Join PROVE Composed!StopModule
  <2>1. /\ control = "joining" /\ control' = "stopped" /\ queue' = queue /\ Place' = Place
        /\ Place = "gone"
    BY <1>3 DEF Join, sending, Place
  <2> QED BY <2>1 DEF Composed!StopModule, Composed!Joined, Composed!Gone, Composed!StopOrder
<1> QED BY <1>1, <1>2, <1>3

\* While m_lock does its work, every step of the notifier, of who notifies it
\* and of its Stop is a step of ManagerModule or one that it does not see.
PartOfComposition == []Roomy => [][Composed!Next]_(Composed!vars)

\* What ManagerModule says of the notifier is what it does: who waits and who
\* is woken, the notification that is lost when nobody waits, and that Stop
\* joins the thread before the next module is stopped.
THEOREM NotifierIsPartOfComposition == ASSUME ~SpuriousWakeups PROVE Spec => PartOfComposition
<1> DEFINE Inv == TypeOK /\ MessageInv /\ WaitInv /\ MutexInv
<1>1. ASSUME Inv, [Next]_vars PROVE [Composed!Next]_(Composed!vars)
  <2>1. ASSUME NEW p \in Producers, NotifyAction(p) \/ LockPush(p) \/ CheckSize(p)
        PROVE  [Composed!Next]_(Composed!vars)
    <3>1. UNCHANGED <<control, stopped, notifier, queue>>
      BY <2>1 DEF NotifyAction, LockPush, CheckSize, sending
    <3> QED BY <3>1, Unseen DEF Place
  <2>2. ASSUME NEW p \in Producers, PushBack(p) PROVE [Composed!Next]_(Composed!vars)
    BY <1>1, <2>2, PushComposed DEF Composed!Next
  <2>3. CASE Run
    BY <1>1, <2>3, RunComposed DEF Composed!Next
  <2>4. CASE StopCalled
    BY <1>1, <2>4, StopComposed DEF Composed!Next
  <2>5. CASE SetStopped \/ Join
    BY <1>1, <2>5, StopComposed DEF Composed!Next, Composed!MainStep
  <2>6. CASE UNCHANGED vars
    <3>1. UNCHANGED <<control, stopped, notifier, queue>>
      BY <2>6 DEF vars, sending
    <3> QED BY <3>1, Unseen DEF Place
  <2> QED
    BY <1>1, <2>1, <2>2, <2>3, <2>4, <2>5, <2>6 DEF Next, Producer
<1>2. Init => Inv
  BY InitTypeInv DEF Init, TypeInv, MessageInv, WaitInv, MutexInv, Inside, NotifierInside
<1>3. Spec /\ []Roomy => []Inv
  BY <1>2, NextMutexInv, NextMessageInv, NextWaitInv, TypeCorrect, PTL DEF Spec
<1> QED
  BY <1>1, <1>3, PTL DEF Spec, PartOfComposition
=============================================================================
