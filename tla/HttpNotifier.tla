---------------------------- MODULE HttpNotifier ----------------------------
(***************************************************************************)
(* HttpNotifier: any thread of the program (the HTTP thread, the io        *)
(* thread, a publishing thread) may call one of the Notify functions,      *)
(* which queue a message under m_lock; the notifier's own thread takes the *)
(* messages out and posts them, one at a time.                             *)
(*                                                                         *)
(* Push unlocks m_lock twice when the queue is full, so m_lock is modelled *)
(* as what it is, a flag that any thread can lower, and a thread is inside *)
(* a deque operation in a state of its own.  A data race on the deque is   *)
(* undefined behaviour: the program goes no further in this model.         *)
(*                                                                         *)
(* A message is its producer and a number; "sent" is what the properties   *)
(* need to know of the past.                                               *)
(***************************************************************************)
EXTENDS Integers, Sequences

CONSTANTS
  Producers,        \* the threads that notify
  SpuriousWakeups,  \* whether m_condition.wait() may return unnotified
  MaxQueue,         \* MAX_MSG_QUEUE_SIZE, 1024 in the code
  MaxMessages       \* bound: how often each producer notifies

ASSUME NotifierAssumption ==
  SpuriousWakeups \in BOOLEAN /\ MaxQueue \in Nat /\ MaxMessages \in Nat

VARIABLES
  queue,     \* m_notifiesMsg
  locked,    \* m_lock
  stopped,   \* m_stopped
  producer,  \* where each producer is in Push
  made,      \* how many messages each producer has made
  notifier,  \* where the notifier's thread is in Run
  msg,       \* its local "msg"
  sent,      \* the messages Send was done with
  control    \* where Stop is

producing == <<producer, made>>
sending == <<notifier, msg, sent>>
vars == <<queue, locked, stopped, producing, sending, control>>

Messages == Producers \X Nat

Init ==
  /\ queue = <<>> /\ locked = FALSE /\ stopped = FALSE
  /\ producer = [p \in Producers |-> "idle"] /\ made = [p \in Producers |-> 0]
  /\ notifier = "lock" /\ msg = <<>> /\ sent = <<>>
  /\ control = "running"

Writers == {p \in Producers : producer[p] = "push back"}
Readers == {p \in Producers : producer[p] = "size"}

\* Two threads use the deque at once, and one of them changes it.
Race ==
  \/ \E p \in Writers : notifier \in {"empty", "front"} \/ Writers \cup Readers # {p}
  \/ notifier = "front" /\ Readers # {}

Lock == ~locked /\ locked' = TRUE
Unlock == locked' = FALSE

-----------------------------------------------------------------------------
(* NotifyAction and Push *)

ProducerGoto(p, from, to) == producer[p] = from /\ producer' = [producer EXCEPT ![p] = to]

NotifyAction(p) ==
  /\ ProducerGoto(p, "idle", "lock") /\ made[p] < MaxMessages
  /\ made' = [made EXCEPT ![p] = @ + 1]
  /\ UNCHANGED <<queue, locked, stopped, sending, control>>

LockPush(p) ==
  /\ ProducerGoto(p, "lock", "size") /\ Lock
  /\ UNCHANGED <<queue, stopped, made, sending, control>>

\* Mutant: the queue is taken for full one message too early.
FullTooEarly == Len(queue) >= MaxQueue
Full == Len(queue) > MaxQueue

\* A full queue is reported and m_lock released, but the function goes on.
CheckSize(p) ==
  /\ ProducerGoto(p, "size", "push back")
  /\ IF Full THEN Unlock ELSE UNCHANGED locked
  /\ UNCHANGED <<queue, stopped, made, sending, control>>

\* Mutant: nobody is notified of the message.
NoNotification == UNCHANGED notifier
NotifyAll == notifier' = IF notifier = "waiting" THEN "woken" ELSE notifier

\* Mutant: the message is moved away before it is pushed.
PushedMoved(p) == Append(queue, <<>>)
\* Mutant: a message overtakes the ones before it.
PushedInFront(p) == <<<<p, made[p]>>>> \o queue
Pushed(p) == Append(queue, <<p, made[p]>>)

PushBack(p) ==
  /\ ProducerGoto(p, "push back", "idle")
  /\ queue' = Pushed(p) /\ NotifyAll /\ Unlock
  /\ UNCHANGED <<stopped, made, msg, sent, control>>

Producer(p) == LockPush(p) \/ CheckSize(p) \/ PushBack(p)

-----------------------------------------------------------------------------
(* Run, on the notifier's thread *)

NotifierGoto(from, to) ==
  notifier = from /\ notifier' = to /\ UNCHANGED <<stopped, producing, control>>

LockRun == NotifierGoto("lock", "empty") /\ Lock /\ UNCHANGED <<queue, msg, sent>>

\* The wait releases m_lock.
Wait ==
  /\ queue = <<>> /\ NotifierGoto("empty", "waiting") /\ Unlock
  /\ UNCHANGED <<queue, msg, sent>>

NoWait == queue # <<>> /\ NotifierGoto("empty", "front") /\ UNCHANGED <<queue, locked, msg, sent>>

\* The states of the wait from which the thread goes on.
Awake == IF SpuriousWakeups THEN {"woken", "waiting"} ELSE {"woken"}

WaitReturns ==
  /\ notifier \in Awake /\ NotifierGoto(notifier, "front") /\ Lock
  /\ UNCHANGED <<queue, msg, sent>>

\* Mutant: m_stopped is not looked at.
StopIgnored == FALSE
StopSeen == stopped

Break == StopSeen /\ NotifierGoto("front", "done") /\ Unlock /\ UNCHANGED <<queue, msg, sent>>

\* front() of an empty deque is undefined behaviour.
PopFront ==
  /\ ~StopSeen /\ Unlock /\ UNCHANGED sent
  /\ IF queue = <<>>
     THEN NotifierGoto("front", "crashed") /\ UNCHANGED <<queue, msg>>
     ELSE NotifierGoto("front", "send") /\ msg' = Head(queue) /\ queue' = Tail(queue)

\* Whether the post succeeds makes no difference.
Send == NotifierGoto("send", "lock") /\ sent' = Append(sent, msg) /\ UNCHANGED <<queue, locked, msg>>

Run == LockRun \/ Wait \/ NoWait \/ WaitReturns \/ Break \/ PopFront \/ Send

-----------------------------------------------------------------------------
(* Stop, on the main thread *)

StopCalled ==
  /\ control = "running" /\ control' = "stopping"
  /\ UNCHANGED <<queue, locked, stopped, producing, sending>>

SetStopped ==
  /\ control = "stopping" /\ control' = "joining"
  /\ ~locked /\ stopped' = TRUE /\ NotifyAll
  /\ UNCHANGED <<queue, locked, producing, msg, sent>>

Join ==
  /\ control = "joining" /\ control' = "stopped" /\ notifier = "done"
  /\ UNCHANGED <<queue, locked, stopped, producing, sending>>

Next ==
  /\ ~Race
  /\ \/ \E p \in Producers : NotifyAction(p) \/ Producer(p)
     \/ Run
     \/ StopCalled \/ SetStopped \/ Join

\* Threads go on with what they have begun, and a post ends.  Whether a
\* thread notifies and whether Stop is called is left open.
Spec ==
  /\ Init /\ [][Next]_vars
  /\ \A p \in Producers : WF_vars(~Race /\ Producer(p))
  /\ WF_vars(~Race /\ Run) /\ WF_vars(~Race /\ SetStopped) /\ WF_vars(~Race /\ Join)

-----------------------------------------------------------------------------
(* Properties *)

\* Every variable has its type.
TypeOK ==
  /\ queue \in Seq(Messages) /\ sent \in Seq(Messages) /\ msg \in Messages \cup {<<>>}
  /\ locked \in BOOLEAN /\ stopped \in BOOLEAN
  /\ producer \in [Producers -> {"idle", "lock", "size", "push back"}]
  /\ made \in [Producers -> Nat]
  /\ notifier \in {"lock", "empty", "waiting", "woken", "front", "send", "done", "crashed"}
  /\ control \in {"running", "stopping", "joining", "stopped"}

InHand == IF notifier = "send" THEN <<msg>> ELSE <<>>
Order == sent \o InHand \o queue
Queued(p) == IF producer[p] = "idle" THEN made[p] ELSE made[p] - 1

\* What a thread notifies is sent in the order it was notified in, nothing
\* twice and nothing left out, whatever the other threads notify meanwhile.
InOrder ==
  /\ \A i, j \in 1..Len(Order) :
       i < j /\ Order[i][1] = Order[j][1] => Order[i][2] < Order[j][2]
  /\ {Order[i] : i \in 1..Len(Order)} = UNION {{p} \X (1..Queued(p)) : p \in Producers}

\* The notifier's thread, which does not look at the queue again after its
\* wait, never takes the front of an empty deque.
MessagePresent == notifier # "crashed"

\* While no message is pushed onto a full queue, m_lock does its work: no
\* two threads use the deque at once.
Roomy == Readers # {} => Len(queue) <= MaxQueue
Exclusive == []Roomy => []~Race

\* A message is sent, unless the notifier is stopped (or the deque broken).
NotifiedIsSent ==
  \A p \in Producers : \A n \in 1..MaxMessages :
    made[p] >= n ~> ((\E i \in 1..Len(sent) : sent[i] = <<p, n>>) \/ stopped \/ Race)

\* Stop ends when it finds the thread waiting, unless a message comes first,
\* and when it leaves messages behind, which are then not sent.  It need not
\* end when the thread is between two messages: the wakeup is lost.
StopEnds ==
  /\ (control = "stopping" /\ notifier = "waiting") ~> (control = "stopped" \/ queue # <<>> \/ Race)
  /\ (stopped /\ queue # <<>>) ~> (control = "stopped" \/ Race)
=============================================================================
