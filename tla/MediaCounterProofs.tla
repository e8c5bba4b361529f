------------------------- MODULE MediaCounterProofs -------------------------
(***************************************************************************)
(* What holds of the MediaCounter for any set of devices and any counts.   *)
(* That everything is stored is liveness and stays with the model checker. *)
(***************************************************************************)
EXTENDS MediaCounter, TLAPS

Flags == enabled \in BOOLEAN /\ stopped \in BOOLEAN

\* The flags are only ever set to TRUE or FALSE.
LEMMA FlagsHold == Spec => []Flags
<1>1. Init => Flags
  BY DEF Init, Flags
<1>2. Flags /\ [Next]_vars => Flags'
  BY DEF Flags, Next, vars, StartThread, ClearStopped, Insert, CloseFile, AskToStop, Joined, Run,
         FirstLook, Look, LookAt, BeginRound, EndRound, StoreRecord, Register, UnRegister,
         UpdateCounter
<1> QED
  BY <1>1, <1>2, PTL DEF Spec

Counts == count \in [UniqueIDs -> 0 .. MaxCount] /\ lines \in [UniqueIDs -> 0 .. MaxCount]

\* A count never passes its bound.
LEMMA CountsHold == Spec => []Counts
<1> USE BoundAssumption DEF Counts
<1>1. Init => Counts
  BY DEF Init
<1>2. ASSUME Counts, Insert PROVE Counts'
  <2>1. 0 \in 0 .. MaxCount
    OBVIOUS
  <2>2. count' = [count EXCEPT ![id] = 0] /\ lines' = [lines EXCEPT ![id] = 0]
    BY <1>2 DEF Insert, InitialCount
  <2> QED
    BY <1>2, <2>1, <2>2
<1>3. ASSUME Counts, NEW c \in UniqueIDs, UpdateCounter(c) PROVE Counts'
  <2>1. count[c] + 1 \in 0 .. MaxCount
    BY <1>3 DEF UpdateCounter
  <2> QED
    BY <1>3, <2>1 DEF UpdateCounter
<1>4. ASSUME Counts, Run PROVE Counts'
  BY <1>4 DEF Run, FirstLook, Look, LookAt, BeginRound, EndRound, StoreRecord
<1>5. ASSUME Counts,
             StartThread \/ ClearStopped \/ CloseFile \/ AskToStop \/ Joined
               \/ (\E c \in UniqueIDs : Register(c) \/ UnRegister(c))
      PROVE Counts'
  BY <1>5 DEF StartThread, ClearStopped, CloseFile, AskToStop, Joined, Register, UnRegister
<1>6. Counts /\ UNCHANGED vars => Counts'
  BY DEF vars
<1>7. Counts /\ [Next]_vars => Counts'
  BY <1>2, <1>3, <1>4, <1>5, <1>6 DEF Next
<1> QED
  BY <1>1, <1>7, PTL DEF Spec

Places ==
  /\ thread \in {"none", "started", "missed", "look", "storing", "looping", "ended"}
  /\ control \in {"none", "starting", "idle", "opened", "erased", "joining", "exited"}
  /\ id \in UniqueIDs \cup {NoID}
  /\ todo \subseteq UniqueIDs /\ clients \subseteq UniqueIDs
  /\ registered \subseteq UniqueIDs /\ files \subseteq UniqueIDs

\* An entry leaves the map only while no round is under way, and the client
\* whose file is in hand is one that is being registered or was erased.
MapInv ==
  /\ todo # {} => thread = "storing"
  /\ control = "none" => thread = "none"
  /\ stopped => control # "opened" /\ (registered = {} \/ control = "joining")
  /\ control \in {"none", "exited"} => registered = {}
  /\ control = "opened" => id \in clients \ registered
  /\ control = "erased" => id \notin clients
  /\ control = "joining" => stopped

CounterInv == Places /\ MapInv /\ FilesAccounted

\* The invariant holds in every behaviour.
LEMMA CounterInvHolds == Spec => []CounterInv
<1> USE DEF CounterInv, Places, MapInv, FilesAccounted, threadVars, controlVars
<1>1. Init => CounterInv
  BY DEF Init
<1>2. ASSUME CounterInv, StartThread PROVE CounterInv'
  <2>1. /\ control = "none" /\ control' \in {"starting", "idle"} /\ thread' \in {"started", thread}
        /\ UNCHANGED <<stopped, todo, clients, id, registered, files>>
    BY <1>2 DEF StartThread
  <2>2. todo = {}
    BY <1>2, <2>1
  <2> QED
    BY <1>2, <2>1, <2>2
<1>3. ASSUME CounterInv, ClearStopped PROVE CounterInv' BY <1>3 DEF ClearStopped
<1>4. ASSUME CounterInv, Insert PROVE CounterInv' BY <1>4 DEF Insert, LockFree
<1>5. ASSUME CounterInv, CloseFile PROVE CounterInv' BY <1>5 DEF CloseFile
<1>6. ASSUME CounterInv, AskToStop PROVE CounterInv' BY <1>6 DEF AskToStop
<1>7. ASSUME CounterInv, Joined PROVE CounterInv' BY <1>7 DEF Joined
<1>8. ASSUME CounterInv, Run PROVE CounterInv'
  BY <1>8 DEF Run, FirstLook, Look, LookAt, BeginRound, EndRound, NextRound, StoreRecord
<1>9. ASSUME CounterInv, NEW c \in UniqueIDs, Register(c) PROVE CounterInv'
  BY <1>9 DEF Register
<1>10. ASSUME CounterInv, NEW c \in UniqueIDs, UnRegister(c) PROVE CounterInv'
  <2>1. CASE stopped \/ c \notin registered
    BY <1>10, <2>1 DEF UnRegister
  <2>2. CASE ~stopped /\ c \in registered
    BY <1>10, <2>2 DEF UnRegister, LockFree
  <2> QED
    BY <2>1, <2>2
<1>11. ASSUME CounterInv, NEW c \in UniqueIDs, UpdateCounter(c) PROVE CounterInv'
  BY <1>11 DEF UpdateCounter
<1>12. CounterInv /\ UNCHANGED vars => CounterInv'
  BY DEF vars
<1>13. CounterInv /\ [Next]_vars => CounterInv'
  BY <1>2, <1>3, <1>4, <1>5, <1>6, <1>7, <1>8, <1>9, <1>10, <1>11, <1>12 DEF Next
<1> QED
  BY <1>1, <1>13, PTL DEF Spec

\* The types hold; no count passes the bound (all operations).
THEOREM TypeCorrect == Spec => []TypeOK
<1>1. Flags /\ Counts /\ CounterInv => TypeOK
  BY DEF Flags, Counts, CounterInv, Places, TypeOK
<1> QED
  BY <1>1, FlagsHold, CountsHold, CounterInvHolds, PTL

\* The thread writes to open files only, and every file that is opened is
\* closed, though both happen outside the lock (MediaCounter.cpp:89, 126).
THEOREM FilesStayAccounted == Spec => []FilesAccounted
<1>1. CounterInv => FilesAccounted
  BY DEF CounterInv
<1> QED
  BY <1>1, CounterInvHolds, PTL

-----------------------------------------------------------------------------
(* What the files hold *)

\* The last line of a registered device's file is a count it has had since.
NeverAhead == \A c \in registered : lines[c] <= count[c]

\* While a device stays registered the numbers in its file do not decrease.
FilesOnlyGrow == [][\A c \in registered \cap registered' : lines[c] <= lines'[c]]_vars

\* A thread that found m_stopped not cleared yet has stored nothing at all.
Missed == thread \in {"none", "started", "missed"} => \A c \in UniqueIDs : lines[c] = 0

\* An entry starts over with its file, and leaves the round under way before
\* it leaves the map.
LEMMA LinesStep ==
  ASSUME Counts, CounterInv, NeverAhead, [Next]_vars
  PROVE  NeverAhead' /\ \A c \in registered \cap registered' : lines[c] <= lines'[c]
<1>1. /\ registered \subseteq UniqueIDs /\ todo \subseteq registered
      /\ \A c \in UniqueIDs : count[c] \in Nat /\ lines[c] \in Nat
  BY BoundAssumption DEF CounterInv, Places, FilesAccounted, Counts
<1>2. CASE Insert
  <2>1. id \in UniqueIDs \ registered
    BY <1>2 DEF Insert, CounterInv, MapInv, Places
  <2>2. /\ registered' = registered \cup {id}
        /\ count' = [count EXCEPT ![id] = 0] /\ lines' = [lines EXCEPT ![id] = 0]
    BY <1>2 DEF Insert, InitialCount
  <2>3. count'[id] = 0 /\ lines'[id] = 0
    BY <2>1, <2>2 DEF Counts
  <2>4. \A c \in registered : count'[c] = count[c] /\ lines'[c] = lines[c]
    BY <1>1, <2>1, <2>2 DEF Counts
  <2> QED BY <1>1, <2>1, <2>2, <2>3, <2>4 DEF NeverAhead
<1>3. ASSUME NEW c \in UniqueIDs, UpdateCounter(c)
      PROVE  NeverAhead' /\ \A d \in registered \cap registered' : lines[d] <= lines'[d]
  <2>1. count' = [count EXCEPT ![c] = @ + 1] /\ registered' = registered /\ lines' = lines
    BY <1>3 DEF UpdateCounter
  <2>2. \A d \in registered : count[d] <= count'[d] /\ count'[d] \in Nat
    BY <1>1, <2>1 DEF Counts
  <2> QED BY <1>1, <2>1, <2>2 DEF NeverAhead
<1>4. ASSUME NEW c \in UniqueIDs, StoreRecord(c)
      PROVE  NeverAhead' /\ \A d \in registered \cap registered' : lines[d] <= lines'[d]
  <2>1. /\ lines' = [lines EXCEPT ![c] = count[c]] /\ registered' = registered /\ count' = count
        /\ c \in registered
    BY <1>1, <1>3, <1>4 DEF StoreRecord
  <2>2. \A d \in registered : lines'[d] = IF d = c THEN count[c] ELSE lines[d]
    BY <1>1, <2>1 DEF Counts
  <2> QED BY <1>1, <2>1, <2>2 DEF NeverAhead
<1>5. ASSUME UNCHANGED <<count, lines>>, registered' \subseteq registered
      PROVE  NeverAhead' /\ \A c \in registered \cap registered' : lines[c] <= lines'[c]
  BY <1>1, <1>5 DEF NeverAhead
<1>6. \/ Insert \/ \E c \in UniqueIDs : UpdateCounter(c) \/ StoreRecord(c)
      \/ UNCHANGED <<count, lines>> /\ registered' \subseteq registered
  BY DEF Next, vars, Run, StartThread, ClearStopped, Register, UnRegister, CloseFile, FirstLook,
    Look, LookAt, BeginRound, EndRound, AskToStop, Joined
<1> QED BY <1>2, <1>3, <1>4, <1>5, <1>6

\* Counts are stored beside updates, registrations and unregistrations of the
\* same device on other threads, and its file still never goes back while it
\* is registered (MediaCounter.cpp:58, 88, 124, 140).
THEOREM FilesGrow == Spec => []NeverAhead /\ FilesOnlyGrow
<1>1. Init => NeverAhead
  BY DEF Init, NeverAhead
<1>2. Counts /\ CounterInv /\ NeverAhead /\ [Next]_vars => NeverAhead'
  BY LinesStep
<1>3. Counts /\ CounterInv /\ NeverAhead /\ [Next]_vars
        => [\A c \in registered \cap registered' : lines[c] <= lines'[c]]_vars
  BY LinesStep
<1> QED BY <1>1, <1>2, <1>3, CountsHold, CounterInvHolds, PTL DEF Spec, FilesOnlyGrow

\* Start clears m_stopped too late (MediaCounter.cpp:29): a thread that looked
\* before has gone for ever, and no device's file ever holds a count.
THEOREM MissedStoresNothing ==
  Spec => []Missed /\ [][thread = "missed" => thread' = "missed"]_vars
<1>1. Init => Missed
  BY DEF Init, Missed
<1>2. Counts /\ CounterInv /\ Missed /\ [Next]_vars => Missed'
  <2> SUFFICES ASSUME Counts, CounterInv, Missed, [Next]_vars PROVE Missed'
    OBVIOUS
  <2>1. CASE Insert
    <3>1. thread' = thread /\ \A c \in UniqueIDs : lines'[c] \in {lines[c], 0}
      BY <2>1 DEF Insert, threadVars, Counts
    <3> QED BY <3>1 DEF Missed
  <2>2. ASSUME NEW c \in UniqueIDs, StoreRecord(c) PROVE Missed'
    BY <2>2 DEF StoreRecord, Missed
  <2>3. ASSUME UNCHANGED lines,
               thread' \in {"none", "started", "missed"} => thread \in {"none", "started", "missed"}
        PROVE  Missed'
    BY <2>3 DEF Missed
  <2>4. \/ Insert \/ \E c \in UniqueIDs : StoreRecord(c)
        \/ /\ UNCHANGED lines
           /\ thread' \in {"none", "started", "missed"} => thread \in {"none", "started", "missed"}
    <3>1. CASE StartThread
      BY <3>1 DEF StartThread, CounterInv, MapInv
    <3>2. CASE FirstLook \/ Look \/ BeginRound \/ EndRound
      BY <3>2 DEF FirstLook, Look, LookAt, BeginRound, EndRound, NextRound
    <3> QED BY <3>1, <3>2 DEF Next, vars, Run, threadVars, ClearStopped, Register, UnRegister,
              UpdateCounter, CloseFile, AskToStop, Joined
  <2> QED BY <2>1, <2>2, <2>3, <2>4
<1>3. CounterInv /\ [Next]_vars => [thread = "missed" => thread' = "missed"]_vars
  BY DEF Next, vars, Run, threadVars, StartThread, ClearStopped, Insert, CloseFile, AskToStop,
    Joined, FirstLook, Look, LookAt, BeginRound, EndRound, StoreRecord, Register, UnRegister,
    UpdateCounter, CounterInv, MapInv
<1> QED BY <1>1, <1>2, <1>3, CountsHold, CounterInvHolds, PTL DEF Spec
=============================================================================
