---------------------------- MODULE MediaCounter ----------------------------
(***************************************************************************)
(* The counter of the media data of each device, which a thread of its own *)
(* appends to the device's file every second, with the RtmpClients that    *)
(* register with it.                                                       *)
(*                                                                         *)
(* The static object is made by the first Register, on the HTTP thread,    *)
(* and destroyed when main has returned: the HTTP and the io thread have   *)
(* ended then, and clients whose ports were not freed are still registered *)
(* (see ManagerModule).  The HTTP thread registers and unregisters; the io *)
(* thread updates.  A block under m_lock is one action, but for the round  *)
(* of the storing thread, which writes files with the lock held.           *)
(* HttpServer keeps one client for a device, so that the insertion never   *)
(* fails.                                                                  *)
(***************************************************************************)
EXTENDS Naturals

CONSTANTS
  UniqueIDs,
  NoID,
  MaxCount    \* bound: how often one client's counter is updated

ASSUME IDAssumption == NoID \notin UniqueIDs
ASSUME BoundAssumption == MaxCount \in Nat

VARIABLES
  enabled,     \* IsCounterEnabled()
  stopped,     \* m_stopped
  thread,      \* where MediaCounter::Run is
  todo,        \* the counters still to be stored in this round
  clients,     \* the RtmpClients that exist
  control, id, \* where the HTTP thread, and main after it, is, and for whom
  registered,  \* the keys of m_counters
  count,       \* their m_count
  files,       \* the files that are open
  lines        \* the count in the last line of each file since it was registered

threadVars == <<thread, todo>>
controlVars == <<control, id>>
vars == <<enabled, stopped, threadVars, clients, controlVars, registered, count, files, lines>>

Init ==
  /\ enabled \in BOOLEAN /\ stopped = TRUE
  /\ thread = "none" /\ todo = {}
  /\ clients = {} /\ control = "none" /\ id = NoID
  /\ registered = {} /\ files = {}
  /\ count = [c \in UniqueIDs |-> 0] /\ lines = [c \in UniqueIDs |-> 0]

-----------------------------------------------------------------------------
(* IMediaCounter::Get and Start *)

\* The thread runs before m_stopped is cleared.
StartThread ==
  /\ control = "none"
  /\ IF enabled THEN control' = "starting" /\ thread' = "started"
     ELSE control' = "idle" /\ UNCHANGED thread
  /\ UNCHANGED <<enabled, stopped, todo, clients, id, registered, count, files, lines>>

ClearStopped ==
  /\ control = "starting" /\ control' = "idle" /\ stopped' = FALSE
  /\ UNCHANGED <<enabled, threadVars, clients, id, registered, count, files, lines>>

-----------------------------------------------------------------------------
(* Register and UnRegister, as RtmpClient calls them *)

\* Mutant: the map is changed without m_lock.
NoLock == TRUE
LockFree == thread # "storing"

\* fopen may fail; the client does without a counter.
Register(c) ==
  /\ control = "idle" /\ c \notin clients /\ clients' = clients \cup {c}
  /\ \/ UNCHANGED <<controlVars, files>>
     \/ ~stopped /\ control' = "opened" /\ id' = c /\ files' = files \cup {c}
  /\ UNCHANGED <<enabled, stopped, threadVars, registered, count, lines>>

\* Mutant: m_count is not initialized.
Uninitialized == MaxCount + 1
InitialCount == 0

Insert ==
  /\ control = "opened" /\ LockFree
  /\ registered' = registered \cup {id}
  /\ count' = [count EXCEPT ![id] = InitialCount] /\ lines' = [lines EXCEPT ![id] = 0]
  /\ control' = "idle" /\ id' = NoID
  /\ UNCHANGED <<enabled, stopped, threadVars, clients, files>>

UnRegister(c) ==
  /\ control = "idle" /\ c \in clients /\ clients' = clients \ {c}
  /\ IF stopped \/ c \notin registered THEN UNCHANGED <<controlVars, registered>>
     ELSE /\ LockFree /\ registered' = registered \ {c}
          /\ control' = "erased" /\ id' = c
  /\ UNCHANGED <<enabled, stopped, threadVars, count, files, lines>>

\* fclose, after the lock was released.
CloseFile ==
  /\ control = "erased" /\ files' = files \ {id}
  /\ control' = "idle" /\ id' = NoID
  /\ UNCHANGED <<enabled, stopped, threadVars, clients, registered, count, lines>>

\* The io thread, for a client that exists.
UpdateCounter(c) ==
  /\ c \in clients /\ ~stopped /\ LockFree /\ c \in registered
  /\ count[c] < MaxCount /\ count' = [count EXCEPT ![c] = @ + 1]
  /\ UNCHANGED <<enabled, stopped, threadVars, clients, controlVars, registered, files, lines>>

-----------------------------------------------------------------------------
(* Run *)

LookAt(from, yes, no) ==
  /\ thread = from /\ thread' = IF stopped THEN yes ELSE no
  /\ UNCHANGED <<enabled, stopped, todo, clients, controlVars, registered, count, files, lines>>

FirstLook == LookAt("started", "missed", "look")
Look == LookAt("looping", "ended", "look")

BeginRound ==
  /\ thread = "look" /\ thread' = "storing" /\ todo' = registered
  /\ UNCHANGED <<enabled, stopped, clients, controlVars, registered, count, files, lines>>

StoreRecord(c) ==
  /\ thread = "storing" /\ c \in todo /\ todo' = todo \ {c}
  /\ lines' = [lines EXCEPT ![c] = count[c]]
  /\ UNCHANGED <<enabled, stopped, thread, clients, controlVars, registered, count, files>>

\* Mutant: the counters are stored once.
StoredOnce == "ended"
NextRound == "looping"

EndRound ==
  /\ thread = "storing" /\ todo = {} /\ thread' = NextRound
  /\ UNCHANGED <<enabled, stopped, todo, clients, controlVars, registered, count, files, lines>>

Run == FirstLook \/ Look \/ BeginRound \/ EndRound \/ \E c \in UniqueIDs : StoreRecord(c)

-----------------------------------------------------------------------------
(* Stop, in the static object's destructor *)

AskToStop ==
  /\ control = "idle" /\ control' = "joining"
  /\ stopped' = TRUE
  /\ UNCHANGED <<enabled, threadVars, clients, id, registered, count, files, lines>>

\* What is still registered is closed.
Joined ==
  /\ control = "joining" /\ thread \in {"none", "missed", "ended"} /\ control' = "exited"
  /\ files' = files \ registered /\ registered' = {}
  /\ UNCHANGED <<enabled, stopped, threadVars, clients, id, count, lines>>

Next ==
  \/ StartThread \/ ClearStopped \/ Insert \/ CloseFile \/ AskToStop \/ Joined \/ Run
  \/ \E c \in UniqueIDs : Register(c) \/ UnRegister(c) \/ UpdateCounter(c)

\* The storing thread goes on, and so does main that waits for it.
Spec == Init /\ [][Next]_vars /\ WF_vars(Run) /\ WF_vars(Joined)

-----------------------------------------------------------------------------
(* Properties *)

\* Every variable has its type.
TypeOK ==
  /\ enabled \in BOOLEAN /\ stopped \in BOOLEAN
  /\ thread \in {"none", "started", "missed", "look", "storing", "looping", "ended"}
  /\ control \in {"none", "starting", "idle", "opened", "erased", "joining", "exited"}
  /\ id \in UniqueIDs \cup {NoID}
  /\ todo \subseteq UniqueIDs /\ clients \subseteq UniqueIDs
  /\ registered \subseteq UniqueIDs /\ files \subseteq UniqueIDs
  /\ count \in [UniqueIDs -> 0 .. MaxCount] /\ lines \in [UniqueIDs -> 0 .. MaxCount]

\* The thread goes through entries that are in the map, and writes to files
\* that are open, though a file is opened and closed without the lock; every
\* file that is open is a client's, in the map or on its way in or out; none
\* is left open at the end, none closed twice.
FilesAccounted ==
  /\ todo \subseteq registered
  /\ registered \subseteq files \cap clients
  /\ files \ registered = IF control \in {"opened", "erased"} THEN {id} ELSE {}

\* What was counted is stored while the client is registered, if the thread saw
\* m_stopped cleared when it first looked (Start clears it too late).
Recorded ==
  \A c \in UniqueIDs :
    c \in registered /\ lines[c] # count[c] ~>
      lines[c] = count[c] \/ c \notin registered \/ thread = "missed"
=============================================================================
