---------------------------- MODULE PortService ----------------------------
(***************************************************************************)
(* What a client of the /media HTTP interface is promised: each unique ID  *)
(* (one video device) holds at most one media port, no port is held by two *)
(* IDs, and every answer tells the truth about what is held when it is     *)
(* given.  How ports are found, tried and recycled is not visible here.    *)
(***************************************************************************)
EXTENDS Integers

CONSTANTS UniqueIDs, Ports, NoPort, NoID

ERR_OK == 0
ERR_FAILED == 100
ERR_INVLIAD_PARAM == 101
ERR_PORT_EXIST_FOR_THIS_UNIQUE_ID == 102
ERR_FIND_NO_PORT_OF_THIS_UNIQUE_ID == 103

VARIABLES
  assigned,   \* the port each unique ID holds, NoPort if none
  pending,    \* the ID whose allocation is in progress, NoID if none
  answer      \* the last answer, [err, port]

vars == <<assigned, pending, answer>>

Answer(err, port) == answer' = [err |-> err, port |-> port]

Init ==
  /\ assigned = [id \in UniqueIDs |-> NoPort]
  /\ pending = NoID
  /\ answer = [err |-> ERR_OK, port |-> NoPort]

\* A request refused for its content, whatever it asks for.
Reject == pending = NoID /\ Answer(ERR_INVLIAD_PARAM, NoPort)
                         /\ UNCHANGED <<assigned, pending>>

\* A repeated allocation is answered with the port already held.
Repeat(id) ==
  /\ pending = NoID /\ assigned[id] # NoPort
  /\ Answer(ERR_PORT_EXIST_FOR_THIS_UNIQUE_ID, assigned[id])
  /\ UNCHANGED <<assigned, pending>>

Begin(id) ==
  /\ pending = NoID /\ assigned[id] = NoPort
  /\ pending' = id
  /\ UNCHANGED <<assigned, answer>>

\* A port that nobody holds becomes the port of the pending ID.
Grant(port) ==
  /\ pending # NoID
  /\ \A id \in UniqueIDs : assigned[id] # port
  /\ assigned' = [assigned EXCEPT ![pending] = port]
  /\ Answer(ERR_OK, port)
  /\ pending' = NoID

Fail ==
  /\ pending # NoID
  /\ Answer(ERR_FAILED, NoPort)
  /\ pending' = NoID /\ UNCHANGED assigned

Release(id) ==
  /\ pending = NoID /\ assigned[id] # NoPort
  /\ assigned' = [assigned EXCEPT ![id] = NoPort]
  /\ Answer(ERR_OK, NoPort) /\ UNCHANGED pending

ReleaseUnknown(id) ==
  /\ pending = NoID /\ assigned[id] = NoPort
  /\ Answer(ERR_FIND_NO_PORT_OF_THIS_UNIQUE_ID, NoPort)
  /\ UNCHANGED <<assigned, pending>>

Next ==
  \/ Reject \/ Fail
  \/ \E id \in UniqueIDs : Repeat(id) \/ Begin(id) \/ Release(id) \/ ReleaseUnknown(id)
  \/ \E port \in Ports : Grant(port)

Spec == Init /\ [][Next]_vars
=============================================================================
