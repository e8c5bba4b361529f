-------------------------- MODULE HttpConnections --------------------------
(***************************************************************************)
(* The HTTP server's connections: how HttpServer gathers the body of a     *)
(* request, which libmicrohttpd hands over in pieces, in the ConnectionInfo *)
(* that con_cls points to, and what it makes of it.  What the handlers of  *)
(* the requests do is in MediaPorts and HttpNotifier.                      *)
(*                                                                         *)
(* libmicrohttpd has one thread: a call of a handler, or of the callback   *)
(* when a request is complete, is one action.  Of a body there is its      *)
(* length and where its first zero byte is, because it is gathered as      *)
(* bytes and parsed as a C string.  The memory of the                      *)
(* ConnectionInfos is Infos: a piece that was freed can be allocated again. *)
(* A connection that is closed and one that waits for its next request are *)
(* both "idle": con_cls is what the callback left.                         *)
(***************************************************************************)
EXTENDS Integers

CONSTANTS
  Connections,
  Infos,            \* memory for ConnectionInfos
  NULL,
  MAX_BUFFER_SIZE,  \* 4096 in the code
  MaxBody           \* bound: the longest body

ASSUME InfoAssumption == NULL \notin Infos
ASSUME SizeAssumption == MAX_BUFFER_SIZE \in Nat \ {0} /\ MaxBody \in Nat

URL_MEDIA == "/media"
URL_RTMP_NOTIFY == "/rtmpNotify"

VARIABLES
  connection,  \* what libmicrohttpd does with the connection
  request,     \* [url, post, length, zero]; zero: the bytes before the first zero byte
  left,        \* how much of the body the handler has not taken
  con_cls,     \* the ConnectionInfo of the request, or NULL
  allocated,   \* the ConnectionInfos that are not freed
  size,        \* how much the buffer of each holds
  text,        \* how long the C string is that begins with the buffer
  outcome      \* what the handler has made of the request

requestVars == <<request, left>>
infoVars == <<con_cls, allocated, size, text>>
vars == <<connection, requestVars, infoVars, outcome>>

\* The body of a request without a zero byte has zero = length.
Requests ==
  {r \in [url : {URL_MEDIA, URL_RTMP_NOTIFY, "other"}, post : BOOLEAN,
          length : 0 .. MaxBody, zero : 0 .. MaxBody] : r.zero <= r.length}
NoRequest == [url |-> "other", post |-> FALSE, length |-> 0, zero |-> 0]

Init ==
  /\ connection = [c \in Connections |-> "idle"]
  /\ request = [c \in Connections |-> NoRequest]
  /\ left = [c \in Connections |-> 0]
  /\ con_cls = [c \in Connections |-> NULL]
  /\ allocated = {} /\ size = [i \in Infos |-> 0] /\ text = [i \in Infos |-> 0]
  /\ outcome = [c \in Connections |-> "none"]

\* The value a handler returned, or a response that was queued.
Becomes(c, state, result) ==
  /\ connection' = [connection EXCEPT ![c] = state]
  /\ outcome' = [outcome EXCEPT ![c] = result]

-----------------------------------------------------------------------------
(* RequestParser *)

\* Which function of IRequestHandler is called for a string of n bytes.
Parse(n) ==
  {"requestParseError"} \cup
    (IF n > 0 THEN {"requestAllocateMediaPort", "requestDeallocateMediaPort"} ELSE {})

ParseRtmpNotify(n) ==
  {"requestParseError"} \cup (IF n > 0 THEN {"notifyRtmpPlay", "notifyRtmpStop"} ELSE {})

Handlers == {"requestParseError", "requestAllocateMediaPort", "requestDeallocateMediaPort",
             "notifyRtmpPlay", "notifyRtmpStop"}

-----------------------------------------------------------------------------
(* HttpServer::HandleRequest, called with n bytes of the body *)

\* Mutant: the buffer is not set to zeros.
StaleText(i) == text[i]
NoText(i) == 0

CreateConnectionInfo(c) ==
  \E i \in Infos \ allocated :
    /\ con_cls' = [con_cls EXCEPT ![c] = i]
    /\ allocated' = allocated \cup {i}
    /\ size' = [size EXCEPT ![i] = 0] /\ text' = [text EXCEPT ![i] = NoText(i)]

NewConnection(c) ==
  /\ con_cls[c] = NULL /\ UNCHANGED requestVars
  /\ IF request[c].url \in {URL_MEDIA, URL_RTMP_NOTIFY}
     THEN CreateConnectionInfo(c) /\ Becomes(c, "upload", "none")
     ELSE UNCHANGED infoVars /\ Becomes(c, "closing", "unknown url")

\* Mutant: the terminating zero is forgotten.
RoomWithoutZero(c, n) == size[con_cls[c]] + n <= MAX_BUFFER_SIZE
Room(c, n) == size[con_cls[c]] + n < MAX_BUFFER_SIZE

\* The C string after the next n bytes of the body were copied behind what
\* the buffer holds: it has ended before, or ends at the first zero byte of
\* the body, or behind the copy, at the latest where the buffer's zeros begin.
TextWith(c, n) ==
  LET held == size[con_cls[c]]
      old == text[con_cls[c]]
      untilZero == request[c].zero - (request[c].length - left[c])
  IN IF old < held THEN old
     ELSE IF untilZero < n THEN held + untilZero
     ELSE IF old < held + n THEN held + n ELSE old

ConsumeData(c, n) ==
  /\ con_cls[c] # NULL /\ request[c].post /\ n > 0
  /\ IF Room(c, n)
     THEN /\ size' = [size EXCEPT ![con_cls[c]] = @ + n]
          /\ text' = [text EXCEPT ![con_cls[c]] = TextWith(c, n)]
          /\ left' = [left EXCEPT ![c] = @ - n]
          /\ Becomes(c, "upload", "none")
     ELSE UNCHANGED <<size, text, left>> /\ Becomes(c, "closing", "too long")
  /\ UNCHANGED <<request, con_cls, allocated>>

\* The parser takes the buffer as a std::string, which ends at the first zero.
\* MHD_create_response_from_buffer and MHD_queue_response may fail.
OnReceiveAllData(c, n) ==
  /\ con_cls[c] # NULL /\ request[c].post /\ n = 0
  /\ \E result \in IF request[c].url = URL_MEDIA THEN Parse(text[con_cls[c]])
                   ELSE ParseRtmpNotify(text[con_cls[c]]) :
       \E state \in {"answered", "closing"} : Becomes(c, state, result)
  /\ UNCHANGED <<requestVars, infoVars>>

HandleUnsupportMethod(c) ==
  /\ con_cls[c] # NULL /\ ~request[c].post
  /\ \E state \in {"answered", "closing"} : Becomes(c, state, "unsupported")
  /\ UNCHANGED <<requestVars, infoVars>>

HandleRequest(c, n) ==
  NewConnection(c) \/ ConsumeData(c, n) \/ OnReceiveAllData(c, n) \/ HandleUnsupportMethod(c)

-----------------------------------------------------------------------------
(* libmicrohttpd *)

\* The header of the first request, or the next, of a connection is in.
NewRequest(c) ==
  /\ connection[c] = "idle" /\ Becomes(c, "header", "none")
  /\ \E r \in Requests : /\ request' = [request EXCEPT ![c] = r]
                         /\ left' = [left EXCEPT ![c] = r.length]
  /\ UNCHANGED infoVars

\* The first call has no data; the calls with the body follow, cut in any
\* way, then a last one without data.
FirstCall(c) == connection[c] = "header" /\ HandleRequest(c, 0)
DataCall(c) == connection[c] = "upload" /\ \E n \in 1 .. left[c] : HandleRequest(c, n)
LastCall(c) == connection[c] = "upload" /\ left[c] = 0 /\ HandleRequest(c, 0)

\* The client has closed the connection, was silent for 15 s or has sent
\* something that is not HTTP, or the daemon is stopped.
Terminate(c) ==
  /\ connection[c] \in {"header", "upload"}
  /\ Becomes(c, "closing", "none") /\ UNCHANGED <<requestVars, infoVars>>

\* Mutant: con_cls still points to what was deleted.
Dangling(c) == con_cls[c]
Cleared(c) == NULL

\* request_completed_callback
Completed(c) ==
  /\ connection[c] \in {"answered", "closing"} /\ Becomes(c, "idle", "none")
  /\ allocated' = allocated \ {con_cls[c]}
  /\ con_cls' = [con_cls EXCEPT ![c] = Cleared(c)]
  /\ request' = [request EXCEPT ![c] = NoRequest] /\ left' = [left EXCEPT ![c] = 0]
  /\ UNCHANGED <<size, text>>

Next ==
  \E c \in Connections :
    NewRequest(c) \/ FirstCall(c) \/ DataCall(c) \/ LastCall(c) \/ Terminate(c) \/ Completed(c)

Spec == Init /\ [][Next]_vars

-----------------------------------------------------------------------------
(* Properties *)

\* Every variable has its type; the C string in a buffer ends in the buffer,
\* which keeps room for a terminating zero however full it is.
TypeOK ==
  /\ connection \in [Connections -> {"idle", "header", "upload", "answered", "closing"}]
  /\ request \in [Connections -> Requests]
  /\ left \in [Connections -> 0 .. MaxBody]
  /\ con_cls \in [Connections -> Infos \cup {NULL}]
  /\ allocated \subseteq Infos
  /\ size \in [Infos -> 0 .. MAX_BUFFER_SIZE - 1]
  /\ text \in [Infos -> 0 .. MAX_BUFFER_SIZE - 1]
  /\ outcome \in [Connections -> {"none", "unknown url", "too long", "unsupported"} \cup Handlers]

\* Every ConnectionInfo belongs to one request in progress and is deleted
\* with it, however the request ends: nothing leaks, nothing is used after
\* it was deleted, and a request never begins with another's data.
OneInfoPerRequest ==
  /\ allocated = {con_cls[c] : c \in Connections} \ {NULL}
  /\ \A c, d \in Connections : con_cls[c] = con_cls[d] /\ c # d => con_cls[c] = NULL
  /\ \A c \in Connections : connection[c] \in {"idle", "header"} => con_cls[c] = NULL

\* What is parsed is the body of the request up to its first zero byte, which
\* is all of a body without one, and nothing of a body that begins with one;
\* and a body is refused for its length only, zero bytes included.  Neither
\* depends on how the body was cut, on what other connections send, or on
\* what was in the memory before.
BodyParsedToZero ==
  \A c \in Connections :
    /\ outcome[c] \in Handlers =>
         text[con_cls[c]] = request[c].zero /\ request[c].length < MAX_BUFFER_SIZE
    /\ outcome[c] \in Handlers \ {"requestParseError"} => request[c].zero > 0
    /\ outcome[c] = "too long" => request[c].length >= MAX_BUFFER_SIZE
=============================================================================
