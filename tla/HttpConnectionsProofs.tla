----------------------- MODULE HttpConnectionsProofs -----------------------
(***************************************************************************)
(* What holds of the HTTP server's connections, for any number of them,    *)
(* any size of the buffer and bodies of any length.                        *)
(***************************************************************************)
EXTENDS HttpConnections, TLAPS

LEMMA Lengths ==
  \A r \in Requests : r.length \in 0 .. MaxBody /\ r.zero \in 0 .. MaxBody /\ r.zero <= r.length
BY DEF Requests

LEMMA NoRequestIsRequest == NoRequest \in Requests
<1>1. 0 \in 0 .. MaxBody /\ 0 <= 0
  BY SizeAssumption
<1> QED
  BY <1>1 DEF NoRequest, Requests

Places ==
  /\ connection \in [Connections -> {"idle", "header", "upload", "answered", "closing"}]
  /\ outcome \in [Connections -> {"none", "unknown url", "too long", "unsupported"} \cup Handlers]
  /\ con_cls \in [Connections -> Infos \cup {NULL}]
  /\ allocated \subseteq Infos

Numbers ==
  /\ request \in [Connections -> Requests]
  /\ left \in [Connections -> 0 .. MaxBody]
  /\ size \in [Infos -> 0 .. MAX_BUFFER_SIZE - 1]
  /\ text \in [Infos -> 0 .. MAX_BUFFER_SIZE - 1]

\* The bytes before the first zero of the n that begin the body of r.
BeforeZero(r, n) == IF n < r.zero THEN n ELSE r.zero

\* What is in the buffer and what is still to come make up the body, until
\* the request has an outcome, and the C string in the buffer ends where what
\* there is of the body has its first zero.
Gathered ==
  \A c \in Connections :
    /\ connection[c] = "header" => left[c] = request[c].length
    /\ connection[c] = "upload" =>
         /\ con_cls[c] # NULL /\ size[con_cls[c]] + left[c] = request[c].length
         /\ text[con_cls[c]] = BeforeZero(request[c], size[con_cls[c]])
    /\ outcome[c] # "none" => connection[c] \in {"answered", "closing"}
    /\ outcome[c] \in Handlers => con_cls[c] # NULL

Inv == Places /\ Numbers /\ OneInfoPerRequest /\ Gathered /\ BodyParsedToZero

LEMMA InvInit == Init => Inv
<1> SUFFICES ASSUME Init PROVE Inv
  OBVIOUS
<1> USE InfoAssumption, SizeAssumption DEF Init
<1>1. Places
  BY DEF Places
<1>2. Numbers
  <2>1. NoRequest \in Requests
    BY NoRequestIsRequest
  <2>2. 0 \in 0 .. MaxBody /\ 0 \in 0 .. MAX_BUFFER_SIZE - 1
    OBVIOUS
  <2> QED
    BY <2>1, <2>2 DEF Numbers
<1>3. OneInfoPerRequest
  BY DEF OneInfoPerRequest
<1>4. Gathered /\ BodyParsedToZero
  BY DEF Gathered, BodyParsedToZero, Handlers
<1> QED
  BY <1>1, <1>2, <1>3, <1>4 DEF Inv

\* Calls and events that leave the ConnectionInfos alone.
LEMMA NewRequestKeeps ==
  ASSUME Inv, NEW c \in Connections, NewRequest(c)
  PROVE Inv'
<1>1. /\ connection[c] = "idle"
      /\ connection' = [connection EXCEPT ![c] = "header"]
      /\ outcome' = [outcome EXCEPT ![c] = "none"] /\ UNCHANGED infoVars
  BY DEF NewRequest, Becomes
<1>2. PICK r \in Requests : request' = [request EXCEPT ![c] = r] /\ left' = [left EXCEPT ![c] = r.length]
  BY DEF NewRequest
<1>3. Places'
  BY <1>1 DEF Inv, Places, infoVars
<1>4. Numbers'
  BY <1>1, <1>2, Lengths DEF Inv, Numbers, infoVars
<1>5. OneInfoPerRequest'
  BY <1>1 DEF Inv, Places, OneInfoPerRequest, infoVars
<1>6. Gathered'
  BY <1>1, <1>2 DEF Inv, Places, Numbers, Gathered, Handlers, infoVars
<1>7. BodyParsedToZero'
  BY <1>1, <1>2 DEF Inv, Places, Numbers, Gathered, BodyParsedToZero, Handlers, infoVars
<1> QED
  BY <1>3, <1>4, <1>5, <1>6, <1>7 DEF Inv

LEMMA CreateKeeps ==
  ASSUME Inv, NEW c \in Connections, connection[c] = "header", NewConnection(c),
         request[c].url \in {URL_MEDIA, URL_RTMP_NOTIFY}
  PROVE Inv'
<1>1. /\ con_cls[c] = NULL /\ UNCHANGED requestVars
      /\ connection' = [connection EXCEPT ![c] = "upload"]
      /\ outcome' = [outcome EXCEPT ![c] = "none"]
      /\ CreateConnectionInfo(c)
  BY DEF NewConnection, Becomes
<1>2. PICK i \in Infos \ allocated :
        /\ con_cls' = [con_cls EXCEPT ![c] = i]
        /\ allocated' = allocated \cup {i}
        /\ size' = [size EXCEPT ![i] = 0] /\ text' = [text EXCEPT ![i] = 0]
  BY <1>1 DEF CreateConnectionInfo, NoText
<1>3. Places'
  BY <1>1, <1>2 DEF Inv, Places
<1>4. Numbers'
  <2>1. 0 \in 0 .. MAX_BUFFER_SIZE - 1
    BY SizeAssumption
  <2> QED
    BY <1>1, <1>2, <2>1 DEF Inv, Numbers, requestVars
<1>5. \A d \in Connections : con_cls[d] # i
  BY <1>2, InfoAssumption DEF Inv, OneInfoPerRequest
<1>6. OneInfoPerRequest'
  <2>1. allocated' = {con_cls'[d] : d \in Connections} \ {NULL}
    BY <1>1, <1>2, InfoAssumption DEF Inv, Places, OneInfoPerRequest
  <2>2. \A d, e \in Connections : con_cls'[d] = con_cls'[e] /\ d # e => con_cls'[d] = NULL
    BY <1>2, <1>5 DEF Inv, Places, OneInfoPerRequest
  <2>3. \A d \in Connections : connection'[d] \in {"idle", "header"} => con_cls'[d] = NULL
    BY <1>1, <1>2 DEF Inv, Places, OneInfoPerRequest
  <2> QED
    BY <2>1, <2>2, <2>3 DEF OneInfoPerRequest
<1>7. \A d \in Connections \ {c} : con_cls[d] # NULL =>
        size'[con_cls'[d]] = size[con_cls[d]] /\ text'[con_cls'[d]] = text[con_cls[d]]
  BY <1>2, <1>5 DEF Inv, Places, Numbers
<1>8. size'[con_cls'[c]] = 0 /\ text'[con_cls'[c]] = 0 /\ con_cls'[c] = i /\ i # NULL
  BY <1>2, InfoAssumption DEF Inv, Places, Numbers
<1>9. left[c] = request[c].length /\ left[c] \in 0 .. MaxBody /\ request[c].zero \in 0 .. MaxBody
  BY Lengths DEF Inv, Numbers, Gathered
<1>10. Gathered'
  <2>1. /\ con_cls'[c] # NULL /\ size'[con_cls'[c]] + left'[c] = request'[c].length
        /\ text'[con_cls'[c]] = BeforeZero(request'[c], size'[con_cls'[c]])
    <3>1. 0 + left[c] = request[c].length /\ 0 = BeforeZero(request[c], 0)
      BY <1>9 DEF BeforeZero
    <3> QED
      BY <1>1, <1>8, <3>1 DEF requestVars
  <2>2. /\ connection'[c] = "upload" /\ outcome'[c] = "none"
        /\ \A d \in Connections \ {c} :
             connection'[d] = connection[d] /\ outcome'[d] = outcome[d] /\ con_cls'[d] = con_cls[d]
    BY <1>1, <1>2 DEF Inv, Places
  <2> QED
    BY <1>1, <1>7, <2>1, <2>2 DEF Inv, Gathered, Handlers, requestVars
<1>11. BodyParsedToZero'
  BY <1>1, <1>2, <1>7 DEF Inv, Places, Gathered, BodyParsedToZero, Handlers, requestVars
<1> QED
  BY <1>3, <1>4, <1>6, <1>10, <1>11 DEF Inv

LEMMA ConsumeKeeps ==
  ASSUME Inv, NEW c \in Connections, connection[c] = "upload", NEW n \in 1 .. left[c], ConsumeData(c, n)
  PROVE Inv'
<1> DEFINE i == con_cls[c]
<1>1. /\ i \in Infos /\ left[c] \in 0 .. MaxBody /\ size[i] \in 0 .. MAX_BUFFER_SIZE - 1
      /\ request[c].length \in 0 .. MaxBody /\ size[i] + left[c] = request[c].length
      /\ request[c].zero \in 0 .. MaxBody /\ text[i] = BeforeZero(request[c], size[i])
  BY Lengths DEF Inv, Places, Numbers, Gathered
<1>2. n \in Nat /\ n <= left[c]
  BY <1>1
<1>3. UNCHANGED <<request, con_cls, allocated>>
  BY DEF ConsumeData
<1>4. CASE Room(c, n)
  <2>1. /\ size' = [size EXCEPT ![i] = size[i] + n] /\ left' = [left EXCEPT ![c] = left[c] - n]
        /\ text' = [text EXCEPT ![i] = TextWith(c, n)]
        /\ connection' = [connection EXCEPT ![c] = "upload"]
        /\ outcome' = [outcome EXCEPT ![c] = "none"]
    BY <1>4 DEF ConsumeData, Becomes
  <2>2. /\ size[i] + n \in 0 .. MAX_BUFFER_SIZE - 1 /\ left[c] - n \in 0 .. MaxBody
        /\ TextWith(c, n) = BeforeZero(request[c], size[i] + n)
        /\ BeforeZero(request[c], size[i] + n) \in 0 .. MAX_BUFFER_SIZE - 1
    <3>1. size[i] + n \in 0 .. MAX_BUFFER_SIZE - 1 /\ left[c] - n \in 0 .. MaxBody
      BY <1>1, <1>2, <1>4, SizeAssumption DEF Room
    <3>2. request[c].length - left[c] = size[i]
      BY <1>1
    <3>3. TextWith(c, n) = BeforeZero(request[c], size[i] + n)
      <4> DEFINE z == request[c].zero
                 h == size[i]
      <4>1. TextWith(c, n) =
              IF text[i] < h THEN text[i]
              ELSE IF z - h < n THEN h + (z - h) ELSE IF text[i] < h + n THEN h + n ELSE text[i]
        BY <3>2 DEF TextWith
      <4>2. z \in Nat /\ h \in Nat /\ n \in Nat /\ n > 0 /\ text[i] = IF h < z THEN h ELSE z
        BY <1>1, <1>2, SizeAssumption DEF BeforeZero
      <4>3. BeforeZero(request[c], size[i] + n) = IF h + n < z THEN h + n ELSE z
        BY DEF BeforeZero
      <4> HIDE DEF z, h
      <4> QED
        BY <4>1, <4>2, <4>3
    <3>4. BeforeZero(request[c], size[i] + n) \in 0 .. MAX_BUFFER_SIZE - 1
      BY <1>1, <1>2, <3>1, SizeAssumption DEF BeforeZero
    <3> QED
      BY <3>1, <3>3, <3>4
  <2>3. Places'
    BY <1>3, <2>1 DEF Inv, Places
  <2>4. Numbers'
    BY <1>1, <1>3, <2>1, <2>2 DEF Inv, Numbers
  <2>5. OneInfoPerRequest'
    BY <1>3, <2>1 DEF Inv, Places, OneInfoPerRequest
  <2>6. \A d \in Connections \ {c} : con_cls[d] # NULL =>
          size'[con_cls[d]] = size[con_cls[d]] /\ text'[con_cls[d]] = text[con_cls[d]]
    BY <1>1, <2>1 DEF Inv, Places, Numbers, OneInfoPerRequest
  <2>7. size'[i] = size[i] + n /\ left'[c] = left[c] - n /\ text'[i] = TextWith(c, n)
    BY <1>1, <2>1 DEF Inv, Numbers
  <2>8. size'[i] + left'[c] = request[c].length /\ text'[i] = BeforeZero(request[c], size'[i])
    BY <1>1, <1>2, <2>2, <2>7
  <2>9. Gathered'
    BY <1>1, <1>3, <2>1, <2>6, <2>8, InfoAssumption, ZenonT(60)
    DEF Inv, Places, Numbers, Gathered, Handlers
  <2>10. BodyParsedToZero'
    BY <1>3, <2>1, <2>6 DEF Inv, Places, Gathered, BodyParsedToZero, Handlers
  <2> QED
    BY <2>3, <2>4, <2>5, <2>9, <2>10 DEF Inv
<1>5. CASE ~Room(c, n)
  <2>1. /\ UNCHANGED <<size, text, left>> /\ connection' = [connection EXCEPT ![c] = "closing"]
        /\ outcome' = [outcome EXCEPT ![c] = "too long"]
    BY <1>5 DEF ConsumeData, Becomes
  <2>2. request[c].length >= MAX_BUFFER_SIZE
    BY <1>1, <1>2, <1>5, SizeAssumption DEF Room
  <2>3. Places'
    BY <1>3, <2>1 DEF Inv, Places
  <2>4. Numbers'
    BY <1>3, <2>1 DEF Inv, Numbers
  <2>5. OneInfoPerRequest'
    BY <1>3, <2>1 DEF Inv, Places, OneInfoPerRequest
  <2>6. Gathered'
    BY <1>3, <2>1 DEF Inv, Places, Gathered, Handlers
  <2>7. BodyParsedToZero'
    BY <1>3, <2>1, <2>2 DEF Inv, Places, BodyParsedToZero, Handlers
  <2> QED
    BY <2>3, <2>4, <2>5, <2>6, <2>7 DEF Inv
<1> QED
  BY <1>4, <1>5

LEMMA OnReceiveAllDataKeeps ==
  ASSUME Inv, NEW c \in Connections, connection[c] = "upload", left[c] = 0, OnReceiveAllData(c, 0)
  PROVE Inv'
<1>1. PICK result \in Handlers, state \in {"answered", "closing"} :
        /\ connection' = [connection EXCEPT ![c] = state]
        /\ outcome' = [outcome EXCEPT ![c] = result]
        /\ result = "requestParseError" \/ text[con_cls[c]] > 0
  BY DEF OnReceiveAllData, Becomes, Parse, ParseRtmpNotify, Handlers
<1>2. UNCHANGED <<requestVars, infoVars>>
  BY DEF OnReceiveAllData
<1>3. con_cls[c] # NULL /\ text[con_cls[c]] = request[c].zero /\ request[c].length < MAX_BUFFER_SIZE
  <2>1. /\ con_cls[c] \in Infos /\ size[con_cls[c]] + left[c] = request[c].length
        /\ text[con_cls[c]] = BeforeZero(request[c], size[con_cls[c]])
    BY DEF Inv, Places, Gathered
  <2>2. /\ size[con_cls[c]] \in 0 .. MAX_BUFFER_SIZE - 1
        /\ request[c].zero \in 0 .. MaxBody /\ request[c].zero <= request[c].length
    BY <2>1, Lengths DEF Inv, Numbers
  <2> QED
    BY <2>1, <2>2, SizeAssumption, InfoAssumption DEF BeforeZero
<1>4. Places'
  BY <1>1, <1>2 DEF Inv, Places, infoVars
<1>5. Numbers'
  BY <1>2 DEF Inv, Numbers, requestVars, infoVars
<1>6. OneInfoPerRequest'
  BY <1>1, <1>2 DEF Inv, Places, OneInfoPerRequest, infoVars
<1>7. Gathered'
  BY <1>1, <1>2, <1>3 DEF Inv, Places, Gathered, requestVars, infoVars
<1>8. BodyParsedToZero'
  BY <1>1, <1>2, <1>3 DEF Inv, Places, BodyParsedToZero, Handlers, requestVars, infoVars
<1> QED
  BY <1>4, <1>5, <1>6, <1>7, <1>8 DEF Inv

\* The connection is answered or given up, and nothing else happens.
LEMMA EndKeeps ==
  ASSUME Inv, NEW c \in Connections, NEW state \in {"answered", "closing"},
         NEW result \in {"none", "unknown url", "unsupported"}, Becomes(c, state, result),
         UNCHANGED <<requestVars, infoVars>>
  PROVE Inv'
<1>1. /\ connection' = [connection EXCEPT ![c] = state]
      /\ outcome' = [outcome EXCEPT ![c] = result]
  BY DEF Becomes
<1>2. Places'
  BY <1>1 DEF Inv, Places, infoVars
<1>3. Numbers'
  BY DEF Inv, Numbers, requestVars, infoVars
<1>4. OneInfoPerRequest'
  BY <1>1 DEF Inv, Places, OneInfoPerRequest, infoVars
<1>5. Gathered'
  BY <1>1 DEF Inv, Places, Gathered, Handlers, requestVars, infoVars
<1>6. BodyParsedToZero'
  BY <1>1 DEF Inv, Places, BodyParsedToZero, Handlers, requestVars, infoVars
<1> QED
  BY <1>2, <1>3, <1>4, <1>5, <1>6 DEF Inv

LEMMA CompletedKeeps ==
  ASSUME Inv, NEW c \in Connections, Completed(c)
  PROVE Inv'
<1>1. /\ connection' = [connection EXCEPT ![c] = "idle"]
      /\ outcome' = [outcome EXCEPT ![c] = "none"]
      /\ allocated' = allocated \ {con_cls[c]}
      /\ con_cls' = [con_cls EXCEPT ![c] = NULL]
      /\ request' = [request EXCEPT ![c] = NoRequest] /\ left' = [left EXCEPT ![c] = 0]
      /\ UNCHANGED <<size, text>>
  BY DEF Completed, Becomes, Cleared
<1>2. Places'
  BY <1>1 DEF Inv, Places
<1>3. Numbers'
  <2>1. 0 \in 0 .. MaxBody
    BY SizeAssumption
  <2> QED
    BY <1>1, <2>1, NoRequestIsRequest DEF Inv, Numbers
<1>4. OneInfoPerRequest'
  <2>1. allocated' = {con_cls'[d] : d \in Connections} \ {NULL}
    BY <1>1, InfoAssumption DEF Inv, Places, OneInfoPerRequest
  <2>2. \A d, e \in Connections : con_cls'[d] = con_cls'[e] /\ d # e => con_cls'[d] = NULL
    BY <1>1 DEF Inv, Places, OneInfoPerRequest
  <2>3. \A d \in Connections : connection'[d] \in {"idle", "header"} => con_cls'[d] = NULL
    BY <1>1 DEF Inv, Places, OneInfoPerRequest
  <2> QED
    BY <2>1, <2>2, <2>3 DEF OneInfoPerRequest
<1>5. Gathered'
  BY <1>1 DEF Inv, Places, Numbers, Gathered, Handlers
<1>6. BodyParsedToZero'
  BY <1>1 DEF Inv, Places, Numbers, BodyParsedToZero, Handlers
<1> QED
  BY <1>2, <1>3, <1>4, <1>5, <1>6 DEF Inv

\* A call of the handler, whichever branch it takes.
LEMMA CallKeeps ==
  ASSUME Inv, NEW c \in Connections, FirstCall(c) \/ DataCall(c) \/ LastCall(c)
  PROVE Inv'
<1>1. CASE FirstCall(c)
  <2>1. connection[c] = "header" /\ HandleRequest(c, 0) /\ con_cls[c] = NULL
    BY <1>1 DEF FirstCall, Inv, OneInfoPerRequest
  <2>2. NewConnection(c)
    BY <2>1 DEF HandleRequest, ConsumeData, OnReceiveAllData, HandleUnsupportMethod
  <2>3. CASE request[c].url \in {URL_MEDIA, URL_RTMP_NOTIFY}
    BY <2>1, <2>2, <2>3, CreateKeeps
  <2>4. CASE request[c].url \notin {URL_MEDIA, URL_RTMP_NOTIFY}
    BY <2>2, <2>4, EndKeeps DEF NewConnection
  <2> QED
    BY <2>3, <2>4
<1>2. CASE DataCall(c)
  <2>1. connection[c] = "upload" /\ con_cls[c] # NULL
    BY <1>2 DEF DataCall, Inv, Gathered
  <2>2. PICK n \in 1 .. left[c] : HandleRequest(c, n)
    BY <1>2 DEF DataCall
  <2>3. n # 0
    BY <2>2
  <2>4. ConsumeData(c, n) \/ HandleUnsupportMethod(c)
    BY <2>1, <2>2, <2>3 DEF HandleRequest, NewConnection, OnReceiveAllData
  <2> QED
    BY <2>1, <2>4, ConsumeKeeps, EndKeeps DEF HandleUnsupportMethod
<1>3. CASE LastCall(c)
  <2>1. connection[c] = "upload" /\ left[c] = 0 /\ HandleRequest(c, 0) /\ con_cls[c] # NULL
    BY <1>3 DEF LastCall, Inv, Gathered
  <2>2. OnReceiveAllData(c, 0) \/ HandleUnsupportMethod(c)
    <3>1. ~NewConnection(c)
      BY <2>1 DEF NewConnection
    <3>2. ~ConsumeData(c, 0)
      BY DEF ConsumeData
    <3> QED
      BY <2>1, <3>1, <3>2 DEF HandleRequest
  <2> QED
    BY <2>1, <2>2, OnReceiveAllDataKeeps, EndKeeps DEF HandleUnsupportMethod
<1> QED
  BY <1>1, <1>2, <1>3

\* The invariant holds in every behaviour.
LEMMA InvHolds == Spec => []Inv
<1>1. ASSUME Inv, UNCHANGED vars PROVE Inv'
  <2>1. Places' /\ Numbers'
    BY <1>1 DEF Inv, Places, Numbers, vars, requestVars, infoVars
  <2>2. OneInfoPerRequest'
    BY <1>1 DEF Inv, OneInfoPerRequest, vars, infoVars
  <2>3. Gathered'
    BY <1>1 DEF Inv, Gathered, vars, requestVars, infoVars
  <2>4. BodyParsedToZero'
    BY <1>1 DEF Inv, BodyParsedToZero, vars, requestVars, infoVars
  <2> QED
    BY <2>1, <2>2, <2>3, <2>4 DEF Inv
<1>2. ASSUME Inv, NEW c \in Connections, Terminate(c) PROVE Inv'
  BY <1>2, EndKeeps DEF Terminate
<1>3. Inv /\ [Next]_vars => Inv'
  BY <1>1, <1>2, NewRequestKeeps, CallKeeps, CompletedKeeps DEF Next
<1> QED
  BY InvInit, <1>3, PTL DEF Spec

\* The types hold, and no buffer is filled to its end (HttpServer.cpp:198).
THEOREM TypeCorrect == Spec => []TypeOK
<1>1. Inv => TypeOK
  BY DEF Inv, Places, Numbers, TypeOK
<1> QED
  BY <1>1, InvHolds, PTL

\* Each ConnectionInfo belongs to one request in progress (HttpServer.cpp:45, 115).
THEOREM InfosBelong == Spec => []OneInfoPerRequest
<1>1. Inv => OneInfoPerRequest
  BY DEF Inv
<1> QED
  BY <1>1, InvHolds, PTL

\* A body is parsed up to its first zero byte, which is where a char* becomes
\* a std::string (HttpServer.cpp:215, 218), or refused for its length (198).
THEOREM BodiesParsedToZero == Spec => []BodyParsedToZero
<1>1. Inv => BodyParsedToZero
  BY DEF Inv
<1> QED
  BY <1>1, InvHolds, PTL
=============================================================================
