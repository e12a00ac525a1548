------------------------------ MODULE HttpExchange ------------------------------
(***************************************************************************)
(* One request after the other on one connection, from recv() to send():   *)
(* _http_handle_client and the functions it calls                          *)
(* (src/src/networking/http/httpserver.c), with the message functions of   *)
(* HttpContent.  HttpServer models the same thread from outside, as one    *)
(* that takes a request and answers it.                                    *)
(*                                                                         *)
(* The "owner" is the thread of the program that sets up the server.       *)
(* Nothing orders it with the HTTP threads: what they read of the server,  *)
(* the endpoints and the default headers, is read in steps between which   *)
(* the owner may move.  What a thread does without looking at the server   *)
(* is one step.  Several HTTP threads do not meet anywhere else.           *)
(***************************************************************************)
EXTENDS HttpContent

CONSTANTS
  Uris,               \* of requests and endpoints, with their leading '/'
  HttpCallbacks, WsCallbacks, None,
  MethodSets,         \* what endpoints are registered for
  MaxEndpoints,
  Requests,           \* the requests of the client, by name
  HeaderSets,         \* the default headers the owner sets
  CallbackHeaders,    \* the headers a callback adds
  ReadSize,           \* of read_buffer, in units: a line and headers of one each, a body
  Guesses,            \* what the end of a number may be mistaken for
  Longest,            \* bound: of the bodies
  MaxCalls,           \* bound: what one callback does with its messages
  MaxSetters,         \* bound: calls of the owner
  MaxEvents           \* bound: both, and refused allocations and requests in pieces

ASSUME EndpointsAssumption ==
  /\ MaxEndpoints \in Nat \ {0}
  /\ None \notin HttpCallbacks \cup WsCallbacks \cup Uris \cup DOMAIN Requests
  /\ \A methods \in MethodSets \cup {{"HEAD"}} : methods \in SUBSET STRING
\* Uris are all there are, those nobody registers included.  The versions that begin
\* with a '1' are "1.0", "1.1" and "1.x", which stands for all the others.
ASSUME RequestsAssumption ==
  \A r \in DOMAIN Requests :
    Requests[r] \in [line : BOOLEAN, method : STRING, uri : Uris, version : STRING,
                     headers : Seq(DOMAIN Lines)]
\* The headers of a request fit into read_buffer; how long a body is, a client says.
ASSUME ReadAssumption ==
  /\ ReadSize \in Nat /\ \A r \in DOMAIN Requests : Len(Requests[r].headers) < ReadSize
  /\ Guesses \subseteq Nat
\* Nobody sends, as the value of a header, what Lookup answers without one.
ASSUME HeadersAssumption ==
  /\ \A hs \in HeaderSets : hs \in Seq(DOMAIN Lines)
  /\ CallbackHeaders \subseteq DOMAIN Lines
  /\ \A h \in DOMAIN Lines : Lines[h].value \notin {"missing", "hidden"}
ASSUME ExchangeBoundsAssumption ==
  /\ {MaxCalls, MaxSetters, MaxEvents} \subseteq Nat
  /\ Longest \in Nat \ {0}

VARIABLES
  \* the server
  endpoints,   \* the table of endpoints
  count,       \* active_endpoints
  fallback,    \* default_endpoint
  defaults,    \* default_headers
  owner,       \* what the owner is in the middle of
  setters,     \* how many calls the owner has made
  book,        \* what the calls of the owner that have returned add up to
  \* the thread and its client
  pc, req, res,
  found,       \* the endpoint of the request, a slot of the table, 0 or the default's
  stale,       \* default_headers has moved since the thread has read the pointer
  calls,       \* what the callback has done so far
  conn,        \* "open", "closed", or "upgraded"
  rest,        \* a part of the last request has not been received yet
  \* the exchange: of this request, or the last one
  exchange,
  causes,      \* what has happened that excuses something
  fault        \* memory that was misused, or "no"

server == <<endpoints, count, fallback, defaults>>
admin  == <<server, owner, setters, book>>
thread == <<pc, req, res, found, stale, calls, conn, rest>>
vars   == <<admin, thread, exchange, causes, fault>>

FreeSlot  == [active |-> FALSE, uri |-> None, methods |-> {}, http |-> None, ws |-> None]
DefaultSlot == MaxEndpoints + 1
Slots     == 1 .. MaxEndpoints

ServerHeader  == Line("server", "fpx_http")
KeepHeader    == Line("connection", "keep-alive")
CloseHeader   == Line("connection", "close")
KeepAlive     == Line("keep-alive", "7")
UpgradeHeaders == <<Line("sec-websocket-accept", "accept"), Line("upgrade", "websocket"),
                    Line("connection", "Upgrade")>>

\* content-length, for as many bytes as the body has.
LengthHeader(n) == CHOOSE h \in DOMAIN Lines :
                     Lines[h].key = "content-length" /\ Lines[h].number = n
RequestNames    == DOMAIN Requests
RequestOf       == [r \in RequestNames |-> Requests[r]]
LengthHeaders   == [n \in 0 .. Longest |-> LengthHeader(n)]

(***************************************************************************)
(* The headers the server writes itself are among those in use, and no     *)
(* other key is found in one of them.                                      *)
(***************************************************************************)
OwnLines == {<<"server", "fpx_http">>, <<"connection", "keep-alive">>, <<"connection", "close">>,
             <<"keep-alive", "7">>, <<"sec-websocket-accept", "accept">>,
             <<"upgrade", "websocket">>, <<"connection", "Upgrade">>}
ASSUME OwnLinesAssumption ==
  /\ \A own \in OwnLines :
       /\ \E h \in DOMAIN Lines : Lines[h].key = own[1] /\ Lines[h].value = own[2]
       /\ Lines[Line(own[1], own[2])].within = {}
  /\ \A n \in 0 .. Longest :
       /\ \E h \in DOMAIN Lines : Lines[h].key = "content-length" /\ Lines[h].number = n
       /\ Lines[LengthHeader(n)].within = {}

NewRequest  == [line |-> FALSE, method |-> "NONE", uri |-> None, version |-> None,
                content |-> NoContent]
NewResponse == [status |-> 0, content |-> NoContent]
NewExchange == [request |-> None, cut |-> "no", owed |-> 0, answers |-> 0, status |-> 0, current |-> TRUE,
                ran |-> None, ws |-> None, connection |-> "missing", closing |-> FALSE, broken |-> FALSE,
                leaks |-> FALSE]
NoCall      == [doing |-> "nothing", slot |-> 0, uri |-> None, methods |-> {}, http |-> None,
                ws |-> None, headers |-> <<>>]
Unbooked    == [methods |-> {}, http |-> None, ws |-> None]

\* fpx_httpserver_init.
Init ==
  /\ endpoints = [i \in Slots |-> FreeSlot] /\ count = 0
  /\ fallback = FreeSlot
  /\ defaults = [ptr |-> "live", list |-> <<ServerHeader>>, behind |-> <<>>]
  /\ owner = NoCall /\ setters = 0
  /\ book = [uris |-> [u \in Uris |-> Unbooked], default |-> Unbooked,
             headers |-> <<ServerHeader>>]
  /\ pc = "idle" /\ req = NewRequest /\ res = NewResponse
  /\ found = 0 /\ stale = FALSE /\ calls = 0
  /\ conn = "open" /\ rest = FALSE
  /\ exchange = NewExchange /\ causes = {} /\ fault = "no"

-----------------------------------------------------------------------------
(* The owner. *)

\* What has happened so far, out of MaxEvents.
Events == setters + calls + Cardinality(causes \cap {"split", "refused"})
MoreMayHappen == Events < MaxEvents

OwnerReady(doing) == fault = "no" /\ owner.doing = doing

\* What the owner changes during an exchange may or may not be seen by it; with
\* one that is over it has nothing to do, which is then forgotten.
Races ==
  IF pc = "idle" THEN exchange' = NewExchange /\ causes' = {}
  ELSE causes' = causes \cup {"raced"} /\ UNCHANGED exchange

Starts ==
  /\ OwnerReady("nothing") /\ setters < MaxSetters /\ MoreMayHappen
  /\ setters' = setters + 1 /\ Races

Returns == owner' = NoCall

\* Mutant: the table is not searched for an endpoint of the same uri.
FirstFree(uri) == {i \in Slots : ~endpoints[i].active}

\* _available_endpoint_index: the first slot that is not in use, or the uri's.
\* (In _endpoint_get, with the uri as _fix_endpoint_uri leaves it.)
Available(uri) == {i \in Slots : ~endpoints[i].active \/ endpoints[i].uri = uri}

\* Mutant: an endpoint that is set again is counted again.
EndpointGetCounting(uri, next) ==
  /\ Starts
  /\ Available(uri) # {}
  /\ \E i \in {FirstOf(Available(uri))} :
       /\ owner' = [next EXCEPT !.slot = i, !.uri = uri]
       /\ count' = count + 1
       /\ endpoints' = IF endpoints[i].active THEN endpoints
                       ELSE [endpoints EXCEPT ![i] = [FreeSlot EXCEPT !.uri = uri]]
  /\ UNCHANGED <<fallback, defaults, book, thread, fault>>

\* _endpoint_get: a new endpoint is counted before anybody can be sent to it.
\* With no slot left the caller returns -3.
EndpointGet(uri, next) ==
  /\ Starts
  /\ Available(uri) # {}
  /\ \E i \in {FirstOf(Available(uri))} :
       /\ owner' = [next EXCEPT !.slot = i, !.uri = uri]
       /\ IF endpoints[i].active
          THEN UNCHANGED <<endpoints, count>>
          ELSE /\ endpoints' = [endpoints EXCEPT ![i] = [FreeSlot EXCEPT !.uri = uri]]
               /\ count' = count + 1
  /\ UNCHANGED <<fallback, defaults, book, thread, fault>>

\* fpx_httpserver_create_endpoint, which allows HEAD where GET is allowed.
CreateEndpoint ==
  \E uri \in Uris, methods \in MethodSets, cb \in HttpCallbacks :
    EndpointGet(uri, [NoCall EXCEPT !.doing = "methods", !.http = cb, !.methods =
                        methods \cup (IF "GET" \in methods THEN {"HEAD"} ELSE {})])

CreateEndpointMethods ==
  /\ OwnerReady("methods") /\ Races
  /\ endpoints' = [endpoints EXCEPT ![owner.slot].methods = owner.methods]
  /\ owner' = [owner EXCEPT !.doing = "http"]
  /\ UNCHANGED <<count, fallback, defaults, setters, book, thread, fault>>

CreateEndpointCallback ==
  /\ OwnerReady("http") /\ Races
  /\ endpoints' = [endpoints EXCEPT ![owner.slot].http = owner.http,
                                    ![owner.slot].active = TRUE]
  /\ book' = [book EXCEPT !.uris[owner.uri].methods = owner.methods,
                          !.uris[owner.uri].http = owner.http]
  /\ Returns
  /\ UNCHANGED <<count, fallback, defaults, setters, thread, fault>>

\* fpx_httpserver_create_ws_endpoint.
CreateWsEndpoint ==
  \E uri \in Uris, cb \in WsCallbacks : 
    EndpointGet(uri, [NoCall EXCEPT !.doing = "ws", !.ws = cb])

CreateWsEndpointCallback ==
  /\ OwnerReady("ws") /\ Races
  /\ endpoints' = [endpoints EXCEPT ![owner.slot].ws = owner.ws,
                                    ![owner.slot].active = TRUE]
  /\ book' = [book EXCEPT !.uris[owner.uri].ws = owner.ws]
  /\ Returns
  /\ UNCHANGED <<count, fallback, defaults, setters, thread, fault>>

\* fpx_httpserver_set_default_http_endpoint.
SetDefaultEndpoint ==
  /\ Starts
  /\ \E methods \in MethodSets, cb \in HttpCallbacks :
       /\ fallback' = [fallback EXCEPT !.methods = methods]
       /\ owner' = [NoCall EXCEPT !.doing = "default", !.methods = methods, !.http = cb]
  /\ UNCHANGED <<endpoints, count, defaults, book, thread, fault>>

SetDefaultEndpointCallback ==
  /\ OwnerReady("default") /\ Races
  /\ fallback' = [fallback EXCEPT !.http = owner.http, !.active = TRUE]
  /\ book' = [book EXCEPT !.default.methods = owner.methods, !.default.http = owner.http]
  /\ Returns
  /\ UNCHANGED <<endpoints, count, defaults, setters, thread, fault>>

\* fpx_httpserver_set_default_headers with nothing to set: the headers are
\* freed, and the pointer is kept.
UnsetDefaultHeaders ==
  /\ Starts
  /\ fault' = IF defaults.ptr = "freed" THEN "freed" ELSE fault
  /\ defaults' = [defaults EXCEPT !.ptr = "freed", !.list = <<>>]
  /\ book' = [book EXCEPT !.headers = <<>>]
  /\ UNCHANGED <<endpoints, count, fallback, owner, thread>>

\* fpx_httpserver_set_default_headers.  The block may move.
SetDefaultHeaders ==
  /\ Starts
  /\ \E hs \in HeaderSets : owner' = [NoCall EXCEPT !.doing = "headers", !.headers = hs]
  /\ fault' = IF defaults.ptr = "freed" THEN "freed" ELSE fault
  /\ stale' \in {stale, pc = "defaults"}
  /\ UNCHANGED <<server, book, pc, req, res, found, calls, conn, rest>>

\* Nothing ends the headers in their block: what the old ones have left behind
\* the new ones may be read as more of them.
SetDefaultHeadersWritten ==
  /\ OwnerReady("headers") /\ Races
  /\ \E behind \in {<<>>, SubSeq(defaults.list, Len(owner.headers) + 1, Len(defaults.list))} :
       defaults' = [defaults EXCEPT !.list = owner.headers, !.behind = behind]
  /\ book' = [book EXCEPT !.headers = owner.headers]
  /\ Returns
  /\ UNCHANGED <<endpoints, count, fallback, setters, thread, fault>>

Owner ==
  \/ CreateEndpoint \/ CreateEndpointMethods \/ CreateEndpointCallback
  \/ CreateWsEndpoint \/ CreateWsEndpointCallback
  \/ SetDefaultEndpoint \/ SetDefaultEndpointCallback
  \/ UnsetDefaultHeaders \/ SetDefaultHeaders \/ SetDefaultHeadersWritten

-----------------------------------------------------------------------------
(* A request is received and parsed. *)

At(p) == pc = p /\ fault = "no"

\* What can be read of the request, of which recv() may not have returned everything.
Received(x) ==
  CASE x.cut = "line"    -> [RequestOf[x.request] EXCEPT !.line = FALSE]
    [] x.cut = "headers" -> [RequestOf[x.request] EXCEPT !.headers = <<>>]
    [] OTHER             -> RequestOf[x.request]

\* The first thing that goes wrong ends it all.
First(old, new) == IF old = "no" THEN new ELSE old

\* What goes wrong in a message of the thread goes wrong for all.
CheckedAfter(wrong) == fault' = First(First(wrong, Broken(req'.content)), Broken(res'.content))
Checked == CheckedAfter(fault)

\* _http_handle_client returns, and its variables are gone.
Returned ==
  /\ pc' = "idle"
  /\ req' = NewRequest /\ res' = NewResponse
  /\ found' = 0 /\ stale' = FALSE /\ calls' = 0

Notes(what) == causes' = causes \cup what

\* Which of the n allocations of a step is refused, or 0: one of an exchange.
Refusals(n) == IF "refused" \in causes \/ ~MoreMayHappen THEN {0} ELSE 0 .. n

RefusedIn(refused) == IF refused = 0 THEN {} ELSE {"refused"}

\* A length that was read with more behind it than the client has sent.
GuessedIn(guess) == IF guess = 0 THEN {} ELSE {"guessed"}

\* What header h of a response keeps the server from deciding.
Decides(h) == Parts[h].seen \cap {"content-length", "connection"}

(***************************************************************************)
(* _http_handle_client up to the default headers: one recv(), whatever it  *)
(* returns is taken for a request.                                         *)
(***************************************************************************)
Receive ==
  /\ At("idle") /\ conn = "open"
  /\ \E r \in RequestNames, cut \in {"no", "line", "headers", "body"} :
       /\ cut = "headers" => RequestOf[r].headers # <<>>
       /\ cut = "body" => Lookup(RequestOf[r].headers, "content-length").number > 0
       /\ rest => cut = "line"
       /\ cut # "no" => rest \/ MoreMayHappen
       /\ rest' = (~rest /\ cut # "no")
       /\ exchange' = [NewExchange EXCEPT !.request = r, !.cut = cut,
                                              !.owed = IF rest THEN 0 ELSE 1]
       /\ causes' = (IF rest \/ cut # "no" THEN {"split"} ELSE {})
                    \cup (IF owner.doing # "nothing" THEN {"raced"} ELSE {})
  /\ pc' = "defaults"
  /\ UNCHANGED <<admin, req, res, found, stale, calls, conn, fault>>

\* The client is gone.
HungUp ==
  /\ At("idle") /\ conn = "open"
  /\ conn' = "closed"
  /\ exchange' = NewExchange /\ causes' = {}
  /\ UNCHANGED <<admin, pc, req, res, found, stale, calls, rest, fault>>

\* _apply_default_headers, from the pointer that was read before.
ApplyDefaultHeaders ==
  /\ At("defaults")
  /\ \E hs \in {defaults.list \o defaults.behind} :
       \E refused \in Refusals(Len(hs)) :
         \E c \in {NewHeaders(hs, refused)} :
           /\ refused # 0 => c.headers.ptr = "null"
           /\ res' = [res EXCEPT !.content = c]
           /\ exchange' = [exchange EXCEPT !.current = (c.list = book.headers)]
           /\ Notes(RefusedIn(refused) \cup UNION {Decides(hs[i]) : i \in DOMAIN hs})
  /\ fault' = IF stale \/ defaults.ptr = "freed" THEN "freed" ELSE fault
  /\ pc' = "parse"
  /\ UNCHANGED <<admin, req, found, stale, calls, conn, rest>>

\* The length of a body.  Its text is read into a variable that is not initialised,
\* and is not ended: what that held is a guess, which counts alone when the header
\* is hidden.
BodyLength(told, guess) ==
  CASE told.ret = "missing" -> 0
    [] told.ret # "missing" ->
         IF told.number < 0 THEN told.number - guess ELSE told.number + guess

\* The body of a request.  As a size a negative length is more than there is: no
\* block is granted for it ...
WithBody(c, n, granted) == IF n < 0 THEN c ELSE AppendBody(c, n, granted)

\* What read_buffer has room for behind the headers of request r.
BodyRoom(r) == ReadSize - 1 - Len(r.headers)

\* ... unless rounding it up makes it zero, a block that nothing fits in.  As many
\* bytes as the length says are copied, whatever read_buffer holds.
CopyBreak(r, n, granted) ==
  IF ~granted \/ n <= -Block THEN "no"
  ELSE IF n < 0 THEN "overflow" ELSE IF n > BodyRoom(r) THEN "overread" ELSE "no"

\* SET_HTTPRESPONSE_PRESET: a status, its reason and a body of n.
Preset(p, status, n, granted) ==
  [p EXCEPT !.status = status, !.content = AppendBody(@, n, granted)]

\* _is_upgradable, of a method, a version and the headers hs.
IsUpgradable(method, version, hs) ==
  /\ method = "GET" /\ version = "1.1"
  /\ Lookup(hs, "connection").value = "Upgrade"
  /\ Lookup(hs, "upgrade").value = "websocket"
  /\ Lookup(hs, "sec-websocket-version").number = 13

NeedsLength == {"POST", "PUT", "PATCH"}

\* The versions that are served: only the first character is looked at.
VersionsOne == {"1.0", "1.1", "1.x"}

\* The status a request gets before any endpoint is looked for, or 0.
EarlyStatus(r, c, told) ==
  CASE r.version \notin VersionsOne -> 505
    [] r.version \in VersionsOne ->
         IF c.headers.ptr = "null" /\ r.headers # <<>> THEN 400
         ELSE IF told.ret = "missing" /\ r.method \in NeedsLength THEN 411 ELSE 0

Refuse(status, n, granted) ==
  IF status = 0 THEN UNCHANGED res ELSE res' = Preset(res, status, n, granted)

(***************************************************************************)
(* _http_parse_request and _http_handle_client up to the endpoints.  The   *)
(* version is looked at before the result of the parser, which has set no  *)
(* version if it could not read the request line.                          *)
(***************************************************************************)
ParseNoLine ==
  /\ At("parse") /\ ~Received(exchange).line
  /\ \E refused \in Refusals(1) :
       /\ Refuse(505, 1, refused = 0)
       /\ Notes(RefusedIn(refused))
  /\ pc' = "respond"
  /\ UNCHANGED req /\ Checked
  /\ UNCHANGED <<admin, found, stale, calls, conn, rest, exchange>>

Parse ==
  /\ At("parse") /\ Received(exchange).line
  /\ \E r \in {Received(exchange)}, guess \in Guesses :
     \E refused \in Refusals(Len(r.headers) + 2) :
     \E c \in {NewHeaders(r.headers, refused)} :
     \E told \in {GetHeader(c, "content-length")} :
     \E n \in {BodyLength(told, guess)}, status \in {EarlyStatus(r, c, told)} :
       /\ refused \in DOMAIN r.headers => c.headers.ptr = "null"
       /\ told.ret = "missing" => guess = 0
       /\ req' = [line |-> TRUE, method |-> r.method, uri |-> r.uri, version |-> r.version,
                  content |-> WithBody(c, n, refused # Len(r.headers) + 1)]
       /\ Refuse(status, IF status = 505 THEN 1 ELSE 0, refused # Len(r.headers) + 2)
       /\ pc' = IF IsUpgradable(r.method, r.version, c.list) THEN "scan"
                ELSE IF status > 0 THEN "respond" ELSE "find"
       /\ Notes(RefusedIn(refused) \cup GuessedIn(guess))
       /\ CheckedAfter(CopyBreak(r, n, refused # Len(r.headers) + 1))
  /\ UNCHANGED <<admin, found, stale, calls, conn, rest, exchange>>

-----------------------------------------------------------------------------
(* The endpoint of a request. *)

\* The slots that are looked at for an upgrade: up to the first that is not in
\* use, which is looked at as well.
Scanned == {i \in Slots : \A j \in 1 .. i - 1 : endpoints[j].active}

Matches == {i \in Scanned : endpoints[i].uri = req.uri}
Keyed   == GetHeader(req.content, "sec-websocket-key").ret = "found"

\* A request to be a WebSocket session.
Upgrade ==
  /\ At("scan") /\ (Matches = {} \/ Keyed)
  /\ \E refused \in Refusals(Len(UpgradeHeaders)) :
       /\ res' = IF Matches = {} THEN Preset(res, 404, 0, TRUE)
                 ELSE [status |-> 101,
                       content |-> AddHeaders(res.content, UpgradeHeaders, refused)]
       /\ exchange' = [exchange EXCEPT !.ws = IF Matches = {} THEN @
                                              ELSE endpoints[FirstOf(Matches)].ws]
       /\ Notes(RefusedIn(refused))
  /\ pc' = "respond"
  /\ UNCHANGED req /\ Checked
  /\ UNCHANGED <<admin, found, stale, calls, conn, rest>>

\* Mutant: the key is looked at before the endpoint.
UpgradeWithoutKeyEarly ==
  /\ At("scan") /\ ~Keyed
  /\ exchange' = [exchange EXCEPT !.leaks = Leaks(req.content) \/ Leaks(res.content)]
  /\ Returned
  /\ UNCHANGED <<admin, conn, rest, causes, fault>>

\* Without a key the request is left alone: neither answered nor freed.
UpgradeWithoutKey ==
  /\ At("scan") /\ Matches # {} /\ ~Keyed
  /\ exchange' = [exchange EXCEPT !.leaks = Leaks(req.content) \/ Leaks(res.content)]
  /\ Returned
  /\ UNCHANGED <<admin, conn, rest, causes, fault>>

\* _handle_http_endpoint looks for the endpoint ...
FindEndpoint ==
  /\ At("find")
  /\ \E matches \in {{i \in Slots : i <= count /\ endpoints[i].uri = req.uri}} :
       found' = CASE matches # {} -> FirstOf(matches)
                  [] matches = {} /\ fallback.active -> DefaultSlot
                  [] matches = {} /\ ~fallback.active -> 0
  /\ pc' = "check"
  /\ UNCHANGED <<admin, req, res, stale, calls, conn, rest, exchange, causes, fault>>

Found == IF found = DefaultSlot THEN fallback
         ELSE IF found = 0 THEN FreeSlot ELSE endpoints[found]

\* ... decides whether it may be called ...
CheckStatus(e, method) ==
  CASE e.http = None -> 404
    [] e.http # None -> IF method \in e.methods THEN 200 ELSE 405

CheckEndpoint ==
  /\ At("check")
  /\ \E status \in {CheckStatus(Found, req.method)} :
       /\ res' = Preset(res, status, 0, TRUE)
       /\ pc' = IF status = 200 THEN "call" ELSE "keepalive"
  /\ UNCHANGED <<admin, req, found, stale, calls, conn, rest, exchange, causes, fault>>

\* ... and calls what its callback is by now.
CallEndpoint ==
  /\ At("call")
  /\ exchange' = [exchange EXCEPT !.ran = Found.http]
  /\ fault' = IF Found.http = None THEN "null" ELSE fault
  /\ pc' = "callback"
  /\ UNCHANGED <<admin, req, res, found, stale, calls, conn, rest, causes>>

-----------------------------------------------------------------------------
(* The callback of the program, which has both messages to itself. *)

Calls ==
  /\ At("callback") /\ calls < MaxCalls /\ MoreMayHappen
  /\ calls' = calls + 1
  /\ UNCHANGED <<admin, pc, found, stale, conn, rest, exchange>>

\* fpx_httpresponse_add_header.
CallbackAddsHeader ==
  /\ Calls
  /\ \E h \in CallbackHeaders, refused \in Refusals(1) :
       /\ res' = [res EXCEPT !.content = AddHeader(@, h, refused = 0)]
       /\ Notes(RefusedIn(refused) \cup Decides(h))
  /\ UNCHANGED req /\ Checked

\* fpx_httpresponse_append_body.
CallbackAppends ==
  /\ Calls
  /\ \E n \in 1 .. Block, refused \in Refusals(1) :
       /\ res.content.body.len + n <= Longest
       /\ res' = [res EXCEPT !.content = AppendBody(@, n, refused = 0)]
       /\ Notes(RefusedIn(refused))
  /\ UNCHANGED req /\ Checked

\* The status is a field of the response.
CallbackSetsStatus ==
  /\ Calls
  /\ res' = [res EXCEPT !.status = 429]
  /\ UNCHANGED <<req, causes, fault>>

\* fpx_httprequest_copy of the request, and fpx_httprequest_destroy of the copy.
CallbackCopies ==
  /\ Calls
  /\ \E refused \in {"no", "headers", "body"} :
       /\ refused = "headers" => req.content.headers.allocated > 0
       /\ refused = "body" => req.content.body.allocated > 0
       /\ fault' = First(fault, Broken(Destroy(CopyContent(req.content, refused))))
       /\ Notes(IF refused = "no" THEN {} ELSE {"refused"})
  /\ UNCHANGED <<req, res>>

\* fpx_httpresponse_destroy, to begin anew.
CallbackDestroys ==
  /\ Calls
  /\ res' = [res EXCEPT !.content = Destroy(@)]
  /\ Notes({"destroyed"})
  /\ UNCHANGED req /\ Checked

Callback ==
  \/ CallbackAddsHeader \/ CallbackAppends \/ CallbackSetsStatus
  \/ CallbackCopies \/ CallbackDestroys

-----------------------------------------------------------------------------
(* The response. *)

Missing(c, key) == GetHeader(c, key).ret = "missing"

KeepsWhen(version, asked) ==
  asked = "keep-alive" \/ (version # "1.0" /\ asked # "close")
Keeps(q) == KeepsWhen(q.version, GetHeader(q.content, "connection").value)

\* The headers that _set_keepalive adds.
Keeping(keeps) ==
  (IF ~Missing(res.content, "connection") THEN <<>>
   ELSE IF keeps THEN <<KeepHeader>> ELSE <<CloseHeader>>)
  \o (IF Missing(res.content, "keep-alive") /\ keeps THEN <<KeepAlive>> ELSE <<>>)

\* _set_keepalive: what the request says of its connection outweighs its version.
SetKeepalive ==
  /\ At("keepalive") \/ At("callback")
  /\ \E hs \in {Keeping(Keeps(req))} :
       \E refused \in Refusals(Len(hs)) :
         /\ res' = [res EXCEPT !.content = AddHeaders(@, hs, refused)]
         /\ Notes(RefusedIn(refused))
  /\ pc' = "respond"
  /\ UNCHANGED req /\ Checked
  /\ UNCHANGED <<admin, found, stale, calls, conn, rest, exchange>>

\* Mutant: the connection is closed for a status alone.
ClosingByStatus(p) == p.status = 429

\* Whether _on_response_ready closes the connection.
Closing(p) ==
  IF Missing(p.content, "connection") THEN p.status = 429
  ELSE GetHeader(p.content, "connection").value = "close"

\* The headers that it and _send_response add.
Completing(p) ==
  (IF ~Missing(p.content, "connection") THEN <<>>
   ELSE IF p.status = 429 THEN <<CloseHeader>> ELSE <<KeepHeader, KeepAlive>>)
  \o (IF Missing(p.content, "content-length") THEN <<LengthHeaders[p.content.body.len]>>
      ELSE <<>>)

\* What the client is told, which finds the headers of a key by their lines.
Heard(h) == IF h.ret = "found" THEN h.value ELSE h.ret
Told(c, key) == Heard(Lookup(c.list, key))

\* _send_response: whether anything is sent.  A body is sent in pieces until
\* the length that the headers tell is reached, the headers with the first.
Bodied(q, c) == c.body.len > 0 /\ q.method # "HEAD"
Sends(q, c)  == Bodied(q, c) => GetHeader(c, "content-length").number > 0

SendBreak(q, c) ==
  CASE c.headers.ptr # "live" /\ c.headers.len > 0 -> c.headers.ptr
    [] c.headers.ptr = "live" \/ c.headers.len = 0 ->
         IF ~Bodied(q, c) \/ GetHeader(c, "content-length").number <= c.body.size THEN "no"
         ELSE IF c.body.ptr = "null" THEN "null" ELSE "overflow"

\* _on_response_ready up to the sending.
OnResponseReady ==
  /\ At("respond")
  /\ \E hs \in {Completing(res)} :
       \E refused \in Refusals(Len(hs)) :
         /\ res' = [res EXCEPT !.content = AddHeaders(@, hs, refused)]
         /\ exchange' = [exchange EXCEPT !.closing = Closing(res)]
         /\ Notes(RefusedIn(refused))
  /\ pc' = "send"
  /\ UNCHANGED req /\ Checked
  /\ UNCHANGED <<admin, found, stale, calls, conn, rest>>

(***************************************************************************)
(* The rest of _on_response_ready and of _http_handle_client: the response *)
(* is sent, the connection is closed or not, both messages are destroyed.  *)
(* _upgrade_to_ws follows for an upgrade: the index of a connection that   *)
(* was closed is another connection's when it is used ("index").           *)
(***************************************************************************)
\* What goes wrong while sending, or else with the connection, or when the messages
\* are destroyed.
SendFault(closing, left) ==
  IF SendBreak(req, res.content) # "no" THEN {SendBreak(req, res.content)}
  ELSE IF closing /\ res.status = 101 THEN {"index"}
  ELSE {Broken(c) : c \in left} \ (IF \A c \in left : Broken(c) = "no" THEN {} ELSE {"no"})

SendResponse ==
  /\ At("send")
  /\ \E broken \in BOOLEAN, sent \in {Sends(req, res.content)},
        left \in {{Destroy(req.content), Destroy(res.content)}} :
       \E closing \in {exchange.closing \/ (broken /\ sent)} :
         /\ exchange' = [exchange EXCEPT !.status = res.status,
                           !.connection = Told(res.content, "connection"),
                           !.broken = broken, !.answers = IF sent THEN 1 ELSE 0,
                           !.closing = closing, !.leaks = \E c \in left : Leaks(c)]
         /\ fault' \in SendFault(closing, left)
         /\ conn' = IF closing THEN "closed"
                    ELSE IF res.status = 101 THEN "upgraded" ELSE conn
  /\ Returned
  /\ UNCHANGED <<admin, rest, causes>>

Respond == SetKeepalive \/ OnResponseReady \/ SendResponse

-----------------------------------------------------------------------------
Next ==
  \/ Owner
  \/ Receive \/ HungUp \/ ApplyDefaultHeaders \/ ParseNoLine \/ Parse
  \/ Upgrade \/ UpgradeWithoutKey \/ FindEndpoint \/ CheckEndpoint \/ CallEndpoint
  \/ Callback \/ Respond

Spec == Init /\ [][Next]_vars

-----------------------------------------------------------------------------
(* Properties. *)

TypeOK ==
  /\ endpoints \in [Slots -> [active : BOOLEAN, uri : Uris \cup {None},
                              methods : SUBSET STRING, http : HttpCallbacks \cup {None},
                              ws : WsCallbacks \cup {None}]]
  /\ count = Cardinality({i \in Slots : endpoints[i].uri # None})
  /\ fallback.http \in HttpCallbacks \cup {None}
  /\ defaults.ptr \in {"live", "freed"}
  /\ setters \in 0 .. MaxSetters /\ calls \in 0 .. MaxCalls
  /\ pc \in {"idle", "defaults", "parse", "scan", "find", "check", "call", "callback",
             "keepalive", "respond", "send"}
  /\ \A c \in {req.content, res.content} :
       c.headers \in Buffers /\ c.body \in Buffers
  /\ res.status \in {0, 101, 200, 400, 404, 405, 411, 429, 505}
  /\ found \in 0 .. DefaultSlot
  /\ stale \in BOOLEAN /\ rest \in BOOLEAN
  /\ conn \in {"open", "closed", "upgraded"}
  /\ causes \subseteq {"split", "raced", "refused", "destroyed", "guessed",
                 "content-length", "connection"}
  /\ fault \in (Wrongs \ {"lost"}) \cup {"index", "overread"}

\* The thread has dealt with a request, and nothing of it is left to do.
Settled == pc = "idle" /\ fault = "no" /\ exchange.request # None

\* The request asks for a session, without a key, and there is an endpoint for it.
Keyless(r) ==
  /\ r.line /\ IsUpgradable(r.method, r.version, r.headers)
  /\ Lookup(r.headers, "sec-websocket-key").ret # "found"
  /\ "raced" \in causes \/ book.uris[r.uri] # Unbooked

\* The length of its body, as the request says it.
Claimed(r) == Lookup(r.headers, "content-length").number

(***************************************************************************)
(* Memory is used as long as it is there and as far as it goes, whatever   *)
(* the owner and the callback do, except: after the default headers have   *)
(* been unset, or while they are set; after a callback has destroyed its   *)
(* response; after a refused allocation; with a length the callback has    *)
(* made up; with a request that says it is longer than what the server     *)
(* can receive of it, or less than nothing, which nobody checks, or whose  *)
(* length was read with more behind it; and after a connection has been    *)
(* closed with its upgrade still to come.  What is allocated is freed,     *)
(* except for a request without a key.                                     *)
(* (http.c:463-732, httpserver.c:288-333, 1340-1353, 1533-1674.)           *)
(***************************************************************************)
MemoryIsSound ==
  /\ fault = "freed" =>
       defaults.ptr = "freed" \/ causes \cap {"raced", "destroyed"} # {}
  /\ fault = "null" => "refused" \in causes
  /\ fault = "overflow" => "content-length" \in causes \/ Claimed(Received(exchange)) < 0
  /\ fault = "overread" =>
       \/ "guessed" \in causes
       \/ Claimed(Received(exchange)) > BodyRoom(Received(exchange))
  /\ fault = "index" => exchange.broken \/ "connection" \in causes
  /\ exchange.leaks => Keyless(Received(exchange)) \/ "refused" \in causes

(***************************************************************************)
(* A request is answered once: not when it comes in pieces, each of which  *)
(* is taken for a request; not for an upgrade without a key; and not when  *)
(* the length is told by somebody else than the server.                    *)
(* (_http_handle_client and _send_response.)                               *)
(***************************************************************************)
AnsweredOnce ==
  Settled =>
    \/ exchange.answers = exchange.owed
    \/ causes \cap {"split", "content-length", "refused"} # {}
    \/ Keyless(Received(exchange))

\* What a request should come to, by the calls the owner has made.
Comes(status, ran, ws) == [status |-> status, ran |-> ran, ws |-> ws]

RightlyServed(r, entry) ==
  IF entry.http = None THEN Comes(404, None, None)
  ELSE IF r.method \in entry.methods THEN Comes(200, entry.http, None)
  ELSE Comes(405, None, None)

RightlyAt(r, entry) ==
  CASE ~r.line \/ r.version \notin VersionsOne -> Comes(505, None, None)
    [] r.line /\ r.version \in VersionsOne ->
         IF IsUpgradable(r.method, r.version, r.headers)
         THEN IF entry = Unbooked THEN Comes(404, None, None) ELSE Comes(101, None, entry.ws)
         ELSE IF r.method \in NeedsLength /\ Lookup(r.headers, "content-length").ret = "missing"
         THEN Comes(411, None, None)
         ELSE RightlyServed(r, IF entry # Unbooked THEN entry ELSE book.default)

Rightly(r) == RightlyAt(r, IF r.uri \in Uris THEN book.uris[r.uri] ELSE Unbooked)

(***************************************************************************)
(* A request that nothing is set up during comes to what has been set up,  *)
(* however the table got there: the slots, their count and the order of    *)
(* the checks are a map from uri to endpoint.  The default headers are the *)
(* ones set last, unless longer ones were set before.                      *)
(* (httpserver.c:383-443, 760-826, 1028-1066, 1254-1357, 1550-1578.)       *)
(***************************************************************************)
DispatchIsRight ==
  (Settled /\ causes \cap {"raced", "refused"} = {} /\ exchange.status # 0) =>
    \E right \in {Rightly(Received(exchange))} :
      /\ exchange.ran = right.ran /\ exchange.ws = right.ws
      /\ exchange.ran = None => exchange.status = right.status
      /\ exchange.current \/ defaults.behind # <<>>

(***************************************************************************)
(* A response tells what becomes of its connection, whoever has set the    *)
(* header, as long as no other header gets in its way; and a client that   *)
(* asked to close is closed, unless the request never got to an endpoint   *)
(* or something else decided.  (_set_keepalive and _on_response_ready,     *)
(* httpserver.c:981-1026 and 1068-1113.)                                   *)
(***************************************************************************)
ToldIsDone ==
  (Settled /\ exchange.answers = 1 /\ ~exchange.broken /\ "refused" \notin causes) =>
    /\ exchange.connection # "missing"
    /\ exchange.connection # "hidden" =>
         (conn = "closed" <=> exchange.connection = "close")
    /\ (/\ Lookup(Received(exchange).headers, "connection").value = "close"
        /\ exchange.status \notin {400, 411, 505} /\ "connection" \notin causes)
       => conn = "closed"
=============================================================================
