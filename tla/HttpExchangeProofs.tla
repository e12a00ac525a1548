---------------------------- MODULE HttpExchangeProofs ----------------------------
(***************************************************************************)
(* TLAPS proofs about HttpExchange.  They come in layers, each with an     *)
(* inductive invariant that the next ones build on: what the owner has set *)
(* up, what the two messages of a request hold, where the request is sent, *)
(* and what the client is told.                                            *)
(***************************************************************************)
EXTENDS HttpExchange, HttpContentProofs, FiniteSetTheorems

-----------------------------------------------------------------------------
(* What the owner has set up. *)

SlotRecords == [active : BOOLEAN, uri : Uris \cup {None}, methods : SUBSET STRING,
                http : HttpCallbacks \cup {None}, ws : WsCallbacks \cup {None}]
Doings      == {"nothing", "methods", "http", "ws", "default", "headers"}
CallRecords == [doing : Doings, slot : 0 .. MaxEndpoints, uri : Uris \cup {None},
                methods : SUBSET STRING, http : HttpCallbacks \cup {None},
                ws : WsCallbacks \cup {None}, headers : Seq(DOMAIN Lines)]
Entries     == [methods : SUBSET STRING, http : HttpCallbacks \cup {None},
                ws : WsCallbacks \cup {None}]
Books       == [uris : [Uris -> Entries], default : Entries, headers : Seq(DOMAIN Lines)]

\* The owner is in the middle of setting up an endpoint of the table.
Filling == owner.doing \in {"methods", "http", "ws"}

SetupTyped ==
  /\ endpoints \in [Slots -> SlotRecords]
  /\ count \in 0 .. MaxEndpoints
  /\ fallback \in SlotRecords
  /\ defaults \in [ptr : {"live", "freed"}, list : Seq(DOMAIN Lines), behind : Seq(DOMAIN Lines)]
  /\ owner \in CallRecords
  /\ setters \in 0 .. MaxSetters
  /\ book \in Books

\* The slots in use come first, and the one being filled is among them.
TableFilled ==
  /\ \A i \in Slots : IF i <= count THEN endpoints[i].uri # None ELSE endpoints[i] = FreeSlot
  /\ \A i \in Slots : i <= count /\ ~endpoints[i].active => Filling /\ owner.slot = i
  /\ \A i \in Slots, j \in Slots :
       i <= count /\ j <= count /\ endpoints[i].uri = endpoints[j].uri => i = j

\* What is between two steps of a call of the owner.
CallUnderWay ==
  /\ Filling => /\ owner.slot \in Slots /\ owner.slot <= count
                /\ owner.uri = endpoints[owner.slot].uri /\ owner.uri # None
  /\ owner.doing \in {"methods", "http", "default"} => owner.http # None
  /\ owner.doing = "ws" => owner.ws # None
  /\ owner.doing = "http" => endpoints[owner.slot].methods = owner.methods
  /\ owner.doing = "default" => fallback.methods = owner.methods

\* The book has what the table has, but for the call that is under way.
BookAgrees ==
  /\ \A i \in Slots :
       i <= count =>
         /\ book.uris[endpoints[i].uri].http = endpoints[i].http
         /\ book.uris[endpoints[i].uri].ws = endpoints[i].ws
         /\ \/ book.uris[endpoints[i].uri].methods = endpoints[i].methods
            \/ owner.doing = "http" /\ owner.slot = i
         /\ endpoints[i].active => endpoints[i].http # None \/ endpoints[i].ws # None
  /\ \A u \in Uris : (\A i \in Slots : i <= count => endpoints[i].uri # u)
                       => book.uris[u] = Unbooked
  /\ book.default.http = fallback.http
  /\ book.default.methods = fallback.methods \/ owner.doing = "default"
  /\ fallback.active <=> fallback.http # None
  /\ book.headers = defaults.list \/ owner.doing = "headers"

Setup == SetupTyped /\ TableFilled /\ CallUnderWay /\ BookAgrees

LEMMA ServerLine ==
  ASSUME NEW own \in OwnLines
  PROVE  /\ Line(own[1], own[2]) \in DOMAIN Lines
         /\ Lines[Line(own[1], own[2])].key = own[1]
         /\ Lines[Line(own[1], own[2])].value = own[2]
         /\ Lines[Line(own[1], own[2])].within = {}
BY OwnLinesAssumption DEF Line

\* The records that are written whole, or from which others are made.
LEMMA RecordsTyped ==
  /\ FreeSlot \in SlotRecords /\ NoCall \in CallRecords /\ Unbooked \in Entries
  /\ \A uri \in Uris : [FreeSlot EXCEPT !.uri = uri] \in SlotRecords
<1>1. {} \in SUBSET STRING /\ <<>> \in Seq(DOMAIN Lines) /\ 0 \in 0 .. MaxEndpoints
  BY EndpointsAssumption
<1>2. FreeSlot \in SlotRecords /\ Unbooked \in Entries
  BY <1>1 DEF FreeSlot, Unbooked, SlotRecords, Entries
<1>3. NoCall \in CallRecords
  BY <1>1 DEF NoCall, CallRecords, Doings
<1>4. ASSUME NEW uri \in Uris PROVE [FreeSlot EXCEPT !.uri = uri] \in SlotRecords
  BY <1>2 DEF SlotRecords
<1> QED
  BY <1>2, <1>3, <1>4

LEMMA InitSetup == Init => Setup
<1> SUFFICES ASSUME Init PROVE Setup
  OBVIOUS
<1>1. <<ServerHeader>> \in Seq(DOMAIN Lines)
  <2>1. <<"server", "fpx_http">> \in OwnLines
    BY DEF OwnLines
  <2> QED
    BY <2>1, ServerLine DEF ServerHeader
<1>2. MaxEndpoints \in Nat /\ MaxSetters \in Nat
  BY EndpointsAssumption, ExchangeBoundsAssumption
<1>3. SetupTyped
  BY <1>1, <1>2, RecordsTyped DEF Init, SetupTyped, Books
<1>4. TableFilled /\ CallUnderWay /\ BookAgrees
  BY <1>1, EndpointsAssumption
  DEF Init, TableFilled, CallUnderWay, BookAgrees, Filling, NoCall, FreeSlot, Unbooked, Slots
<1> QED
  BY <1>3, <1>4 DEF Setup

\* The call that begins to fill a slot has taken the uri's slot or the first free one.
LEMMA EndpointGetSetup ==
  ASSUME Setup, NEW uri \in Uris, NEW next, EndpointGet(uri, next),
         next \in CallRecords, next.doing \in {"methods", "ws"},
         next.doing = "methods" => next.http # None,
         next.doing = "ws" => next.ws # None
  PROVE  Setup'
<1> DEFINE i == FirstOf(Available(uri))
<1>1. /\ owner.doing = "nothing" /\ setters < MaxSetters /\ setters' = setters + 1
      /\ UNCHANGED <<fallback, defaults, book>>
  BY DEF EndpointGet, Starts, OwnerReady
<1>2. /\ i \in Slots
      /\ ~endpoints[i].active \/ endpoints[i].uri = uri
      /\ \A j \in Slots : j < i => endpoints[j].active /\ endpoints[j].uri # uri
  <2>1. Available(uri) \in SUBSET Nat /\ Available(uri) # {}
    BY DEF EndpointGet, Available, Slots
  <2>2. PICK m \in Available(uri) : \A k \in Available(uri) : m <= k
    BY <2>1, LeastNumber
  <2>3. i \in Available(uri) /\ \A k \in Available(uri) : i <= k
    BY <2>2 DEF FirstOf
  <2> HIDE DEF i
  <2> QED
    BY <2>1, <2>3 DEF Available, Slots
<1>3. /\ owner' = [next EXCEPT !.slot = i, !.uri = uri]
      /\ IF endpoints[i].active
         THEN UNCHANGED <<endpoints, count>>
         ELSE /\ endpoints' = [endpoints EXCEPT ![i] = [FreeSlot EXCEPT !.uri = uri]]
              /\ count' = count + 1
  BY DEF EndpointGet
<1> HIDE DEF i
<1>4. \A j \in Slots : j <= count => endpoints[j].active
  BY <1>1 DEF Setup, TableFilled, Filling
<1>5. CASE endpoints[i].active
  <2>1. i <= count /\ endpoints[i].uri = uri
    BY <1>2, <1>5 DEF Setup, TableFilled, FreeSlot
  <2>2. /\ owner'.slot = i /\ owner'.uri = uri /\ owner'.doing = next.doing
        /\ owner'.http = next.http /\ owner'.ws = next.ws
        /\ owner'.doing \in {"methods", "ws"}
    BY <1>3 DEF CallRecords
  <2>3. SetupTyped'
    <3>1. i \in 0 .. MaxEndpoints
      BY <1>2, EndpointsAssumption DEF Slots
    <3>2. setters' \in 0 .. MaxSetters
      BY <1>1, ExchangeBoundsAssumption DEF Setup, SetupTyped
    <3>3. owner' \in CallRecords
      BY <1>3, <3>1 DEF CallRecords
    <3> QED
      BY <1>1, <1>3, <1>5, <3>2, <3>3 DEF Setup, SetupTyped
  <2>4. TableFilled'
    BY <1>3, <1>4, <1>5 DEF Setup, TableFilled
  <2>5. CallUnderWay'
    BY <1>2, <1>3, <1>5, <2>1, <2>2, EndpointsAssumption DEF CallUnderWay, Filling
  <2>6. BookAgrees'
    BY <1>1, <1>3, <1>5, <2>2 DEF Setup, BookAgrees
  <2> QED
    BY <2>3, <2>4, <2>5, <2>6 DEF Setup
<1>6. CASE ~endpoints[i].active
  <2>1. i = count + 1 /\ \A j \in Slots : j <= count => endpoints[j].uri # uri
    <3>1. i > count
      BY <1>2, <1>4, <1>6 DEF Setup, SetupTyped, Slots
    <3>2. \A j \in Slots : j > count => ~endpoints[j].active
      BY DEF Setup, SetupTyped, TableFilled, FreeSlot, Slots
    <3>3. i \in Nat /\ i <= MaxEndpoints /\ MaxEndpoints \in Nat /\ count \in Nat
      BY <1>2, EndpointsAssumption DEF Setup, SetupTyped, Slots
    <3>4. count + 1 \in Slots /\ count + 1 > count
      BY <3>1, <3>3 DEF Slots
    <3>5. ~(count + 1 < i)
      BY <1>2, <3>2, <3>4
    <3>6. i = count + 1
      BY <3>1, <3>3, <3>5
    <3>7. \A j \in Slots : j <= count => j < i
      BY <3>3, <3>6 DEF Slots
    <3> QED
      BY <1>2, <3>6, <3>7
  <2> DEFINE slot == [active |-> FALSE, uri |-> uri, methods |-> {}, http |-> None, ws |-> None]
  <2>2. /\ endpoints' = [endpoints EXCEPT ![i] = slot]
        /\ count' = count + 1
    BY <1>3, <1>6 DEF FreeSlot
  <2>3. /\ owner'.slot = i /\ owner'.uri = uri /\ owner'.doing = next.doing
        /\ owner'.http = next.http /\ owner'.ws = next.ws
        /\ owner'.doing \in {"methods", "ws"}
    BY <1>3 DEF CallRecords
  <2>4. /\ endpoints'[i] = slot
        /\ \A j \in Slots : j # i => endpoints'[j] = endpoints[j]
        /\ \A j \in Slots : j <= count' <=> j <= count \/ j = i
    BY <1>2, <2>1, <2>2 DEF Setup, SetupTyped, Slots
  <2>5. book.uris[uri] = Unbooked
    BY <2>1 DEF Setup, BookAgrees
  <2>6. SetupTyped'
    <3>1. count' \in 0 .. MaxEndpoints /\ setters' \in 0 .. MaxSetters
      BY <1>1, <1>2, <2>1, <2>2, ExchangeBoundsAssumption DEF Setup, SetupTyped, Slots
    <3>2. i \in 0 .. MaxEndpoints
      BY <1>2 DEF Slots
    <3>3. owner' \in CallRecords
      BY <1>3, <3>2 DEF CallRecords
    <3>4. slot \in SlotRecords
      BY DEF SlotRecords
    <3> HIDE DEF slot
    <3> QED
      BY <1>1, <2>2, <3>1, <3>3, <3>4 DEF Setup, SetupTyped
  <2>7. TableFilled'
    BY <1>2, <1>4, <2>1, <2>3, <2>4, EndpointsAssumption DEF Setup, TableFilled, Filling
  <2>8. CallUnderWay'
    BY <1>2, <2>3, <2>4, EndpointsAssumption DEF CallUnderWay, Filling
  <2>9. BookAgrees'
    <3>1. ASSUME NEW j \in Slots, j <= count'
          PROVE  /\ book.uris[endpoints'[j].uri].http = endpoints'[j].http
                 /\ book.uris[endpoints'[j].uri].ws = endpoints'[j].ws
                 /\ book.uris[endpoints'[j].uri].methods = endpoints'[j].methods
                 /\ endpoints'[j].active => endpoints'[j].http # None \/ endpoints'[j].ws # None
      <4>1. CASE j = i
        <5>1. /\ endpoints'[j].uri = uri /\ endpoints'[j].http = None /\ endpoints'[j].ws = None
              /\ endpoints'[j].methods = {} /\ ~endpoints'[j].active
          BY <2>4, <4>1
        <5> QED
          BY <2>5, <5>1 DEF Unbooked
      <4>2. CASE j # i
        <5>1. endpoints'[j] = endpoints[j] /\ j <= count
          BY <2>4, <3>1, <4>2
        <5>2. owner.doing # "http"
          BY <1>1
        <5>3. /\ book.uris[endpoints[j].uri].http = endpoints[j].http
              /\ book.uris[endpoints[j].uri].ws = endpoints[j].ws
              /\ book.uris[endpoints[j].uri].methods = endpoints[j].methods
              /\ endpoints[j].active => endpoints[j].http # None \/ endpoints[j].ws # None
          BY <5>1, <5>2 DEF Setup, BookAgrees
        <5> QED
          BY <1>1, <5>1, <5>3
      <4> QED
        BY <4>1, <4>2
    <3>2. ASSUME NEW u \in Uris, \A j \in Slots : j <= count' => endpoints'[j].uri # u
          PROVE  book.uris[u] = Unbooked
      <4>1. \A j \in Slots : j <= count => endpoints[j].uri # u
        BY <2>1, <2>4, <3>2 DEF Setup, SetupTyped, Slots
      <4> QED
        BY <4>1 DEF Setup, BookAgrees
    <3> QED
      BY <1>1, <2>3, <3>1, <3>2 DEF Setup, BookAgrees
  <2> QED
    BY <2>6, <2>7, <2>8, <2>9 DEF Setup
<1> QED
  BY <1>5, <1>6

LEMMA OwnerSetup ==
  ASSUME Setup, Owner
  PROVE  Setup'
<1>1. CASE CreateEndpoint
  <2>1. PICK uri \in Uris, methods \in MethodSets, cb \in HttpCallbacks :
          EndpointGet(uri, [NoCall EXCEPT !.doing = "methods", !.http = cb, !.methods =
                              methods \cup (IF "GET" \in methods THEN {"HEAD"} ELSE {})])
    BY <1>1 DEF CreateEndpoint
  <2> DEFINE next == [NoCall EXCEPT !.doing = "methods", !.http = cb, !.methods =
                        methods \cup (IF "GET" \in methods THEN {"HEAD"} ELSE {})]
  <2>2. methods \cup (IF "GET" \in methods THEN {"HEAD"} ELSE {}) \in SUBSET STRING
    <3>1. methods \in SUBSET STRING
      BY EndpointsAssumption
    <3>2. {"HEAD"} \in SUBSET STRING
      BY EndpointsAssumption
    <3> QED
      BY <3>1, <3>2
  <2>3. next \in CallRecords
    BY <2>2, RecordsTyped DEF CallRecords, Doings
  <2>4. next.doing = "methods" /\ next.http # None
    BY EndpointsAssumption, RecordsTyped DEF CallRecords
  <2> HIDE DEF next
  <2> QED
    BY <2>1, <2>3, <2>4, EndpointGetSetup DEF next
<1>2. CASE CreateWsEndpoint
  <2>1. PICK uri \in Uris, cb \in WsCallbacks :
          EndpointGet(uri, [NoCall EXCEPT !.doing = "ws", !.ws = cb])
    BY <1>2 DEF CreateWsEndpoint
  <2> DEFINE next == [NoCall EXCEPT !.doing = "ws", !.ws = cb]
  <2>2. next \in CallRecords
    BY RecordsTyped DEF CallRecords, Doings
  <2>3. next.doing = "ws" /\ next.ws # None
    BY EndpointsAssumption, RecordsTyped DEF CallRecords
  <2> HIDE DEF next
  <2> QED
    BY <2>1, <2>2, <2>3, EndpointGetSetup DEF next
<1>3. CASE CreateEndpointMethods
  <2>1. /\ owner.doing = "methods" /\ owner' = [owner EXCEPT !.doing = "http"]
        /\ endpoints' = [endpoints EXCEPT ![owner.slot].methods = owner.methods]
        /\ UNCHANGED <<count, fallback, defaults, setters, book>>
    BY <1>3 DEF CreateEndpointMethods, OwnerReady
  <2>2. /\ owner.slot \in Slots
        /\ endpoints'[owner.slot] = [endpoints[owner.slot] EXCEPT !.methods = owner.methods]
        /\ \A j \in Slots : j # owner.slot => endpoints'[j] = endpoints[j]
    BY <2>1 DEF Setup, SetupTyped, CallRecords, CallUnderWay, Filling
  <2>3. /\ \A j \in Slots : /\ endpoints'[j].uri = endpoints[j].uri
                             /\ endpoints'[j].http = endpoints[j].http
                             /\ endpoints'[j].ws = endpoints[j].ws
                             /\ endpoints'[j].active = endpoints[j].active
        /\ endpoints'[owner.slot].methods = owner.methods
    BY <2>2 DEF Setup, SetupTyped, SlotRecords, CallRecords, Books, Entries
  <2>4. /\ owner'.doing = "http" /\ owner'.slot = owner.slot /\ owner'.uri = owner.uri
        /\ owner'.methods = owner.methods /\ owner'.http = owner.http
    BY <2>1 DEF Setup, SetupTyped, SlotRecords, CallRecords, Books, Entries
  <2>5. SetupTyped'
    <3>1. owner' \in CallRecords
      BY <2>1 DEF Setup, SetupTyped, CallRecords, Doings
    <3>2. \A j \in Slots : endpoints'[j] \in SlotRecords
      <4>1. endpoints'[owner.slot] \in SlotRecords
        BY <2>2 DEF Setup, SetupTyped, CallRecords, SlotRecords
      <4> QED
        BY <2>2, <4>1 DEF Setup, SetupTyped
    <3>3. endpoints' \in [Slots -> SlotRecords]
      BY <2>1, <3>2 DEF Setup, SetupTyped
    <3> QED
      BY <2>1, <3>1, <3>3 DEF Setup, SetupTyped
  <2>6. TableFilled' /\ CallUnderWay'
    BY <2>1, <2>2, <2>3, <2>4 DEF Setup, TableFilled, CallUnderWay, Filling
  <2>7. BookAgrees'
    BY <2>1, <2>2, <2>3, <2>4 DEF Setup, BookAgrees
  <2> QED
    BY <2>5, <2>6, <2>7 DEF Setup
<1>4. CASE CreateEndpointCallback
  <2>1. /\ owner.doing = "http" /\ owner' = NoCall
        /\ endpoints' = [endpoints EXCEPT ![owner.slot].http = owner.http,
                                          ![owner.slot].active = TRUE]
        /\ book' = [book EXCEPT !.uris[owner.uri].methods = owner.methods,
                                !.uris[owner.uri].http = owner.http]
        /\ UNCHANGED <<count, fallback, defaults, setters>>
    BY <1>4 DEF CreateEndpointCallback, OwnerReady, Returns
  <2>2. /\ owner.slot \in Slots /\ owner.slot <= count /\ owner.uri \in Uris
        /\ owner.uri = endpoints[owner.slot].uri /\ owner.http # None
        /\ endpoints[owner.slot].methods = owner.methods
    BY <2>1 DEF Setup, SetupTyped, CallRecords, CallUnderWay, Filling
  <2>3. /\ endpoints'[owner.slot] = [endpoints[owner.slot] EXCEPT !.http = owner.http,
                                                                 !.active = TRUE]
        /\ \A j \in Slots : j # owner.slot => endpoints'[j] = endpoints[j]
    BY <2>1, <2>2 DEF Setup, SetupTyped, SlotRecords, CallRecords, Books, Entries, NoCall
  <2>4. /\ endpoints'[owner.slot].uri = owner.uri /\ endpoints'[owner.slot].http = owner.http
        /\ endpoints'[owner.slot].ws = endpoints[owner.slot].ws
        /\ endpoints'[owner.slot].methods = owner.methods /\ endpoints'[owner.slot].active
        /\ \A j \in Slots : j # owner.slot => endpoints'[j] = endpoints[j]
        /\ owner'.doing = "nothing"
    BY <2>1, <2>2, <2>3 DEF Setup, SetupTyped, SlotRecords, CallRecords, Books, Entries, NoCall
  <2>5. /\ book'.uris[owner.uri].methods = owner.methods
        /\ book'.uris[owner.uri].http = owner.http
        /\ book'.uris[owner.uri].ws = book.uris[owner.uri].ws
        /\ \A u \in Uris : u # owner.uri => book'.uris[u] = book.uris[u]
        /\ book'.default = book.default /\ book'.headers = book.headers
    BY <2>1, <2>2 DEF Setup, SetupTyped, SlotRecords, CallRecords, Books, Entries, NoCall
  <2>6. \A j \in Slots : j <= count /\ j # owner.slot => endpoints[j].uri # owner.uri
    BY <2>2 DEF Setup, TableFilled
  <2>7. \A j \in Slots : j <= count => endpoints[j].uri \in Uris
    BY DEF Setup, SetupTyped, SlotRecords, TableFilled
  <2>8. SetupTyped'
    <3>1. \A j \in Slots : endpoints'[j] \in SlotRecords
      <4>1. endpoints'[owner.slot] \in SlotRecords
        BY <2>2, <2>3 DEF Setup, SetupTyped, CallRecords, SlotRecords
      <4> QED
        BY <2>3, <4>1 DEF Setup, SetupTyped
    <3>2. endpoints' \in [Slots -> SlotRecords]
      BY <2>1, <3>1 DEF Setup, SetupTyped
    <3>3. book' \in Books
      BY <2>1, <2>2 DEF Setup, SetupTyped, CallRecords, Books, Entries
    <3> QED
      BY <2>1, <3>2, <3>3, RecordsTyped DEF Setup, SetupTyped
  <2>9. TableFilled' /\ CallUnderWay'
    <3>1. count' = count /\ fallback' = fallback
      BY <2>1
    <3>2. TableFilled'
      BY <2>2, <2>4, <3>1 DEF Setup, TableFilled, Filling
    <3>3. CallUnderWay'
      BY <2>4 DEF CallUnderWay, Filling
    <3> QED
      BY <3>2, <3>3
  <2>10. BookAgrees'
    <3>1. count' = count /\ fallback' = fallback /\ defaults' = defaults
      BY <2>1
    <3>2. owner.doing # "default" /\ owner.doing # "headers"
      BY <2>1
    <3>3. ASSUME NEW j \in Slots, j <= count'
          PROVE  /\ book'.uris[endpoints'[j].uri].http = endpoints'[j].http
                 /\ book'.uris[endpoints'[j].uri].ws = endpoints'[j].ws
                 /\ book'.uris[endpoints'[j].uri].methods = endpoints'[j].methods
                 /\ endpoints'[j].active => endpoints'[j].http # None \/ endpoints'[j].ws # None
      <4>1. CASE j = owner.slot
        <5>1. /\ book.uris[owner.uri].http = endpoints[owner.slot].http
              /\ book.uris[owner.uri].ws = endpoints[owner.slot].ws
              /\ owner.doing # "http" =>
                   book.uris[owner.uri].methods = endpoints[owner.slot].methods
          BY <2>2 DEF Setup, BookAgrees
        <5>2. endpoints'[j].uri = owner.uri
          BY <2>4, <4>1
        <5>3. /\ book'.uris[owner.uri].http = endpoints'[owner.slot].http
              /\ book'.uris[owner.uri].ws = endpoints'[owner.slot].ws
              /\ book'.uris[owner.uri].methods = endpoints'[owner.slot].methods
              /\ endpoints'[owner.slot].http # None \/ endpoints'[owner.slot].ws # None
          BY <2>1, <2>2, <2>4, <2>5, <5>1
        <5>4. endpoints'[j] = endpoints'[owner.slot]
          BY <4>1
        <5> QED
          BY <5>2, <5>3, <5>4
      <4>2. CASE j # owner.slot
        <5>1. endpoints'[j] = endpoints[j] /\ j <= count
          BY <2>4, <3>1, <3>3, <4>2
        <5>2. book'.uris[endpoints[j].uri] = book.uris[endpoints[j].uri]
          BY <2>5, <2>6, <2>7, <5>1, <4>2
        <5>3. /\ book.uris[endpoints[j].uri].http = endpoints[j].http
              /\ book.uris[endpoints[j].uri].ws = endpoints[j].ws
              /\ book.uris[endpoints[j].uri].methods = endpoints[j].methods
              /\ endpoints[j].active => endpoints[j].http # None \/ endpoints[j].ws # None
          BY <2>1, <4>2, <5>1 DEF Setup, BookAgrees
        <5> QED
          BY <5>1, <5>2, <5>3
      <4> QED
        BY <4>1, <4>2
    <3>4. ASSUME NEW u \in Uris, \A j \in Slots : j <= count' => endpoints'[j].uri # u
          PROVE  book'.uris[u] = Unbooked
      <4>1. u # owner.uri /\ \A j \in Slots : j <= count => endpoints[j].uri # u
        BY <2>2, <2>4, <3>1, <3>4
      <4> QED
        BY <2>5, <4>1 DEF Setup, BookAgrees
    <3> QED
      BY <2>5, <3>1, <3>2, <3>3, <3>4 DEF Setup, BookAgrees
  <2> QED
    BY <2>8, <2>9, <2>10 DEF Setup
<1>5. CASE CreateWsEndpointCallback
  <2>1. /\ owner.doing = "ws" /\ owner' = NoCall
        /\ endpoints' = [endpoints EXCEPT ![owner.slot].ws = owner.ws,
                                          ![owner.slot].active = TRUE]
        /\ book' = [book EXCEPT !.uris[owner.uri].ws = owner.ws]
        /\ UNCHANGED <<count, fallback, defaults, setters>>
    BY <1>5 DEF CreateWsEndpointCallback, OwnerReady, Returns
  <2>2. /\ owner.slot \in Slots /\ owner.slot <= count /\ owner.uri \in Uris
        /\ owner.uri = endpoints[owner.slot].uri /\ owner.ws # None
    BY <2>1 DEF Setup, SetupTyped, CallRecords, CallUnderWay, Filling
  <2>3. /\ endpoints'[owner.slot] = [endpoints[owner.slot] EXCEPT !.ws = owner.ws,
                                                                 !.active = TRUE]
        /\ \A j \in Slots : j # owner.slot => endpoints'[j] = endpoints[j]
    BY <2>1, <2>2 DEF Setup, SetupTyped, SlotRecords, CallRecords, Books, Entries, NoCall
  <2>4. /\ endpoints'[owner.slot].uri = owner.uri /\ endpoints'[owner.slot].ws = owner.ws
        /\ endpoints'[owner.slot].http = endpoints[owner.slot].http
        /\ endpoints'[owner.slot].methods = endpoints[owner.slot].methods
        /\ endpoints'[owner.slot].active
        /\ \A j \in Slots : j # owner.slot => endpoints'[j] = endpoints[j]
        /\ owner'.doing = "nothing"
    BY <2>1, <2>2, <2>3 DEF Setup, SetupTyped, SlotRecords, CallRecords, Books, Entries, NoCall
  <2>5. /\ book'.uris[owner.uri].methods = book.uris[owner.uri].methods
        /\ book'.uris[owner.uri].http = book.uris[owner.uri].http
        /\ book'.uris[owner.uri].ws = owner.ws
        /\ \A u \in Uris : u # owner.uri => book'.uris[u] = book.uris[u]
        /\ book'.default = book.default /\ book'.headers = book.headers
    BY <2>1, <2>2 DEF Setup, SetupTyped, SlotRecords, CallRecords, Books, Entries, NoCall
  <2>6. \A j \in Slots : j <= count /\ j # owner.slot => endpoints[j].uri # owner.uri
    BY <2>2 DEF Setup, TableFilled
  <2>7. \A j \in Slots : j <= count => endpoints[j].uri \in Uris
    BY DEF Setup, SetupTyped, SlotRecords, TableFilled
  <2>8. SetupTyped'
    <3>1. \A j \in Slots : endpoints'[j] \in SlotRecords
      <4>1. endpoints'[owner.slot] \in SlotRecords
        BY <2>2, <2>3 DEF Setup, SetupTyped, CallRecords, SlotRecords
      <4> QED
        BY <2>3, <4>1 DEF Setup, SetupTyped
    <3>2. endpoints' \in [Slots -> SlotRecords]
      BY <2>1, <3>1 DEF Setup, SetupTyped
    <3>3. book' \in Books
      BY <2>1, <2>2 DEF Setup, SetupTyped, CallRecords, Books, Entries
    <3> QED
      BY <2>1, <3>2, <3>3, RecordsTyped DEF Setup, SetupTyped
  <2>9. TableFilled' /\ CallUnderWay'
    <3>1. count' = count /\ fallback' = fallback
      BY <2>1
    <3>2. TableFilled'
      BY <2>2, <2>4, <3>1 DEF Setup, TableFilled, Filling
    <3>3. CallUnderWay'
      BY <2>4 DEF CallUnderWay, Filling
    <3> QED
      BY <3>2, <3>3
  <2>10. BookAgrees'
    <3>1. count' = count /\ fallback' = fallback /\ defaults' = defaults
      BY <2>1
    <3>2. owner.doing # "default" /\ owner.doing # "headers"
      BY <2>1
    <3>3. ASSUME NEW j \in Slots, j <= count'
          PROVE  /\ book'.uris[endpoints'[j].uri].http = endpoints'[j].http
                 /\ book'.uris[endpoints'[j].uri].ws = endpoints'[j].ws
                 /\ book'.uris[endpoints'[j].uri].methods = endpoints'[j].methods
                 /\ endpoints'[j].active => endpoints'[j].http # None \/ endpoints'[j].ws # None
      <4>1. CASE j = owner.slot
        <5>1. /\ book.uris[owner.uri].http = endpoints[owner.slot].http
              /\ book.uris[owner.uri].ws = endpoints[owner.slot].ws
              /\ owner.doing # "http" =>
                   book.uris[owner.uri].methods = endpoints[owner.slot].methods
          BY <2>2 DEF Setup, BookAgrees
        <5>2. endpoints'[j].uri = owner.uri
          BY <2>4, <4>1
        <5>3. /\ book'.uris[owner.uri].http = endpoints'[owner.slot].http
              /\ book'.uris[owner.uri].ws = endpoints'[owner.slot].ws
              /\ book'.uris[owner.uri].methods = endpoints'[owner.slot].methods
              /\ endpoints'[owner.slot].http # None \/ endpoints'[owner.slot].ws # None
          BY <2>1, <2>2, <2>4, <2>5, <5>1
        <5>4. endpoints'[j] = endpoints'[owner.slot]
          BY <4>1
        <5> QED
          BY <5>2, <5>3, <5>4
      <4>2. CASE j # owner.slot
        <5>1. endpoints'[j] = endpoints[j] /\ j <= count
          BY <2>4, <3>1, <3>3, <4>2
        <5>2. book'.uris[endpoints[j].uri] = book.uris[endpoints[j].uri]
          BY <2>5, <2>6, <2>7, <5>1, <4>2
        <5>3. /\ book.uris[endpoints[j].uri].http = endpoints[j].http
              /\ book.uris[endpoints[j].uri].ws = endpoints[j].ws
              /\ book.uris[endpoints[j].uri].methods = endpoints[j].methods
              /\ endpoints[j].active => endpoints[j].http # None \/ endpoints[j].ws # None
          BY <2>1, <4>2, <5>1 DEF Setup, BookAgrees
        <5> QED
          BY <5>1, <5>2, <5>3
      <4> QED
        BY <4>1, <4>2
    <3>4. ASSUME NEW u \in Uris, \A j \in Slots : j <= count' => endpoints'[j].uri # u
          PROVE  book'.uris[u] = Unbooked
      <4>1. u # owner.uri /\ \A j \in Slots : j <= count => endpoints[j].uri # u
        BY <2>2, <2>4, <3>1, <3>4
      <4> QED
        BY <2>5, <4>1 DEF Setup, BookAgrees
    <3> QED
      BY <2>5, <3>1, <3>2, <3>3, <3>4 DEF Setup, BookAgrees
  <2> QED
    BY <2>8, <2>9, <2>10 DEF Setup
<1>6. CASE SetDefaultEndpoint
  <2>1. PICK methods \in MethodSets, cb \in HttpCallbacks :
          /\ owner.doing = "nothing" /\ setters < MaxSetters /\ setters' = setters + 1
          /\ fallback' = [fallback EXCEPT !.methods = methods]
          /\ owner' = [NoCall EXCEPT !.doing = "default", !.methods = methods, !.http = cb]
          /\ UNCHANGED <<endpoints, count, defaults, book>>
    BY <1>6 DEF SetDefaultEndpoint, Starts, OwnerReady
  <2>2. /\ fallback'.methods = methods /\ fallback'.http = fallback.http
        /\ fallback'.active = fallback.active /\ methods \in SUBSET STRING
    BY <2>1, EndpointsAssumption DEF Setup, SetupTyped, SlotRecords, CallRecords, Books, Entries
  <2>3. owner'.doing = "default" /\ owner'.methods = methods /\ owner'.http # None
    BY <2>1, EndpointsAssumption DEF NoCall
  <2>4. SetupTyped'
    <3>1. owner' \in CallRecords
      BY <2>1, <2>2, RecordsTyped DEF CallRecords, Doings
    <3>2. fallback' \in SlotRecords
      BY <2>1, <2>2 DEF Setup, SetupTyped, SlotRecords
    <3>3. setters' \in 0 .. MaxSetters
      BY <2>1, ExchangeBoundsAssumption DEF Setup, SetupTyped
    <3> QED
      BY <2>1, <3>1, <3>2, <3>3 DEF Setup, SetupTyped
  <2>5. TableFilled' /\ CallUnderWay' /\ BookAgrees'
    BY <2>1, <2>2, <2>3 DEF Setup, TableFilled, CallUnderWay, BookAgrees, Filling
  <2> QED
    BY <2>4, <2>5 DEF Setup
<1>7. CASE SetDefaultEndpointCallback
  <2>1. /\ owner.doing = "default" /\ owner' = NoCall
        /\ fallback' = [fallback EXCEPT !.http = owner.http, !.active = TRUE]
        /\ book' = [book EXCEPT !.default.methods = owner.methods,
                                !.default.http = owner.http]
        /\ UNCHANGED <<endpoints, count, defaults, setters>>
    BY <1>7 DEF SetDefaultEndpointCallback, OwnerReady, Returns
  <2>2. /\ fallback'.methods = owner.methods /\ fallback'.http = owner.http
        /\ fallback'.active /\ owner.http # None
    BY <2>1 DEF Setup, SetupTyped, CallRecords, SlotRecords, CallUnderWay
  <2>3. /\ book'.uris = book.uris /\ book'.headers = book.headers
        /\ book'.default.methods = owner.methods /\ book'.default.http = owner.http
    BY <2>1 DEF Setup, SetupTyped, SlotRecords, CallRecords, Books, Entries
  <2>4. SetupTyped'
    <3>1. fallback' \in SlotRecords
      BY <2>1 DEF Setup, SetupTyped, CallRecords, SlotRecords
    <3>2. book' \in Books
      BY <2>1 DEF Setup, SetupTyped, CallRecords, Books, Entries
    <3> QED
      BY <2>1, <3>1, <3>2, RecordsTyped DEF Setup, SetupTyped
  <2>5. TableFilled' /\ CallUnderWay' /\ BookAgrees'
    BY <2>1, <2>2, <2>3 DEF Setup, TableFilled, CallUnderWay, BookAgrees, Filling, NoCall
  <2> QED
    BY <2>4, <2>5 DEF Setup
<1>8. CASE UnsetDefaultHeaders
  <2>1. /\ owner.doing = "nothing" /\ setters < MaxSetters /\ setters' = setters + 1
        /\ defaults' = [defaults EXCEPT !.ptr = "freed", !.list = <<>>]
        /\ book' = [book EXCEPT !.headers = <<>>]
        /\ UNCHANGED <<endpoints, count, fallback, owner>>
    BY <1>8 DEF UnsetDefaultHeaders, Starts, OwnerReady
  <2>2. /\ book'.uris = book.uris /\ book'.default = book.default
        /\ book'.headers = defaults'.list
    BY <2>1 DEF Setup, SetupTyped, SlotRecords, CallRecords, Books, Entries
  <2>3. SetupTyped'
    <3>0. <<>> \in Seq(DOMAIN Lines)
      OBVIOUS
    <3>1. book' \in Books
      BY <2>1, <3>0 DEF Setup, SetupTyped, Books
    <3>2. setters' \in 0 .. MaxSetters
      BY <2>1, ExchangeBoundsAssumption DEF Setup, SetupTyped
    <3> QED
      BY <2>1, <3>0, <3>1, <3>2 DEF Setup, SetupTyped
  <2>4. TableFilled' /\ CallUnderWay' /\ BookAgrees'
    BY <2>1, <2>2 DEF Setup, TableFilled, CallUnderWay, BookAgrees, Filling
  <2> QED
    BY <2>3, <2>4 DEF Setup
<1>9. CASE SetDefaultHeaders
  <2>1. PICK hs \in HeaderSets :
          /\ owner.doing = "nothing" /\ setters < MaxSetters /\ setters' = setters + 1
          /\ owner' = [NoCall EXCEPT !.doing = "headers", !.headers = hs]
          /\ UNCHANGED <<endpoints, count, fallback, defaults, book>>
    BY <1>9 DEF SetDefaultHeaders, Starts, OwnerReady, server
  <2>2. owner'.doing = "headers"
    BY <2>1 DEF NoCall
  <2>3. SetupTyped'
    <3>1. owner' \in CallRecords
      BY <2>1, HeadersAssumption, RecordsTyped DEF CallRecords, Doings
    <3>2. setters' \in 0 .. MaxSetters
      BY <2>1, ExchangeBoundsAssumption DEF Setup, SetupTyped
    <3> QED
      BY <2>1, <3>1, <3>2 DEF Setup, SetupTyped
  <2>4. TableFilled' /\ CallUnderWay' /\ BookAgrees'
    BY <2>1, <2>2 DEF Setup, TableFilled, CallUnderWay, BookAgrees, Filling
  <2> QED
    BY <2>3, <2>4 DEF Setup
<1>10. CASE SetDefaultHeadersWritten
  <2>1. PICK behind \in {<<>>, SubSeq(defaults.list, Len(owner.headers) + 1, Len(defaults.list))} :
          /\ owner.doing = "headers" /\ owner' = NoCall
          /\ defaults' = [defaults EXCEPT !.list = owner.headers, !.behind = behind]
          /\ book' = [book EXCEPT !.headers = owner.headers]
          /\ UNCHANGED <<endpoints, count, fallback, setters>>
    BY <1>10 DEF SetDefaultHeadersWritten, OwnerReady, Returns
  <2>2. behind \in Seq(DOMAIN Lines)
    <3>1. defaults.list \in Seq(DOMAIN Lines) /\ owner.headers \in Seq(DOMAIN Lines)
      BY DEF Setup, SetupTyped, SlotRecords, CallRecords, Books, Entries
    <3> DEFINE ds == defaults.list
               n == Len(owner.headers)
    <3>2. ds \in Seq(DOMAIN Lines) /\ n \in Nat
      BY <3>1
    <3> HIDE DEF ds, n
    <3>3. SubSeq(ds, n + 1, Len(ds)) \in Seq(DOMAIN Lines)
      BY <3>2
    <3>4. <<>> \in Seq(DOMAIN Lines)
      OBVIOUS
    <3> QED
      BY <2>1, <3>3, <3>4 DEF ds, n
  <2>3. /\ book'.uris = book.uris /\ book'.default = book.default
        /\ book'.headers = owner.headers /\ defaults'.list = owner.headers
    BY <2>1 DEF Setup, SetupTyped, SlotRecords, CallRecords, Books, Entries
  <2>4. SetupTyped'
    <3>1. book' \in Books
      BY <2>1 DEF Setup, SetupTyped, CallRecords, Books
    <3>2. defaults' \in [ptr : {"live", "freed"}, list : Seq(DOMAIN Lines),
                         behind : Seq(DOMAIN Lines)]
      BY <2>1, <2>2 DEF Setup, SetupTyped, CallRecords
    <3> QED
      BY <2>1, <3>1, <3>2, RecordsTyped DEF Setup, SetupTyped
  <2>5. TableFilled' /\ CallUnderWay' /\ BookAgrees'
    BY <2>1, <2>3 DEF Setup, TableFilled, CallUnderWay, BookAgrees, Filling, NoCall
  <2> QED
    BY <2>4, <2>5 DEF Setup
<1> QED
  BY <1>1, <1>2, <1>3, <1>4, <1>5, <1>6, <1>7, <1>8, <1>9, <1>10 DEF Owner

\* What a step of the owner is to the thread.
LEMMA OwnerMoves ==
  ASSUME Setup, Owner, stale \in BOOLEAN
  PROVE  /\ UNCHANGED <<pc, req, res, found, calls, conn, rest>>
         /\ fault = "no"
         /\ IF pc = "idle" THEN exchange' = NewExchange /\ causes' = {}
            ELSE exchange' = exchange /\ causes' = causes \cup {"raced"}
         /\ fault' = "no" \/ (fault' = "freed" /\ defaults'.ptr = "freed")
         /\ stale' \in BOOLEAN /\ (stale' => stale \/ pc = "defaults")
         /\ \A i \in Slots : endpoints[i].http # None => endpoints'[i].http # None
         /\ fallback.http # None => fallback'.http # None
<1> USE DEF Races, Starts, OwnerReady, Returns, thread, server
<1>0. /\ \A i \in Slots : endpoints[i] \in SlotRecords
      /\ fallback \in SlotRecords /\ endpoints \in [Slots -> SlotRecords]
      /\ Filling => owner.slot \in Slots
      /\ owner.doing \in {"http", "default"} => owner.http # None
      /\ \A i \in Slots : owner.doing = "nothing" /\ ~endpoints[i].active =>
                            endpoints[i].http = None
  BY DEF Setup, SetupTyped, TableFilled, CallUnderWay, Filling, FreeSlot
<1>1. ASSUME NEW uri \in Uris, NEW next, EndpointGet(uri, next)
      PROVE  /\ UNCHANGED <<fallback, thread, fault>> /\ Races /\ fault = "no"
             /\ \A i \in Slots : endpoints[i].http # None => endpoints'[i].http # None
  <2> DEFINE i == FirstOf(Available(uri))
  <2>1. \/ UNCHANGED endpoints
        \/ ~endpoints[i].active /\ endpoints' = [endpoints EXCEPT ![i] = [FreeSlot EXCEPT !.uri = uri]]
    BY <1>1 DEF EndpointGet
  <2>2. owner.doing = "nothing" /\ UNCHANGED <<fallback, thread, fault>> /\ Races /\ fault = "no"
    BY <1>1 DEF EndpointGet
  <2> HIDE DEF i
  <2>3. \A j \in Slots : endpoints[j].http # None => endpoints'[j] = endpoints[j]
    BY <1>0, <2>1, <2>2
  <2> QED
    BY <2>2, <2>3
<1>2. CASE CreateEndpoint
  BY <1>1, <1>2 DEF CreateEndpoint
<1>3. CASE CreateWsEndpoint
  BY <1>1, <1>3 DEF CreateWsEndpoint
<1>4. CASE CreateEndpointMethods
  <2>1. owner.slot \in Slots
    BY <1>0, <1>4 DEF CreateEndpointMethods, Filling
  <2>2. \A i \in Slots : endpoints'[i].http = endpoints[i].http
    BY <1>0, <1>4, <2>1 DEF CreateEndpointMethods, SlotRecords
  <2> QED
    BY <1>4, <2>2 DEF CreateEndpointMethods
<1>5. CASE CreateEndpointCallback
  <2>1. owner.slot \in Slots /\ owner.http # None
    BY <1>0, <1>5 DEF CreateEndpointCallback, Filling
  <2>2. \A i \in Slots : endpoints'[i].http = IF i = owner.slot THEN owner.http ELSE endpoints[i].http
    BY <1>0, <1>5, <2>1 DEF CreateEndpointCallback, SlotRecords
  <2> QED
    BY <1>5, <2>1, <2>2 DEF CreateEndpointCallback
<1>6. CASE CreateWsEndpointCallback
  <2>1. owner.slot \in Slots
    BY <1>0, <1>6 DEF CreateWsEndpointCallback, Filling
  <2>2. \A i \in Slots : endpoints'[i].http = endpoints[i].http
    BY <1>0, <1>6, <2>1 DEF CreateWsEndpointCallback, SlotRecords
  <2> QED
    BY <1>6, <2>2 DEF CreateWsEndpointCallback
<1>7. CASE SetDefaultEndpoint
  <2>1. fallback'.http = fallback.http
    BY <1>0, <1>7 DEF SetDefaultEndpoint, SlotRecords
  <2> QED
    BY <1>7, <2>1 DEF SetDefaultEndpoint
<1>8. CASE SetDefaultEndpointCallback
  <2>1. fallback'.http # None
    BY <1>0, <1>8 DEF SetDefaultEndpointCallback, SlotRecords
  <2> QED
    BY <1>8, <2>1 DEF SetDefaultEndpointCallback
<1>9. CASE UnsetDefaultHeaders
  <2>1. defaults'.ptr = "freed"
    BY <1>9 DEF UnsetDefaultHeaders, Setup, SetupTyped
  <2> QED
    BY <1>9, <2>1 DEF UnsetDefaultHeaders
<1>10. CASE SetDefaultHeaders
  BY <1>10 DEF SetDefaultHeaders
<1>11. CASE SetDefaultHeadersWritten
  BY <1>11 DEF SetDefaultHeadersWritten
<1> QED
  BY <1>2, <1>3, <1>4, <1>5, <1>6, <1>7, <1>8, <1>9, <1>10, <1>11 DEF Owner

-----------------------------------------------------------------------------
(* What the two messages of a request hold. *)

\* Of a message that what has happened to.
MessageSound(c, what) ==
  /\ c \in Contents(DOMAIN Lines)
  /\ Sized(c.headers) /\ Sized(c.body)
  /\ "destroyed" \notin what => Kept(c.headers) /\ Kept(c.body)
  /\ "refused" \notin what => Given(c.headers) /\ Given(c.body)

\* Nothing has gone wrong with it yet.
Unharmed(c) == c.headers.wrong \in {"no", "lost"} /\ c.body.wrong \in {"no", "lost"}

LEMMA NewMessage ==
  ASSUME NEW what
  PROVE  MessageSound(NoContent, what) /\ Unharmed(NoContent)
BY NewContent, NewBuffer DEF MessageSound, Unharmed, NoContent, Contents, Kept

\* More may happen to a message that it does not notice.
LEMMA MoreHappens ==
  ASSUME NEW what, NEW more, what \subseteq more, NEW c, MessageSound(c, what)
  PROVE  MessageSound(c, more)
BY DEF MessageSound

\* Message d is c with some headers more, out of those of a list.
Longer(c, d, hs) ==
  /\ d.body = c.body
  /\ \A S : c.list \in Seq(S) /\ hs \in Seq(S) => d.list \in Seq(S)

\* Headers are added to a message.
LEMMA HeadersListed ==
  ASSUME NEW what, NEW c, MessageSound(c, what), NEW hs \in Seq(DOMAIN Lines), NEW refused,
         NEW d, d = AddHeaders(c, hs, refused)
  PROVE  /\ Longer(c, d, hs)
         /\ Grows(c, d, DOMAIN Lines, refused \notin DOMAIN hs)
<1>1. c \in Contents(DOMAIN Lines) /\ Sized(c.headers)
  BY DEF MessageSound
<1>2. Grows(c, d, DOMAIN Lines, refused \notin DOMAIN hs)
  BY <1>1, AddHeadersGrows
<1>3. ASSUME NEW S, c.list \in Seq(S), hs \in Seq(S)
      PROVE  d.list \in Seq(S)
  <2>1. c \in Contents(S)
    BY <1>1, <1>3 DEF Contents
  <2>2. Grows(c, d, S, refused \notin DOMAIN hs)
    BY <1>1, <1>3, <2>1, AddHeadersGrows
  <2> QED
    BY <2>2 DEF Grows, Contents
<1> QED
  BY <1>2, <1>3 DEF Grows, Longer

LEMMA HeadersAdded ==
  ASSUME NEW what, NEW c, MessageSound(c, what), NEW hs \in Seq(DOMAIN Lines),
         NEW refused, NEW d, d = AddHeaders(c, hs, refused),
         NEW more, what \subseteq more, refused \in DOMAIN hs => "refused" \in more
  PROVE  MessageSound(d, more)
<1>1. Grows(c, d, DOMAIN Lines, refused \notin DOMAIN hs)
  BY HeadersListed
<1> QED
  BY <1>1 DEF MessageSound, Grows

\* One header is.
LEMMA HeaderListed ==
  ASSUME NEW what, NEW c, MessageSound(c, what), NEW h \in DOMAIN Lines,
         NEW granted \in BOOLEAN, NEW d, d = AddHeader(c, h, granted)
  PROVE  /\ Longer(c, d, <<h>>)
         /\ Grows(c, d, DOMAIN Lines, granted)
<1>1. c \in Contents(DOMAIN Lines) /\ Sized(c.headers)
  BY DEF MessageSound
<1>2. Grows(c, d, DOMAIN Lines, granted)
  BY <1>1, AddHeaderGrows
<1>3. ASSUME NEW S, c.list \in Seq(S), <<h>> \in Seq(S)
      PROVE  d.list \in Seq(S)
  <2>1. c \in Contents(S) /\ h \in S
    <3>1. <<h>>[1] \in S
      BY <1>3
    <3> QED
      BY <1>1, <1>3, <3>1 DEF Contents
  <2>2. Grows(c, d, S, granted)
    BY <1>1, <2>1, AddHeaderGrows
  <2> QED
    BY <2>2 DEF Grows, Contents
<1> QED
  BY <1>2, <1>3 DEF Grows, Longer

LEMMA HeaderAdded ==
  ASSUME NEW what, NEW c, MessageSound(c, what), NEW h \in DOMAIN Lines,
         NEW granted \in BOOLEAN, NEW d, d = AddHeader(c, h, granted),
         NEW more, what \subseteq more, ~granted => "refused" \in more
  PROVE  MessageSound(d, more)
<1>1. Grows(c, d, DOMAIN Lines, granted)
  BY HeaderListed
<1> QED
  BY <1>1 DEF MessageSound, Grows

\* A part of a body is.
LEMMA BodyAppended ==
  ASSUME NEW what, NEW more, what \subseteq more, NEW c, MessageSound(c, what),
         NEW n \in Nat, NEW granted \in BOOLEAN, ~granted => "refused" \in more,
         NEW d, d = AppendBody(c, n, granted)
  PROVE  /\ MessageSound(d, more)
         /\ d.list = c.list /\ d.headers = c.headers
         /\ d.body.len <= c.body.len + n
         /\ n = 0 => d = c
<1>1. CASE n = 0
  <2>1. d = c
    BY <1>1 DEF AppendBody
  <2>2. c.body.len \in Nat
    BY DEF MessageSound, Contents, Buffers
  <2> QED
    BY <1>1, <2>1, <2>2, MoreHappens
<1>2. CASE n # 0
  <2> DEFINE e == Extend(c.body, n, granted)
  <2>1. d = [c EXCEPT !.body = e]
    BY <1>2 DEF AppendBody
  <2>2. /\ Sized(e)
        /\ Kept(c.body) => Kept(e)
        /\ Given(c.body) /\ granted => Given(e)
        /\ e.len <= c.body.len + n
    BY <1>2, ExtendBuffer DEF MessageSound
  <2> HIDE DEF e
  <2>3. d.list = c.list /\ d.headers = c.headers /\ d.body = e /\ d \in Contents(DOMAIN Lines)
    BY <2>1, <2>2 DEF MessageSound, Contents, Sized
  <2>4. MessageSound(d, more)
    BY <2>2, <2>3 DEF MessageSound
  <2> QED
    BY <1>2, <2>2, <2>3, <2>4
<1> QED
  BY <1>1, <1>2

\* A message is destroyed.
LEMMA MessageDestroyed ==
  ASSUME NEW what, NEW c, MessageSound(c, what), NEW d, d = Destroy(c)
  PROVE  /\ MessageSound(d, what \cup {"destroyed"})
         /\ d.list = <<>> /\ d.body.len <= c.body.len
         /\ Leaks(d) => "refused" \in what
         /\ Broken(d) = "freed" => "destroyed" \in what
<1>1. /\ Sized(d.headers) /\ d.headers.ptr # "live"
      /\ Kept(c.headers) => d.headers.wrong # "freed"
      /\ Given(c.headers) => Given(d.headers)
  BY FreedBuffer DEF MessageSound, Destroy, Contents
<1>2. /\ Sized(d.body) /\ d.body.ptr # "live" /\ d.body.len <= c.body.len
      /\ Kept(c.body) => d.body.wrong # "freed"
      /\ Given(c.body) => Given(d.body)
  BY FreedBuffer DEF MessageSound, Destroy, Contents
<1>3. d.list = <<>> /\ d \in Contents(DOMAIN Lines)
  <2> DEFINE hb == d.headers
             bb == d.body
  <2>1. d = [list |-> <<>>, headers |-> hb, body |-> bb]
    BY DEF MessageSound, Destroy, Contents
  <2>2. hb \in Buffers /\ bb \in Buffers /\ <<>> \in Seq(DOMAIN Lines)
    BY <1>1, <1>2 DEF Sized
  <2> HIDE DEF hb, bb
  <2> QED
    BY <2>1, <2>2 DEF Contents
<1>4. MessageSound(d, what \cup {"destroyed"})
  BY <1>1, <1>2, <1>3 DEF MessageSound
<1>5. Leaks(d) => "refused" \in what
  BY <1>1, <1>2 DEF Leaks, MessageSound, Given
<1>6. Broken(d) = "freed" => "destroyed" \in what
  BY <1>1, <1>2 DEF Broken, MessageSound
<1> QED
  BY <1>2, <1>3, <1>4, <1>5, <1>6

\* What goes wrong with a message, and when.
LEMMA BrokenMessage ==
  ASSUME NEW what, NEW c, MessageSound(c, what)
  PROVE  /\ Broken(c) \in {"no", "null", "freed"}
         /\ Broken(c) = "null" => "refused" \in what
         /\ Broken(c) = "freed" => "destroyed" \in what
         /\ Broken(c) = "no" <=> Unharmed(c)
<1>1. /\ c.headers.wrong \in {"no", "null", "freed", "lost"}
      /\ c.body.wrong \in {"no", "null", "freed", "lost"}
  BY DEF MessageSound, Sized, Buffers, Wrongs
<1> QED
  BY <1>1 DEF MessageSound, Broken, Unharmed, Kept, Given

\* What goes wrong in a step that looks at both messages.
LEMMA CheckedMessages ==
  ASSUME NEW what, NEW p, MessageSound(p, what \ {"destroyed"}), NEW q, MessageSound(q, what),
         NEW f, f = First(First("no", Broken(p)), Broken(q))
  PROVE  /\ f \in {"no", "null", "freed"}
         /\ f = "null" => "refused" \in what
         /\ f = "freed" => "destroyed" \in what
         /\ f = "no" => Unharmed(q)
<1>1. /\ Broken(p) \in {"no", "null", "freed"} /\ Broken(p) # "freed"
      /\ Broken(p) = "null" => "refused" \in what
  BY BrokenMessage
<1>2. /\ Broken(q) \in {"no", "null", "freed"}
      /\ Broken(q) = "null" => "refused" \in what
      /\ Broken(q) = "freed" => "destroyed" \in what
      /\ Broken(q) = "no" => Unharmed(q)
  BY BrokenMessage
<1> QED
  BY <1>1, <1>2 DEF First

Steps     == {"defaults", "parse", "scan", "find", "check", "call", "callback",
              "keepalive", "respond", "send"}
Statuses  == {0, 101, 200, 400, 404, 405, 411, 429, 505}
Causes    == {"split", "raced", "refused", "destroyed", "guessed", "content-length", "connection"}
Faults    == {"no", "null", "freed", "overflow", "index", "overread"}
Hearings  == {"missing", "hidden"} \cup {Lines[h].value : h \in DOMAIN Lines}
Exchanges == [request : RequestNames \cup {None}, cut : {"no", "line", "headers", "body"},
              owed : {0, 1}, answers : {0, 1}, status : Statuses, current : BOOLEAN,
              ran : HttpCallbacks \cup {None}, ws : WsCallbacks \cup {None},
              connection : Hearings, closing : BOOLEAN, broken : BOOLEAN, leaks : BOOLEAN]

Responses == [status : Statuses, content : Contents(DOMAIN Lines)]

\* The headers that a key is not found in.
Unseen(key) == {h \in DOMAIN Lines : ~Sees(h, key)}

ThreadTyped ==
  /\ pc \in Steps \cup {"idle"} /\ calls \in 0 .. MaxCalls /\ found \in 0 .. DefaultSlot
  /\ stale \in BOOLEAN /\ rest \in BOOLEAN /\ conn \in {"open", "closed", "upgraded"}
  /\ res \in Responses
  /\ exchange \in Exchanges /\ causes \subseteq Causes
  /\ fault \in Faults

\* Where the thread is with its request.
UnderWay ==
  /\ pc \in {"idle", "defaults"} => req = NewRequest /\ res = NewResponse
  /\ pc = "idle" => found = 0 /\ stale = FALSE /\ calls = 0
  /\ pc = "parse" => req = NewRequest /\ res.status = 0 /\ res.content.body = NoBuffer
  /\ pc # "idle" => /\ exchange.request \in RequestNames /\ conn = "open"
                    /\ ~exchange.leaks /\ ~exchange.broken
                    /\ exchange.answers = 0 /\ exchange.status = 0
                    /\ "raced" \notin causes => owner.doing = "nothing"
                    /\ stale => "raced" \in causes

Messages ==
  /\ MessageSound(req.content, causes \ {"destroyed"})
  /\ MessageSound(res.content, causes)
  /\ res.content.body.len <= Longest
  /\ fault = "no" => Unharmed(res.content)

\* The headers that decide what is sent, and what becomes of the connection, are not
\* there before the server adds them, unless the program has.
Undecided ==
  /\ "content-length" \notin causes =>
       res.content.list \in
         Seq(Unseen("content-length")
             \cup IF pc = "send" THEN {LengthHeaders[res.content.body.len]} ELSE {})
  /\ "connection" \notin causes =>
       /\ pc \notin {"respond", "send"} => res.content.list \in Seq(Unseen("connection"))
       /\ pc = "respond" /\ res.status = 101 =>
            res.content.list \in Seq(Unseen("connection") \cup {Line("connection", "Upgrade")})
       /\ pc = "send" /\ res.status = 101 => ~exchange.closing
  /\ res.status = 101 => pc \in {"respond", "send"}

\* What has been read of a request that asks for a session.
Scanning ==
  pc = "scan" =>
    \E r \in {Received(exchange)} :
      /\ r.line /\ req.uri = r.uri
      /\ "refused" \notin causes => /\ Complete(req.content) /\ req.content.list = r.headers
                                    /\ IsUpgradable(r.method, r.version, r.headers)

\* The endpoint that is to be called has something to call, whatever the owner does.
Callable == pc = "call" => Found.http # None

Sound == Setup /\ ThreadTyped /\ UnderWay /\ Messages /\ Undecided /\ Scanning /\ Callable
         /\ MemoryIsSound

\* The headers of the server: where they are found.
LEMMA OwnHeaders ==
  /\ KeepHeader \in Unseen("content-length") /\ CloseHeader \in Unseen("content-length")
  /\ KeepAlive \in Unseen("content-length") /\ KeepAlive \in Unseen("connection")
  /\ UpgradeHeaders \in Seq(Unseen("content-length"))
  /\ UpgradeHeaders \in Seq(Unseen("connection") \cup {Line("connection", "Upgrade")})
<1>1. ASSUME NEW own \in OwnLines, NEW key, own[1] # key
      PROVE  Line(own[1], own[2]) \in Unseen(key)
  BY <1>1, ServerLine, SeesKey DEF Unseen
<1> DEFINE l(key, value) == <<key, value>>
<1>2. /\ l("connection", "keep-alive") \in OwnLines /\ l("connection", "close") \in OwnLines
      /\ l("keep-alive", "7") \in OwnLines /\ l("sec-websocket-accept", "accept") \in OwnLines
      /\ l("upgrade", "websocket") \in OwnLines /\ l("connection", "Upgrade") \in OwnLines
  BY DEF OwnLines
<1>3. ASSUME NEW k, NEW v, l(k, v) \in OwnLines, NEW key, k # key
      PROVE  Line(k, v) \in Unseen(key)
  <2>1. l(k, v)[1] = k /\ l(k, v)[2] = v
    OBVIOUS
  <2> HIDE DEF l
  <2> QED
    BY <1>1, <1>3, <2>1
<1> HIDE DEF l
<1>4. /\ Line("connection", "keep-alive") \in Unseen("content-length")
      /\ Line("connection", "close") \in Unseen("content-length")
      /\ Line("connection", "Upgrade") \in Unseen("content-length")
      /\ Line("keep-alive", "7") \in Unseen("content-length")
      /\ Line("keep-alive", "7") \in Unseen("connection")
      /\ Line("sec-websocket-accept", "accept") \in Unseen("content-length")
      /\ Line("sec-websocket-accept", "accept") \in Unseen("connection")
      /\ Line("upgrade", "websocket") \in Unseen("content-length")
      /\ Line("upgrade", "websocket") \in Unseen("connection")
  BY <1>2, <1>3
<1> QED
  BY <1>4 DEF KeepHeader, CloseHeader, KeepAlive, UpgradeHeaders

LEMMA LengthLine ==
  ASSUME NEW n \in 0 .. Longest
  PROVE  /\ LengthHeaders[n] \in DOMAIN Lines
         /\ Lines[LengthHeaders[n]].key = "content-length"
         /\ Lines[LengthHeaders[n]].number = n
         /\ LengthHeaders[n] \in Unseen("connection")
<1>1. /\ LengthHeader(n) \in DOMAIN Lines /\ Lines[LengthHeader(n)].key = "content-length"
      /\ Lines[LengthHeader(n)].number = n /\ Lines[LengthHeader(n)].within = {}
  BY OwnLinesAssumption DEF LengthHeader
<1>2. LengthHeaders[n] = LengthHeader(n)
  BY DEF LengthHeaders
<1> QED
  BY <1>1, <1>2, SeesKey DEF Unseen

LEMMA UnseenLines == \A key : Unseen(key) \in SUBSET DOMAIN Lines
BY DEF Unseen

\* A header that the program has not decided anything with.
LEMMA UndecidedLine ==
  ASSUME NEW h \in DOMAIN Lines, NEW key \in {"content-length", "connection"}, key \notin Decides(h)
  PROVE  h \in Unseen(key)
BY DEF Decides, Unseen, Sees

LEMMA NewExchangeTyped ==
  /\ NewExchange \in Exchanges
  /\ NewExchange.answers = 0 /\ NewExchange.status = 0 /\ ~NewExchange.leaks /\ ~NewExchange.broken
BY DEF NewExchange, Exchanges, Statuses, Hearings

LEMMA NewMessages ==
  /\ NewRequest.content = NoContent
  /\ NewResponse = [status |-> 0, content |-> NoContent]
  /\ NewResponse \in Responses
  /\ NoContent.list = <<>> /\ NoContent.body = NoBuffer /\ NoContent.body.len = 0
  /\ \A S : NoContent.list \in Seq(S)
BY NewContent DEF NewRequest, NewResponse, NoContent, NoBuffer, Statuses, Responses

\* With no request there is nothing to keep.
LEMMA NothingSound ==
  /\ req = NewRequest /\ res = NewResponse /\ pc # "respond" /\ pc # "send"
       => Messages /\ Undecided
  /\ req' = NewRequest /\ res' = NewResponse /\ pc' # "respond" /\ pc' # "send"
       => Messages' /\ Undecided'
<1>0. Longest \in Nat
  BY ExchangeBoundsAssumption
<1>1. ASSUME req = NewRequest, res = NewResponse, pc # "respond", pc # "send"
      PROVE  Messages /\ Undecided
  <2>1. req.content = NoContent /\ res.content = NoContent /\ res.status = 0
    BY <1>1, NewMessages
  <2>2. Messages
    BY <1>0, <2>1, NewMessages, NewMessage DEF Messages
  <2>3. Undecided
    BY <1>1, <2>1, NewMessages DEF Undecided
  <2> QED
    BY <2>2, <2>3
<1>2. ASSUME req' = NewRequest, res' = NewResponse, pc' # "respond", pc' # "send"
      PROVE  Messages' /\ Undecided'
  <2>1. req'.content = NoContent /\ res'.content = NoContent /\ res'.status = 0
    BY <1>2, NewMessages
  <2>2. Messages'
    BY <1>0, <2>1, NewMessages, NewMessage DEF Messages
  <2>3. Undecided'
    BY <1>2, <2>1, NewMessages DEF Undecided
  <2> QED
    BY <2>2, <2>3
<1> QED
  BY <1>1, <1>2

LEMMA InitSound == Init => Sound
<1> SUFFICES ASSUME Init PROVE Sound
  OBVIOUS
<1>1. Setup
  BY InitSetup
<1>2. MaxCalls \in Nat /\ DefaultSlot \in Nat
  BY ExchangeBoundsAssumption, EndpointsAssumption DEF DefaultSlot
<1>3. ThreadTyped
  <2>1. calls \in 0 .. MaxCalls /\ found \in 0 .. DefaultSlot
    BY <1>2 DEF Init
  <2>2. res \in Responses /\ exchange \in Exchanges
    BY NewMessages, NewExchangeTyped DEF Init
  <2> QED
    BY <2>1, <2>2 DEF Init, ThreadTyped, Faults
<1>4. UnderWay /\ Scanning /\ Callable
  BY DEF Init, UnderWay, Scanning, Callable
<1>5. Messages /\ Undecided
  BY NothingSound DEF Init
<1>6. MemoryIsSound
  BY NewExchangeTyped DEF Init, MemoryIsSound
<1> QED
  BY <1>1, <1>3, <1>4, <1>5, <1>6 DEF Sound

LEMMA OwnerSound ==
  ASSUME Sound, Owner
  PROVE  Sound'
<1>1. Setup'
  BY OwnerSetup DEF Sound
<1>2. /\ UNCHANGED <<pc, req, res, found, calls, conn, rest>>
      /\ fault = "no"
      /\ IF pc = "idle" THEN exchange' = NewExchange /\ causes' = {}
         ELSE exchange' = exchange /\ causes' = causes \cup {"raced"}
      /\ fault' = "no" \/ (fault' = "freed" /\ defaults'.ptr = "freed")
      /\ stale' \in BOOLEAN /\ (stale' => stale \/ pc = "defaults")
      /\ \A i \in Slots : endpoints[i].http # None => endpoints'[i].http # None
      /\ fallback.http # None => fallback'.http # None
  BY OwnerMoves DEF Sound, ThreadTyped
<1>3. ThreadTyped'
  BY <1>2, NewExchangeTyped DEF Sound, ThreadTyped, Causes, Faults
<1>4. UnderWay'
  BY <1>2 DEF Sound, UnderWay
<1>5. Messages' /\ Undecided'
  <2>1. CASE pc = "idle"
    BY <1>2, <2>1, NothingSound DEF Sound, UnderWay
  <2>2. CASE pc # "idle"
    <3>1. /\ "destroyed" \in causes' <=> "destroyed" \in causes
          /\ "refused" \in causes' <=> "refused" \in causes
          /\ "content-length" \in causes' <=> "content-length" \in causes
          /\ "connection" \in causes' <=> "connection" \in causes
      BY <1>2, <2>2
    <3>2. Undecided'
      BY <1>2, <2>2, <3>1 DEF Sound, Undecided
    <3>3. Messages'
      BY <1>2, <2>2, <3>1 DEF Sound, Messages, MessageSound
    <3> QED
      BY <3>2, <3>3
  <2> QED
    BY <2>1, <2>2
<1>6. Scanning'
  BY <1>2 DEF Sound, Scanning, Received
<1>7. Callable'
  <2> SUFFICES ASSUME pc' = "call" PROVE Found'.http # None
    BY DEF Callable
  <2>1. Found.http # None
    BY <1>2 DEF Sound, Callable
  <2>2. DefaultSlot \notin Slots /\ found \in Slots \cup {0, DefaultSlot}
    BY EndpointsAssumption DEF Sound, ThreadTyped, DefaultSlot, Slots
  <2>3. CASE found = DefaultSlot
    BY <1>2, <2>1, <2>3 DEF Found
  <2>4. CASE found # DefaultSlot
    BY <1>2, <2>1, <2>2, <2>4 DEF Found, FreeSlot
  <2> QED
    BY <2>3, <2>4
<1>8. MemoryIsSound'
  <2>1. CASE pc = "idle"
    BY <1>2, <2>1, NewExchangeTyped DEF MemoryIsSound
  <2>2. CASE pc # "idle"
    BY <1>2, <2>2 DEF Sound, MemoryIsSound, UnderWay
  <2> QED
    BY <2>1, <2>2
<1> QED
  BY <1>1, <1>3, <1>4, <1>5, <1>6, <1>7, <1>8 DEF Sound

\* A step of the thread leaves alone what the owner has set up.
LEMMA SetupKept ==
  ASSUME Setup, UNCHANGED admin
  PROVE  Setup'
BY DEF Setup, SetupTyped, TableFilled, CallUnderWay, BookAgrees, Filling, admin, server

\* What is received is a request, or a part of one.
LEMMA ReceivedTyped ==
  ASSUME NEW x, x.request \in RequestNames, NEW r, r = Received(x)
  PROVE  /\ r.line \in BOOLEAN /\ r.uri \in Uris /\ r.headers \in Seq(DOMAIN Lines)
         /\ r.uri = Requests[x.request].uri /\ r.method = Requests[x.request].method
         /\ r.version = Requests[x.request].version
         /\ BodyRoom(r) \in Nat
<1> DEFINE q == Requests[x.request]
<1>1. q \in [line : BOOLEAN, method : STRING, uri : Uris, version : STRING,
             headers : Seq(DOMAIN Lines)]
  BY RequestsAssumption DEF RequestNames
<1>2. RequestOf[x.request] = q
  BY DEF RequestOf
<1>3. <<>> \in Seq(DOMAIN Lines)
  OBVIOUS
<1> HIDE DEF q
<1>4. r = [q EXCEPT !.line = FALSE] \/ r = [q EXCEPT !.headers = <<>>] \/ r = q
  BY <1>2 DEF Received
<1>5. /\ r.line \in BOOLEAN /\ r.uri = q.uri /\ r.headers \in Seq(DOMAIN Lines)
      /\ r.method = q.method /\ r.version = q.version /\ q.uri \in Uris
  BY <1>1, <1>3, <1>4
<1>6. BodyRoom(r) \in Nat
  <2>1. Len(q.headers) \in Nat /\ Len(q.headers) < ReadSize /\ ReadSize \in Nat
    BY <1>1, ReadAssumption DEF q, RequestNames
  <2>2. r.headers = <<>> \/ r.headers = q.headers
    BY <1>1, <1>4
  <2>3. Len(r.headers) \in Nat /\ Len(r.headers) < ReadSize
    BY <2>1, <2>2
  <2> QED
    BY <2>1, <2>3 DEF BodyRoom
<1> QED
  BY <1>5, <1>6 DEF q

\* Headers of a new message.
LEMMA NewHeadersAre ==
  ASSUME NEW hs \in Seq(DOMAIN Lines), NEW refused, NEW d, d = NewHeaders(hs, refused)
  PROVE  /\ Unharmed(d) /\ d.body = NoBuffer
         /\ refused \notin DOMAIN hs => Complete(d) /\ d.list = hs
         /\ \A S : hs \in Seq(S) => d.list \in Seq(S)
<1>1. /\ d \in Contents(DOMAIN Lines) /\ Sized(d.headers) /\ Kept(d.headers)
      /\ d.body = NoBuffer
      /\ refused \notin DOMAIN hs => Complete(d) /\ d.list = hs
  BY NewHeadersMade
<1>2. \A S : hs \in Seq(S) => d \in Contents(S)
  BY NewHeadersMade
<1>3. \A S : hs \in Seq(S) => d.list \in Seq(S)
  BY <1>2 DEF Contents
<1> QED
  BY <1>1, <1>3, NewBuffer DEF Unharmed, Kept

LEMMA NewHeadersSound ==
  ASSUME NEW hs \in Seq(DOMAIN Lines), NEW refused, NEW d, d = NewHeaders(hs, refused),
         NEW what, refused \in DOMAIN hs => "refused" \in what
  PROVE  MessageSound(d, what)
<1>1. /\ d \in Contents(DOMAIN Lines) /\ Sized(d.headers) /\ Kept(d.headers)
      /\ d.body = NoBuffer
      /\ refused \notin DOMAIN hs => Complete(d)
  BY NewHeadersMade
<1> QED
  BY <1>1, NewBuffer DEF MessageSound, Complete

\* A response q that p becomes by getting a status and at most n of a body.
Answers(p, q, status, n) ==
  /\ q \in Responses
  /\ q.status = status
  /\ q.content.list = p.content.list
  /\ q.content.headers = p.content.headers
  /\ q.content.body.len <= p.content.body.len + n
  /\ n = 0 => q.content = p.content

LEMMA PresetIs ==
  ASSUME NEW what, NEW p \in Responses, MessageSound(p.content, what), NEW status \in Statuses,
         NEW n \in Nat, NEW granted \in BOOLEAN, NEW q, q = Preset(p, status, n, granted)
  PROVE  /\ q.content = AppendBody(p.content, n, granted)
         /\ Answers(p, q, status, n)
<1> DEFINE d == AppendBody(p.content, n, granted)
           more == what \cup {"refused"}
<1>0. /\ d = AppendBody(p.content, n, granted) /\ MessageSound(p.content, what)
      /\ what \subseteq more /\ "refused" \in more
  OBVIOUS
<1> HIDE DEF d, more
<1>1. MessageSound(d, more)
  BY <1>0, BodyAppended
<1>2. /\ d.list = p.content.list /\ d.headers = p.content.headers
      /\ d.body.len <= p.content.body.len + n
      /\ n = 0 => d = p.content
  BY <1>0, <1>1, BodyAppended
<1>3. q = [status |-> status, content |-> d]
  BY DEF Preset, d, Responses
<1> QED
  BY <1>1, <1>2, <1>3 DEF MessageSound, d, Responses, Answers

LEMMA PresetSound ==
  ASSUME NEW what, NEW p \in Responses,
         MessageSound(p.content, what), NEW status \in Statuses,
         NEW n \in Nat, NEW granted \in BOOLEAN, NEW q, q = Preset(p, status, n, granted),
         NEW more, what \subseteq more, ~granted => "refused" \in more
  PROVE  MessageSound(q.content, more)
<1>1. q.content = AppendBody(p.content, n, granted)
  BY PresetIs
<1> QED
  BY <1>1, BodyAppended

\* What is read of a message.
LEMMA HeaderRead ==
  ASSUME NEW S \in SUBSET DOMAIN Lines, NEW c, c.list \in Seq(S), NEW key
  PROVE  \/ GetHeader(c, key) = [ret |-> "missing", value |-> "none", number |-> 0]
         \/ \E h \in S : Sees(h, key) /\ GetHeader(c, key) = Reading(h, key)
<1> DEFINE hs == IF c.headers.ptr = "null" \/ c.headers.len = 0 THEN <<>> ELSE c.list
<1>1. hs \in Seq(S)
  OBVIOUS
<1>2. GetHeader(c, key) = Lookup(hs, key)
  BY DEF GetHeader
<1> HIDE DEF hs
<1> QED
  BY <1>1, <1>2, LookupIn

LEMMA HeaderReadTyped ==
  ASSUME NEW c, c.list \in Seq(DOMAIN Lines), NEW key
  PROVE  /\ GetHeader(c, key).number \in Int
         /\ GetHeader(c, key).ret \in {"missing", "hidden", "found"}
BY HeaderRead, LinesAssumption DEF Reading

\* With a message that is complete, every header of it is looked at.
LEMMA AllRead ==
  ASSUME NEW c, c.list \in Seq(DOMAIN Lines), Complete(c), NEW key
  PROVE  GetHeader(c, key) = Lookup(c.list, key)
<1>1. c.headers.ptr = "null" \/ c.headers.len = 0 => c.list = <<>>
  BY DEF Complete, Given
<1> QED
  BY <1>1 DEF GetHeader

\* A step within an exchange that keeps to what it may do with memory.
LEMMA StepMemory ==
  ASSUME fault' \in {"no", "null", "freed"}, ~exchange'.leaks,
         fault' = "null" => "refused" \in causes',
         fault' = "freed" => defaults'.ptr = "freed" \/ causes' \cap {"raced", "destroyed"} # {}
  PROVE  MemoryIsSound'
BY DEF MemoryIsSound

\* Which allocation is refused is a number, and is noted.
LEMMA RefusalsNoted ==
  ASSUME NEW n \in Nat, NEW refused \in Refusals(n)
  PROVE  /\ refused \in 0 .. n
         /\ RefusedIn(refused) \subseteq {"refused"}
         /\ refused # 0 <=> "refused" \in RefusedIn(refused)
BY DEF Refusals, RefusedIn

\* A request begins, or the client is gone.
LEMMA ReceiveSound ==
  ASSUME Sound, Receive \/ HungUp
  PROVE  Sound'
<1>1. Setup'
  BY SetupKept DEF Sound, Receive, HungUp
<1>2. CASE Receive
  <2>1. PICK r \in RequestNames, cut \in {"no", "line", "headers", "body"} :
          /\ exchange' = [NewExchange EXCEPT !.request = r, !.cut = cut,
                                             !.owed = IF rest THEN 0 ELSE 1]
          /\ rest' = (~rest /\ cut # "no")
          /\ causes' = (IF rest \/ cut # "no" THEN {"split"} ELSE {})
                       \cup (IF owner.doing # "nothing" THEN {"raced"} ELSE {})
    BY <1>2 DEF Receive
  <2>2. /\ pc = "idle" /\ fault = "no" /\ conn = "open" /\ pc' = "defaults"
        /\ UNCHANGED <<owner, defaults, req, res, found, stale, calls, conn, fault>>
    BY <1>2 DEF Receive, At, admin, server
  <2>3. /\ exchange' \in Exchanges /\ exchange'.request = r /\ ~exchange'.leaks
        /\ ~exchange'.broken /\ exchange'.answers = 0 /\ exchange'.status = 0
    BY <2>1, NewExchangeTyped DEF Exchanges
  <2>4. ThreadTyped'
    <3>1. rest' \in BOOLEAN /\ causes' \subseteq Causes
      BY <2>1 DEF Causes
    <3> QED
      BY <2>2, <2>3, <3>1 DEF Sound, ThreadTyped, Steps
  <2>5. UnderWay'
    BY <2>1, <2>2, <2>3 DEF Sound, UnderWay
  <2>6. Messages' /\ Undecided'
    BY <2>2, NothingSound DEF Sound, UnderWay
  <2>7. Scanning' /\ Callable' /\ MemoryIsSound'
    BY <2>2, <2>3, StepMemory DEF Scanning, Callable
  <2> QED
    BY <1>1, <2>4, <2>5, <2>6, <2>7 DEF Sound
<1>3. CASE HungUp
  <2>1. /\ pc = "idle" /\ fault = "no" /\ conn' = "closed" /\ exchange' = NewExchange
        /\ causes' = {} /\ UNCHANGED <<defaults, pc, req, res, found, stale, calls, rest, fault>>
    BY <1>3 DEF HungUp, At, admin, server
  <2>2. ThreadTyped'
    BY <2>1, NewExchangeTyped DEF Sound, ThreadTyped
  <2>3. UnderWay' /\ Scanning' /\ Callable'
    BY <2>1 DEF Sound, UnderWay, Scanning, Callable
  <2>4. Messages' /\ Undecided'
    BY <2>1, NothingSound DEF Sound, UnderWay
  <2>5. MemoryIsSound'
    BY <2>1, NewExchangeTyped, StepMemory
  <2> QED
    BY <1>1, <2>2, <2>3, <2>4, <2>5 DEF Sound
<1> QED
  BY <1>2, <1>3

\* What a step in the middle of an exchange has to keep.
Middle ==
  /\ Sound /\ fault = "no" /\ pc # "idle"
  /\ UNCHANGED <<admin, conn, rest>>
  /\ causes \subseteq causes' /\ causes' \subseteq Causes

LEMMA MiddleFaulty ==
  ASSUME Middle, pc' \in Steps, pc' # "defaults", pc' # "parse", pc' # "idle",
         calls' \in 0 .. MaxCalls, found' \in 0 .. DefaultSlot, stale' = stale,
         res' \in Responses,
         exchange' \in Exchanges,
         exchange'.request = exchange.request,
         ~exchange'.leaks /\ ~exchange'.broken,
         exchange'.answers = 0 /\ exchange'.status = 0,
         fault' \in Faults, MemoryIsSound',
         Messages', Undecided', Scanning', Callable'
  PROVE  Sound'
<1>1. Setup'
  BY SetupKept DEF Middle, Sound
<1>2. ThreadTyped'
  BY DEF Middle, Sound, ThreadTyped
<1>3. UnderWay'
  BY DEF Middle, Sound, UnderWay, admin
<1> QED
  BY <1>1, <1>2, <1>3 DEF Sound

\* One that cannot go wrong but by a refused allocation or a destroyed response.
LEMMA MiddleSound ==
  ASSUME Middle, pc' \in Steps, pc' # "defaults", pc' # "parse", pc' # "idle",
         calls' \in 0 .. MaxCalls, found' \in 0 .. DefaultSlot, stale' = stale,
         res' \in Responses,
         exchange' \in Exchanges,
         exchange'.request = exchange.request,
         ~exchange'.leaks /\ ~exchange'.broken,
         exchange'.answers = 0 /\ exchange'.status = 0,
         fault' \in {"no", "null", "freed"},
         fault' = "null" => "refused" \in causes',
         fault' = "freed" => "destroyed" \in causes',
         Messages', Undecided', Scanning', Callable'
  PROVE  Sound'
<1>1. MemoryIsSound'
  BY StepMemory
<1>2. fault' \in Faults
  BY DEF Faults
<1> QED
  BY <1>1, <1>2, MiddleFaulty

\* The headers of a list, none of which decides anything.
LEMMA UndecidedLines ==
  ASSUME NEW hs \in Seq(DOMAIN Lines), NEW key \in {"content-length", "connection"},
         \A i \in DOMAIN hs : key \notin Decides(hs[i])
  PROVE  hs \in Seq(Unseen(key))
<1>1. \A i \in DOMAIN hs : hs[i] \in Unseen(key)
  BY UndecidedLine
<1> QED
  BY <1>1

LEMMA ApplySound ==
  ASSUME Sound, ApplyDefaultHeaders
  PROVE  Sound'
<1>1. PICK hs \in {defaults.list \o defaults.behind} :
        \E refused \in Refusals(Len(hs)) :
          \E c \in {NewHeaders(hs, refused)} :
            /\ res' = [res EXCEPT !.content = c]
            /\ exchange' = [exchange EXCEPT !.current = (c.list = book.headers)]
            /\ Notes(RefusedIn(refused) \cup UNION {Decides(hs[i]) : i \in DOMAIN hs})
  BY DEF ApplyDefaultHeaders
<1>2. PICK refused \in Refusals(Len(hs)) :
        \E c \in {NewHeaders(hs, refused)} :
          /\ res' = [res EXCEPT !.content = c]
          /\ exchange' = [exchange EXCEPT !.current = (c.list = book.headers)]
          /\ Notes(RefusedIn(refused) \cup UNION {Decides(hs[i]) : i \in DOMAIN hs})
  BY <1>1
<1>3. PICK c : /\ c = NewHeaders(hs, refused)
               /\ res' = [res EXCEPT !.content = c]
               /\ exchange' = [exchange EXCEPT !.current = (c.list = book.headers)]
               /\ Notes(RefusedIn(refused) \cup UNION {Decides(hs[i]) : i \in DOMAIN hs})
  BY <1>2
<1>4. /\ pc = "defaults" /\ fault = "no" /\ pc' = "parse"
      /\ fault' = IF stale \/ defaults.ptr = "freed" THEN "freed" ELSE fault
      /\ UNCHANGED <<admin, req, found, stale, calls, conn, rest>>
  BY DEF ApplyDefaultHeaders, At
<1>5. hs \in Seq(DOMAIN Lines)
  <2> DEFINE ds == defaults.list
             bs == defaults.behind
  <2>1. ds \in Seq(DOMAIN Lines) /\ bs \in Seq(DOMAIN Lines)
    BY DEF Sound, Setup, SetupTyped
  <2> HIDE DEF ds, bs
  <2>2. ds \o bs \in Seq(DOMAIN Lines)
    BY <2>1
  <2> QED
    BY <1>1, <2>2 DEF ds, bs
<1> DEFINE what == RefusedIn(refused) \cup UNION {Decides(hs[i]) : i \in DOMAIN hs}
<1>6. /\ causes' = causes \cup what
      /\ refused \in DOMAIN hs => "refused" \in causes'
      /\ causes' \subseteq Causes
  <2>1. refused \in 0 .. Len(hs) /\ RefusedIn(refused) \subseteq {"refused"}
        /\ (refused # 0 <=> "refused" \in RefusedIn(refused))
    BY <1>5, RefusalsNoted
  <2>2. causes' = causes \cup what
    BY <1>3 DEF Notes
  <2>3. \A h : Decides(h) \subseteq {"content-length", "connection"}
    BY DEF Decides
  <2>4. what \subseteq Causes
    BY <2>1, <2>3 DEF Causes
  <2>5. refused \in DOMAIN hs => refused # 0
    BY <1>5
  <2> HIDE DEF what
  <2>6. "refused" \in RefusedIn(refused) => "refused" \in causes'
    BY <2>2 DEF what
  <2> QED
    BY <2>1, <2>2, <2>4, <2>5, <2>6 DEF Sound, ThreadTyped
<1>7. /\ MessageSound(c, causes') /\ Unharmed(c) /\ c.body = NoBuffer
      /\ \A S : hs \in Seq(S) => c.list \in Seq(S)
  <2> DEFINE more == causes'
  <2>1. c = NewHeaders(hs, refused) /\ (refused \in DOMAIN hs => "refused" \in more)
    BY <1>3, <1>6
  <2> HIDE DEF more, what
  <2>2. MessageSound(c, more)
    BY <1>5, <2>1, NewHeadersSound
  <2>3. /\ Unharmed(c) /\ c.body = NoBuffer
        /\ \A S : hs \in Seq(S) => c.list \in Seq(S)
    BY <1>5, <2>1, NewHeadersAre
  <2> QED
    BY <2>2, <2>3 DEF more
<1>8. ASSUME NEW key \in {"content-length", "connection"}, key \notin causes'
      PROVE  c.list \in Seq(Unseen(key))
  <2>1. \A i \in DOMAIN hs : key \notin Decides(hs[i])
    BY <1>6, <1>8
  <2> QED
    BY <1>5, <1>7, <2>1, UndecidedLines
<1>9. /\ res' \in Responses
      /\ res'.content = c /\ res'.status = 0 /\ c.body.len = 0
  <2>1. res = [status |-> 0, content |-> NoContent]
    BY <1>4, NewMessages DEF Sound, UnderWay
  <2>2. res' = [status |-> 0, content |-> c]
    BY <1>3, <2>1
  <2> QED
    BY <1>7, <2>2 DEF MessageSound, Statuses, NoBuffer, Responses
<1>10. /\ exchange' \in Exchanges /\ exchange'.request = exchange.request
       /\ exchange'.leaks = exchange.leaks /\ exchange'.broken = exchange.broken
       /\ exchange'.answers = exchange.answers /\ exchange'.status = exchange.status
  <2> DEFINE now == (c.list = book.headers)
  <2>1. now \in BOOLEAN
    OBVIOUS
  <2>2. exchange' = [exchange EXCEPT !.current = now]
    BY <1>3
  <2> HIDE DEF now
  <2> QED
    BY <2>1, <2>2 DEF Sound, ThreadTyped, Exchanges
<1> HIDE DEF what
<1>11. Setup'
  BY <1>4, SetupKept DEF Sound
<1>12. ThreadTyped'
  BY <1>4, <1>6, <1>9, <1>10 DEF Sound, ThreadTyped, Steps, Faults
<1>13. UnderWay'
  BY <1>4, <1>6, <1>7, <1>9, <1>10 DEF Sound, UnderWay, admin
<1>14. Messages'
  <2>1. MessageSound(req'.content, causes' \ {"destroyed"})
    BY <1>4, NewMessages, NewMessage DEF Sound, UnderWay
  <2> QED
    BY <1>7, <1>9, <2>1, ExchangeBoundsAssumption DEF Messages
<1>15. Undecided'
  <2>1. pc' # "send" /\ pc' # "respond" /\ res'.status # 101
    BY <1>4, <1>9
  <2> QED
    BY <1>8, <1>9, <2>1 DEF Undecided
<1>16. Scanning' /\ Callable'
  BY <1>4 DEF Scanning, Callable
<1>17. MemoryIsSound'
  BY <1>4, <1>6, <1>10, StepMemory DEF Sound, UnderWay, admin, server
<1> QED
  BY <1>11, <1>12, <1>13, <1>14, <1>15, <1>16, <1>17 DEF Sound

LEMMA ParseNoLineSound ==
  ASSUME Sound, ParseNoLine
  PROVE  Sound'
<1>1. PICK refused \in Refusals(1) : Refuse(505, 1, refused = 0) /\ Notes(RefusedIn(refused))
  BY DEF ParseNoLine
<1>2. /\ pc = "parse" /\ fault = "no" /\ pc' = "respond" /\ Checked
      /\ UNCHANGED <<req, admin, found, stale, calls, conn, rest, exchange>>
  BY DEF ParseNoLine, At
<1>3. PICK granted \in BOOLEAN : granted <=> refused = 0
  OBVIOUS
<1>4. /\ causes' = causes \cup RefusedIn(refused) /\ causes' \subseteq Causes
      /\ ~granted => "refused" \in causes'
  BY <1>1, <1>3, RefusalsNoted DEF Notes, Sound, ThreadTyped, Causes
<1>5. res' = Preset(res, 505, 1, granted)
  BY <1>1, <1>3 DEF Refuse
<1>6. /\ res' \in Responses /\ res'.status = 505
      /\ MessageSound(res'.content, causes') /\ res'.content.list = res.content.list
      /\ res'.content.body.len <= 1
  <2>1. /\ MessageSound(res.content, causes) /\ res.content.body.len = 0
        /\ res \in Responses
    BY <1>2 DEF Sound, Messages, UnderWay, ThreadTyped, NoBuffer
  <2>2. 505 \in Statuses /\ causes \subseteq causes'
    BY <1>4 DEF Statuses
  <2> DEFINE p == res
             q == res'
             status == 505
             n == 1
  <2>3. /\ MessageSound(p.content, causes) /\ status \in Statuses /\ n \in Nat
        /\ p \in Responses
        /\ q = Preset(p, status, n, granted)
    BY <1>5, <2>1, <2>2
  <2> HIDE DEF p, q, status, n
  <2>4. MessageSound(q.content, causes')
    BY <1>4, <2>2, <2>3, PresetSound
  <2>5. Answers(p, q, status, n)
    BY <2>3, PresetIs
  <2> QED
    BY <2>1, <2>4, <2>5 DEF p, q, status, n, Answers
<1>7. MessageSound(req'.content, causes' \ {"destroyed"})
  BY <1>2, NewMessages, NewMessage DEF Sound, UnderWay
<1>8. /\ fault' \in {"no", "null", "freed"}
      /\ fault' = "null" => "refused" \in causes'
      /\ fault' = "freed" => "destroyed" \in causes'
      /\ fault' = "no" => Unharmed(res'.content)
  BY <1>2, <1>6, <1>7, CheckedMessages DEF Checked, CheckedAfter
<1>9. Messages'
  <2>1. Longest \in Nat \ {0} /\ res'.content.body.len \in Nat
    BY <1>6, ExchangeBoundsAssumption DEF Responses, Contents, Buffers
  <2> QED
    BY <1>6, <1>7, <1>8, <2>1 DEF Messages
<1>10. Undecided'
  BY <1>2, <1>4, <1>6 DEF Sound, Undecided
<1>11. Scanning' /\ Callable'
  BY <1>2 DEF Scanning, Callable
<1>12. Middle
  BY <1>2, <1>4 DEF Middle
<1>13. /\ exchange' \in Exchanges /\ ~exchange'.leaks /\ ~exchange'.broken
       /\ exchange'.answers = 0 /\ exchange'.status = 0 /\ pc' \in Steps
       /\ calls' \in 0 .. MaxCalls /\ found' \in 0 .. DefaultSlot /\ stale' = stale
  BY <1>2 DEF Sound, ThreadTyped, UnderWay, Steps
<1> QED
  BY <1>2, <1>6, <1>8, <1>9, <1>10, <1>11, <1>12, <1>13, MiddleSound

\* What is chosen while request r is parsed.
Parsing(r, guess, refused, c, told, len, status) ==
  /\ c = NewHeaders(r.headers, refused)
  /\ told = GetHeader(c, "content-length")
  /\ len = BodyLength(told, guess) /\ status = EarlyStatus(r, c, told)
  /\ refused \in DOMAIN r.headers => c.headers.ptr = "null"
  /\ told.ret = "missing" => guess = 0
  /\ req' = [line |-> TRUE, method |-> r.method, uri |-> r.uri, version |-> r.version,
             content |-> WithBody(c, len, refused # Len(r.headers) + 1)]
  /\ Refuse(status, IF status = 505 THEN 1 ELSE 0, refused # Len(r.headers) + 2)
  /\ pc' = IF IsUpgradable(r.method, r.version, c.list) THEN "scan"
           ELSE IF status > 0 THEN "respond" ELSE "find"
  /\ Notes(RefusedIn(refused) \cup GuessedIn(guess))
  /\ CheckedAfter(CopyBreak(r, len, refused # Len(r.headers) + 1))

LEMMA ParseChoices ==
  ASSUME Parse
  PROVE  \E r \in {Received(exchange)}, guess \in Guesses :
         \E refused \in Refusals(Len(r.headers) + 2) :
         \E c, told, len, status : Parsing(r, guess, refused, c, told, len, status)
<1>0. PICK r \in {Received(exchange)}, guess \in Guesses :
        \E refused \in Refusals(Len(r.headers) + 2) :
        \E c \in {NewHeaders(r.headers, refused)} :
        \E told \in {GetHeader(c, "content-length")} :
        \E len \in {BodyLength(told, guess)}, status \in {EarlyStatus(r, c, told)} :
          /\ refused \in DOMAIN r.headers => c.headers.ptr = "null"
          /\ told.ret = "missing" => guess = 0
          /\ req' = [line |-> TRUE, method |-> r.method, uri |-> r.uri, version |-> r.version,
                     content |-> WithBody(c, len, refused # Len(r.headers) + 1)]
          /\ Refuse(status, IF status = 505 THEN 1 ELSE 0, refused # Len(r.headers) + 2)
          /\ pc' = IF IsUpgradable(r.method, r.version, c.list) THEN "scan"
                   ELSE IF status > 0 THEN "respond" ELSE "find"
          /\ Notes(RefusedIn(refused) \cup GuessedIn(guess))
          /\ CheckedAfter(CopyBreak(r, len, refused # Len(r.headers) + 1))
  BY DEF Parse
<1>1. PICK refused \in Refusals(Len(r.headers) + 2) :
        \E c \in {NewHeaders(r.headers, refused)} :
        \E told \in {GetHeader(c, "content-length")} :
        \E len \in {BodyLength(told, guess)}, status \in {EarlyStatus(r, c, told)} :
          /\ refused \in DOMAIN r.headers => c.headers.ptr = "null"
          /\ told.ret = "missing" => guess = 0
          /\ req' = [line |-> TRUE, method |-> r.method, uri |-> r.uri, version |-> r.version,
                     content |-> WithBody(c, len, refused # Len(r.headers) + 1)]
          /\ Refuse(status, IF status = 505 THEN 1 ELSE 0, refused # Len(r.headers) + 2)
          /\ pc' = IF IsUpgradable(r.method, r.version, c.list) THEN "scan"
                   ELSE IF status > 0 THEN "respond" ELSE "find"
          /\ Notes(RefusedIn(refused) \cup GuessedIn(guess))
          /\ CheckedAfter(CopyBreak(r, len, refused # Len(r.headers) + 1))
  BY <1>0
<1>2. PICK c, told, len, status :
          /\ c = NewHeaders(r.headers, refused)
          /\ told = GetHeader(c, "content-length")
          /\ len = BodyLength(told, guess) /\ status = EarlyStatus(r, c, told)
          /\ refused \in DOMAIN r.headers => c.headers.ptr = "null"
          /\ told.ret = "missing" => guess = 0
          /\ req' = [line |-> TRUE, method |-> r.method, uri |-> r.uri, version |-> r.version,
                     content |-> WithBody(c, len, refused # Len(r.headers) + 1)]
          /\ Refuse(status, IF status = 505 THEN 1 ELSE 0, refused # Len(r.headers) + 2)
          /\ pc' = IF IsUpgradable(r.method, r.version, c.list) THEN "scan"
                   ELSE IF status > 0 THEN "respond" ELSE "find"
          /\ Notes(RefusedIn(refused) \cup GuessedIn(guess))
          /\ CheckedAfter(CopyBreak(r, len, refused # Len(r.headers) + 1))
  BY <1>1
<1>3. Parsing(r, guess, refused, c, told, len, status)
  BY <1>2 DEF Parsing
<1>4. \E c1, told1, len1, status1 : Parsing(r, guess, refused, c1, told1, len1, status1)
  BY <1>3
<1>5. \E refused1 \in Refusals(Len(r.headers) + 2) :
      \E c1, told1, len1, status1 : Parsing(r, guess, refused1, c1, told1, len1, status1)
  BY <1>4
<1> QED
  BY <1>5

\* A message without headers has none that is read.
LEMMA NothingRead ==
  ASSUME NEW c, c.headers.ptr = "null", NEW key
  PROVE  GetHeader(c, key) = Unfound
<1>1. <<>> \in Seq({}) /\ {} \in SUBSET DOMAIN Lines
  OBVIOUS
<1>2. GetHeader(c, key) = Lookup(<<>>, key)
  BY DEF GetHeader
<1>3. Lookup(<<>>, key) = [ret |-> "missing", value |-> "none", number |-> 0]
  BY <1>1, LookupIn
<1> QED
  BY <1>2, <1>3 DEF Unfound

\* Where copying the body goes wrong the length of the body is.
LEMMA CopyBreaks ==
  ASSUME NEW r, BodyRoom(r) \in Nat, NEW told, told.number \in Int, NEW guess \in Nat,
         NEW len, len = BodyLength(told, guess), NEW granted,
         NEW b, b = CopyBreak(r, len, granted)
  PROVE  /\ b \in {"no", "overflow", "overread"}
         /\ b = "overflow" => told.number < 0
         /\ b = "overread" => guess # 0 \/ told.number > BodyRoom(r)
<1>1. \/ len = 0
      \/ len = told.number - guess /\ told.number < 0
      \/ len = told.number + guess /\ ~(told.number < 0)
  BY DEF BodyLength
<1> DEFINE n == told.number
<1>2. b = IF ~granted \/ len <= -Block THEN "no"
          ELSE IF len < 0 THEN "overflow" ELSE IF len > BodyRoom(r) THEN "overread" ELSE "no"
  BY DEF CopyBreak
<1>3. len < 0 => n < 0
  BY <1>1
<1>4. len > BodyRoom(r) => guess # 0 \/ n > BodyRoom(r)
  BY <1>1
<1> QED
  BY <1>2, <1>3, <1>4

\* Nothing is copied where no length is told.
LEMMA NothingCopied ==
  ASSUME NEW r, BodyRoom(r) \in Nat, NEW told, told = Unfound, NEW guess,
         NEW len, len = BodyLength(told, guess), NEW granted
  PROVE  CopyBreak(r, len, granted) = "no"
<1>1. len = 0
  BY DEF BodyLength, Unfound
<1>2. ~(len < 0) /\ ~(len > BodyRoom(r))
  BY <1>1
<1> QED
  BY <1>2 DEF CopyBreak

LEMMA ParseSound ==
  ASSUME Sound, Parse
  PROVE  Sound'
<1>0. PICK r \in {Received(exchange)}, guess \in Guesses :
        \E refused \in Refusals(Len(r.headers) + 2) :
        \E c, told, len, status : Parsing(r, guess, refused, c, told, len, status)
  BY ParseChoices
<1>1. PICK refused \in Refusals(Len(r.headers) + 2) :
        \E c, told, len, status : Parsing(r, guess, refused, c, told, len, status)
  BY <1>0
<1>2. PICK c, told, len, status :
          /\ c = NewHeaders(r.headers, refused)
          /\ told = GetHeader(c, "content-length")
          /\ len = BodyLength(told, guess) /\ status = EarlyStatus(r, c, told)
          /\ refused \in DOMAIN r.headers => c.headers.ptr = "null"
          /\ told.ret = "missing" => guess = 0
          /\ req' = [line |-> TRUE, method |-> r.method, uri |-> r.uri, version |-> r.version,
                     content |-> WithBody(c, len, refused # Len(r.headers) + 1)]
          /\ Refuse(status, IF status = 505 THEN 1 ELSE 0, refused # Len(r.headers) + 2)
          /\ pc' = IF IsUpgradable(r.method, r.version, c.list) THEN "scan"
                   ELSE IF status > 0 THEN "respond" ELSE "find"
          /\ Notes(RefusedIn(refused) \cup GuessedIn(guess))
          /\ CheckedAfter(CopyBreak(r, len, refused # Len(r.headers) + 1))
  BY <1>1 DEF Parsing
<1>3. /\ pc = "parse" /\ fault = "no" /\ r.line
      /\ UNCHANGED <<admin, found, stale, calls, conn, rest, exchange>>
  BY DEF Parse, At
<1>4. r.headers \in Seq(DOMAIN Lines) /\ r.uri \in Uris
  BY <1>3, ReceivedTyped DEF Sound, UnderWay
<1>5. PICK room1 \in BOOLEAN, room2 \in BOOLEAN :
        /\ room1 <=> refused # Len(r.headers) + 1
        /\ room2 <=> refused # Len(r.headers) + 2
  OBVIOUS
<1>23. BodyRoom(r) \in Nat /\ guess \in Nat
  BY <1>3, ReceivedTyped, ReadAssumption DEF Sound, UnderWay
<1>6. /\ causes' = causes \cup RefusedIn(refused) \cup GuessedIn(guess)
      /\ causes' \subseteq Causes
      /\ refused \in DOMAIN r.headers \/ ~room1 \/ ~room2 => "refused" \in causes'
      /\ "refused" \notin causes' => refused \notin DOMAIN r.headers
  <2> DEFINE n == Len(r.headers)
  <2>1. n \in Nat /\ DOMAIN r.headers = 1 .. n
    BY <1>4
  <2>2. refused \in 0 .. n + 2
        /\ RefusedIn(refused) \subseteq {"refused"}
        /\ (refused # 0 <=> "refused" \in RefusedIn(refused))
    <3>1. refused \in Refusals(n + 2) /\ n + 2 \in Nat
      BY <1>1, <2>1
    <3> QED
      BY <3>1, RefusalsNoted
  <2>3. causes' = causes \cup RefusedIn(refused) \cup GuessedIn(guess)
        /\ GuessedIn(guess) \subseteq {"guessed"}
    BY <1>2 DEF Notes, GuessedIn
  <2>4. refused \in DOMAIN r.headers \/ ~room1 \/ ~room2 => refused # 0
    BY <1>5, <2>1
  <2> QED
    BY <2>2, <2>3, <2>4 DEF Sound, ThreadTyped, Causes
<1>7. /\ MessageSound(c, causes' \ {"destroyed"}) /\ c.body = NoBuffer
      /\ refused \notin DOMAIN r.headers => Complete(c) /\ c.list = r.headers
  <2> DEFINE more == causes'
             hs == r.headers
  <2>1. /\ c = NewHeaders(hs, refused) /\ (refused \in DOMAIN hs => "refused" \in more)
        /\ hs \in Seq(DOMAIN Lines)
    BY <1>2, <1>4, <1>6
  <2> HIDE DEF more, hs
  <2>2. MessageSound(c, more) /\ MessageSound(c, more \ {"destroyed"})
    BY <2>1, NewHeadersSound
  <2>3. /\ c.body = NoBuffer
        /\ refused \notin DOMAIN hs => Complete(c) /\ c.list = hs
    BY <2>1, NewHeadersAre
  <2> QED
    BY <2>2, <2>3 DEF more, hs
<1>8. told.number \in Int /\ told.ret \in {"missing", "hidden", "found"}
  BY <1>2, <1>7, HeaderReadTyped DEF MessageSound, Contents
<1>20. len \in Int
  BY <1>2, <1>8, ReadAssumption DEF BodyLength
<1>9. /\ MessageSound(req'.content, causes' \ {"destroyed"})
      /\ req'.content.list = c.list /\ req'.content.headers = c.headers
      /\ req'.uri = r.uri
  <2> DEFINE d == AppendBody(c, len, room1)
  <2>1. CASE len < 0
    <3>1. req'.content = c
      BY <1>2, <2>1 DEF WithBody
    <3> QED
      BY <1>2, <1>7, <3>1
  <2>2. CASE ~(len < 0)
    <3>1. len \in Nat
      BY <1>20, <2>2
    <3>2. ~room1 => "refused" \in causes' \ {"destroyed"}
      BY <1>6
    <3>3. d = AppendBody(c, len, room1)
      OBVIOUS
    <3>4. req'.content = d
      BY <1>2, <1>5, <2>2 DEF WithBody
    <3> DEFINE what == causes' \ {"destroyed"}
    <3>5. MessageSound(c, what) /\ what \subseteq what /\ (~room1 => "refused" \in what)
      BY <1>7, <3>2
    <3> HIDE DEF d, what
    <3>6. /\ MessageSound(d, what)
          /\ d.list = c.list /\ d.headers = c.headers
      BY <3>1, <3>3, <3>5, BodyAppended
    <3> QED
      BY <1>2, <3>4, <3>6 DEF what
  <2> QED
    BY <2>1, <2>2
<1>10. status \in {0, 400, 411, 505}
  BY <1>2 DEF EarlyStatus
<1>11. /\ res' \in Responses /\ res'.status = status
       /\ MessageSound(res'.content, causes') /\ res'.content.list = res.content.list
       /\ res'.content.body.len <= 1
  <2>1. /\ MessageSound(res.content, causes) /\ res.content.body.len = 0 /\ res.status = 0
        /\ res \in Responses
        /\ causes \subseteq causes'
    BY <1>3, <1>6 DEF Sound, Messages, UnderWay, ThreadTyped, NoBuffer
  <2>2. CASE status = 0
    BY <1>2, <2>1, <2>2, MoreHappens DEF Refuse
  <2>3. CASE status # 0
    <3> DEFINE n == IF status = 505 THEN 1 ELSE 0
    <3>1. n \in {0, 1} /\ status \in Statuses
      BY <1>10 DEF Statuses
    <3>2. res' = Preset(res, status, n, room2)
      BY <1>2, <1>5, <2>3 DEF Refuse
    <3> HIDE DEF n
    <3>3. /\ res' \in Responses
          /\ res'.status = status
          /\ MessageSound(res'.content, causes')
          /\ res'.content.list = res.content.list
          /\ res'.content.body.len <= res.content.body.len + n
      <4> DEFINE p == res
                 q == res'
      <4>1. /\ MessageSound(p.content, causes) /\ causes \subseteq causes'
            /\ p \in Responses
            /\ q = Preset(p, status, n, room2) /\ n \in Nat /\ (~room2 => "refused" \in causes')
        BY <1>6, <2>1, <3>1, <3>2
      <4> HIDE DEF p, q
      <4>2. MessageSound(q.content, causes')
        BY <3>1, <4>1, PresetSound
      <4>3. Answers(p, q, status, n)
        BY <3>1, <4>1, PresetIs
      <4> QED
        BY <4>2, <4>3 DEF p, q, Answers
    <3>4. res'.content.body.len \in Nat
      BY <3>3 DEF Responses, Contents, Buffers
    <3> QED
      BY <2>1, <3>1, <3>3, <3>4
  <2> QED
    BY <2>2, <2>3
<1>21. PICK broken \in {CopyBreak(r, len, refused # Len(r.headers) + 1)} :
         fault' = First(First(broken, Broken(req'.content)), Broken(res'.content))
  BY <1>2 DEF CheckedAfter
<1>22. /\ broken \in {"no", "overflow", "overread"}
       /\ broken = "overflow" => Claimed(r) < 0
       /\ broken = "overread" => "guessed" \in causes' \/ Claimed(r) > BodyRoom(r)
  <2>1. guess # 0 => "guessed" \in causes'
    BY <1>6 DEF GuessedIn
  <2>2. CASE refused \in DOMAIN r.headers
    <3>1. told = Unfound
      BY <1>2, <2>2, NothingRead
    <3> QED
      BY <1>2, <1>21, <2>1, <3>1, <1>8, <1>23, NothingCopied
  <2>3. CASE refused \notin DOMAIN r.headers
    <3>1. told.number = Claimed(r)
      BY <1>2, <1>4, <1>7, <2>3, AllRead DEF Claimed
    <3> QED
      BY <1>2, <1>8, <1>21, <1>23, <2>1, <3>1, CopyBreaks
  <2> QED
    BY <2>2, <2>3
<1>12. /\ fault' \in Faults /\ MemoryIsSound'
       /\ fault' = "no" => Unharmed(res'.content)
  <2>1. PICK f \in {First(First("no", Broken(req'.content)), Broken(res'.content))} : TRUE
    OBVIOUS
  <2>2. /\ f \in {"no", "null", "freed"}
        /\ f = "null" => "refused" \in causes'
        /\ f = "freed" => "destroyed" \in causes'
        /\ f = "no" => Unharmed(res'.content)
    BY <1>9, <1>11, <2>1, CheckedMessages
  <2>3. fault' = IF broken = "no" THEN f ELSE broken
    BY <1>21, <1>22, <2>1 DEF First
  <2>4. ~exchange'.leaks /\ Received(exchange)' = r
    BY <1>3 DEF Sound, UnderWay, Received
  <2>5. Claimed(Received(exchange))' = Claimed(r) /\ BodyRoom(Received(exchange))' = BodyRoom(r)
    BY <2>4 DEF Claimed, BodyRoom
  <2> QED
    BY <1>22, <2>2, <2>3, <2>4, <2>5 DEF MemoryIsSound, Faults
<1>13. Messages'
  <2>1. Longest \in Nat \ {0} /\ res'.content.body.len \in Nat
    BY <1>11, ExchangeBoundsAssumption DEF Responses, Contents, Buffers
  <2> QED
    BY <1>9, <1>11, <1>12, <2>1 DEF Messages
<1>14. pc' \in {"scan", "respond", "find"}
  BY <1>2
<1>15. Undecided'
  BY <1>3, <1>6, <1>10, <1>11, <1>14 DEF Sound, Undecided
<1>16. Scanning'
  <2> SUFFICES ASSUME pc' = "scan"
               PROVE  /\ r.line /\ req'.uri = r.uri
                      /\ "refused" \notin causes' =>
                           /\ Complete(req'.content) /\ req'.content.list = r.headers
                           /\ IsUpgradable(r.method, r.version, r.headers)
    BY <1>3 DEF Scanning, Received
  <2>1. IsUpgradable(r.method, r.version, c.list)
    BY <1>2
  <2> QED
    BY <1>3, <1>6, <1>7, <1>9, <2>1 DEF Complete
<1>17. Callable' /\ pc' \in Steps /\ pc' # "defaults" /\ pc' # "parse" /\ pc' # "idle"
  BY <1>14 DEF Callable, Steps
<1>18. Middle
  BY <1>3, <1>6 DEF Middle
<1>19. /\ exchange' \in Exchanges /\ ~exchange'.leaks /\ ~exchange'.broken
       /\ exchange'.request = exchange.request
       /\ exchange'.answers = 0 /\ exchange'.status = 0
       /\ calls' \in 0 .. MaxCalls /\ found' \in 0 .. DefaultSlot /\ stale' = stale
  BY <1>3 DEF Sound, ThreadTyped, UnderWay
<1> QED
  BY <1>11, <1>12, <1>13, <1>15, <1>16, <1>17, <1>18, <1>19, MiddleFaulty

-----------------------------------------------------------------------------
(* The steps between the request and its callback. *)

LEMMA SeqWider ==
  ASSUME NEW S, NEW T, S \subseteq T, NEW l \in Seq(S)
  PROVE  l \in Seq(T)
OBVIOUS

LEMMA ReceivedSame ==
  ASSUME NEW x, NEW y, x.request = y.request, x.cut = y.cut
  PROVE  Received(x) = Received(y)
BY DEF Received

\* A response that gets a status alone.
LEMMA StatusGiven ==
  ASSUME NEW p \in Responses, NEW status \in Statuses, NEW granted \in BOOLEAN,
         NEW q, q = Preset(p, status, 0, granted)
  PROVE  q \in Responses /\ q.status = status /\ q.content = p.content
<1> DEFINE c == p.content
<1>1. AppendBody(p.content, 0, granted) = c
  BY DEF AppendBody
<1>2. q = [status |-> status, content |-> c] /\ c \in Contents(DOMAIN Lines)
  BY <1>1 DEF Preset, Responses
<1>3. c = p.content
  OBVIOUS
<1> HIDE DEF c
<1>4. q.status = status /\ q.content = c
  BY <1>2
<1>5. [status |-> status, content |-> c] \in Responses
  BY <1>2 DEF Responses
<1>6. q \in Responses
  BY <1>2, <1>5
<1> QED
  BY <1>3, <1>4, <1>6

LEMMA StatusAlone ==
  ASSUME NEW p \in Responses, NEW status \in Statuses, NEW q, q = Preset(p, status, 0, TRUE)
  PROVE  q \in Responses /\ q.status = status /\ q.content = p.content
<1>1. TRUE \in BOOLEAN
  OBVIOUS
<1> QED
  BY <1>1, StatusGiven, Zenon

\* The first endpoint that matches is one.
LEMMA FirstSlot ==
  ASSUME NEW S \in SUBSET Slots, S # {}
  PROVE  FirstOf(S) \in S /\ \A k \in S : FirstOf(S) <= k
<1>1. S \in SUBSET Nat
  BY DEF Slots
<1>2. PICK m \in S : \A k \in S : m <= k
  BY <1>1, LeastNumber
<1> QED
  BY <1>2 DEF FirstOf

\* What adding n headers may have to note.
LEMMA NotedCauses ==
  ASSUME Sound, NEW n \in Nat, NEW refused \in Refusals(n), Notes(RefusedIn(refused))
  PROVE  /\ causes' \subseteq Causes /\ causes \subseteq causes'
         /\ refused # 0 => "refused" \in causes'
         /\ \A cause \in causes' : cause \in causes \/ cause = "refused"
         /\ "refused" \notin causes' => refused = 0
BY RefusalsNoted DEF Notes, Sound, ThreadTyped, Causes

LEMMA UpgradeSound ==
  ASSUME Sound, Upgrade
  PROVE  Sound'
<1>1. PICK refused \in Refusals(Len(UpgradeHeaders)) :
        /\ res' = IF Matches = {} THEN Preset(res, 404, 0, TRUE)
                  ELSE [status |-> 101,
                        content |-> AddHeaders(res.content, UpgradeHeaders, refused)]
        /\ exchange' = [exchange EXCEPT !.ws = IF Matches = {} THEN @
                                               ELSE endpoints[FirstOf(Matches)].ws]
        /\ Notes(RefusedIn(refused))
  BY DEF Upgrade
<1>2. /\ pc = "scan" /\ fault = "no" /\ pc' = "respond" /\ Checked
      /\ UNCHANGED <<req, admin, found, stale, calls, conn, rest>>
  BY DEF Upgrade, At
<1>3. /\ causes' \subseteq Causes /\ causes \subseteq causes'
      /\ refused # 0 => "refused" \in causes'
      /\ \A cause \in causes' : cause \in causes \/ cause = "refused"
  <2>1. Len(UpgradeHeaders) \in Nat
    BY OwnHeaders
  <2> QED
    BY <1>1, <2>1, NotedCauses
<1>4. /\ res \in Responses /\ MessageSound(res.content, causes)
      /\ MessageSound(req.content, causes \ {"destroyed"})
      /\ res.content.body.len <= Longest
      /\ "content-length" \notin causes => res.content.list \in Seq(Unseen("content-length"))
      /\ "connection" \notin causes => res.content.list \in Seq(Unseen("connection"))
  BY <1>2 DEF Sound, ThreadTyped, Messages, Undecided
<1>5. /\ res' \in Responses /\ MessageSound(res'.content, causes')
      /\ res'.content.body.len <= Longest /\ res'.status \in {101, 404}
      /\ "content-length" \notin causes => res'.content.list \in Seq(Unseen("content-length"))
      /\ "connection" \notin causes =>
           res'.content.list \in Seq(Unseen("connection") \cup {Line("connection", "Upgrade")})
  <2>1. CASE Matches = {}
    <3> DEFINE status == 404
    <3>1. res' = Preset(res, status, 0, TRUE) /\ status \in Statuses
      BY <1>1, <2>1 DEF Statuses
    <3> HIDE DEF status
    <3>a. res' \in Responses /\ res'.status = status /\ res'.content = res.content
      BY <1>4, <3>1, StatusAlone
    <3>2. res' \in Responses /\ res'.status = 404 /\ res'.content = res.content
      BY <3>a DEF status
    <3>3. MessageSound(res'.content, causes')
      BY <1>3, <1>4, <3>2, MoreHappens
    <3> QED
      BY <1>4, <3>2, <3>3, SeqWider
  <2>2. CASE Matches # {}
    <3> DEFINE d == AddHeaders(res.content, UpgradeHeaders, refused)
               c == res.content
    <3>1. res' = [status |-> 101, content |-> d]
      BY <1>1, <2>2
    <3>2. /\ UpgradeHeaders \in Seq(DOMAIN Lines)
          /\ refused \in DOMAIN UpgradeHeaders => "refused" \in causes'
      <4>1. Unseen("content-length") \subseteq DOMAIN Lines
        BY UnseenLines
      <4>2. UpgradeHeaders \in Seq(DOMAIN Lines)
        BY <4>1, OwnHeaders, SeqWider
      <4> QED
        BY <1>3, <4>2
    <3>3. d = AddHeaders(c, UpgradeHeaders, refused) /\ MessageSound(c, causes)
      BY <1>4
    <3> HIDE DEF d, c
    <3>4. MessageSound(d, causes')
      BY <1>3, <3>2, <3>3, HeadersAdded
    <3>a. Longer(c, d, UpgradeHeaders)
      BY <3>2, <3>3, HeadersListed
    <3>5. d.body = c.body /\ \A S : c.list \in Seq(S) /\ UpgradeHeaders \in Seq(S) => d.list \in Seq(S)
      BY <3>a DEF Longer
    <3>6. "content-length" \notin causes => d.list \in Seq(Unseen("content-length"))
      BY <1>4, <3>5, OwnHeaders DEF c
    <3>7. "connection" \notin causes =>
             d.list \in Seq(Unseen("connection") \cup {Line("connection", "Upgrade")})
      BY <1>4, <3>5, OwnHeaders, SeqWider DEF c
    <3>8. d.body.len <= Longest
      BY <1>4, <3>5 DEF c
    <3> QED
      BY <3>1, <3>4, <3>6, <3>7, <3>8 DEF Responses, Statuses, MessageSound
  <2> QED
    BY <2>1, <2>2
<1>6. MessageSound(req'.content, causes' \ {"destroyed"})
  BY <1>2, <1>3, <1>4, MoreHappens
<1>7. /\ fault' \in {"no", "null", "freed"}
      /\ fault' = "null" => "refused" \in causes'
      /\ fault' = "freed" => "destroyed" \in causes'
      /\ fault' = "no" => Unharmed(res'.content)
  BY <1>2, <1>5, <1>6, CheckedMessages DEF Checked, CheckedAfter
<1>8. Messages'
  BY <1>5, <1>6, <1>7 DEF Messages
<1>9. Undecided'
  BY <1>2, <1>3, <1>5 DEF Undecided
<1>10. /\ exchange' \in Exchanges /\ exchange'.request = exchange.request
       /\ exchange'.leaks = exchange.leaks /\ exchange'.broken = exchange.broken
       /\ exchange'.answers = exchange.answers /\ exchange'.status = exchange.status
  <2> DEFINE ws == IF Matches = {} THEN exchange.ws ELSE endpoints[FirstOf(Matches)].ws
  <2>1. ws \in WsCallbacks \cup {None}
    <3>1. CASE Matches = {}
      BY <3>1 DEF Sound, ThreadTyped, Exchanges
    <3>2. CASE Matches # {}
      <4>1. Matches \in SUBSET Slots
        BY DEF Matches, Scanned
      <4>2. FirstOf(Matches) \in Slots
        BY <3>2, <4>1, FirstSlot
      <4> QED
        BY <3>2, <4>2 DEF Sound, Setup, SetupTyped, SlotRecords
    <3> QED
      BY <3>1, <3>2
  <2>2. exchange' = [exchange EXCEPT !.ws = ws]
    BY <1>1
  <2> HIDE DEF ws
  <2> QED
    BY <2>1, <2>2 DEF Sound, ThreadTyped, Exchanges
<1>11. Scanning' /\ Callable'
  BY <1>2 DEF Scanning, Callable
<1>12. Middle
  BY <1>2, <1>3 DEF Middle
<1>13. /\ ~exchange.leaks /\ ~exchange.broken /\ exchange.answers = 0 /\ exchange.status = 0
       /\ pc' \in Steps
       /\ calls' \in 0 .. MaxCalls /\ found' \in 0 .. DefaultSlot /\ stale' = stale
  BY <1>2 DEF Sound, ThreadTyped, UnderWay, Steps
<1> QED
  BY <1>2, <1>5, <1>7, <1>8, <1>9, <1>10, <1>11, <1>12, <1>13, MiddleSound

\* With nothing set up meanwhile, an endpoint that matches is in the book.
LEMMA MatchBooked ==
  ASSUME Setup, owner.doing = "nothing", NEW i \in Slots, NEW u \in Uris, endpoints[i].uri = u
  PROVE  /\ i <= count /\ endpoints[i].active
         /\ book.uris[u] # Unbooked
         /\ book.uris[u].http = endpoints[i].http /\ book.uris[u].ws = endpoints[i].ws
         /\ book.uris[u].methods = endpoints[i].methods
<1>1. i <= count
  BY EndpointsAssumption DEF Setup, TableFilled, FreeSlot
<1>2. endpoints[i].active
  BY <1>1 DEF Setup, TableFilled, Filling
<1>3. /\ book.uris[u].http = endpoints[i].http /\ book.uris[u].ws = endpoints[i].ws
      /\ book.uris[u].methods = endpoints[i].methods
      /\ endpoints[i].http # None \/ endpoints[i].ws # None
  BY <1>1, <1>2 DEF Setup, BookAgrees
<1> QED
  BY <1>1, <1>2, <1>3 DEF Unbooked

\* A request that is left alone is one without a key, for a session that could be had.
LEMMA KeylessLeft ==
  ASSUME Sound, UpgradeWithoutKey, "refused" \notin causes
  PROVE  Keyless(Received(exchange))'
<1>1. /\ pc = "scan" /\ fault = "no" /\ Matches # {} /\ ~Keyed
      /\ exchange' = [exchange EXCEPT !.leaks = Leaks(req.content) \/ Leaks(res.content)]
      /\ UNCHANGED <<admin, causes>>
  BY DEF UpgradeWithoutKey, At
<1>2. exchange'.request = exchange.request /\ exchange'.cut = exchange.cut
  BY <1>1 DEF Sound, ThreadTyped, Exchanges
<1>3. PICK r : /\ r = Received(exchange) /\ r.line /\ req.uri = r.uri
               /\ Complete(req.content) /\ req.content.list = r.headers
               /\ IsUpgradable(r.method, r.version, r.headers)
  BY <1>1 DEF Sound, Scanning
<1>4. Received(exchange') = r
  BY <1>2, <1>3, ReceivedSame
<1>5. r.uri \in Uris /\ r.headers \in Seq(DOMAIN Lines)
  BY <1>1, <1>3, ReceivedTyped DEF Sound, UnderWay
<1>6. Lookup(r.headers, "sec-websocket-key").ret # "found"
  BY <1>1, <1>3, <1>5, AllRead DEF Keyed
<1>7. "raced" \in causes \/ book.uris[r.uri] # Unbooked
  <2>1. PICK i \in Slots : endpoints[i].uri = r.uri
    BY <1>1, <1>3 DEF Matches, Scanned
  <2> QED
    BY <1>1, <1>5, <2>1, MatchBooked DEF Sound, UnderWay
<1> QED
  BY <1>1, <1>3, <1>4, <1>6, <1>7 DEF Keyless, admin

LEMMA UpgradeWithoutKeySound ==
  ASSUME Sound, UpgradeWithoutKey
  PROVE  Sound'
<1>1. /\ pc = "scan" /\ fault = "no" /\ pc' = "idle" /\ Matches # {} /\ ~Keyed
      /\ req' = NewRequest /\ res' = NewResponse /\ found' = 0 /\ stale' = FALSE /\ calls' = 0
      /\ exchange' = [exchange EXCEPT !.leaks = Leaks(req.content) \/ Leaks(res.content)]
      /\ UNCHANGED <<admin, conn, rest, causes, fault>>
  BY DEF UpgradeWithoutKey, At, Returned
<1>2. Setup'
  BY <1>1, SetupKept DEF Sound
<1>3. /\ exchange' \in Exchanges /\ exchange'.request = exchange.request
      /\ exchange'.cut = exchange.cut
  <2> DEFINE leaks == Leaks(req.content) \/ Leaks(res.content)
  <2>1. leaks \in BOOLEAN /\ exchange' = [exchange EXCEPT !.leaks = leaks]
    BY <1>1
  <2> HIDE DEF leaks
  <2> QED
    BY <2>1 DEF Sound, ThreadTyped, Exchanges
<1>4. ThreadTyped'
  <2>1. calls' \in 0 .. MaxCalls /\ found' \in 0 .. DefaultSlot
    BY <1>1, ExchangeBoundsAssumption, EndpointsAssumption DEF DefaultSlot
  <2> QED
    BY <1>1, <1>3, <2>1, NewMessages DEF Sound, ThreadTyped
<1>5. UnderWay' /\ Scanning' /\ Callable'
  BY <1>1 DEF UnderWay, Scanning, Callable
<1>6. Messages' /\ Undecided'
  BY <1>1, NothingSound
<1>7. MemoryIsSound'
  BY <1>1, KeylessLeft DEF MemoryIsSound
<1> QED
  BY <1>2, <1>4, <1>5, <1>6, <1>7 DEF Sound

\* Steps that change neither message.
LEMMA FindSound ==
  ASSUME Sound, FindEndpoint
  PROVE  Sound'
<1>1. PICK matches \in {{i \in Slots : i <= count /\ endpoints[i].uri = req.uri}} :
        found' = CASE matches # {} -> FirstOf(matches)
                   [] matches = {} /\ fallback.active -> DefaultSlot
                   [] matches = {} /\ ~fallback.active -> 0
  BY DEF FindEndpoint
<1>2. /\ pc = "find" /\ fault = "no" /\ pc' = "check"
      /\ UNCHANGED <<admin, req, res, stale, calls, conn, rest, exchange, causes, fault>>
  BY DEF FindEndpoint, At
<1>3. found' \in 0 .. DefaultSlot
  <2>1. MaxEndpoints \in Nat /\ Slots \subseteq 0 .. DefaultSlot
    BY EndpointsAssumption DEF Slots, DefaultSlot
  <2>2. CASE matches # {}
    <3>1. matches \in SUBSET Slots
      BY <1>1
    <3>2. FirstOf(matches) \in matches
      BY <2>2, <3>1, FirstSlot
    <3> QED
      BY <1>1, <2>1, <2>2, <3>1, <3>2
  <2>3. CASE matches = {}
    BY <1>1, <2>1, <2>3 DEF DefaultSlot
  <2> QED
    BY <2>2, <2>3
<1>4. Messages' /\ Undecided'
  BY <1>2 DEF Sound, Messages, Undecided
<1>5. Scanning' /\ Callable' /\ Middle
  BY <1>2 DEF Scanning, Callable, Middle, Sound, ThreadTyped
<1> QED
  BY <1>2, <1>3, <1>4, <1>5, MiddleSound DEF Sound, ThreadTyped, UnderWay, Steps

LEMMA CheckSound ==
  ASSUME Sound, CheckEndpoint
  PROVE  Sound'
<1>1. PICK status : /\ status = CheckStatus(Found, req.method)
                    /\ res' = Preset(res, status, 0, TRUE)
                    /\ pc' = IF status = 200 THEN "call" ELSE "keepalive"
  BY DEF CheckEndpoint
<1>2. /\ pc = "check" /\ fault = "no"
      /\ UNCHANGED <<admin, req, found, stale, calls, conn, rest, exchange, causes, fault>>
  BY DEF CheckEndpoint, At
<1>3. status \in {200, 404, 405} /\ (status = 200 => Found.http # None)
  BY <1>1 DEF CheckStatus
<1>4. res' \in Responses /\ res'.status = status /\ res'.content = res.content
  <2>1. status \in Statuses /\ res \in Responses
    BY <1>3 DEF Statuses, Sound, ThreadTyped
  <2> QED
    BY <1>1, <2>1, StatusAlone
<1>5. pc' \in {"call", "keepalive"}
  BY <1>1
<1>6. Messages' /\ Undecided'
  BY <1>2, <1>3, <1>4, <1>5 DEF Sound, Messages, Undecided
<1>7. Scanning' /\ Middle
  BY <1>2, <1>5 DEF Scanning, Middle, Sound, ThreadTyped
<1>8. Callable'
  BY <1>1, <1>2, <1>3 DEF Callable, Found, admin, server
<1> QED
  BY <1>2, <1>4, <1>5, <1>6, <1>7, <1>8, MiddleSound DEF Sound, ThreadTyped, UnderWay, Steps

\* The endpoint that was found is one of the table, the default one, or none.
LEMMA FoundTyped ==
  ASSUME Setup, found \in 0 .. DefaultSlot
  PROVE  Found \in SlotRecords
<1>1. found = DefaultSlot \/ found = 0 \/ found \in Slots
  BY EndpointsAssumption DEF DefaultSlot, Slots
<1> QED
  BY <1>1, RecordsTyped DEF Found, Setup, SetupTyped

LEMMA CallSound ==
  ASSUME Sound, CallEndpoint
  PROVE  Sound'
<1>1. /\ pc = "call" /\ fault = "no" /\ pc' = "callback"
      /\ exchange' = [exchange EXCEPT !.ran = Found.http]
      /\ fault' = IF Found.http = None THEN "null" ELSE fault
      /\ UNCHANGED <<admin, req, res, found, stale, calls, conn, rest, causes>>
  BY DEF CallEndpoint, At
<1>2. Found.http # None /\ fault' = fault
  BY <1>1 DEF Sound, Callable
<1>3. /\ exchange' \in Exchanges /\ exchange'.request = exchange.request
      /\ exchange'.leaks = exchange.leaks /\ exchange'.broken = exchange.broken
      /\ exchange'.answers = exchange.answers /\ exchange'.status = exchange.status
  <2> DEFINE cb == Found.http
  <2>1. cb \in HttpCallbacks \cup {None} /\ exchange' = [exchange EXCEPT !.ran = cb]
    BY <1>1, FoundTyped DEF Sound, ThreadTyped, SlotRecords
  <2> HIDE DEF cb
  <2> QED
    BY <2>1 DEF Sound, ThreadTyped, Exchanges
<1>4. Messages' /\ Undecided'
  BY <1>1, <1>2 DEF Sound, Messages, Undecided
<1>5. Scanning' /\ Callable' /\ Middle
  BY <1>1 DEF Scanning, Callable, Middle, Sound, ThreadTyped
<1> QED
  BY <1>1, <1>2, <1>3, <1>4, <1>5, MiddleSound DEF Sound, ThreadTyped, UnderWay, Steps

-----------------------------------------------------------------------------
(* The callback, and the response. *)

\* A step that works on the response before it is completed.
LEMMA AnsweringSound ==
  ASSUME Sound, fault = "no", pc \in {"callback", "keepalive"}, pc' \in {"callback", "respond"},
         UNCHANGED <<admin, req, found, stale, conn, rest, exchange>>,
         calls' \in 0 .. MaxCalls, causes \subseteq causes', causes' \subseteq Causes,
         res' \in Responses, res'.status # 101, MessageSound(res'.content, causes'),
         res'.content.body.len <= Longest,
         "content-length" \notin causes' => res'.content.list \in Seq(Unseen("content-length")),
         "connection" \notin causes' /\ pc' = "callback" =>
            res'.content.list \in Seq(Unseen("connection")),
         fault' \in {"no", "null", "freed"},
         fault' = "null" => "refused" \in causes',
         fault' = "freed" => "destroyed" \in causes',
         fault' = "no" => Unharmed(res'.content)
  PROVE  Sound'
<1>1. Middle /\ pc' \in Steps /\ pc' # "defaults" /\ pc' # "parse" /\ pc' # "idle"
  BY DEF Middle, Steps
<1>2. MessageSound(req'.content, causes' \ {"destroyed"})
  <2>1. MessageSound(req.content, causes \ {"destroyed"})
    BY DEF Sound, Messages
  <2> QED
    BY <2>1, MoreHappens
<1>3. Messages'
  BY <1>2 DEF Messages
<1>4. Undecided'
  BY DEF Undecided
<1>5. Scanning' /\ Callable'
  BY DEF Scanning, Callable
<1>6. /\ exchange' \in Exchanges /\ ~exchange'.leaks /\ ~exchange'.broken
      /\ exchange'.request = exchange.request
      /\ exchange'.answers = 0 /\ exchange'.status = 0
      /\ found' \in 0 .. DefaultSlot /\ stale' = stale
  BY DEF Sound, ThreadTyped, UnderWay
<1> QED
  BY <1>1, <1>3, <1>4, <1>5, <1>6, MiddleSound

\* What a response is while it is worked on.
LEMMA WorkedOn ==
  ASSUME Sound, pc \in {"callback", "keepalive"}
  PROVE  /\ res \in Responses /\ res.status # 101 /\ MessageSound(res.content, causes)
         /\ MessageSound(req.content, causes \ {"destroyed"})
         /\ res.content.body.len <= Longest /\ res.content.body.len \in Nat
         /\ "content-length" \notin causes => res.content.list \in Seq(Unseen("content-length"))
         /\ "connection" \notin causes => res.content.list \in Seq(Unseen("connection"))
         /\ calls \in 0 .. MaxCalls
         /\ fault = "no" => Unharmed(res.content)
<1>1. res \in Responses /\ MessageSound(res.content, causes) /\ res.status # 101
  BY DEF Sound, ThreadTyped, Messages, Undecided
<1>2. res.content.body.len \in Nat
  BY <1>1 DEF Responses, Contents, Buffers
<1> QED
  BY <1>1, <1>2 DEF Sound, ThreadTyped, Messages, Undecided

\* With both messages sound, what is checked is sound.
LEMMA CheckedSound ==
  ASSUME fault = "no", UNCHANGED req, Checked, causes \subseteq causes',
         MessageSound(req.content, causes \ {"destroyed"}), MessageSound(res'.content, causes')
  PROVE  /\ fault' \in {"no", "null", "freed"}
         /\ fault' = "null" => "refused" \in causes'
         /\ fault' = "freed" => "destroyed" \in causes'
         /\ fault' = "no" => Unharmed(res'.content)
<1>1. MessageSound(req'.content, causes' \ {"destroyed"})
  BY MoreHappens
<1> QED
  BY <1>1, CheckedMessages DEF Checked, CheckedAfter

LEMMA CallbackAddsHeaderSound ==
  ASSUME Sound, CallbackAddsHeader
  PROVE  Sound'
<1>1. PICK h \in CallbackHeaders, refused \in Refusals(1) :
        /\ res' = [res EXCEPT !.content = AddHeader(@, h, refused = 0)]
        /\ Notes(RefusedIn(refused) \cup Decides(h))
  BY DEF CallbackAddsHeader
<1>2. /\ pc = "callback" /\ fault = "no" /\ calls < MaxCalls /\ calls' = calls + 1 /\ Checked
      /\ UNCHANGED <<admin, req, pc, found, stale, conn, rest, exchange>>
  BY DEF CallbackAddsHeader, Calls, At
<1>3. PICK granted \in BOOLEAN : granted <=> refused = 0
  OBVIOUS
<1>4. h \in DOMAIN Lines
  BY HeadersAssumption
<1>5. /\ causes \subseteq causes' /\ causes' \subseteq Causes
      /\ ~granted => "refused" \in causes'
      /\ Decides(h) \subseteq causes'
  BY <1>1, <1>3, RefusalsNoted DEF Notes, Decides, Sound, ThreadTyped, Causes
<1>6. /\ res \in Responses /\ res.status # 101 /\ MessageSound(res.content, causes)
      /\ MessageSound(req.content, causes \ {"destroyed"})
      /\ res.content.body.len <= Longest
      /\ "content-length" \notin causes => res.content.list \in Seq(Unseen("content-length"))
      /\ "connection" \notin causes => res.content.list \in Seq(Unseen("connection"))
      /\ calls \in 0 .. MaxCalls
  BY <1>2, WorkedOn
<1> DEFINE c == res.content
           d == AddHeader(c, h, granted)
<1>7. res' = [res EXCEPT !.content = d]
  BY <1>1, <1>3
<1>8. d = AddHeader(c, h, granted) /\ MessageSound(c, causes)
  BY <1>6
<1> HIDE DEF c, d
<1>9. MessageSound(d, causes')
  BY <1>4, <1>5, <1>8, HeaderAdded
<1>10. Longer(c, d, <<h>>)
  BY <1>4, <1>8, HeaderListed
<1>11. res' \in Responses /\ res'.status = res.status /\ res'.content = d
  BY <1>6, <1>7, <1>9 DEF Responses, MessageSound
<1>12. res'.content.body.len <= Longest
  BY <1>6, <1>10, <1>11 DEF Longer, c
<1>13. ASSUME NEW key \in {"content-length", "connection"}, key \notin causes'
       PROVE  res'.content.list \in Seq(Unseen(key))
  <2>1. h \in Unseen(key)
    BY <1>4, <1>5, <1>13, UndecidedLine
  <2>2. <<h>> \in Seq(Unseen(key))
    BY <2>1
  <2>3. c.list \in Seq(Unseen(key))
    BY <1>5, <1>6, <1>13 DEF c
  <2> QED
    BY <1>10, <1>11, <2>2, <2>3 DEF Longer
<1>14. MessageSound(res'.content, causes') /\ res'.status # 101
  BY <1>6, <1>9, <1>11
<1>15. /\ fault' \in {"no", "null", "freed"}
       /\ fault' = "null" => "refused" \in causes'
       /\ fault' = "freed" => "destroyed" \in causes'
       /\ fault' = "no" => Unharmed(res'.content)
  BY <1>2, <1>5, <1>6, <1>14, CheckedSound
<1>16. calls' \in 0 .. MaxCalls
  BY <1>2, <1>6, ExchangeBoundsAssumption
<1> QED
  BY <1>2, <1>5, <1>11, <1>12, <1>13, <1>14, <1>15, <1>16, AnsweringSound

LEMMA CallbackAppendsSound ==
  ASSUME Sound, CallbackAppends
  PROVE  Sound'
<1>1. PICK n \in 1 .. Block, refused \in Refusals(1) :
        /\ res.content.body.len + n <= Longest
        /\ res' = [res EXCEPT !.content = AppendBody(@, n, refused = 0)]
        /\ Notes(RefusedIn(refused))
  BY DEF CallbackAppends
<1>2. /\ pc = "callback" /\ fault = "no" /\ calls < MaxCalls /\ calls' = calls + 1 /\ Checked
      /\ UNCHANGED <<admin, req, pc, found, stale, conn, rest, exchange>>
  BY DEF CallbackAppends, Calls, At
<1>3. PICK granted \in BOOLEAN : granted <=> refused = 0
  OBVIOUS
<1>4. n \in Nat
  BY BlockAssumption
<1>5. /\ causes \subseteq causes' /\ causes' \subseteq Causes
      /\ ~granted => "refused" \in causes'
  BY <1>1, <1>3, NotedCauses
<1>6. /\ res \in Responses /\ res.status # 101 /\ MessageSound(res.content, causes)
      /\ MessageSound(req.content, causes \ {"destroyed"})
      /\ res.content.body.len \in Nat
      /\ "content-length" \notin causes => res.content.list \in Seq(Unseen("content-length"))
      /\ "connection" \notin causes => res.content.list \in Seq(Unseen("connection"))
      /\ calls \in 0 .. MaxCalls
  BY <1>2, WorkedOn
<1> DEFINE c == res.content
           d == AppendBody(c, n, granted)
<1>7. res' = [res EXCEPT !.content = d]
  BY <1>1, <1>3
<1>8. d = AppendBody(c, n, granted) /\ MessageSound(c, causes)
  BY <1>6
<1> HIDE DEF c, d
<1>9. MessageSound(d, causes')
  BY <1>4, <1>5, <1>8, BodyAppended
<1>10. d.list = c.list /\ d.body.len <= c.body.len + n
  BY <1>4, <1>5, <1>8, <1>9, BodyAppended
<1>11. res' \in Responses /\ res'.status = res.status /\ res'.content = d
  BY <1>6, <1>7, <1>9 DEF Responses, MessageSound
<1>12. res'.content.body.len <= Longest
  <2>1. d.body.len \in Nat
    BY <1>9 DEF MessageSound, Contents, Buffers
  <2> QED
    BY <1>1, <1>4, <1>6, <1>10, <1>11, <2>1, ExchangeBoundsAssumption DEF c
<1>13. /\ "content-length" \notin causes' => res'.content.list \in Seq(Unseen("content-length"))
       /\ "connection" \notin causes' => res'.content.list \in Seq(Unseen("connection"))
  BY <1>5, <1>6, <1>10, <1>11 DEF c
<1>14. MessageSound(res'.content, causes') /\ res'.status # 101
  BY <1>6, <1>9, <1>11
<1>15. /\ fault' \in {"no", "null", "freed"}
       /\ fault' = "null" => "refused" \in causes'
       /\ fault' = "freed" => "destroyed" \in causes'
       /\ fault' = "no" => Unharmed(res'.content)
  BY <1>2, <1>5, <1>6, <1>14, CheckedSound
<1>16. calls' \in 0 .. MaxCalls
  BY <1>2, <1>6, ExchangeBoundsAssumption
<1> QED
  BY <1>2, <1>5, <1>11, <1>12, <1>13, <1>14, <1>15, <1>16, AnsweringSound

LEMMA CallbackSetsStatusSound ==
  ASSUME Sound, CallbackSetsStatus
  PROVE  Sound'
<1>1. /\ pc = "callback" /\ fault = "no" /\ calls < MaxCalls /\ calls' = calls + 1
      /\ res' = [res EXCEPT !.status = 429]
      /\ UNCHANGED <<admin, req, causes, fault, pc, found, stale, conn, rest, exchange>>
  BY DEF CallbackSetsStatus, Calls, At
<1>2. /\ res \in Responses /\ MessageSound(res.content, causes) /\ Unharmed(res.content)
      /\ res.content.body.len <= Longest
      /\ "content-length" \notin causes => res.content.list \in Seq(Unseen("content-length"))
      /\ "connection" \notin causes => res.content.list \in Seq(Unseen("connection"))
      /\ calls \in 0 .. MaxCalls /\ causes \subseteq Causes
  BY <1>1, WorkedOn DEF Sound, ThreadTyped
<1>3. res' \in Responses /\ res'.status = 429 /\ res'.content = res.content
  BY <1>1, <1>2 DEF Responses, Statuses
<1>4. calls' \in 0 .. MaxCalls
  BY <1>1, <1>2, ExchangeBoundsAssumption
<1> QED
  BY <1>1, <1>2, <1>3, <1>4, AnsweringSound

\* A copy is destroyed like what it was copied from, unless there was no room for it.
LEMMA CopyBroken ==
  ASSUME NEW what, NEW c, MessageSound(c, what), "destroyed" \notin what,
         NEW refused \in {"no", "headers", "body"}
  PROVE  /\ Broken(Destroy(CopyContent(c, refused))) \in {"no", "null"}
         /\ Broken(Destroy(CopyContent(c, refused))) = "null" => refused # "no"
<1> DEFINE hb == IF refused = "headers" THEN NotOwn(c.headers) ELSE Own(c.headers)
           bb == CASE refused = "no"      -> Own(c.body)
                   [] refused = "body"    -> NotOwn(c.body)
                   [] refused = "headers" -> c.body
           d  == Destroy(CopyContent(c, refused))
<1>1. d.headers = Freed(hb) /\ d.body = Freed(bb)
  <2> DEFINE copy == CopyContent(c, refused)
  <2>1. copy.headers = hb /\ copy.body = bb /\ DOMAIN copy = {"list", "headers", "body"}
    <3>1. c \in Contents(DOMAIN Lines)
      BY DEF MessageSound
    <3>2. CASE refused = "no"
      BY <3>1, <3>2 DEF CopyContent, Contents
    <3>3. CASE refused = "headers"
      BY <3>1, <3>3 DEF CopyContent, Contents
    <3>4. CASE refused = "body"
      BY <3>1, <3>4 DEF CopyContent, Contents
    <3> QED
      BY <3>2, <3>3, <3>4
  <2> HIDE DEF hb, bb, copy
  <2>2. Destroy(copy).headers = Freed(hb) /\ Destroy(copy).body = Freed(bb)
    BY <2>1 DEF Destroy
  <2> QED
    BY <2>2 DEF copy
<1>2. ASSUME NEW b, b \in Buffers, Kept(b)
      PROVE  /\ Freed(b).wrong \in {"no", "lost", "null"}
             /\ Freed(Own(b)).wrong \in {"no", "lost"}
             /\ Freed(NotOwn(b)).wrong \in {"no", "lost", "null"}
  <2>1. /\ b.allocated = 0 => Own(b) = b /\ NotOwn(b) = b /\ Freed(b) = b
    BY <1>2 DEF Own, NotOwn, Freed, Buffers
  <2>2. CASE b.allocated # 0
    <3>1. b.allocated > 0 /\ b.ptr \in {"live", "null"} /\ b.wrong \in {"no", "lost"}
      BY <1>2, <2>2 DEF Buffers, Kept
    <3>2. /\ Own(b).ptr = "live" /\ Own(b).wrong = b.wrong /\ Own(b).allocated # 0
          /\ Own(b) \in Buffers
      <4>1. Own(b) = [ptr |-> "live", size |-> b.allocated, len |-> b.len,
                      allocated |-> b.allocated, wrong |-> b.wrong]
        BY <1>2, <3>1 DEF Own, Buffers
      <4> QED
        BY <1>2, <2>2, <4>1 DEF Buffers
    <3>3. /\ NotOwn(b).ptr = "null" /\ NotOwn(b).wrong = b.wrong /\ NotOwn(b).allocated # 0
          /\ NotOwn(b) \in Buffers
      <4>1. NotOwn(b) = [ptr |-> "null", size |-> 0, len |-> b.len,
                         allocated |-> b.allocated, wrong |-> b.wrong]
        BY <1>2, <3>1 DEF NotOwn, Buffers
      <4> QED
        BY <1>2, <2>2, <4>1 DEF Buffers
    <3>4. ASSUME NEW e \in Buffers, e.ptr \in {"live", "null"}, e.wrong \in {"no", "lost"},
                 e.allocated # 0
          PROVE  Freed(e).wrong = IF e.ptr = "null" /\ e.len > 0 THEN "null" ELSE e.wrong
      BY <3>4 DEF Freed, Buffers
    <3>5. Freed(Own(b)).wrong = b.wrong
      BY <3>1, <3>2, <3>4
    <3>6. Freed(NotOwn(b)).wrong \in {"null", b.wrong}
      BY <3>1, <3>3, <3>4
    <3>7. Freed(b).wrong \in {"null", b.wrong}
      BY <1>2, <2>2, <3>1, <3>4
    <3> QED
      BY <3>1, <3>5, <3>6, <3>7
  <2>3. CASE b.allocated = 0
    BY <1>2, <2>1, <2>3 DEF Kept
  <2> QED
    BY <2>2, <2>3
<1>3. /\ c.headers \in Buffers /\ c.body \in Buffers /\ Kept(c.headers) /\ Kept(c.body)
  BY DEF MessageSound, Contents
<1>4. /\ Freed(hb).wrong \in {"no", "lost", "null"}
      /\ Freed(bb).wrong \in {"no", "lost", "null"}
      /\ refused = "no" => Freed(hb).wrong # "null" /\ Freed(bb).wrong # "null"
  BY <1>2, <1>3
<1> HIDE DEF hb, bb
<1>5. /\ Broken(d) \in {"no", "null"}
      /\ Broken(d) = "null" => refused # "no"
  <2> DEFINE w == Freed(hb).wrong
             v == Freed(bb).wrong
  <2>1. d.headers.wrong = w /\ d.body.wrong = v
    BY <1>1
  <2>2. /\ w \in {"no", "lost", "null"} /\ v \in {"no", "lost", "null"}
        /\ refused = "no" => w # "null" /\ v # "null"
    BY <1>4
  <2> HIDE DEF w, v, d
  <2> QED
    BY <2>1, <2>2 DEF Broken
<1> QED
  BY <1>5

LEMMA CallbackCopiesSound ==
  ASSUME Sound, CallbackCopies
  PROVE  Sound'
<1>1. PICK refused \in {"no", "headers", "body"} :
        /\ fault' = First(fault, Broken(Destroy(CopyContent(req.content, refused))))
        /\ Notes(IF refused = "no" THEN {} ELSE {"refused"})
  BY DEF CallbackCopies
<1>2. /\ pc = "callback" /\ fault = "no" /\ calls < MaxCalls /\ calls' = calls + 1
      /\ UNCHANGED <<admin, req, res, pc, found, stale, conn, rest, exchange>>
  BY DEF CallbackCopies, Calls, At
<1>3. /\ causes \subseteq causes' /\ causes' \subseteq Causes
      /\ refused # "no" => "refused" \in causes'
      /\ "content-length" \in causes' <=> "content-length" \in causes
      /\ "connection" \in causes' <=> "connection" \in causes
  BY <1>1 DEF Notes, Sound, ThreadTyped, Causes
<1>4. /\ res \in Responses /\ res.status # 101 /\ MessageSound(res.content, causes)
      /\ MessageSound(req.content, causes \ {"destroyed"}) /\ Unharmed(res.content)
      /\ res.content.body.len <= Longest
      /\ "content-length" \notin causes => res.content.list \in Seq(Unseen("content-length"))
      /\ "connection" \notin causes => res.content.list \in Seq(Unseen("connection"))
      /\ calls \in 0 .. MaxCalls
  BY <1>2, WorkedOn
<1>5. fault' \in {"no", "null"} /\ (fault' = "null" => "refused" \in causes')
  <2>1. "destroyed" \notin causes \ {"destroyed"}
    OBVIOUS
  <2>2. /\ Broken(Destroy(CopyContent(req.content, refused))) \in {"no", "null"}
        /\ Broken(Destroy(CopyContent(req.content, refused))) = "null" => refused # "no"
    BY <1>4, <2>1, CopyBroken
  <2> QED
    BY <1>1, <1>2, <1>3, <2>2 DEF First
<1>6. MessageSound(res'.content, causes')
  BY <1>2, <1>3, <1>4, MoreHappens
<1>7. calls' \in 0 .. MaxCalls
  BY <1>2, <1>4, ExchangeBoundsAssumption
<1> QED
  BY <1>2, <1>3, <1>4, <1>5, <1>6, <1>7, AnsweringSound

LEMMA CallbackDestroysSound ==
  ASSUME Sound, CallbackDestroys
  PROVE  Sound'
<1>1. /\ pc = "callback" /\ fault = "no" /\ calls < MaxCalls /\ calls' = calls + 1 /\ Checked
      /\ res' = [res EXCEPT !.content = Destroy(@)] /\ causes' = causes \cup {"destroyed"}
      /\ UNCHANGED <<admin, req, pc, found, stale, conn, rest, exchange>>
  BY DEF CallbackDestroys, Calls, At, Notes
<1>2. /\ res \in Responses /\ res.status # 101 /\ MessageSound(res.content, causes)
      /\ MessageSound(req.content, causes \ {"destroyed"})
      /\ res.content.body.len <= Longest /\ res.content.body.len \in Nat
      /\ calls \in 0 .. MaxCalls
  BY <1>1, WorkedOn
<1> DEFINE c == res.content
           d == Destroy(c)
<1>3. res' = [res EXCEPT !.content = d] /\ d = Destroy(c) /\ MessageSound(c, causes)
  BY <1>1, <1>2
<1> HIDE DEF c, d
<1>4. MessageSound(d, causes \cup {"destroyed"}) /\ d.list = <<>> /\ d.body.len <= c.body.len
  BY <1>3, MessageDestroyed
<1>5. res' \in Responses /\ res'.status = res.status /\ res'.content = d
  BY <1>2, <1>3, <1>4 DEF Responses, MessageSound
<1>6. MessageSound(res'.content, causes') /\ res'.content.body.len <= Longest
  <2>1. d.body.len \in Nat
    BY <1>4 DEF MessageSound, Contents, Buffers
  <2> QED
    BY <1>1, <1>2, <1>4, <1>5, <2>1, ExchangeBoundsAssumption DEF c
<1>7. \A S : res'.content.list \in Seq(S)
  <2>1. res'.content.list = <<>>
    BY <1>4, <1>5
  <2>2. \A S : <<>> \in Seq(S)
    OBVIOUS
  <2> QED
    BY <2>1, <2>2
<1>8. causes \subseteq causes' /\ causes' \subseteq Causes
  BY <1>1 DEF Sound, ThreadTyped, Causes
<1>9. /\ fault' \in {"no", "null", "freed"}
      /\ fault' = "null" => "refused" \in causes'
      /\ fault' = "freed" => "destroyed" \in causes'
      /\ fault' = "no" => Unharmed(res'.content)
  BY <1>1, <1>2, <1>6, <1>8, CheckedSound
<1>10. calls' \in 0 .. MaxCalls
  BY <1>1, <1>2, ExchangeBoundsAssumption
<1> QED
  BY <1>1, <1>2, <1>5, <1>6, <1>7, <1>8, <1>9, <1>10, AnsweringSound

\* What is added to a response by and by.
LEMMA KeepingLines ==
  ASSUME NEW keeps
  PROVE  Keeping(keeps) \in Seq(Unseen("content-length"))
<1> DEFINE first == IF ~Missing(res.content, "connection") THEN <<>>
                    ELSE IF keeps THEN <<KeepHeader>> ELSE <<CloseHeader>>
           last  == IF Missing(res.content, "keep-alive") /\ keeps THEN <<KeepAlive>> ELSE <<>>
<1>1. first \in Seq(Unseen("content-length")) /\ last \in Seq(Unseen("content-length"))
  BY OwnHeaders
<1>2. Keeping(keeps) = first \o last
  BY DEF Keeping
<1> HIDE DEF first, last
<1> QED
  BY <1>1, <1>2

LEMMA SetKeepaliveSound ==
  ASSUME Sound, SetKeepalive
  PROVE  Sound'
<1>1. PICK hs \in {Keeping(Keeps(req))} :
        \E refused \in Refusals(Len(hs)) :
          /\ res' = [res EXCEPT !.content = AddHeaders(@, hs, refused)]
          /\ Notes(RefusedIn(refused))
  BY DEF SetKeepalive
<1>2. PICK refused \in Refusals(Len(hs)) :
        /\ res' = [res EXCEPT !.content = AddHeaders(@, hs, refused)]
        /\ Notes(RefusedIn(refused))
  BY <1>1
<1>3. /\ pc \in {"callback", "keepalive"} /\ fault = "no" /\ pc' = "respond" /\ Checked
      /\ UNCHANGED <<req, admin, found, stale, calls, conn, rest, exchange>>
  BY DEF SetKeepalive, At
<1>4. hs \in Seq(Unseen("content-length"))
  BY KeepingLines
<1>5. hs \in Seq(DOMAIN Lines) /\ Len(hs) \in Nat
  <2>1. Unseen("content-length") \subseteq DOMAIN Lines
    BY UnseenLines
  <2> QED
    BY <1>4, <2>1, SeqWider
<1>6. /\ causes' \subseteq Causes /\ causes \subseteq causes'
      /\ refused # 0 => "refused" \in causes'
  BY <1>2, <1>5, NotedCauses
<1>7. /\ res \in Responses /\ res.status # 101 /\ MessageSound(res.content, causes)
      /\ MessageSound(req.content, causes \ {"destroyed"})
      /\ res.content.body.len <= Longest
      /\ "content-length" \notin causes => res.content.list \in Seq(Unseen("content-length"))
      /\ calls \in 0 .. MaxCalls
  BY <1>3, WorkedOn
<1> DEFINE c == res.content
           d == AddHeaders(c, hs, refused)
<1>8. res' = [res EXCEPT !.content = d] /\ d = AddHeaders(c, hs, refused) /\ MessageSound(c, causes)
  BY <1>2, <1>7
<1> HIDE DEF c, d
<1>9. refused \in DOMAIN hs => "refused" \in causes'
  BY <1>5, <1>6
<1>10. MessageSound(d, causes')
  BY <1>5, <1>6, <1>8, <1>9, HeadersAdded
<1>11. Longer(c, d, hs)
  BY <1>5, <1>8, HeadersListed
<1>12. res' \in Responses /\ res'.status = res.status /\ res'.content = d
  BY <1>7, <1>8, <1>10 DEF Responses, MessageSound
<1>13. res'.content.body.len <= Longest
  BY <1>7, <1>11, <1>12 DEF Longer, c
<1>14. "content-length" \notin causes' => res'.content.list \in Seq(Unseen("content-length"))
  BY <1>4, <1>6, <1>7, <1>11, <1>12 DEF Longer, c
<1>15. MessageSound(res'.content, causes') /\ res'.status # 101
  BY <1>7, <1>10, <1>12
<1>16. /\ fault' \in {"no", "null", "freed"}
       /\ fault' = "null" => "refused" \in causes'
       /\ fault' = "freed" => "destroyed" \in causes'
       /\ fault' = "no" => Unharmed(res'.content)
  BY <1>3, <1>6, <1>7, <1>15, CheckedSound
<1> QED
  BY <1>3, <1>6, <1>7, <1>12, <1>13, <1>14, <1>15, <1>16, AnsweringSound

LEMMA CompletingLines ==
  ASSUME NEW p, p.content.body.len \in 0 .. Longest
  PROVE  Completing(p) \in Seq(Unseen("content-length") \cup {LengthHeaders[p.content.body.len]})
<1> DEFINE L     == LengthHeaders[p.content.body.len]
           S     == Unseen("content-length") \cup {L}
           first == IF ~Missing(p.content, "connection") THEN <<>>
                    ELSE IF p.status = 429 THEN <<CloseHeader>> ELSE <<KeepHeader, KeepAlive>>
           last  == IF Missing(p.content, "content-length") THEN <<L>> ELSE <<>>
<1>1. first \in Seq(S)
  <2>1. KeepHeader \in S /\ CloseHeader \in S /\ KeepAlive \in S
    BY OwnHeaders
  <2> HIDE DEF S
  <2> QED
    BY <2>1
<1>2. last \in Seq(S)
  <2>1. L \in S
    OBVIOUS
  <2> HIDE DEF L, S
  <2> QED
    BY <2>1
<1>3. Completing(p) = first \o last
  BY DEF Completing
<1> HIDE DEF first, last, S
<1>4. Completing(p) \in Seq(S)
  BY <1>1, <1>2, <1>3
<1> QED
  BY <1>4 DEF S

\* A session that is asked for does not end the connection by itself.
LEMMA UpgradeStaysOpen ==
  ASSUME Sound, pc = "respond", res.status = 101, "connection" \notin causes
  PROVE  ~Closing(res)
<1> DEFINE U == Line("connection", "Upgrade")
           S == Unseen("connection") \cup {U}
           c == res.content
<1>1. c.list \in Seq(S)
  BY DEF Sound, Undecided
<1>2. U \in DOMAIN Lines /\ Lines[U].key = "connection" /\ Lines[U].value = "Upgrade"
  <2>1. <<"connection", "Upgrade">> \in OwnLines
    BY DEF OwnLines
  <2> DEFINE own == <<"connection", "Upgrade">>
  <2>2. own \in OwnLines /\ own[1] = "connection" /\ own[2] = "Upgrade"
    BY <2>1
  <2> HIDE DEF own
  <2>3. /\ Line(own[1], own[2]) \in DOMAIN Lines
        /\ Lines[Line(own[1], own[2])].key = own[1]
        /\ Lines[Line(own[1], own[2])].value = own[2]
    BY <2>2, ServerLine
  <2> QED
    BY <2>2, <2>3
<1>3. S \in SUBSET DOMAIN Lines
  BY <1>2, UnseenLines
<1> HIDE DEF U, c
<1>4. GetHeader(c, "connection").value # "close"
  <2>1. \/ GetHeader(c, "connection") = [ret |-> "missing", value |-> "none", number |-> 0]
        \/ \E h \in S : Sees(h, "connection") /\ GetHeader(c, "connection") = Reading(h, "connection")
    BY <1>1, <1>3, HeaderRead
  <2>2. CASE GetHeader(c, "connection") = [ret |-> "missing", value |-> "none", number |-> 0]
    BY <2>2
  <2>3. ASSUME NEW h \in S, Sees(h, "connection"), GetHeader(c, "connection") = Reading(h, "connection")
        PROVE  GetHeader(c, "connection").value # "close"
    <3>1. h = U
      BY <2>3 DEF Unseen
    <3>2. Reading(h, "connection").value = "Upgrade"
      BY <1>2, <3>1 DEF Reading
    <3> QED
      BY <2>3, <3>2
  <2> QED
    BY <2>1, <2>2, <2>3
<1> QED
  BY <1>4 DEF Closing, c

LEMMA OnResponseReadySound ==
  ASSUME Sound, OnResponseReady
  PROVE  Sound'
<1>1. PICK hs \in {Completing(res)} :
        \E refused \in Refusals(Len(hs)) :
          /\ res' = [res EXCEPT !.content = AddHeaders(@, hs, refused)]
          /\ exchange' = [exchange EXCEPT !.closing = Closing(res)]
          /\ Notes(RefusedIn(refused))
  BY DEF OnResponseReady
<1>2. PICK refused \in Refusals(Len(hs)) :
        /\ res' = [res EXCEPT !.content = AddHeaders(@, hs, refused)]
        /\ exchange' = [exchange EXCEPT !.closing = Closing(res)]
        /\ Notes(RefusedIn(refused))
  BY <1>1
<1>3. /\ pc = "respond" /\ fault = "no" /\ pc' = "send" /\ Checked
      /\ UNCHANGED <<req, admin, found, stale, calls, conn, rest>>
  BY DEF OnResponseReady, At
<1>4. /\ res \in Responses /\ MessageSound(res.content, causes)
      /\ MessageSound(req.content, causes \ {"destroyed"})
      /\ res.content.body.len \in 0 .. Longest
      /\ "content-length" \notin causes => res.content.list \in Seq(Unseen("content-length"))
  <2>1. res.content.body.len \in Nat
    BY DEF Sound, ThreadTyped, Responses, Contents, Buffers
  <2>2. Longest \in Nat
    BY ExchangeBoundsAssumption
  <2> QED
    BY <1>3, <2>1, <2>2 DEF Sound, ThreadTyped, Messages, Undecided
<1> DEFINE L == LengthHeaders[res.content.body.len]
           S == Unseen("content-length") \cup {L}
           c == res.content
           d == AddHeaders(c, hs, refused)
<1>5. hs \in Seq(S) /\ S \subseteq DOMAIN Lines
  BY <1>4, CompletingLines, LengthLine, UnseenLines
<1>6. hs \in Seq(DOMAIN Lines) /\ Len(hs) \in Nat
  <2> HIDE DEF S
  <2> QED
    BY <1>5, SeqWider
<1>7. /\ causes' \subseteq Causes /\ causes \subseteq causes'
      /\ refused # 0 => "refused" \in causes'
  BY <1>2, <1>6, NotedCauses
<1>8. res' = [res EXCEPT !.content = d] /\ d = AddHeaders(c, hs, refused) /\ MessageSound(c, causes)
  BY <1>2, <1>4
<1>9. "content-length" \notin causes => c.list \in Seq(S)
  BY <1>4, SeqWider
<1>l. L = LengthHeaders[c.body.len]
  OBVIOUS
<1> HIDE DEF L, c, d
<1>10. refused \in DOMAIN hs => "refused" \in causes'
  BY <1>6, <1>7
<1>11. MessageSound(d, causes')
  BY <1>6, <1>7, <1>8, <1>10, HeadersAdded
<1>12. Longer(c, d, hs)
  BY <1>6, <1>8, HeadersListed
<1>13. res' \in Responses /\ res'.status = res.status /\ res'.content = d
  BY <1>4, <1>8, <1>11 DEF Responses, MessageSound
<1>14. d.body = c.body /\ res'.content.body.len <= Longest
  BY <1>4, <1>12, <1>13 DEF Longer, c
<1>15. "content-length" \notin causes' =>
          res'.content.list \in Seq(Unseen("content-length") \cup {LengthHeaders[res'.content.body.len]})
  <2>1. "content-length" \notin causes' => d.list \in Seq(S)
    BY <1>5, <1>7, <1>9, <1>12 DEF Longer
  <2> QED
    BY <1>13, <1>14, <1>l, <2>1
<1>16. MessageSound(res'.content, causes')
  BY <1>11, <1>13
<1>17. /\ fault' \in {"no", "null", "freed"}
       /\ fault' = "null" => "refused" \in causes'
       /\ fault' = "freed" => "destroyed" \in causes'
       /\ fault' = "no" => Unharmed(res'.content)
  BY <1>3, <1>4, <1>7, <1>16, CheckedSound
<1>18. MessageSound(req'.content, causes' \ {"destroyed"})
  BY <1>3, <1>4, <1>7, MoreHappens
<1>19. Messages'
  BY <1>14, <1>16, <1>17, <1>18 DEF Messages
<1>20. /\ exchange' \in Exchanges /\ exchange'.request = exchange.request
       /\ exchange'.leaks = exchange.leaks /\ exchange'.broken = exchange.broken
       /\ exchange'.answers = exchange.answers /\ exchange'.status = exchange.status
       /\ exchange'.closing = Closing(res)
  <2> DEFINE closing == Closing(res)
  <2>1. closing \in BOOLEAN /\ exchange' = [exchange EXCEPT !.closing = closing]
    BY <1>2 DEF Closing
  <2> HIDE DEF closing
  <2>2. /\ exchange' \in Exchanges /\ exchange'.request = exchange.request
        /\ exchange'.leaks = exchange.leaks /\ exchange'.broken = exchange.broken
        /\ exchange'.answers = exchange.answers /\ exchange'.status = exchange.status
        /\ exchange'.closing = closing
    BY <2>1 DEF Sound, ThreadTyped, Exchanges
  <2> QED
    BY <2>2 DEF closing
<1>21. Undecided'
  <2>1. "connection" \notin causes' /\ res'.status = 101 => ~exchange'.closing
    BY <1>3, <1>7, <1>13, <1>20, UpgradeStaysOpen
  <2> QED
    BY <1>3, <1>15, <2>1 DEF Undecided
<1>22. Scanning' /\ Callable' /\ Middle
  BY <1>3, <1>7 DEF Scanning, Callable, Middle
<1>23. /\ ~exchange.leaks /\ ~exchange.broken /\ exchange.answers = 0 /\ exchange.status = 0
       /\ pc' \in Steps
       /\ calls' \in 0 .. MaxCalls /\ found' \in 0 .. DefaultSlot /\ stale' = stale
  BY <1>3 DEF Sound, ThreadTyped, UnderWay, Steps
<1> QED
  BY <1>3, <1>13, <1>17, <1>19, <1>20, <1>21, <1>22, <1>23, MiddleSound

\* What may go wrong while a response is sent.
LEMMA SendBreaks ==
  ASSUME NEW what, NEW c, MessageSound(c, what), Unharmed(c), c.body.len <= Longest,
         "content-length" \notin what =>
           c.list \in Seq(Unseen("content-length") \cup {LengthHeaders[c.body.len]}),
         NEW q, NEW b, b = SendBreak(q, c)
  PROVE  /\ b \in {"no", "null", "freed", "overflow"}
         /\ b = "null" => "refused" \in what
         /\ b = "freed" => "destroyed" \in what
         /\ b = "overflow" => "content-length" \in what
<1> DEFINE told == GetHeader(c, "content-length").number
<1>1. /\ Sized(c.headers) /\ Sized(c.body) /\ c.headers \in Buffers /\ c.body \in Buffers
      /\ c.list \in Seq(DOMAIN Lines) /\ c.body.len \in 0 .. Longest
  BY ExchangeBoundsAssumption DEF MessageSound, Contents, Buffers
<1>2. b = CASE c.headers.ptr # "live" /\ c.headers.len > 0 -> c.headers.ptr
            [] c.headers.ptr = "live" \/ c.headers.len = 0 ->
                 IF ~Bodied(q, c) \/ told <= c.body.size THEN "no"
                 ELSE IF c.body.ptr = "null" THEN "null" ELSE "overflow"
  BY DEF SendBreak
<1>3. told \in Int
  BY <1>1, HeaderReadTyped
<1>4. "content-length" \notin what => told = 0 \/ told = c.body.len
  <2> DEFINE L == LengthHeaders[c.body.len]
             S == Unseen("content-length") \cup {L}
  <2> SUFFICES ASSUME "content-length" \notin what PROVE told = 0 \/ told = c.body.len
    OBVIOUS
  <2>1. L \in DOMAIN Lines /\ Lines[L].key = "content-length" /\ Lines[L].number = c.body.len
    BY <1>1, LengthLine
  <2>2. S \in SUBSET DOMAIN Lines /\ c.list \in Seq(S)
    BY <2>1, UnseenLines
  <2>3. \/ GetHeader(c, "content-length") = [ret |-> "missing", value |-> "none", number |-> 0]
        \/ \E h \in S : Sees(h, "content-length")
                        /\ GetHeader(c, "content-length") = Reading(h, "content-length")
    <3> HIDE DEF S
    <3> QED
      BY <2>2, HeaderRead
  <2> HIDE DEF L
  <2>4. CASE GetHeader(c, "content-length") = [ret |-> "missing", value |-> "none", number |-> 0]
    BY <2>4
  <2>5. ASSUME NEW h \in S, Sees(h, "content-length"),
               GetHeader(c, "content-length") = Reading(h, "content-length")
        PROVE  told = c.body.len
    <3>1. h = L
      BY <2>5 DEF Unseen
    <3>2. Reading(h, "content-length").number = c.body.len
      BY <2>1, <3>1 DEF Reading
    <3> QED
      BY <2>5, <3>2
  <2> QED
    BY <2>3, <2>4, <2>5
<1> HIDE DEF told
<1>5. CASE c.headers.ptr # "live" /\ c.headers.len > 0
  <2>1. b = c.headers.ptr /\ b \in {"null", "freed"}
    BY <1>1, <1>2, <1>5 DEF Buffers
  <2>2. c.headers.len # 0
    BY <1>1, <1>5 DEF Buffers
  <2>3. b = "null" => ~Given(c.headers)
    BY <2>1, <2>2 DEF Given
  <2>4. b = "freed" => ~Kept(c.headers)
    BY <2>1 DEF Kept
  <2> QED
    BY <2>1, <2>3, <2>4 DEF MessageSound
<1>6. CASE ~(c.headers.ptr # "live" /\ c.headers.len > 0)
  <2>1. c.headers.ptr = "live" \/ c.headers.len = 0
    BY <1>1, <1>6 DEF Buffers
  <2>2. b = IF ~Bodied(q, c) \/ told <= c.body.size THEN "no"
            ELSE IF c.body.ptr = "null" THEN "null" ELSE "overflow"
    BY <1>2, <1>6, <2>1
  <2>3. CASE ~Bodied(q, c) \/ told <= c.body.size
    BY <2>2, <2>3
  <2>4. CASE Bodied(q, c) /\ ~(told <= c.body.size)
    <3>1. c.body.len > 0 /\ c.body.len # 0 /\ told > c.body.size
      BY <1>1, <1>3, <2>4 DEF Bodied, Buffers
    <3>2. c.body.ptr = "null" => ~Given(c.body)
      BY <3>1 DEF Given
    <3>3. c.body.ptr # "null" => "content-length" \in what
      <4> SUFFICES ASSUME c.body.ptr # "null", "content-length" \notin what PROVE FALSE
        OBVIOUS
      <4>1. c.body.ptr = "live"
        BY <1>1, <3>1 DEF Sized, Buffers, Unharmed
      <4>2. c.body.len <= c.body.size
        BY <1>1, <4>1 DEF Sized, Buffers
      <4> QED
        BY <1>1, <1>3, <1>4, <3>1, <4>2 DEF Buffers
    <3> QED
      BY <2>2, <2>4, <3>2, <3>3 DEF MessageSound
  <2> QED
    BY <2>3, <2>4
<1> QED
  BY <1>5, <1>6

\* What the client may be told of a key.
LEMMA ToldTyped ==
  ASSUME NEW c, c.list \in Seq(DOMAIN Lines), NEW key
  PROVE  Told(c, key) \in Hearings
<1>1. \/ Lookup(c.list, key) = [ret |-> "missing", value |-> "none", number |-> 0]
      \/ \E h \in DOMAIN Lines : Lookup(c.list, key) = Reading(h, key)
  BY LookupIn
<1>2. CASE Lookup(c.list, key) = [ret |-> "missing", value |-> "none", number |-> 0]
  BY <1>2 DEF Told, Heard, Hearings
<1>3. ASSUME NEW h \in DOMAIN Lines, Lookup(c.list, key) = Reading(h, key)
      PROVE  Told(c, key) \in Hearings
  <2>1. Lookup(c.list, key).ret = "hidden"
        \/ (Lookup(c.list, key).ret = "found" /\ Lookup(c.list, key).value = Lines[h].value)
    BY <1>3 DEF Reading
  <2> QED
    BY <2>1 DEF Told, Heard, Hearings
<1> QED
  BY <1>1, <1>2, <1>3

LEMMA SendSound ==
  ASSUME Sound, SendResponse
  PROVE  Sound'
<1> DEFINE c == res.content
           a == Destroy(req.content)
           d == Destroy(res.content)
<1>1. PICK broken \in BOOLEAN, sent \in {Sends(req, c)}, left \in {{a, d}} :
        \E closing \in {exchange.closing \/ (broken /\ sent)} :
          /\ exchange' = [exchange EXCEPT !.status = res.status,
                            !.connection = Told(c, "connection"),
                            !.broken = broken, !.answers = IF sent THEN 1 ELSE 0,
                            !.closing = closing, !.leaks = \E m \in left : Leaks(m)]
          /\ fault' \in SendFault(closing, left)
          /\ conn' = IF closing THEN "closed"
                     ELSE IF res.status = 101 THEN "upgraded" ELSE conn
  BY DEF SendResponse
<1>2. PICK closing \in {exchange.closing \/ (broken /\ sent)} :
          /\ exchange' = [exchange EXCEPT !.status = res.status,
                            !.connection = Told(c, "connection"),
                            !.broken = broken, !.answers = IF sent THEN 1 ELSE 0,
                            !.closing = closing, !.leaks = \E m \in left : Leaks(m)]
          /\ fault' \in SendFault(closing, left)
          /\ conn' = IF closing THEN "closed"
                     ELSE IF res.status = 101 THEN "upgraded" ELSE conn
  BY <1>1
<1>3. /\ pc = "send" /\ fault = "no" /\ pc' = "idle"
      /\ req' = NewRequest /\ res' = NewResponse /\ found' = 0 /\ stale' = FALSE /\ calls' = 0
      /\ UNCHANGED <<admin, rest, causes>>
  BY DEF SendResponse, At, Returned
<1>4. /\ res \in Responses /\ MessageSound(c, causes) /\ Unharmed(c)
      /\ MessageSound(req.content, causes \ {"destroyed"})
      /\ c.body.len <= Longest
      /\ "content-length" \notin causes =>
           c.list \in Seq(Unseen("content-length") \cup {LengthHeaders[c.body.len]})
      /\ "connection" \notin causes /\ res.status = 101 => ~exchange.closing
      /\ exchange \in Exchanges /\ conn \in {"open", "closed", "upgraded"}
  BY <1>3 DEF Sound, ThreadTyped, Messages, Undecided
<1>5. Setup'
  BY <1>3, SetupKept DEF Sound
<1>6. /\ MessageSound(d, causes \cup {"destroyed"})
      /\ Leaks(d) => "refused" \in causes
      /\ Broken(d) = "freed" => "destroyed" \in causes
  BY <1>4, MessageDestroyed
<1>7. /\ MessageSound(a, (causes \ {"destroyed"}) \cup {"destroyed"})
      /\ Leaks(a) => "refused" \in causes
      /\ Broken(a) = "freed" => "destroyed" \in causes
  <2> DEFINE what == causes \ {"destroyed"}
  <2>0. "destroyed" \notin what /\ ("refused" \in what => "refused" \in causes)
    OBVIOUS
  <2>1. MessageSound(req.content, what)
    BY <1>4
  <2> HIDE DEF what
  <2>2. /\ MessageSound(a, what \cup {"destroyed"})
        /\ Leaks(a) => "refused" \in what
        /\ Broken(a) = "freed" => "destroyed" \in what
    BY <2>1, MessageDestroyed
  <2> QED
    BY <2>0, <2>2 DEF what
<1>8. /\ Broken(d) \in {"no", "null", "freed"} /\ Broken(a) \in {"no", "null", "freed"}
      /\ Broken(d) = "null" => "refused" \in causes
      /\ Broken(a) = "null" => "refused" \in causes
  BY <1>6, <1>7, BrokenMessage
<1> HIDE DEF a, d, c
<1>9. /\ fault' \in {"no", "null", "freed", "overflow", "index"}
      /\ fault' = "null" => "refused" \in causes
      /\ fault' = "freed" => "destroyed" \in causes
      /\ fault' = "overflow" => "content-length" \in causes
      /\ fault' = "index" => broken \/ "connection" \in causes
  <2> DEFINE b == SendBreak(req, c)
  <2>1. /\ b \in {"no", "null", "freed", "overflow"}
        /\ b = "null" => "refused" \in causes
        /\ b = "freed" => "destroyed" \in causes
        /\ b = "overflow" => "content-length" \in causes
    BY <1>4, SendBreaks
  <2>2. fault' \in IF b # "no" THEN {b}
                   ELSE IF closing /\ res.status = 101 THEN {"index"}
                   ELSE {Broken(m) : m \in left}
                        \ (IF \A m \in left : Broken(m) = "no" THEN {} ELSE {"no"})
    BY <1>2 DEF SendFault, c
  <2> HIDE DEF b
  <2>3. CASE b # "no"
    BY <2>1, <2>2, <2>3
  <2>4. CASE b = "no" /\ closing /\ res.status = 101
    <3>1. fault' = "index"
      BY <2>2, <2>4
    <3> QED
      BY <1>2, <1>4, <2>4, <3>1
  <2>5. CASE b = "no" /\ ~(closing /\ res.status = 101)
    <3>1. fault' \in {Broken(m) : m \in left}
      BY <2>2, <2>5
    <3>2. fault' = Broken(a) \/ fault' = Broken(d)
      BY <1>1, <3>1
    <3> QED
      BY <1>6, <1>7, <1>8, <3>2
  <2> QED
    BY <2>3, <2>4, <2>5
<1>10. /\ exchange' \in Exchanges /\ exchange'.broken = broken
       /\ exchange'.leaks => "refused" \in causes
  <2> DEFINE status == res.status
             told == Told(c, "connection")
             answers == IF sent THEN 1 ELSE 0
             leaks == \E m \in left : Leaks(m)
  <2>1. status \in Statuses /\ told \in Hearings /\ answers \in {0, 1} /\ leaks \in BOOLEAN
        /\ closing \in BOOLEAN
    BY <1>4, ToldTyped DEF Responses, MessageSound, Contents
  <2>2. exchange' = [exchange EXCEPT !.status = status, !.connection = told,
                       !.broken = broken, !.answers = answers,
                       !.closing = closing, !.leaks = leaks]
    BY <1>2
  <2>3. leaks => "refused" \in causes
    BY <1>1, <1>6, <1>7
  <2> HIDE DEF status, told, answers, leaks
  <2> QED
    BY <1>4, <2>1, <2>2, <2>3 DEF Exchanges
<1>11. ThreadTyped'
  <2>1. calls' \in 0 .. MaxCalls /\ found' \in 0 .. DefaultSlot
    BY <1>3, ExchangeBoundsAssumption, EndpointsAssumption DEF DefaultSlot
  <2>2. conn' \in {"open", "closed", "upgraded"}
    BY <1>2, <1>4
  <2> QED
    BY <1>3, <1>9, <1>10, <2>1, <2>2, NewMessages DEF Sound, ThreadTyped, Faults
<1>12. UnderWay' /\ Scanning' /\ Callable'
  BY <1>3 DEF UnderWay, Scanning, Callable
<1>13. Messages' /\ Undecided'
  BY <1>3, NothingSound
<1>14. MemoryIsSound'
  BY <1>3, <1>9, <1>10 DEF MemoryIsSound
<1> QED
  BY <1>5, <1>11, <1>12, <1>13, <1>14 DEF Sound

LEMMA StutterSound ==
  ASSUME Sound, UNCHANGED vars
  PROVE  Sound'
<1>1. UNCHANGED <<admin, pc, req, res, found, stale, calls, conn, rest, exchange, causes, fault>>
  BY DEF vars, thread
<1>2. Setup'
  BY <1>1, SetupKept DEF Sound
<1>3. ThreadTyped' /\ UnderWay'
  BY <1>1 DEF Sound, ThreadTyped, UnderWay, admin
<1>4. Messages' /\ Undecided'
  BY <1>1 DEF Sound, Messages, Undecided
<1>5. Scanning' /\ Callable'
  BY <1>1 DEF Sound, Scanning, Callable, Found, admin, server
<1>6. MemoryIsSound'
  BY <1>1 DEF Sound, MemoryIsSound, Keyless, admin, server
<1> QED
  BY <1>2, <1>3, <1>4, <1>5, <1>6 DEF Sound

LEMMA StepSound ==
  ASSUME Sound, [Next]_vars
  PROVE  Sound'
<1>1. CASE Owner
  BY <1>1, OwnerSound
<1>2. CASE Receive \/ HungUp
  BY <1>2, ReceiveSound
<1>3. CASE ApplyDefaultHeaders
  BY <1>3, ApplySound
<1>4. CASE ParseNoLine \/ Parse
  BY <1>4, ParseNoLineSound, ParseSound
<1>5. CASE Upgrade \/ UpgradeWithoutKey
  BY <1>5, UpgradeSound, UpgradeWithoutKeySound
<1>6. CASE FindEndpoint \/ CheckEndpoint \/ CallEndpoint
  BY <1>6, FindSound, CheckSound, CallSound
<1>7. CASE Callback
  BY <1>7, CallbackAddsHeaderSound, CallbackAppendsSound, CallbackSetsStatusSound,
     CallbackCopiesSound, CallbackDestroysSound DEF Callback
<1>8. CASE Respond
  BY <1>8, SetKeepaliveSound, OnResponseReadySound, SendSound DEF Respond
<1>9. CASE UNCHANGED vars
  BY <1>9, StutterSound
<1> QED
  BY <1>1, <1>2, <1>3, <1>4, <1>5, <1>6, <1>7, <1>8, <1>9 DEF Next

LEMMA AlwaysSound == Spec => []Sound
<1>1. Init => Sound
  BY InitSound
<1>2. Sound /\ [Next]_vars => Sound'
  BY StepSound
<1> QED
  BY <1>1, <1>2, PTL DEF Spec

\* The memory of the messages of a request is used while it is there, and freed,
\* whatever the owner, the callbacks and the allocator do, but for the cases that
\* MemoryIsSound names, among them a request that says it is longer than what the server
\* can receive of it (http.c:463-732, httpserver.c:288-333, 1340-1353, 1533-1674).
THEOREM MemoryIsKept == Spec => []MemoryIsSound
<1>1. Sound => MemoryIsSound
  BY DEF Sound
<1> QED
  BY <1>1, AlwaysSound, PTL

\* What the owner has set up stays a table without gaps and without two endpoints
\* of one uri, and is what the calls of the owner add up to, at every step between
\* two of them (httpserver.c:260-381, 760-826, 1028-1066).
THEOREM SetupIsKept == Spec => []Setup
<1>1. Sound => Setup
  BY DEF Sound
<1> QED
  BY <1>1, AlwaysSound, PTL

\* Every variable has its type, and the endpoints counted are those in the table.
THEOREM TypesAreKept == Spec => []TypeOK
<1>1. Sound => TypeOK
  <2> SUFFICES ASSUME Sound PROVE TypeOK
    OBVIOUS
  <2>1. /\ endpoints \in [Slots -> SlotRecords] /\ count \in 0 .. MaxEndpoints
        /\ fallback.http \in HttpCallbacks \cup {None}
        /\ defaults.ptr \in {"live", "freed"} /\ setters \in 0 .. MaxSetters
    BY DEF Sound, Setup, SetupTyped, SlotRecords
  <2>2. count = Cardinality({i \in Slots : endpoints[i].uri # None})
    <3>1. {i \in Slots : endpoints[i].uri # None} = 1 .. count
      <4>1. \A i \in Slots : endpoints[i].uri # None <=> i <= count
        BY DEF Sound, Setup, TableFilled, FreeSlot
      <4> QED
        BY <2>1, <4>1, EndpointsAssumption DEF Slots
    <3>2. Cardinality(1 .. count) = count
      BY <2>1, FS_Interval, EndpointsAssumption
    <3> QED
      BY <3>1, <3>2
  <2>3. \A c \in {req.content, res.content} : c.headers \in Buffers /\ c.body \in Buffers
    BY DEF Sound, Messages, MessageSound, Contents
  <2>4. /\ pc \in Steps \cup {"idle"} /\ calls \in 0 .. MaxCalls /\ found \in 0 .. DefaultSlot
        /\ stale \in BOOLEAN /\ rest \in BOOLEAN /\ conn \in {"open", "closed", "upgraded"}
        /\ res.status \in Statuses /\ causes \subseteq Causes
        /\ fault \in Faults
    BY DEF Sound, ThreadTyped, Responses
  <2> QED
    BY <2>1, <2>2, <2>3, <2>4 DEF TypeOK, SlotRecords, Steps, Statuses, Causes, Faults, Wrongs
<1> QED
  BY <1>1, AlwaysSound, PTL
-----------------------------------------------------------------------------
(* Where a request is sent. *)

\* What the request should come to, by what the owner has set up.
Right == Rightly(Received(exchange))

\* With status it would come to that.
ServedWith(status) ==
  /\ exchange.ran = Right.ran /\ exchange.ws = Right.ws
  /\ exchange.ran = None => status = Right.status

\* Nothing is set up meanwhile, and every allocation is granted.
Quiet == fault = "no" /\ causes \cap {"raced", "refused"} = {}

\* On the way to an endpoint nothing has been decided that is not right, as long as
\* it is quiet.
Dispatching ==
  Quiet =>
    /\ pc \notin {"idle", "defaults"} => exchange.current \/ defaults.behind # <<>>
    /\ pc \in {"defaults", "parse", "scan", "find", "check", "call"} =>
         exchange.ran = None /\ exchange.ws = None
    /\ pc \in {"scan", "find"} => req.uri \in Uris
    /\ pc = "scan" =>
         Right = IF book.uris[req.uri] = Unbooked THEN Comes(404, None, None)
                 ELSE Comes(101, None, book.uris[req.uri].ws)
    /\ pc = "find" =>
         Right = RightlyServed(req, IF book.uris[req.uri] # Unbooked THEN book.uris[req.uri]
                                    ELSE book.default)
    /\ pc = "check" => Right = RightlyServed(req, Found)
    /\ pc = "call" => Right = Comes(200, Found.http, None)
    /\ pc = "callback" => ServedWith(res.status) /\ exchange.ran # None
    /\ pc \in {"keepalive", "respond", "send"} => ServedWith(res.status)


\* A message that keeps its headers.
SameHeaders(c, d) == d.list = c.list /\ d.headers = c.headers

LEMMA SameComplete ==
  ASSUME NEW c, NEW d, SameHeaders(c, d), Complete(c)
  PROVE  Complete(d)
BY DEF SameHeaders, Complete

\* What is appended to a body leaves the headers alone.
LEMMA AppendingHeaders ==
  ASSUME NEW c \in Contents(DOMAIN Lines), NEW n, NEW granted
  PROVE  SameHeaders(c, AppendBody(c, n, granted))
<1> DEFINE e == Extend(c.body, n, granted)
<1>1. AppendBody(c, n, granted) = c \/ AppendBody(c, n, granted) = [c EXCEPT !.body = e]
  BY DEF AppendBody
<1> HIDE DEF e
<1> QED
  BY <1>1 DEF SameHeaders, Contents

\* During an exchange what a request should come to does not change.
LEMMA RightSame ==
  ASSUME book' = book, exchange'.request = exchange.request, exchange'.cut = exchange.cut
  PROVE  Right' = Right
<1>1. Received(exchange') = Received(exchange)
  BY ReceivedSame
<1> DEFINE r == Received(exchange)
<1>2. Received(exchange)' = r
  BY <1>1
<1>3. Right' = Rightly(r)'
  BY <1>2 DEF Right, Rightly, RightlyAt, RightlyServed
<1> QED
  BY <1>1 DEF Right, Rightly, RightlyAt, RightlyServed

LEMMA RightIs ==
  ASSUME NEW r, r = Received(exchange), r.uri \in Uris
  PROVE  /\ ~r.line \/ r.version \notin VersionsOne => Right = Comes(505, None, None)
         /\ r.line /\ r.version \in VersionsOne =>
              Right = IF IsUpgradable(r.method, r.version, r.headers)
                      THEN IF book.uris[r.uri] = Unbooked THEN Comes(404, None, None)
                           ELSE Comes(101, None, book.uris[r.uri].ws)
                      ELSE IF r.method \in NeedsLength
                              /\ Lookup(r.headers, "content-length").ret = "missing"
                      THEN Comes(411, None, None)
                      ELSE RightlyServed(r, IF book.uris[r.uri] # Unbooked
                                            THEN book.uris[r.uri] ELSE book.default)
BY DEF Right, Rightly, RightlyAt

\* A request without a request line is refused.
LEMMA NoLineGranted ==
  ASSUME Sound, ParseNoLine
  PROVE  res'.status = 505 /\ SameHeaders(res.content, res'.content)
<1>1. PICK refused \in Refusals(1) : Refuse(505, 1, refused = 0)
  BY DEF ParseNoLine
<1>2. PICK granted \in BOOLEAN : granted <=> refused = 0
  OBVIOUS
<1> DEFINE p == res
           q == res'
           status == 505
           n == 1
           what == causes
<1>3. q = Preset(p, status, n, granted)
  BY <1>1, <1>2 DEF Refuse
<1>4. p \in Responses /\ MessageSound(p.content, what) /\ status \in Statuses /\ n \in Nat
  BY DEF Sound, ThreadTyped, Messages, Statuses
<1>5. status = 505
  OBVIOUS
<1> HIDE DEF p, q, status, n, what
<1>6. Answers(p, q, status, n)
  BY <1>3, <1>4, PresetIs
<1>7. q.status = 505 /\ SameHeaders(p.content, q.content)
  BY <1>5, <1>6 DEF Answers, SameHeaders
<1> QED
  BY <1>7 DEF p, q

\* The status of a request that every allocation is granted to.
ParsedStatus(r) ==
  IF r.version \notin VersionsOne THEN 505
  ELSE IF Lookup(r.headers, "content-length").ret = "missing" /\ r.method \in NeedsLength
  THEN 411 ELSE 0

LEMMA ParseGranted ==
  ASSUME Sound, Parse, "refused" \notin causes', NEW r, r = Received(exchange)
  PROVE  /\ r.line /\ r.uri \in Uris /\ r.headers \in Seq(DOMAIN Lines)
         /\ req'.uri = r.uri /\ req'.method = r.method /\ req'.version = r.version
         /\ Complete(req'.content) /\ req'.content.list = r.headers
         /\ pc' = IF IsUpgradable(r.method, r.version, r.headers) THEN "scan"
                  ELSE IF ParsedStatus(r) > 0 THEN "respond" ELSE "find"
         /\ res'.status = ParsedStatus(r)
         /\ SameHeaders(res.content, res'.content)
<1>1. PICK guess \in Guesses :
        \E refused \in Refusals(Len(r.headers) + 2) :
        \E c, told, len, status : Parsing(r, guess, refused, c, told, len, status)
  BY ParseChoices
<1>2. PICK refused \in Refusals(Len(r.headers) + 2) :
        \E c, told, len, status : Parsing(r, guess, refused, c, told, len, status)
  BY <1>1
<1>3. PICK c, told, len, status :
          /\ c = NewHeaders(r.headers, refused)
          /\ told = GetHeader(c, "content-length")
          /\ len = BodyLength(told, guess) /\ status = EarlyStatus(r, c, told)
          /\ refused \in DOMAIN r.headers => c.headers.ptr = "null"
          /\ told.ret = "missing" => guess = 0
          /\ req' = [line |-> TRUE, method |-> r.method, uri |-> r.uri, version |-> r.version,
                     content |-> WithBody(c, len, refused # Len(r.headers) + 1)]
          /\ Refuse(status, IF status = 505 THEN 1 ELSE 0, refused # Len(r.headers) + 2)
          /\ pc' = IF IsUpgradable(r.method, r.version, c.list) THEN "scan"
                   ELSE IF status > 0 THEN "respond" ELSE "find"
          /\ Notes(RefusedIn(refused) \cup GuessedIn(guess))
          /\ CheckedAfter(CopyBreak(r, len, refused # Len(r.headers) + 1))
  BY <1>2 DEF Parsing
<1>4. pc = "parse" /\ r.line /\ res.status = 0 /\ exchange.request \in RequestNames
      /\ res \in Responses /\ MessageSound(res.content, causes)
  BY DEF Parse, At, Sound, UnderWay, ThreadTyped, Messages
<1>5. r.headers \in Seq(DOMAIN Lines) /\ r.uri \in Uris
  BY <1>4, ReceivedTyped
<1>6. refused = 0 /\ refused \notin DOMAIN r.headers
  <2> DEFINE n == Len(r.headers) + 2
  <2>1. n \in Nat /\ refused \in Refusals(n)
    BY <1>5
  <2> HIDE DEF n
  <2>2. refused = 0
    BY <1>3, <2>1, RefusalsNoted DEF Notes
  <2> QED
    BY <1>5, <2>2
<1>7. Complete(c) /\ c.list = r.headers
  <2> DEFINE hs == r.headers
  <2>1. c = NewHeaders(hs, refused) /\ hs \in Seq(DOMAIN Lines) /\ refused \notin DOMAIN hs
    BY <1>3, <1>5, <1>6
  <2> HIDE DEF hs
  <2>2. Complete(c) /\ c.list = hs
    BY <2>1, NewHeadersAre
  <2> QED
    BY <2>2 DEF hs
<1>8. told = Lookup(r.headers, "content-length")
  BY <1>3, <1>5, <1>7, AllRead
<1>9. status = ParsedStatus(r)
  <2>1. ~(c.headers.ptr = "null" /\ r.headers # <<>>)
    BY <1>5, <1>7 DEF Complete, Given
  <2> QED
    BY <1>3, <1>8, <2>1 DEF EarlyStatus, ParsedStatus
<1>10. SameHeaders(c, req'.content) /\ req'.uri = r.uri /\ req'.method = r.method
       /\ req'.version = r.version
  <2>1. ASSUME NEW n, NEW granted
        PROVE  SameHeaders(c, AppendBody(c, n, granted))
    <3>1. c \in Contents(DOMAIN Lines)
      BY <1>3, <1>5, NewHeadersMade
    <3> QED
      BY <3>1, AppendingHeaders
  <2>2. SameHeaders(c, WithBody(c, len, refused # Len(r.headers) + 1))
    <3>1. SameHeaders(c, c)
      BY DEF SameHeaders
    <3>2. SameHeaders(c, AppendBody(c, len, refused # Len(r.headers) + 1))
      BY <2>1
    <3> QED
      BY <3>1, <3>2 DEF WithBody
  <2> QED
    BY <1>3, <2>2
<1>11. Complete(req'.content) /\ req'.content.list = r.headers
  BY <1>7, <1>10, SameComplete DEF SameHeaders
<1>12. res'.status = status /\ SameHeaders(res.content, res'.content)
  <2>1. CASE status = 0
    BY <1>3, <1>4, <2>1 DEF Refuse, SameHeaders
  <2>2. CASE status # 0
    <3> DEFINE p == res
               q == res'
               n == IF status = 505 THEN 1 ELSE 0
               what == causes
    <3>1. PICK granted \in BOOLEAN : granted <=> refused # Len(r.headers) + 2
      OBVIOUS
    <3>2. q = Preset(p, status, n, granted)
      BY <1>3, <2>2, <3>1 DEF Refuse
    <3>3. p \in Responses /\ MessageSound(p.content, what) /\ status \in Statuses /\ n \in Nat
      BY <1>4, <1>9 DEF ParsedStatus, Statuses
    <3> HIDE DEF p, q, n, what
    <3>4. Answers(p, q, status, n)
      BY <3>2, <3>3, PresetIs
    <3>5. q.status = status /\ SameHeaders(p.content, q.content)
      BY <3>4 DEF Answers, SameHeaders
    <3> QED
      BY <3>5 DEF p, q
  <2> QED
    BY <2>1, <2>2
<1> QED
  BY <1>3, <1>4, <1>5, <1>7, <1>9, <1>10, <1>11, <1>12

\* In the middle of an exchange that is quiet the owner is not setting up anything.
LEMMA QuietBefore ==
  ASSUME Sound, pc # "idle", fault = "no", causes \subseteq causes', Quiet'
  PROVE  /\ Quiet /\ owner.doing = "nothing" /\ stale = FALSE
         /\ "refused" \notin causes' /\ exchange \in Exchanges
         /\ exchange.request \in RequestNames
BY DEF Sound, UnderWay, ThreadTyped, Quiet

LEMMA ApplyDispatching ==
  ASSUME Sound, Dispatching, ApplyDefaultHeaders
  PROVE  Dispatching'
<1>1. PICK hs \in {defaults.list \o defaults.behind} :
        \E refused \in Refusals(Len(hs)) :
          \E c \in {NewHeaders(hs, refused)} :
            /\ res' = [res EXCEPT !.content = c]
            /\ exchange' = [exchange EXCEPT !.current = (c.list = book.headers)]
            /\ Notes(RefusedIn(refused) \cup UNION {Decides(hs[i]) : i \in DOMAIN hs})
  BY DEF ApplyDefaultHeaders
<1>2. PICK refused \in Refusals(Len(hs)) :
        \E c \in {NewHeaders(hs, refused)} :
          /\ res' = [res EXCEPT !.content = c]
          /\ exchange' = [exchange EXCEPT !.current = (c.list = book.headers)]
          /\ Notes(RefusedIn(refused) \cup UNION {Decides(hs[i]) : i \in DOMAIN hs})
  BY <1>1
<1>3. PICK c : /\ c = NewHeaders(hs, refused)
               /\ exchange' = [exchange EXCEPT !.current = (c.list = book.headers)]
               /\ Notes(RefusedIn(refused) \cup UNION {Decides(hs[i]) : i \in DOMAIN hs})
  BY <1>2
<1>4. pc = "defaults" /\ fault = "no" /\ pc' = "parse" /\ UNCHANGED admin
  BY DEF ApplyDefaultHeaders, At
<1> SUFFICES ASSUME Quiet' PROVE Dispatching'
  BY DEF Dispatching
<1>5. causes \subseteq causes' /\ RefusedIn(refused) \subseteq causes'
  BY <1>3 DEF Notes
<1>6. /\ Quiet /\ owner.doing = "nothing" /\ "refused" \notin causes' /\ exchange \in Exchanges
  BY <1>4, <1>5, QuietBefore
<1>7. defaults.list \in Seq(DOMAIN Lines) /\ defaults.behind \in Seq(DOMAIN Lines)
      /\ book.headers = defaults.list
  BY <1>6 DEF Sound, Setup, SetupTyped, BookAgrees
<1>8. hs \in Seq(DOMAIN Lines)
  <2> DEFINE ds == defaults.list
             bs == defaults.behind
  <2>1. hs = ds \o bs /\ ds \in Seq(DOMAIN Lines) /\ bs \in Seq(DOMAIN Lines)
    BY <1>1, <1>7
  <2> HIDE DEF ds, bs
  <2> QED
    BY <2>1
<1>9. c.list = hs
  <2>1. refused = 0
    <3>1. Len(hs) \in Nat
      BY <1>8
    <3> QED
      BY <1>5, <1>6, <3>1, RefusalsNoted
  <2>2. refused \notin DOMAIN hs
    BY <1>8, <2>1
  <2> QED
    BY <1>3, <1>8, <2>2, NewHeadersAre
<1>10. exchange'.current \/ defaults'.behind # <<>>
  <2>1. exchange'.current = (c.list = book.headers)
    BY <1>3, <1>6 DEF Exchanges
  <2>2. defaults.behind = <<>> => hs = defaults.list
    BY <1>1, <1>7
  <2> QED
    BY <1>4, <1>7, <1>9, <2>1, <2>2 DEF admin, server
<1>11. exchange'.ran = None /\ exchange'.ws = None
  BY <1>3, <1>4, <1>6 DEF Dispatching, Exchanges
<1> QED
  BY <1>4, <1>10, <1>11 DEF Dispatching

LEMMA NoLineDispatching ==
  ASSUME Sound, Dispatching, ParseNoLine
  PROVE  Dispatching'
<1>1. /\ pc = "parse" /\ fault = "no" /\ pc' = "respond" /\ UNCHANGED <<admin, exchange>>
      /\ ~Received(exchange).line /\ causes \subseteq causes'
  BY DEF ParseNoLine, At, Notes
<1> SUFFICES ASSUME Quiet' PROVE Dispatching'
  BY DEF Dispatching
<1>2. Quiet /\ exchange.request \in RequestNames
  BY <1>1, QuietBefore
<1>3. Right' = Right
  BY <1>1, RightSame DEF admin
<1>4. Right = Comes(505, None, None)
  <2>1. Received(exchange).uri \in Uris
    BY <1>2, ReceivedTyped
  <2> QED
    BY <1>1, <2>1, RightIs
<1>5. res'.status = 505
  BY NoLineGranted
<1>6. ServedWith(res.status)'
  BY <1>1, <1>2, <1>3, <1>4, <1>5 DEF Dispatching, ServedWith, Comes
<1> QED
  BY <1>1, <1>2, <1>6 DEF Dispatching, admin, server

LEMMA ParseDispatching ==
  ASSUME Sound, Dispatching, Parse
  PROVE  Dispatching'
<1>1. /\ pc = "parse" /\ fault = "no" /\ UNCHANGED <<admin, exchange>>
      /\ causes \subseteq causes'
  BY DEF Parse, At, Notes
<1> SUFFICES ASSUME Quiet' PROVE Dispatching'
  BY DEF Dispatching
<1>2. Quiet /\ exchange.request \in RequestNames /\ "refused" \notin causes'
  BY <1>1, QuietBefore
<1> DEFINE r == Received(exchange)
<1>r. r = Received(exchange)
  OBVIOUS
<1> HIDE DEF r
<1>3. /\ r.line /\ r.uri \in Uris
      /\ req'.uri = r.uri /\ req'.method = r.method
      /\ pc' = IF IsUpgradable(r.method, r.version, r.headers) THEN "scan"
               ELSE IF ParsedStatus(r) > 0 THEN "respond" ELSE "find"
      /\ res'.status = ParsedStatus(r)
  BY <1>2, <1>r, ParseGranted
<1>4. Right' = Right
  BY <1>1, RightSame DEF admin
<1>5. /\ r.version \notin VersionsOne => Right = Comes(505, None, None)
      /\ r.version \in VersionsOne =>
           Right = IF IsUpgradable(r.method, r.version, r.headers)
                   THEN IF book.uris[r.uri] = Unbooked THEN Comes(404, None, None)
                        ELSE Comes(101, None, book.uris[r.uri].ws)
                   ELSE IF r.method \in NeedsLength
                           /\ Lookup(r.headers, "content-length").ret = "missing"
                   THEN Comes(411, None, None)
                   ELSE RightlyServed(r, IF book.uris[r.uri] # Unbooked
                                         THEN book.uris[r.uri] ELSE book.default)
  BY <1>3, <1>r, RightIs
<1>6. /\ exchange'.ran = None /\ exchange'.ws = None
      /\ exchange'.current \/ defaults'.behind # <<>>
      /\ book' = book
  BY <1>1, <1>2 DEF Dispatching, admin, server
<1>7. CASE IsUpgradable(r.method, r.version, r.headers)
  <2>1. r.version \in VersionsOne /\ pc' = "scan"
    BY <1>3, <1>7 DEF IsUpgradable, VersionsOne
  <2>2. Right = IF book.uris[r.uri] = Unbooked THEN Comes(404, None, None)
                ELSE Comes(101, None, book.uris[r.uri].ws)
    BY <1>5, <1>7, <2>1
  <2> QED
    BY <1>3, <1>4, <1>6, <2>1, <2>2 DEF Dispatching
<1>8. CASE ~IsUpgradable(r.method, r.version, r.headers) /\ ParsedStatus(r) > 0
  <2>1. pc' = "respond"
    BY <1>3, <1>8
  <2>2. Right = Comes(ParsedStatus(r), None, None)
    <3>1. CASE r.version \notin VersionsOne
      BY <1>5, <3>1 DEF ParsedStatus
    <3>2. CASE r.version \in VersionsOne
      <4>1. r.method \in NeedsLength /\ Lookup(r.headers, "content-length").ret = "missing"
            /\ ParsedStatus(r) = 411
        BY <1>8, <3>2 DEF ParsedStatus
      <4> QED
        BY <1>5, <1>8, <3>2, <4>1
    <3> QED
      BY <3>1, <3>2
  <2>3. ServedWith(res.status)'
    BY <1>3, <1>4, <1>6, <2>2 DEF ServedWith, Comes
  <2> QED
    BY <1>6, <2>1, <2>3 DEF Dispatching
<1>9. CASE ~IsUpgradable(r.method, r.version, r.headers) /\ ~(ParsedStatus(r) > 0)
  <2>1. pc' = "find"
    BY <1>3, <1>9
  <2>2. Right = RightlyServed(r, IF book.uris[r.uri] # Unbooked
                                 THEN book.uris[r.uri] ELSE book.default)
    BY <1>5, <1>9 DEF ParsedStatus
  <2>3. Right' = RightlyServed(req', IF book'.uris[req'.uri] # Unbooked
                                     THEN book'.uris[req'.uri] ELSE book'.default)
    BY <1>3, <1>4, <1>6, <2>2 DEF RightlyServed
  <2> QED
    BY <1>3, <1>6, <2>1, <2>3 DEF Dispatching
<1> QED
  BY <1>7, <1>8, <1>9

\* With nothing under way, a uri that no endpoint in use has is not in the book.
LEMMA NoMatchUnbooked ==
  ASSUME Setup, NEW u \in Uris, \A i \in Slots : i <= count => endpoints[i].uri # u
  PROVE  book.uris[u] = Unbooked
BY DEF Setup, BookAgrees

LEMMA UpgradeDispatching ==
  ASSUME Sound, Dispatching, Upgrade
  PROVE  Dispatching'
<1>1. PICK refused \in Refusals(Len(UpgradeHeaders)) :
        /\ res' = IF Matches = {} THEN Preset(res, 404, 0, TRUE)
                  ELSE [status |-> 101,
                        content |-> AddHeaders(res.content, UpgradeHeaders, refused)]
        /\ exchange' = [exchange EXCEPT !.ws = IF Matches = {} THEN @
                                               ELSE endpoints[FirstOf(Matches)].ws]
  BY DEF Upgrade
<1>2. /\ pc = "scan" /\ fault = "no" /\ pc' = "respond" /\ UNCHANGED admin
      /\ causes \subseteq causes'
  BY DEF Upgrade, At, Notes
<1> SUFFICES ASSUME Quiet' PROVE Dispatching'
  BY DEF Dispatching
<1>3. /\ Quiet /\ owner.doing = "nothing" /\ exchange \in Exchanges
  BY <1>2, QuietBefore
<1>4. /\ req.uri \in Uris /\ exchange.ran = None /\ exchange.ws = None
      /\ Right = IF book.uris[req.uri] = Unbooked THEN Comes(404, None, None)
                 ELSE Comes(101, None, book.uris[req.uri].ws)
      /\ exchange.current \/ defaults.behind # <<>>
  BY <1>2, <1>3 DEF Dispatching
<1> DEFINE ws == IF Matches = {} THEN None ELSE endpoints[FirstOf(Matches)].ws
<1>5. exchange' = [exchange EXCEPT !.ws = ws]
  BY <1>1, <1>3, <1>4 DEF Exchanges
<1> HIDE DEF ws
<1>6. /\ exchange'.ran = None /\ exchange'.ws = ws /\ exchange'.request = exchange.request
      /\ exchange'.cut = exchange.cut /\ exchange'.current = exchange.current
  BY <1>3, <1>4, <1>5 DEF Exchanges
<1>7. Right' = Right
  BY <1>2, <1>6, RightSame DEF admin
<1>8. Right.ran = None /\ Right.ws = ws /\ Right.status = res'.status
  <2>1. CASE Matches = {}
    <3>1. ASSUME NEW i \in Slots, i <= count
          PROVE  endpoints[i].uri # req.uri
      <4>1. \A j \in 1 .. i - 1 : endpoints[j].active
        <5>1. \A j \in Slots : j <= count => endpoints[j].active
          BY <1>3 DEF Sound, Setup, TableFilled, Filling
        <5>2. count \in Nat /\ MaxEndpoints \in Nat
          BY EndpointsAssumption DEF Sound, Setup, SetupTyped
        <5> QED
          BY <3>1, <5>1, <5>2 DEF Slots
      <4> QED
        BY <2>1, <4>1 DEF Matches, Scanned
    <3>2. book.uris[req.uri] = Unbooked
      BY <1>4, <3>1, NoMatchUnbooked DEF Sound
    <3>3. res'.status = 404
      <4> DEFINE status == 404
      <4>1. res' = Preset(res, status, 0, TRUE) /\ status \in Statuses /\ res \in Responses
        BY <1>1, <2>1 DEF Statuses, Sound, ThreadTyped
      <4> HIDE DEF status
      <4>2. res'.status = status
        BY <4>1, StatusAlone
      <4> QED
        BY <4>2 DEF status
    <3> QED
      BY <1>4, <2>1, <3>2, <3>3 DEF Comes, ws
  <2>2. CASE Matches # {}
    <3> DEFINE i == FirstOf(Matches)
    <3>1. Matches \in SUBSET Slots
      BY DEF Matches, Scanned
    <3>2. i \in Slots /\ endpoints[i].uri = req.uri
      <4>1. i \in Matches
        BY <2>2, <3>1, FirstSlot
      <4> QED
        BY <4>1 DEF Matches, Scanned
    <3> HIDE DEF i
    <3>3. book.uris[req.uri] # Unbooked /\ book.uris[req.uri].ws = endpoints[i].ws
      BY <1>3, <1>4, <3>2, MatchBooked DEF Sound
    <3>4. res'.status = 101
      <4> DEFINE d == AddHeaders(res.content, UpgradeHeaders, refused)
      <4>1. res' = [status |-> 101, content |-> d]
        BY <1>1, <2>2
      <4> HIDE DEF d
      <4> QED
        BY <4>1
    <3> QED
      BY <1>4, <2>2, <3>3, <3>4 DEF Comes, ws, i
  <2> QED
    BY <2>1, <2>2
<1>9. ServedWith(res.status)'
  BY <1>6, <1>7, <1>8 DEF ServedWith
<1> QED
  BY <1>2, <1>4, <1>6, <1>9 DEF Dispatching, admin, server

LEMMA FindDispatching ==
  ASSUME Sound, Dispatching, FindEndpoint
  PROVE  Dispatching'
<1>1. PICK matches \in {{i \in Slots : i <= count /\ endpoints[i].uri = req.uri}} :
        found' = CASE matches # {} -> FirstOf(matches)
                   [] matches = {} /\ fallback.active -> DefaultSlot
                   [] matches = {} /\ ~fallback.active -> 0
  BY DEF FindEndpoint
<1>2. /\ pc = "find" /\ fault = "no" /\ pc' = "check"
      /\ UNCHANGED <<admin, req, res, exchange, causes>>
  BY DEF FindEndpoint, At
<1> SUFFICES ASSUME Quiet' PROVE Dispatching'
  BY DEF Dispatching
<1>3. /\ Quiet /\ owner.doing = "nothing"
  BY <1>2, QuietBefore
<1>4. /\ req.uri \in Uris /\ exchange.ran = None /\ exchange.ws = None
      /\ Right = RightlyServed(req, IF book.uris[req.uri] # Unbooked THEN book.uris[req.uri]
                                    ELSE book.default)
      /\ exchange.current \/ defaults.behind # <<>>
  BY <1>2, <1>3 DEF Dispatching
<1> DEFINE entry == IF book.uris[req.uri] # Unbooked THEN book.uris[req.uri] ELSE book.default
<1>5. DefaultSlot \notin Slots /\ 0 \notin Slots /\ DefaultSlot # 0
  BY EndpointsAssumption DEF DefaultSlot, Slots
<1>6. Found'.http = entry.http /\ (entry.http # None => Found'.methods = entry.methods)
  <2>1. CASE matches # {}
    <3>1. matches \in SUBSET Slots
      BY <1>1
    <3>2. found' \in matches
      <4>1. FirstOf(matches) \in matches
        BY <2>1, <3>1, FirstSlot
      <4> QED
        BY <1>1, <2>1, <4>1
    <3>3. found' \in Slots /\ endpoints[found'].uri = req.uri
      BY <1>1, <3>2
    <3>4. /\ book.uris[req.uri] # Unbooked
          /\ book.uris[req.uri].http = endpoints[found'].http
          /\ book.uris[req.uri].methods = endpoints[found'].methods
      BY <1>3, <1>4, <3>3, MatchBooked DEF Sound
    <3>5. Found' = endpoints[found']
      BY <1>2, <1>5, <3>3 DEF Found, admin, server
    <3> QED
      BY <3>4, <3>5
  <2>2. CASE matches = {}
    <3>1. entry = book.default
      <4>1. \A i \in Slots : i <= count => endpoints[i].uri # req.uri
        BY <1>1, <2>2
      <4> QED
        BY <1>4, <4>1, NoMatchUnbooked DEF Sound
    <3>2. /\ book.default.http = fallback.http /\ book.default.methods = fallback.methods
          /\ fallback.active <=> fallback.http # None
      BY <1>3 DEF Sound, Setup, BookAgrees
    <3>3. CASE fallback.active
      <4>1. found' = DefaultSlot
        BY <1>1, <2>2, <3>3
      <4>2. Found' = fallback
        BY <1>2, <4>1 DEF Found, DefaultSlot, admin, server
      <4> QED
        BY <3>1, <3>2, <4>2
    <3>4. CASE ~fallback.active
      <4>1. found' = 0
        BY <1>1, <2>2, <3>4
      <4>2. Found' = FreeSlot
        BY <1>5, <4>1 DEF Found, DefaultSlot, FreeSlot
      <4> QED
        BY <3>1, <3>2, <3>4, <4>2 DEF FreeSlot
    <3> QED
      BY <3>3, <3>4
  <2> QED
    BY <2>1, <2>2
<1>7. Right' = Right
  BY <1>2, RightSame DEF admin
<1>8. Right' = RightlyServed(req, Found)'
  <2>1. Right = RightlyServed(req, entry)
    BY <1>4
  <2> HIDE DEF entry
  <2> QED
    BY <1>2, <1>6, <1>7, <2>1 DEF RightlyServed
<1> QED
  BY <1>2, <1>4, <1>8 DEF Dispatching, admin, server

LEMMA CheckDispatching ==
  ASSUME Sound, Dispatching, CheckEndpoint
  PROVE  Dispatching'
<1>1. PICK status : /\ status = CheckStatus(Found, req.method)
                    /\ res' = Preset(res, status, 0, TRUE)
                    /\ pc' = IF status = 200 THEN "call" ELSE "keepalive"
  BY DEF CheckEndpoint
<1>2. /\ pc = "check" /\ fault = "no"
      /\ UNCHANGED <<admin, req, found, exchange, causes>>
  BY DEF CheckEndpoint, At
<1> SUFFICES ASSUME Quiet' PROVE Dispatching'
  BY DEF Dispatching
<1>3. Quiet
  BY <1>2, QuietBefore
<1>4. /\ exchange.ran = None /\ exchange.ws = None /\ Right = RightlyServed(req, Found)
      /\ exchange.current \/ defaults.behind # <<>>
  BY <1>2, <1>3 DEF Dispatching
<1>5. status \in {200, 404, 405}
  BY <1>1 DEF CheckStatus
<1>6. res'.status = status
  <2>1. status \in Statuses /\ res \in Responses
    BY <1>5 DEF Statuses, Sound, ThreadTyped
  <2> QED
    BY <1>1, <2>1, StatusAlone
<1>7. Right' = Right /\ Found' = Found
  BY <1>2, RightSame DEF admin, server, Found
<1>8. Right = Comes(status, IF status = 200 THEN Found.http ELSE None, None)
  BY <1>1, <1>4 DEF CheckStatus, RightlyServed
<1>9. CASE status = 200
  <2>1. Right = Comes(200, Found.http, None) /\ pc' = "call"
    BY <1>1, <1>8, <1>9
  <2>2. Right' = Comes(200, Found.http, None)'
    BY <1>7, <2>1
  <2> QED
    BY <1>2, <1>4, <2>1, <2>2 DEF Dispatching, admin, server
<1>10. CASE status # 200
  <2>1. Right' = Comes(status, None, None) /\ pc' = "keepalive"
    BY <1>1, <1>7, <1>8, <1>10
  <2>2. ServedWith(res.status)'
    BY <1>2, <1>4, <1>6, <2>1 DEF ServedWith, Comes
  <2> QED
    BY <1>2, <1>4, <2>1, <2>2 DEF Dispatching, admin, server
<1> QED
  BY <1>9, <1>10

LEMMA CallDispatching ==
  ASSUME Sound, Dispatching, CallEndpoint
  PROVE  Dispatching'
<1>1. /\ pc = "call" /\ fault = "no" /\ pc' = "callback"
      /\ exchange' = [exchange EXCEPT !.ran = Found.http]
      /\ UNCHANGED <<admin, req, res, found, causes>>
  BY DEF CallEndpoint, At
<1> SUFFICES ASSUME Quiet' PROVE Dispatching'
  BY DEF Dispatching
<1>2. Quiet /\ exchange \in Exchanges
  BY <1>1, QuietBefore
<1>3. /\ exchange.ws = None /\ Right = Comes(200, Found.http, None)
      /\ exchange.current \/ defaults.behind # <<>>
      /\ Found.http # None
  BY <1>1, <1>2 DEF Dispatching, Sound, Callable
<1> DEFINE cb == Found.http
<1>4. exchange' = [exchange EXCEPT !.ran = cb] /\ cb # None /\ Right = Comes(200, cb, None)
  BY <1>1, <1>3
<1> HIDE DEF cb
<1>5. /\ exchange'.ran = cb /\ exchange'.ws = None /\ exchange'.request = exchange.request
      /\ exchange'.cut = exchange.cut /\ exchange'.current = exchange.current
  BY <1>2, <1>3, <1>4 DEF Exchanges
<1>6. Right' = Right
  BY <1>1, <1>5, RightSame DEF admin
<1>7. ServedWith(res.status)' /\ exchange'.ran # None
  BY <1>4, <1>5, <1>6 DEF ServedWith, Comes
<1> QED
  BY <1>1, <1>3, <1>5, <1>7 DEF Dispatching, admin, server

\* What answers the request, and with which status, is not changed by the headers
\* that are added to the response; a callback has it the way it wants.
LEMMA AnsweringDispatching ==
  ASSUME Sound, Dispatching, fault = "no", UNCHANGED admin, causes \subseteq causes',
         pc \in {"callback", "keepalive", "respond"}, pc' \in {"callback", "respond", "send"},
         pc' = "callback" => pc = "callback",
         exchange'.ran = exchange.ran, exchange'.ws = exchange.ws,
         exchange'.request = exchange.request, exchange'.cut = exchange.cut,
         exchange'.current = exchange.current,
         res'.status = res.status \/ pc = "callback"
  PROVE  Dispatching'
<1> SUFFICES ASSUME Quiet' PROVE Dispatching'
  BY DEF Dispatching
<1>1. Quiet
  BY QuietBefore
<1>2. /\ ServedWith(res.status)
      /\ exchange.current \/ defaults.behind # <<>>
      /\ pc = "callback" => exchange.ran # None
  BY <1>1 DEF Dispatching
<1>3. Right' = Right
  BY RightSame DEF admin
<1>4. ServedWith(res.status)'
  BY <1>2, <1>3 DEF ServedWith
<1> QED
  BY <1>2, <1>4 DEF Dispatching, admin, server

LEMMA RespondingDispatching ==
  ASSUME Sound, Dispatching, Callback \/ SetKeepalive \/ OnResponseReady
  PROVE  Dispatching'
<1>0. res \in Responses /\ exchange \in Exchanges
  BY DEF Sound, ThreadTyped
<1>1. CASE Callback
  <2>1. CASE CallbackAddsHeader \/ CallbackAppends \/ CallbackDestroys \/ CallbackCopies
    <3>1. /\ pc = "callback" /\ pc' = "callback" /\ fault = "no" /\ UNCHANGED <<admin, exchange>>
          /\ causes \subseteq causes'
      BY <2>1 DEF CallbackAddsHeader, CallbackAppends, CallbackDestroys, CallbackCopies, Calls,
                  At, Notes
    <3> QED
      BY <3>1, AnsweringDispatching
  <2>2. CASE CallbackSetsStatus
    <3>1. /\ pc = "callback" /\ pc' = "callback" /\ fault = "no" /\ UNCHANGED <<admin, exchange>>
          /\ causes \subseteq causes'
      BY <2>2 DEF CallbackSetsStatus, Calls, At
    <3> QED
      BY <3>1, AnsweringDispatching
  <2> QED
    BY <1>1, <2>1, <2>2 DEF Callback
<1>2. CASE SetKeepalive
  <2>1. PICK hs \in {Keeping(Keeps(req))} :
          \E refused \in Refusals(Len(hs)) :
            res' = [res EXCEPT !.content = AddHeaders(@, hs, refused)]
    BY <1>2 DEF SetKeepalive
  <2>2. PICK refused \in Refusals(Len(hs)) :
          res' = [res EXCEPT !.content = AddHeaders(@, hs, refused)]
    BY <2>1
  <2>3. /\ pc \in {"callback", "keepalive"} /\ pc' = "respond" /\ fault = "no"
        /\ UNCHANGED <<admin, exchange>> /\ causes \subseteq causes'
    BY <1>2 DEF SetKeepalive, At, Notes
  <2>4. res'.status = res.status
    BY <1>0, <2>2 DEF Responses
  <2> QED
    BY <2>3, <2>4, AnsweringDispatching
<1>3. CASE OnResponseReady
  <2>1. PICK hs \in {Completing(res)} :
          \E refused \in Refusals(Len(hs)) :
            /\ res' = [res EXCEPT !.content = AddHeaders(@, hs, refused)]
            /\ exchange' = [exchange EXCEPT !.closing = Closing(res)]
    BY <1>3 DEF OnResponseReady
  <2>2. PICK refused \in Refusals(Len(hs)) :
          /\ res' = [res EXCEPT !.content = AddHeaders(@, hs, refused)]
          /\ exchange' = [exchange EXCEPT !.closing = Closing(res)]
    BY <2>1
  <2>3. /\ pc = "respond" /\ pc' = "send" /\ fault = "no" /\ UNCHANGED admin
        /\ causes \subseteq causes'
    BY <1>3 DEF OnResponseReady, At, Notes
  <2>4. res'.status = res.status
    BY <1>0, <2>2 DEF Responses
  <2>5. /\ exchange'.ran = exchange.ran /\ exchange'.ws = exchange.ws
        /\ exchange'.request = exchange.request /\ exchange'.cut = exchange.cut
        /\ exchange'.current = exchange.current
    BY <1>0, <2>2 DEF Exchanges
  <2> QED
    BY <2>3, <2>4, <2>5, AnsweringDispatching
<1> QED
  BY <1>1, <1>2, <1>3

\* What sending leaves of an exchange.
SentWith(broken, closing) ==
  /\ closing = (exchange.closing \/ (broken /\ Sends(req, res.content)))
  /\ conn' = IF closing THEN "closed" ELSE IF res.status = 101 THEN "upgraded" ELSE conn
  /\ exchange'.status = res.status
  /\ exchange'.connection = Told(res.content, "connection")
  /\ exchange'.broken = broken
  /\ exchange'.answers = (IF Sends(req, res.content) THEN 1 ELSE 0)
  /\ exchange'.ran = exchange.ran /\ exchange'.ws = exchange.ws
  /\ exchange'.request = exchange.request /\ exchange'.cut = exchange.cut
  /\ exchange'.current = exchange.current /\ exchange'.owed = exchange.owed

LEMMA SentSomehow ==
  ASSUME Sound, SendResponse
  PROVE  \E broken \in BOOLEAN, closing \in BOOLEAN : SentWith(broken, closing)
<1>1. PICK broken \in BOOLEAN, sent \in {Sends(req, res.content)},
           left \in {{Destroy(req.content), Destroy(res.content)}} :
        \E closing \in {exchange.closing \/ (broken /\ sent)} :
          /\ exchange' = [exchange EXCEPT !.status = res.status,
                            !.connection = Told(res.content, "connection"),
                            !.broken = broken, !.answers = IF sent THEN 1 ELSE 0,
                            !.closing = closing, !.leaks = \E c \in left : Leaks(c)]
          /\ fault' \in SendFault(closing, left)
          /\ conn' = IF closing THEN "closed"
                     ELSE IF res.status = 101 THEN "upgraded" ELSE conn
  BY DEF SendResponse
<1>2. PICK closing \in {exchange.closing \/ (broken /\ sent)} :
          /\ exchange' = [exchange EXCEPT !.status = res.status,
                            !.connection = Told(res.content, "connection"),
                            !.broken = broken, !.answers = IF sent THEN 1 ELSE 0,
                            !.closing = closing, !.leaks = \E c \in left : Leaks(c)]
          /\ conn' = IF closing THEN "closed"
                     ELSE IF res.status = 101 THEN "upgraded" ELSE conn
  BY <1>1
<1>3. exchange \in Exchanges
  BY DEF Sound, ThreadTyped
<1> DEFINE status == res.status
           told == Told(res.content, "connection")
           answers == IF Sends(req, res.content) THEN 1 ELSE 0
           leaks == \E m \in left : Leaks(m)
<1>4. exchange' = [exchange EXCEPT !.status = status, !.connection = told,
                     !.broken = broken, !.answers = answers,
                     !.closing = closing, !.leaks = leaks]
  BY <1>1, <1>2
<1>5. /\ closing \in BOOLEAN
      /\ closing = (exchange.closing \/ (broken /\ Sends(req, res.content)))
  BY <1>1, <1>2, <1>3 DEF Exchanges
<1> HIDE DEF status, told, answers, leaks
<1>6. /\ exchange'.ran = exchange.ran /\ exchange'.ws = exchange.ws
      /\ exchange'.request = exchange.request /\ exchange'.cut = exchange.cut
      /\ exchange'.current = exchange.current /\ exchange'.owed = exchange.owed
      /\ exchange'.status = status /\ exchange'.connection = told
      /\ exchange'.broken = broken /\ exchange'.answers = answers
  BY <1>3, <1>4 DEF Exchanges
<1>7. SentWith(broken, closing)
  BY <1>2, <1>5, <1>6 DEF SentWith, status, told, answers
<1> QED
  BY <1>1, <1>5, <1>7

\* When the response is sent the request has come to what is right.
LEMMA SendDispatching ==
  ASSUME Sound, Dispatching, SendResponse
  PROVE  Dispatching' /\ DispatchIsRight'
<1>1. /\ pc = "send" /\ fault = "no" /\ pc' = "idle" /\ UNCHANGED <<admin, causes>>
  BY DEF SendResponse, At, Returned
<1>2. /\ exchange'.ran = exchange.ran /\ exchange'.ws = exchange.ws
      /\ exchange'.request = exchange.request /\ exchange'.cut = exchange.cut
      /\ exchange'.current = exchange.current /\ exchange'.status = res.status
  BY SentSomehow DEF SentWith
<1>3. Dispatching'
  BY <1>1 DEF Dispatching
<1>4. DispatchIsRight'
  <2> SUFFICES ASSUME causes' \cap {"raced", "refused"} = {}
               PROVE  /\ exchange'.ran = Right'.ran /\ exchange'.ws = Right'.ws
                      /\ exchange'.ran = None => exchange'.status = Right'.status
                      /\ exchange'.current \/ defaults'.behind # <<>>
    BY DEF DispatchIsRight, Right
  <2>1. ServedWith(res.status) /\ (exchange.current \/ defaults.behind # <<>>)
    BY <1>1 DEF Dispatching, Quiet
  <2>2. Right' = Right
    BY <1>1, <1>2, RightSame DEF admin
  <2> QED
    BY <1>1, <1>2, <2>1, <2>2 DEF ServedWith, admin, server
<1> QED
  BY <1>3, <1>4

LEMMA UnservedDispatching ==
  ASSUME Sound, Dispatching, UpgradeWithoutKey \/ Receive \/ HungUp
  PROVE  Dispatching' /\ DispatchIsRight'
<1>1. CASE UpgradeWithoutKey
  <2>1. /\ pc = "scan" /\ pc' = "idle"
        /\ exchange' = [exchange EXCEPT !.leaks = Leaks(req.content) \/ Leaks(res.content)]
        /\ exchange \in Exchanges /\ exchange.status = 0
    BY <1>1 DEF UpgradeWithoutKey, At, Returned, Sound, ThreadTyped, UnderWay
  <2>2. exchange'.status = 0
    BY <2>1 DEF Exchanges
  <2> QED
    BY <2>1, <2>2 DEF Dispatching, DispatchIsRight
<1>2. CASE Receive
  <2>1. PICK r \in RequestNames, cut \in {"no", "line", "headers", "body"} :
          exchange' = [NewExchange EXCEPT !.request = r, !.cut = cut,
                                          !.owed = IF rest THEN 0 ELSE 1]
    BY <1>2 DEF Receive
  <2>2. pc' = "defaults"
    BY <1>2 DEF Receive
  <2>3. exchange'.ran = None /\ exchange'.ws = None
    BY <2>1 DEF NewExchange
  <2> QED
    BY <2>2, <2>3 DEF Dispatching, DispatchIsRight, Settled
<1>3. CASE HungUp
  <2>1. pc' = "idle" /\ exchange' = NewExchange
    BY <1>3 DEF HungUp, At
  <2>2. exchange'.status = 0
    BY <2>1, NewExchangeTyped
  <2> QED
    BY <2>1, <2>2 DEF Dispatching, DispatchIsRight
<1> QED
  BY <1>1, <1>2, <1>3

\* What is set up meanwhile is set up during an exchange, or after it is forgotten.
LEMMA OwnerDispatching ==
  ASSUME Sound, Dispatching, Owner
  PROVE  Dispatching' /\ DispatchIsRight'
<1>1. /\ pc' = pc
      /\ IF pc = "idle" THEN exchange' = NewExchange /\ causes' = {}
         ELSE causes' = causes \cup {"raced"}
  BY OwnerMoves DEF Sound, ThreadTyped
<1>2. CASE pc = "idle"
  BY <1>1, <1>2, NewExchangeTyped DEF Dispatching, DispatchIsRight
<1>3. CASE pc # "idle"
  BY <1>1, <1>3 DEF Dispatching, DispatchIsRight, Quiet
<1> QED
  BY <1>2, <1>3

LEMMA StepDispatching ==
  ASSUME Sound, Dispatching, DispatchIsRight, [Next]_vars
  PROVE  Dispatching' /\ DispatchIsRight'
<1>1. ASSUME Dispatching', pc' # "idle"
      PROVE  Dispatching' /\ DispatchIsRight'
  BY <1>1 DEF DispatchIsRight, Settled
<1>2. CASE Owner
  BY <1>2, OwnerDispatching
<1>3. CASE UpgradeWithoutKey \/ Receive \/ HungUp
  BY <1>3, UnservedDispatching
<1>4. CASE ApplyDefaultHeaders
  BY <1>1, <1>4, ApplyDispatching DEF ApplyDefaultHeaders
<1>5. CASE ParseNoLine
  BY <1>1, <1>5, NoLineDispatching DEF ParseNoLine
<1>6. CASE Parse
  <2>1. pc' # "idle"
    <3>1. PICK r \in {Received(exchange)}, guess \in Guesses :
            \E refused \in Refusals(Len(r.headers) + 2) :
            \E c, told, len, status : Parsing(r, guess, refused, c, told, len, status)
      BY <1>6, ParseChoices
    <3> QED
      BY <3>1 DEF Parsing
  <2> QED
    BY <1>1, <1>6, <2>1, ParseDispatching
<1>7. CASE Upgrade
  BY <1>1, <1>7, UpgradeDispatching DEF Upgrade
<1>8. CASE FindEndpoint
  BY <1>1, <1>8, FindDispatching DEF FindEndpoint
<1>9. CASE CheckEndpoint
  <2>1. pc' # "idle"
    BY <1>9 DEF CheckEndpoint
  <2> QED
    BY <1>1, <1>9, <2>1, CheckDispatching
<1>10. CASE CallEndpoint
  BY <1>1, <1>10, CallDispatching DEF CallEndpoint
<1>11. CASE Callback \/ SetKeepalive \/ OnResponseReady
  <2>1. pc' # "idle"
    BY <1>11 DEF Callback, CallbackAddsHeader, CallbackAppends, CallbackSetsStatus,
       CallbackCopies, CallbackDestroys, Calls, At, SetKeepalive, OnResponseReady
  <2> QED
    BY <1>1, <1>11, <2>1, RespondingDispatching
<1>12. CASE SendResponse
  BY <1>12, SendDispatching
<1>13. CASE UNCHANGED vars
  <2>1. UNCHANGED <<admin, pc, req, res, found, exchange, causes, fault>>
    BY <1>13 DEF vars, thread
  <2>2. Right' = Right
    BY <2>1, RightSame DEF admin
  <2>3. Found' = Found
    BY <2>1 DEF Found, admin, server
  <2>4. Dispatching'
    BY <2>1, <2>2, <2>3 DEF Dispatching, Quiet, ServedWith, RightlyServed, Comes, admin, server
  <2>5. DispatchIsRight'
    BY <2>1, <2>2 DEF DispatchIsRight, Settled, Right, admin, server
  <2> QED
    BY <2>4, <2>5
<1> QED
  BY <1>2, <1>3, <1>4, <1>5, <1>6, <1>7, <1>8, <1>9, <1>10, <1>11, <1>12, <1>13 DEF Next, Respond

\* A request comes to what the calls of the owner say it should, whatever the slots
\* of the table and the order of the checks are, as long as nothing is set up during
\* it (httpserver.c:383-443, 760-826, 1028-1066, 1254-1357, 1550-1578).
THEOREM RequestsGoWhereTheyShould == Spec => []DispatchIsRight
<1>1. Init => Dispatching /\ DispatchIsRight
  BY NewExchangeTyped DEF Init, Dispatching, DispatchIsRight, Settled
<1>2. Sound /\ Dispatching /\ DispatchIsRight /\ [Next]_vars => Dispatching' /\ DispatchIsRight'
  BY StepDispatching
<1> QED
  BY <1>1, <1>2, AlwaysSound, PTL DEF Spec

-----------------------------------------------------------------------------
(* What the client is told. *)

\* Every allocation is granted.
Granted == fault = "no" /\ "refused" \notin causes

\* The request asks for its connection to be closed, and gets to an endpoint.
AskedToClose ==
  /\ Lookup(Received(exchange).headers, "connection").value = "close"
  /\ res.status \notin {400, 411, 505} /\ "connection" \notin causes

\* A response that its callback has destroyed.
Emptied(c) == c.headers.ptr = "freed" /\ c.headers.len = 0 /\ c.list = <<>>

\* As long as every allocation is granted, the response tells its length, and what
\* becomes of the connection.
Telling ==
  Granted =>
    /\ Complete(res.content) \/ (pc = "callback" /\ Emptied(res.content))
    /\ pc \in {"find", "check", "call", "callback", "keepalive"} =>
         Complete(req.content) /\ req.content.list = Received(exchange).headers
    /\ pc = "respond" /\ AskedToClose =>
         Lookup(res.content.list, "connection").value = "close"
    /\ pc = "send" =>
         /\ Lookup(res.content.list, "content-length").ret # "missing"
         /\ Lookup(res.content.list, "connection").ret # "missing"
         /\ Lookup(res.content.list, "connection").ret = "found" =>
              (exchange.closing <=> Lookup(res.content.list, "connection").value = "close")
         /\ AskedToClose => exchange.closing
    /\ pc # "idle" /\ "split" \notin causes => exchange.owed = 1

\* Headers that are all granted.
LEMMA HeadersCompleted ==
  ASSUME NEW what, NEW c, MessageSound(c, what), Complete(c), NEW hs \in Seq(DOMAIN Lines),
         NEW refused, refused = 0, NEW d, d = AddHeaders(c, hs, refused)
  PROVE  Complete(d) /\ d.list = c.list \o hs
<1>1. c \in Contents(DOMAIN Lines) /\ Sized(c.headers) /\ refused \notin DOMAIN hs
  BY DEF MessageSound
<1> QED
  BY <1>1, AddHeadersComplete

\* In front of all others, a header is read where its key is looked for.
LEMMA LookupInFront ==
  ASSUME NEW h \in DOMAIN Lines, NEW key, Sees(h, key), NEW ks \in Seq(DOMAIN Lines),
         NEW hs, hs = <<h>> \o ks
  PROVE  Lookup(hs, key) = Reading(h, key)
<1>1. hs \in Seq(DOMAIN Lines) /\ 1 \in DOMAIN hs /\ hs[1] = h /\ DOMAIN hs \subseteq Nat \ {0}
  OBVIOUS
<1>2. PICK i \in DOMAIN hs :
        /\ \A j \in DOMAIN hs : Sees(hs[j], key) => i <= j
        /\ Lookup(hs, key) = ReadAt(Parts[hs[i]], key)
  BY <1>1, LookupFirst
<1>3. i = 1
  BY <1>1, <1>2
<1> QED
  BY <1>1, <1>2, <1>3, ReadAtReading

\* A key that is found in the last header is not missing.
LEMMA LookupAtEnd ==
  ASSUME NEW h \in DOMAIN Lines, NEW key, Sees(h, key), NEW ks \in Seq(DOMAIN Lines),
         NEW hs, hs = ks \o <<h>>
  PROVE  Lookup(hs, key).ret # "missing"
<1>1. hs \in Seq(DOMAIN Lines) /\ Len(ks) + 1 \in DOMAIN hs /\ hs[Len(ks) + 1] = h
  OBVIOUS
<1>2. PICK i \in DOMAIN hs : Lookup(hs, key) = ReadAt(Parts[hs[i]], key)
  BY <1>1, LookupFirst
<1>3. hs[i] \in DOMAIN Lines
  BY <1>1, <1>2
<1>4. Lookup(hs, key) = Reading(hs[i], key)
  BY <1>2, <1>3, ReadAtReading
<1> QED
  BY <1>4 DEF Reading

\* A missing key has no value.
LEMMA MissingIs ==
  ASSUME NEW hs \in Seq(DOMAIN Lines), NEW key, Lookup(hs, key).ret = "missing"
  PROVE  Lookup(hs, key) = [ret |-> "missing", value |-> "none", number |-> 0]
BY LookupIn DEF Reading

\* A key that none of the headers has.
LEMMA UnseenMissing ==
  ASSUME NEW hs, NEW key, hs \in Seq(Unseen(key))
  PROVE  Lookup(hs, key).ret = "missing"
<1>1. Unseen(key) \in SUBSET DOMAIN Lines
  BY UnseenLines
<1>2. \/ Lookup(hs, key) = [ret |-> "missing", value |-> "none", number |-> 0]
      \/ \E h \in Unseen(key) : Sees(h, key) /\ Lookup(hs, key) = Reading(h, key)
  BY <1>1, LookupIn
<1> QED
  BY <1>2 DEF Unseen

\* The headers about the connection.
LEMMA ConnectionHeaders ==
  /\ KeepHeader \in DOMAIN Lines /\ CloseHeader \in DOMAIN Lines /\ KeepAlive \in DOMAIN Lines
  /\ Sees(KeepHeader, "connection") /\ Sees(CloseHeader, "connection")
  /\ Reading(KeepHeader, "connection").ret = "found"
  /\ Reading(KeepHeader, "connection").value = "keep-alive"
  /\ Reading(CloseHeader, "connection").ret = "found"
  /\ Reading(CloseHeader, "connection").value = "close"
<1> DEFINE l(key, value) == <<key, value>>
<1>1. /\ l("connection", "keep-alive") \in OwnLines /\ l("connection", "close") \in OwnLines
  BY DEF OwnLines
<1>2. ASSUME NEW k, NEW v, l(k, v) \in OwnLines
      PROVE  /\ Line(k, v) \in DOMAIN Lines /\ Sees(Line(k, v), k)
             /\ Reading(Line(k, v), k).ret = "found" /\ Reading(Line(k, v), k).value = v
  <2>1. l(k, v)[1] = k /\ l(k, v)[2] = v
    OBVIOUS
  <2> HIDE DEF l
  <2>2. /\ Line(k, v) \in DOMAIN Lines /\ Lines[Line(k, v)].key = k
        /\ Lines[Line(k, v)].value = v
    BY <1>2, <2>1, ServerLine
  <2> QED
    BY <2>2, SeesKey DEF Reading
<1> HIDE DEF l
<1>3. KeepAlive \in DOMAIN Lines
  BY OwnHeaders, UnseenLines
<1> QED
  BY <1>1, <1>2, <1>3 DEF KeepHeader, CloseHeader

\* A response that its callback destroys is emptied, or was empty.
LEMMA DestroyEmpties ==
  ASSUME NEW what, NEW c, MessageSound(c, what), Complete(c) \/ Emptied(c),
         NEW d, d = Destroy(c)
  PROVE  Complete(d) \/ Emptied(d)
<1>1. /\ c \in Contents(DOMAIN Lines) /\ Sized(c.headers) /\ c.headers \in Buffers
  BY DEF MessageSound, Contents
<1> DEFINE e == Freed(c.headers)
<1>2. d.list = <<>> /\ d.headers = e
  BY <1>1 DEF Destroy, Contents
<1>3. CASE c.headers.allocated = 0
  <2>1. e = c.headers
    BY <1>3 DEF Freed
  <2>2. CASE Complete(c)
    <3>1. c.headers.ptr = "null" /\ c.headers.len = 0
      BY <1>1, <1>3, <2>2 DEF Complete, Kept, Given, Sized, Buffers
    <3> QED
      BY <1>2, <2>1, <2>2, <3>1 DEF Complete
  <2>3. CASE Emptied(c)
    BY <1>2, <2>1, <2>3 DEF Emptied
  <2> QED
    BY <2>2, <2>3
<1>4. CASE c.headers.allocated # 0
  <2>1. e.ptr = "freed" /\ e.len = 0
    BY <1>1, <1>4 DEF Freed, Buffers
  <2> QED
    BY <1>2, <2>1 DEF Emptied
<1> QED
  BY <1>3, <1>4

\* Nothing can be added to the headers of a response that was destroyed.
LEMMA EmptiedBreaks ==
  ASSUME NEW what, NEW c, MessageSound(c, what), Emptied(c), NEW hs \in Seq(DOMAIN Lines),
         hs # <<>>, NEW refused, refused = 0, NEW d, d = AddHeaders(c, hs, refused)
  PROVE  ~Unharmed(d)
<1>1. c \in Contents(DOMAIN Lines) /\ Sized(c.headers) /\ refused \notin DOMAIN hs
  BY DEF MessageSound
<1>2. d.headers.wrong = "freed"
  BY <1>1, AddHeadersGrows DEF Emptied
<1> QED
  BY <1>2 DEF Unharmed

\* The same exchange asks for the same.
LEMMA AskedSame ==
  ASSUME exchange'.request = exchange.request, exchange'.cut = exchange.cut,
         causes \subseteq causes'
  PROVE  /\ Received(exchange)' = Received(exchange)
         /\ res'.status = res.status /\ AskedToClose' => AskedToClose
<1>1. Received(exchange') = Received(exchange)
  BY ReceivedSame
<1> QED
  BY <1>1 DEF AskedToClose

\* In front of an exchange there is nothing to tell.
LEMMA NothingTelling ==
  ASSUME pc' = "idle", res' = NewResponse
  PROVE  Telling'
<1>1. Complete(NoContent) /\ res'.content = NoContent
  BY NewContent, NewMessages
<1> QED
  BY <1>1 DEF Telling

LEMMA ReceiveTelling ==
  ASSUME Sound, Receive \/ HungUp
  PROVE  Telling'
<1>1. pc = "idle" /\ res' = NewResponse
  BY DEF Sound, UnderWay, Receive, HungUp, At
<1>2. CASE HungUp
  BY <1>1, <1>2, NothingTelling DEF HungUp
<1>3. CASE Receive
  <2>1. PICK r \in RequestNames, cut \in {"no", "line", "headers", "body"} :
          /\ exchange' = [NewExchange EXCEPT !.request = r, !.cut = cut,
                                             !.owed = IF rest THEN 0 ELSE 1]
          /\ causes' = (IF rest \/ cut # "no" THEN {"split"} ELSE {})
                       \cup (IF owner.doing # "nothing" THEN {"raced"} ELSE {})
    BY <1>3 DEF Receive
  <2>2. pc' = "defaults"
    BY <1>3 DEF Receive
  <2>3. "split" \notin causes' => exchange'.owed = 1
    BY <2>1 DEF NewExchange
  <2>4. Complete(NoContent) /\ res'.content = NoContent
    BY <1>1, NewContent, NewMessages
  <2> QED
    BY <2>2, <2>3, <2>4 DEF Telling
<1> QED
  BY <1>2, <1>3

LEMMA OwnerTelling ==
  ASSUME Sound, Telling, Owner
  PROVE  Telling'
<1>1. /\ UNCHANGED <<pc, req, res>> /\ fault = "no"
      /\ IF pc = "idle" THEN exchange' = NewExchange /\ causes' = {}
         ELSE exchange' = exchange /\ causes' = causes \cup {"raced"}
  BY OwnerMoves DEF Sound, ThreadTyped
<1>2. CASE pc = "idle"
  <2>1. pc' = "idle" /\ res' = NewResponse
    BY <1>1, <1>2 DEF Sound, UnderWay
  <2> QED
    BY <2>1, NothingTelling
<1>3. CASE pc # "idle"
  <2>1. Granted' => Granted
    BY <1>1, <1>3 DEF Granted
  <2>2. Received(exchange)' = Received(exchange) /\ (AskedToClose' => AskedToClose)
    BY <1>1, <1>3, AskedSame
  <2>3. "split" \notin causes' => "split" \notin causes
    BY <1>1, <1>3
  <2> QED
    BY <1>1, <1>3, <2>1, <2>2, <2>3 DEF Telling
<1> QED
  BY <1>2, <1>3

\* A step of an exchange, up to its completion, that what is to be told survives.
LEMMA TellingOn ==
  ASSUME Telling, fault = "no", pc # "idle", pc' # "send", causes \subseteq causes',
         exchange'.owed = exchange.owed, exchange'.request = exchange.request,
         exchange'.cut = exchange.cut,
         Granted' => Complete(res'.content) \/ (pc' = "callback" /\ Emptied(res'.content)),
         pc' \in {"find", "check", "call", "callback", "keepalive"} /\ Granted' =>
           Complete(req'.content) /\ req'.content.list = Received(exchange).headers,
         pc' = "respond" /\ Granted' /\ AskedToClose' =>
           Lookup(res'.content.list, "connection").value = "close"
  PROVE  Telling'
<1> SUFFICES ASSUME Granted' PROVE Telling'
  BY DEF Telling
<1>1. Granted
  BY DEF Granted
<1>2. Received(exchange') = Received(exchange)
  BY ReceivedSame
<1>3. pc' # "idle" /\ "split" \notin causes' => exchange'.owed = 1
  BY <1>1 DEF Telling
<1> QED
  BY <1>2, <1>3 DEF Telling

LEMMA ApplyTelling ==
  ASSUME Sound, Telling, ApplyDefaultHeaders
  PROVE  Telling'
<1>1. PICK hs \in {defaults.list \o defaults.behind} :
        \E refused \in Refusals(Len(hs)) :
          \E c \in {NewHeaders(hs, refused)} :
            /\ res' = [res EXCEPT !.content = c]
            /\ exchange' = [exchange EXCEPT !.current = (c.list = book.headers)]
            /\ Notes(RefusedIn(refused) \cup UNION {Decides(hs[i]) : i \in DOMAIN hs})
  BY DEF ApplyDefaultHeaders
<1>2. PICK refused \in Refusals(Len(hs)) :
        \E c \in {NewHeaders(hs, refused)} :
          /\ res' = [res EXCEPT !.content = c]
          /\ exchange' = [exchange EXCEPT !.current = (c.list = book.headers)]
          /\ Notes(RefusedIn(refused) \cup UNION {Decides(hs[i]) : i \in DOMAIN hs})
  BY <1>1
<1>3. PICK c : /\ c = NewHeaders(hs, refused)
               /\ res' = [res EXCEPT !.content = c]
               /\ exchange' = [exchange EXCEPT !.current = (c.list = book.headers)]
               /\ Notes(RefusedIn(refused) \cup UNION {Decides(hs[i]) : i \in DOMAIN hs})
  BY <1>2
<1>4. pc = "defaults" /\ fault = "no" /\ pc' = "parse" /\ exchange \in Exchanges /\ res \in Responses
  BY DEF ApplyDefaultHeaders, At, Sound, ThreadTyped
<1>5. causes \subseteq causes' /\ RefusedIn(refused) \subseteq causes'
  BY <1>3 DEF Notes
<1>6. hs \in Seq(DOMAIN Lines)
  <2> DEFINE ds == defaults.list
             bs == defaults.behind
  <2>1. hs = ds \o bs /\ ds \in Seq(DOMAIN Lines) /\ bs \in Seq(DOMAIN Lines)
    BY <1>1 DEF Sound, Setup, SetupTyped
  <2> HIDE DEF ds, bs
  <2> QED
    BY <2>1
<1>7. Granted' => Complete(res'.content)
  <2> SUFFICES ASSUME Granted' PROVE Complete(res'.content)
    OBVIOUS
  <2>1. refused = 0
    <3>1. Len(hs) \in Nat /\ "refused" \notin causes'
      BY <1>6 DEF Granted
    <3> QED
      BY <1>5, <3>1, RefusalsNoted
  <2>2. refused \notin DOMAIN hs
    BY <1>6, <2>1
  <2>3. Complete(c)
    BY <1>3, <1>6, <2>2, NewHeadersAre
  <2> QED
    BY <1>3, <1>4, <2>3 DEF Responses
<1>8. /\ exchange'.owed = exchange.owed /\ exchange'.request = exchange.request
      /\ exchange'.cut = exchange.cut
  BY <1>3, <1>4 DEF Exchanges
<1> QED
  BY <1>4, <1>5, <1>7, <1>8, TellingOn

LEMMA NoLineTelling ==
  ASSUME Sound, Telling, ParseNoLine
  PROVE  Telling'
<1>1. /\ pc = "parse" /\ fault = "no" /\ pc' = "respond" /\ UNCHANGED exchange
      /\ causes \subseteq causes'
  BY DEF ParseNoLine, At, Notes
<1>2. res'.status = 505 /\ SameHeaders(res.content, res'.content)
  BY NoLineGranted
<1>3. Granted' => Complete(res'.content)
  BY <1>1, <1>2, SameComplete DEF Telling, Granted
<1>4. ~AskedToClose'
  BY <1>2 DEF AskedToClose
<1> QED
  BY <1>1, <1>3, <1>4, TellingOn

LEMMA ParseTelling ==
  ASSUME Sound, Telling, Parse
  PROVE  Telling'
<1> DEFINE r == Received(exchange)
<1>1. /\ pc = "parse" /\ fault = "no" /\ UNCHANGED exchange
      /\ causes \subseteq causes'
  <2>1. causes \subseteq causes'
    <3>1. PICK guess \in Guesses :
            \E refused \in Refusals(Len(r.headers) + 2) :
            \E c, told, len, status : Parsing(r, guess, refused, c, told, len, status)
      BY ParseChoices
    <3> QED
      BY <3>1 DEF Parsing, Notes
  <2> QED
    BY <2>1 DEF Parse, At
<1>2. pc' \in {"scan", "respond", "find"}
  <2>1. PICK guess \in Guesses :
          \E refused \in Refusals(Len(r.headers) + 2) :
          \E c, told, len, status : Parsing(r, guess, refused, c, told, len, status)
    BY ParseChoices
  <2> QED
    BY <2>1 DEF Parsing
<1>3. ASSUME Granted'
      PROVE  /\ Complete(res'.content)
             /\ Complete(req'.content) /\ req'.content.list = r.headers
             /\ pc' = "respond" => ~AskedToClose'
  <2>1. "refused" \notin causes'
    BY <1>3 DEF Granted
  <2>2. /\ Complete(req'.content) /\ req'.content.list = r.headers
        /\ pc' = IF IsUpgradable(r.method, r.version, r.headers) THEN "scan"
                 ELSE IF ParsedStatus(r) > 0 THEN "respond" ELSE "find"
        /\ res'.status = ParsedStatus(r)
        /\ SameHeaders(res.content, res'.content)
    BY <2>1, ParseGranted
  <2>3. Complete(res'.content)
    BY <1>1, <1>3, <2>1, <2>2, SameComplete DEF Telling, Granted
  <2>4. pc' = "respond" => ~AskedToClose'
    BY <2>2 DEF ParsedStatus, AskedToClose
  <2> QED
    BY <2>2, <2>3, <2>4
<1> HIDE DEF r
<1>4. Granted' => Complete(req'.content) /\ req'.content.list = Received(exchange).headers
  BY <1>3 DEF r
<1> QED
  BY <1>1, <1>2, <1>3, <1>4, TellingOn

LEMMA UpgradeTelling ==
  ASSUME Sound, Telling, Upgrade
  PROVE  Telling'
<1>1. PICK refused \in Refusals(Len(UpgradeHeaders)) :
        /\ res' = IF Matches = {} THEN Preset(res, 404, 0, TRUE)
                  ELSE [status |-> 101,
                        content |-> AddHeaders(res.content, UpgradeHeaders, refused)]
        /\ exchange' = [exchange EXCEPT !.ws = IF Matches = {} THEN @
                                               ELSE endpoints[FirstOf(Matches)].ws]
        /\ Notes(RefusedIn(refused))
  BY DEF Upgrade
<1>2. /\ pc = "scan" /\ fault = "no" /\ pc' = "respond"
      /\ exchange \in Exchanges /\ res \in Responses /\ MessageSound(res.content, causes)
  BY DEF Upgrade, At, Sound, ThreadTyped, Messages
<1>3. UpgradeHeaders \in Seq(DOMAIN Lines)
  <2>1. Unseen("content-length") \subseteq DOMAIN Lines
    BY UnseenLines
  <2> QED
    BY <2>1, OwnHeaders, SeqWider
<1>4. causes \subseteq causes' /\ ("refused" \notin causes' => refused = 0)
  <2>1. Len(UpgradeHeaders) \in Nat
    BY <1>3
  <2> QED
    BY <1>1, <2>1, NotedCauses
<1>5. /\ exchange'.owed = exchange.owed /\ exchange'.request = exchange.request
      /\ exchange'.cut = exchange.cut
  <2> DEFINE ws == IF Matches = {} THEN exchange.ws ELSE endpoints[FirstOf(Matches)].ws
  <2>1. exchange' = [exchange EXCEPT !.ws = ws]
    BY <1>1
  <2> HIDE DEF ws
  <2> QED
    BY <1>2, <2>1 DEF Exchanges
<1>6. Granted' => Complete(res'.content)
  <2> SUFFICES ASSUME Granted' PROVE Complete(res'.content)
    OBVIOUS
  <2>1. Complete(res.content) /\ refused = 0
    BY <1>2, <1>4 DEF Telling, Granted
  <2>2. CASE Matches = {}
    <3> DEFINE status == 404
    <3>1. res' = Preset(res, status, 0, TRUE) /\ status \in Statuses
      BY <1>1, <2>2 DEF Statuses
    <3> HIDE DEF status
    <3>2. res'.content = res.content
      BY <1>2, <3>1, StatusAlone
    <3> QED
      BY <2>1, <3>2
  <2>3. CASE Matches # {}
    <3> DEFINE c == res.content
               d == AddHeaders(c, UpgradeHeaders, refused)
               what == causes
    <3>1. res'.content = d
      BY <1>1, <2>3
    <3>2. d = AddHeaders(c, UpgradeHeaders, refused) /\ MessageSound(c, what) /\ Complete(c)
      BY <1>2, <2>1
    <3> HIDE DEF c, d, what
    <3>3. Complete(d)
      BY <1>3, <2>1, <3>2, HeadersCompleted
    <3> QED
      BY <3>1, <3>3
  <2> QED
    BY <2>2, <2>3
<1>7. Granted' => ~AskedToClose'
  <2> SUFFICES ASSUME Granted' PROVE ~AskedToClose'
    OBVIOUS
  <2>1. IsUpgradable(Received(exchange).method, Received(exchange).version, Received(exchange).headers)
    BY <1>2, <1>4 DEF Sound, Scanning, Granted
  <2>2. Lookup(Received(exchange).headers, "connection").value = "Upgrade"
    BY <2>1 DEF IsUpgradable
  <2>3. Received(exchange') = Received(exchange)
    BY <1>5, ReceivedSame
  <2> QED
    BY <2>2, <2>3 DEF AskedToClose
<1> QED
  BY <1>2, <1>4, <1>5, <1>6, <1>7, TellingOn

LEMMA LookingTelling ==
  ASSUME Sound, Telling, FindEndpoint \/ CheckEndpoint \/ CallEndpoint
  PROVE  Telling'
<1>1. CASE FindEndpoint \/ CallEndpoint
  <2>1. /\ pc \in {"find", "call"} /\ pc' \in {"check", "callback"} /\ fault = "no"
        /\ UNCHANGED <<req, res, causes>>
    BY <1>1 DEF FindEndpoint, CallEndpoint, At
  <2>2. /\ exchange'.owed = exchange.owed /\ exchange'.request = exchange.request
        /\ exchange'.cut = exchange.cut
    <3>1. CASE FindEndpoint
      BY <3>1 DEF FindEndpoint
    <3>2. CASE CallEndpoint
      <4> DEFINE cb == Found.http
      <4>1. exchange' = [exchange EXCEPT !.ran = cb] /\ exchange \in Exchanges
        BY <3>2 DEF CallEndpoint, Sound, ThreadTyped
      <4> HIDE DEF cb
      <4> QED
        BY <4>1 DEF Exchanges
    <3> QED
      BY <1>1, <3>1, <3>2
  <2>3. /\ Granted' => Complete(res'.content)
        /\ Granted' => Complete(req'.content) /\ req'.content.list = Received(exchange).headers
    BY <2>1 DEF Telling, Granted
  <2> QED
    BY <2>1, <2>2, <2>3, TellingOn
<1>2. CASE CheckEndpoint
  <2>1. PICK status : /\ status = CheckStatus(Found, req.method)
                      /\ res' = Preset(res, status, 0, TRUE)
                      /\ pc' = IF status = 200 THEN "call" ELSE "keepalive"
    BY <1>2 DEF CheckEndpoint
  <2>2. /\ pc = "check" /\ fault = "no" /\ UNCHANGED <<req, exchange, causes>> /\ res \in Responses
    BY <1>2 DEF CheckEndpoint, At, Sound, ThreadTyped
  <2>3. status \in Statuses
    BY <2>1 DEF CheckStatus, Statuses
  <2>4. res'.content = res.content
    BY <2>1, <2>2, <2>3, StatusAlone
  <2>5. /\ Granted' => Complete(res'.content)
        /\ Granted' => Complete(req'.content) /\ req'.content.list = Received(exchange).headers
    BY <2>2, <2>4 DEF Telling, Granted
  <2> QED
    BY <2>1, <2>2, <2>5, TellingOn
<1> QED
  BY <1>1, <1>2

LEMMA CallbackTelling ==
  ASSUME Sound, Sound', Telling, Callback
  PROVE  Telling'
<1>1. /\ pc = "callback" /\ pc' = "callback" /\ fault = "no" /\ UNCHANGED <<req, exchange>>
      /\ causes \subseteq causes'
  BY DEF Callback, CallbackAddsHeader, CallbackAppends, CallbackSetsStatus, CallbackCopies,
         CallbackDestroys, Calls, At, Notes
<1>2. /\ res \in Responses /\ MessageSound(res.content, causes)
  BY <1>1, WorkedOn
<1> DEFINE c == res.content
           what == causes
<1>3. MessageSound(c, what) /\ c \in Contents(DOMAIN Lines) /\ Sized(c.headers)
  BY <1>2 DEF MessageSound
<1>4. Granted' => Granted
  BY <1>1 DEF Granted
<1>5. Granted => Complete(c) \/ Emptied(c)
  BY DEF Telling
<1>6. Granted' => Complete(res'.content) \/ Emptied(res'.content)
  <2> SUFFICES ASSUME Granted' PROVE Complete(res'.content) \/ Emptied(res'.content)
    OBVIOUS
  <2>1. Complete(c) \/ Emptied(c)
    BY <1>4, <1>5
  <2>2. "refused" \notin causes' /\ Unharmed(res'.content)
    BY DEF Granted, Sound, Messages
  <2>3. CASE CallbackAddsHeader
    <3>1. PICK h \in CallbackHeaders, refused \in Refusals(1) :
            /\ res' = [res EXCEPT !.content = AddHeader(@, h, refused = 0)]
            /\ Notes(RefusedIn(refused) \cup Decides(h))
      BY <2>3 DEF CallbackAddsHeader
    <3>2. refused = 0 /\ h \in DOMAIN Lines
      BY <2>2, <3>1, HeadersAssumption DEF Notes, RefusedIn
    <3>3. PICK granted \in BOOLEAN : granted <=> refused = 0
      OBVIOUS
    <3> DEFINE d == AddHeader(c, h, granted)
    <3>4. res'.content = d
      BY <1>2, <3>1, <3>3 DEF Responses
    <3>5. d = AddHeader(c, h, granted)
      OBVIOUS
    <3> HIDE DEF c, d
    <3>6. /\ c.headers.ptr = "freed" => d.headers.wrong = "freed"
          /\ granted /\ Complete(c) => Complete(d)
      BY <1>3, <3>2, <3>5, AddHeaderGrows
    <3> QED
      BY <2>1, <2>2, <3>2, <3>3, <3>4, <3>6 DEF Emptied, Unharmed
  <2>4. CASE CallbackAppends
    <3>1. PICK n \in 1 .. Block, refused \in Refusals(1) :
            res' = [res EXCEPT !.content = AppendBody(@, n, refused = 0)]
      BY <2>4 DEF CallbackAppends
    <3>2. PICK granted \in BOOLEAN : granted <=> refused = 0
      OBVIOUS
    <3> DEFINE d == AppendBody(c, n, granted)
    <3>3. res'.content = d
      BY <1>2, <3>1, <3>2 DEF Responses
    <3> HIDE DEF c
    <3>4. SameHeaders(c, d)
      BY <1>3, AppendingHeaders
    <3> HIDE DEF d
    <3> QED
      BY <2>1, <3>3, <3>4 DEF Emptied, Complete, SameHeaders
  <2>5. CASE CallbackSetsStatus
    <3>1. res'.content = c
      BY <1>2, <2>5 DEF CallbackSetsStatus, Responses
    <3> QED
      BY <2>1, <3>1
  <2>6. CASE CallbackCopies
    BY <2>1, <2>6 DEF CallbackCopies
  <2>7. CASE CallbackDestroys
    <3> DEFINE d == Destroy(c)
    <3>1. res'.content = d
      BY <1>2, <2>7 DEF CallbackDestroys, Responses
    <3>2. d = Destroy(c)
      OBVIOUS
    <3> HIDE DEF c, d, what
    <3>3. Complete(d) \/ Emptied(d)
      BY <1>3, <2>1, <3>2, DestroyEmpties
    <3> QED
      BY <3>1, <3>3
  <2> QED
    BY <2>3, <2>4, <2>5, <2>6, <2>7 DEF Callback
<1>7. Granted' => Complete(req'.content) /\ req'.content.list = Received(exchange).headers
  BY <1>1, <1>4 DEF Telling
<1> QED
  BY <1>1, <1>6, <1>7, TellingOn

\* Without headers every key is missing.
LEMMA NoHeaderMissing ==
  ASSUME NEW c, c.headers.len = 0, NEW key
  PROVE  Missing(c, key)
<1>1. GetHeader(c, key) = Lookup(<<>>, key)
  BY DEF GetHeader
<1>2. <<>> \in Seq(Unseen(key))
  OBVIOUS
<1> QED
  BY <1>1, <1>2, UnseenMissing DEF Missing

LEMMA SetKeepaliveTelling ==
  ASSUME Sound, Sound', Telling, SetKeepalive
  PROVE  Telling'
<1>1. PICK hs \in {Keeping(Keeps(req))} :
        \E refused \in Refusals(Len(hs)) :
          /\ res' = [res EXCEPT !.content = AddHeaders(@, hs, refused)]
          /\ Notes(RefusedIn(refused))
  BY DEF SetKeepalive
<1>2. PICK refused \in Refusals(Len(hs)) :
        /\ res' = [res EXCEPT !.content = AddHeaders(@, hs, refused)]
        /\ Notes(RefusedIn(refused))
  BY <1>1
<1>3. /\ pc \in {"callback", "keepalive"} /\ fault = "no" /\ pc' = "respond"
      /\ UNCHANGED <<req, exchange>>
  BY DEF SetKeepalive, At
<1>4. hs \in Seq(DOMAIN Lines) /\ Len(hs) \in Nat
  <2>1. hs \in Seq(Unseen("content-length")) /\ Unseen("content-length") \subseteq DOMAIN Lines
    BY KeepingLines, UnseenLines
  <2> QED
    BY <2>1, SeqWider
<1>5. causes \subseteq causes' /\ ("refused" \notin causes' => refused = 0)
  BY <1>2, <1>4, NotedCauses
<1>6. /\ res \in Responses /\ MessageSound(res.content, causes)
      /\ "connection" \notin causes => res.content.list \in Seq(Unseen("connection"))
  BY <1>3, WorkedOn
<1> DEFINE c == res.content
           d == AddHeaders(c, hs, refused)
           what == causes
<1>7. /\ res'.content = d /\ d = AddHeaders(c, hs, refused) /\ MessageSound(c, what)
      /\ c.list \in Seq(DOMAIN Lines)
  BY <1>2, <1>6 DEF Responses, MessageSound, Contents
<1>8. Granted' => Granted /\ refused = 0 /\ Unharmed(d)
  <2>1. Granted' => Unharmed(res'.content)
    BY DEF Granted, Sound, Messages
  <2> QED
    BY <1>3, <1>5, <1>7, <2>1 DEF Granted
<1>9. Granted' => Complete(c)
  <2> SUFFICES ASSUME Granted' PROVE Complete(c)
    OBVIOUS
  <2>1. Complete(c) \/ Emptied(c)
    BY <1>8 DEF Telling
  <2>2. ~Emptied(c)
    <3> SUFFICES ASSUME Emptied(c) PROVE FALSE
      OBVIOUS
    <3>1. Missing(c, "connection")
      BY NoHeaderMissing DEF Emptied
    <3>2. hs # <<>>
      <4> DEFINE last == IF Missing(c, "keep-alive") /\ Keeps(req) THEN <<KeepAlive>> ELSE <<>>
      <4>1. hs = <<KeepHeader>> \o last \/ hs = <<CloseHeader>> \o last
        BY <1>1, <3>1 DEF Keeping
      <4>2. last = <<>> \/ last = <<KeepAlive>>
        OBVIOUS
      <4> HIDE DEF last
      <4>3. Len(hs) > 0
        BY <4>1, <4>2
      <4> QED
        BY <4>3
    <3> HIDE DEF c, d, what
    <3>3. ~Unharmed(d)
      BY <1>4, <1>7, <1>8, <3>2, EmptiedBreaks
    <3> QED
      BY <1>8, <3>3
  <2> QED
    BY <2>1, <2>2
<1>10. Granted' => Complete(d) /\ d.list = c.list \o hs
  <2> HIDE DEF c, d, what
  <2> QED
    BY <1>4, <1>7, <1>8, <1>9, HeadersCompleted
<1>11. Granted' /\ AskedToClose' => Lookup(d.list, "connection").value = "close"
  <2> SUFFICES ASSUME Granted', AskedToClose' PROVE Lookup(d.list, "connection").value = "close"
    OBVIOUS
  <2>1. c.list \in Seq(Unseen("connection"))
    BY <1>5, <1>6 DEF AskedToClose
  <2>2. Lookup(c.list, "connection").ret = "missing"
    BY <2>1, UnseenMissing
  <2>3. Missing(c, "connection")
    BY <1>7, <1>9, <2>2, AllRead DEF Missing
  <2>4. ~Keeps(req)
    <3>1. Complete(req.content) /\ req.content.list = Received(exchange).headers
      BY <1>3, <1>8 DEF Telling
    <3>2. req.content.list \in Seq(DOMAIN Lines)
      BY DEF Sound, Messages, MessageSound, Contents
    <3>3. GetHeader(req.content, "connection") = Lookup(Received(exchange).headers, "connection")
      BY <3>1, <3>2, AllRead
    <3>4. Received(exchange') = Received(exchange)
      BY <1>3
    <3> QED
      BY <3>3, <3>4 DEF Keeps, KeepsWhen, AskedToClose
  <2>5. hs = <<CloseHeader>>
    <3>1. hs = <<CloseHeader>> \o <<>>
      BY <1>1, <2>3, <2>4 DEF Keeping
    <3> QED
      BY <3>1
  <2>6. Lookup(hs, "connection").value = "close"
    <3>1. hs = <<CloseHeader>> \o <<>> /\ <<>> \in Seq(DOMAIN Lines)
      BY <2>5
    <3>2. Lookup(hs, "connection") = Reading(CloseHeader, "connection")
      BY <3>1, ConnectionHeaders, LookupInFront
    <3> QED
      BY <3>2, ConnectionHeaders
  <2>7. Lookup(d.list, "connection") = Lookup(hs, "connection")
    <3> DEFINE cs == c.list
    <3>1. cs \in Seq(DOMAIN Lines) /\ Lookup(cs, "connection").ret = "missing" /\ d.list = cs \o hs
      BY <1>7, <1>10, <2>2
    <3> HIDE DEF cs, d
    <3> QED
      BY <1>4, <3>1, LookupConcat
  <2> QED
    BY <2>6, <2>7
<1> HIDE DEF d
<1> QED
  BY <1>3, <1>5, <1>7, <1>10, <1>11, TellingOn

\* What the headers tell that a response is completed with.
LEMMA CompletingTells ==
  ASSUME NEW p, Complete(p.content), NEW cs \in Seq(DOMAIN Lines), cs = p.content.list,
         p.content.body.len \in 0 .. Longest, NEW l, l = cs \o Completing(p)
  PROVE  /\ Lookup(l, "content-length").ret # "missing"
         /\ Lookup(l, "connection").ret # "missing"
         /\ Lookup(l, "connection").ret = "found" =>
              (Closing(p) <=> Lookup(l, "connection").value = "close")
         /\ Lookup(cs, "connection").value = "close" => Closing(p)
<1> DEFINE hs    == Completing(p)
           L     == LengthHeaders[p.content.body.len]
           first == IF ~Missing(p.content, "connection") THEN <<>>
                    ELSE IF p.status = 429 THEN <<CloseHeader>> ELSE <<KeepHeader, KeepAlive>>
           last  == IF Missing(p.content, "content-length") THEN <<L>> ELSE <<>>
<1>1. \A key : GetHeader(p.content, key) = Lookup(cs, key)
  BY AllRead
<1>2. L \in DOMAIN Lines /\ Sees(L, "content-length")
  <2>1. L \in DOMAIN Lines /\ Lines[L].key = "content-length"
    BY LengthLine
  <2> HIDE DEF L
  <2> QED
    BY <2>1, SeesKey
<1>3. hs = first \o last
  BY DEF Completing
<1>4. first \in Seq(DOMAIN Lines)
  <2>1. KeepHeader \in DOMAIN Lines /\ CloseHeader \in DOMAIN Lines /\ KeepAlive \in DOMAIN Lines
    BY ConnectionHeaders
  <2>2. <<>> \in Seq(DOMAIN Lines) /\ <<CloseHeader>> \in Seq(DOMAIN Lines)
        /\ <<KeepHeader, KeepAlive>> \in Seq(DOMAIN Lines)
    BY <2>1
  <2> QED
    BY <2>2
<1>5. last \in Seq(DOMAIN Lines)
  <2>1. <<>> \in Seq(DOMAIN Lines) /\ <<L>> \in Seq(DOMAIN Lines)
    <3> HIDE DEF L
    <3> QED
      BY <1>2
  <2> QED
    BY <2>1
<1>6. Missing(p.content, "content-length") => last = <<L>>
  OBVIOUS
<1>7. ~Missing(p.content, "connection") => first = <<>>
  OBVIOUS
<1>8. Missing(p.content, "connection") =>
        first = IF p.status = 429 THEN <<CloseHeader>> ELSE <<KeepHeader, KeepAlive>>
  OBVIOUS
<1> HIDE DEF L, first, last, hs
<1>9. hs \in Seq(DOMAIN Lines) /\ l = cs \o hs
  BY <1>3, <1>4, <1>5 DEF hs
<1>10. \A key : Missing(p.content, key) <=> Lookup(cs, key).ret = "missing"
  BY <1>1 DEF Missing
<1>11. ASSUME NEW key
       PROVE  Lookup(l, key) = IF Missing(p.content, key) THEN Lookup(hs, key) ELSE Lookup(cs, key)
  <2>1. Lookup(cs \o hs, key) = IF Lookup(cs, key).ret = "missing" THEN Lookup(hs, key) ELSE Lookup(cs, key)
    BY <1>9, LookupConcat
  <2> QED
    BY <1>9, <1>10, <2>1
<1>12. Lookup(l, "content-length").ret # "missing"
  <2>1. CASE Missing(p.content, "content-length")
    <3>1. hs = first \o <<L>>
      BY <1>3, <1>6, <2>1
    <3>2. Lookup(hs, "content-length").ret # "missing"
      BY <1>2, <1>4, <3>1, LookupAtEnd
    <3> QED
      BY <1>11, <2>1, <3>2
  <2>2. CASE ~Missing(p.content, "content-length")
    BY <1>10, <1>11, <2>2
  <2> QED
    BY <2>1, <2>2
<1>13. /\ Lookup(l, "connection").ret # "missing"
       /\ Lookup(l, "connection").ret = "found" =>
            (Closing(p) <=> Lookup(l, "connection").value = "close")
  <2>1. CASE Missing(p.content, "connection")
    <3>1. Lookup(l, "connection") = Lookup(hs, "connection")
      BY <1>11, <2>1
    <3>2. Closing(p) <=> p.status = 429
      BY <2>1 DEF Closing
    <3>3. CASE p.status = 429
      <4>1. hs = <<CloseHeader>> \o last
        BY <1>3, <1>8, <2>1, <3>3
      <4>2. Lookup(hs, "connection") = Reading(CloseHeader, "connection")
        BY <1>5, <4>1, ConnectionHeaders, LookupInFront
      <4> QED
        BY <3>1, <3>2, <3>3, <4>2, ConnectionHeaders
    <3>4. CASE p.status # 429
      <4> DEFINE ks == <<KeepAlive>> \o last
      <4>1. first = <<KeepHeader, KeepAlive>>
        BY <1>8, <2>1, <3>4
      <4>2. ks \in Seq(DOMAIN Lines) /\ hs = <<KeepHeader>> \o ks
        BY <1>3, <1>5, <4>1, ConnectionHeaders
      <4> HIDE DEF ks
      <4>3. Lookup(hs, "connection") = Reading(KeepHeader, "connection")
        BY <4>2, ConnectionHeaders, LookupInFront
      <4> QED
        BY <3>1, <3>2, <3>4, <4>3, ConnectionHeaders
    <3> QED
      BY <3>3, <3>4
  <2>2. CASE ~Missing(p.content, "connection")
    <3>1. Lookup(l, "connection") = Lookup(cs, "connection")
      BY <1>11, <2>2
    <3>2. Closing(p) <=> Lookup(cs, "connection").value = "close"
      BY <1>1, <2>2 DEF Closing
    <3> QED
      BY <1>10, <2>2, <3>1, <3>2
  <2> QED
    BY <2>1, <2>2
<1>14. Lookup(cs, "connection").value = "close" => Closing(p)
  <2> SUFFICES ASSUME Lookup(cs, "connection").value = "close" PROVE Closing(p)
    OBVIOUS
  <2>1. Lookup(cs, "connection").ret # "missing"
    BY MissingIs
  <2>2. ~Missing(p.content, "connection") /\ GetHeader(p.content, "connection").value = "close"
    BY <1>1, <1>10, <2>1
  <2> QED
    BY <2>2 DEF Closing
<1> QED
  BY <1>12, <1>13, <1>14

LEMMA OnResponseReadyTelling ==
  ASSUME Sound, Telling, OnResponseReady
  PROVE  Telling'
<1>1. PICK hs \in {Completing(res)} :
        \E refused \in Refusals(Len(hs)) :
          /\ res' = [res EXCEPT !.content = AddHeaders(@, hs, refused)]
          /\ exchange' = [exchange EXCEPT !.closing = Closing(res)]
          /\ Notes(RefusedIn(refused))
  BY DEF OnResponseReady
<1>2. PICK refused \in Refusals(Len(hs)) :
        /\ res' = [res EXCEPT !.content = AddHeaders(@, hs, refused)]
        /\ exchange' = [exchange EXCEPT !.closing = Closing(res)]
        /\ Notes(RefusedIn(refused))
  BY <1>1
<1>3. /\ pc = "respond" /\ fault = "no" /\ pc' = "send"
      /\ res \in Responses /\ exchange \in Exchanges /\ MessageSound(res.content, causes)
  BY DEF OnResponseReady, At, Sound, ThreadTyped, Messages
<1>4. res.content.body.len \in 0 .. Longest /\ res.content.list \in Seq(DOMAIN Lines)
  <2>1. res.content.body.len \in Nat /\ Longest \in Nat
    BY <1>3, ExchangeBoundsAssumption DEF Responses, Contents, Buffers
  <2> QED
    BY <1>3, <2>1 DEF Sound, Messages, MessageSound, Contents
<1>5. hs \in Seq(DOMAIN Lines) /\ Len(hs) \in Nat
  <2> DEFINE S == Unseen("content-length") \cup {LengthHeaders[res.content.body.len]}
  <2>1. hs \in Seq(S) /\ S \subseteq DOMAIN Lines
    BY <1>1, <1>4, CompletingLines, LengthLine, UnseenLines
  <2> HIDE DEF S
  <2> QED
    BY <2>1, SeqWider
<1>6. causes \subseteq causes' /\ ("refused" \notin causes' => refused = 0)
  BY <1>2, <1>5, NotedCauses
<1> DEFINE c == res.content
           cs == c.list
           d == AddHeaders(c, hs, refused)
           what == causes
           closing == Closing(res)
<1>7. /\ res'.content = d /\ d = AddHeaders(c, hs, refused) /\ MessageSound(c, what)
      /\ res'.status = res.status
  BY <1>2, <1>3 DEF Responses
<1>8. /\ exchange'.closing = closing /\ exchange'.owed = exchange.owed
      /\ exchange'.request = exchange.request /\ exchange'.cut = exchange.cut
  <2>1. exchange' = [exchange EXCEPT !.closing = closing]
    BY <1>2
  <2> HIDE DEF closing
  <2> QED
    BY <1>3, <2>1 DEF Exchanges
<1> SUFFICES ASSUME Granted' PROVE Telling'
  BY DEF Telling
<1>9. Granted /\ refused = 0 /\ Complete(c)
  BY <1>3, <1>6 DEF Granted, Telling
<1>10. Complete(d) /\ d.list = cs \o hs
  <2>1. Complete(d) /\ d.list = c.list \o hs
    <3> HIDE DEF c, d, what
    <3> QED
      BY <1>5, <1>7, <1>9, HeadersCompleted
  <2> QED
    BY <2>1
<1>11. /\ Lookup(d.list, "content-length").ret # "missing"
       /\ Lookup(d.list, "connection").ret # "missing"
       /\ Lookup(d.list, "connection").ret = "found" =>
            (closing <=> Lookup(d.list, "connection").value = "close")
       /\ Lookup(cs, "connection").value = "close" => closing
  <2>1. /\ cs \in Seq(DOMAIN Lines) /\ cs = res.content.list /\ Complete(res.content)
        /\ d.list = cs \o Completing(res)
    BY <1>1, <1>4, <1>9, <1>10
  <2> DEFINE l == d.list
  <2>2. l = cs \o Completing(res)
    BY <2>1
  <2> HIDE DEF cs, d, l
  <2>3. /\ Lookup(l, "content-length").ret # "missing"
        /\ Lookup(l, "connection").ret # "missing"
        /\ Lookup(l, "connection").ret = "found" =>
             (Closing(res) <=> Lookup(l, "connection").value = "close")
        /\ Lookup(cs, "connection").value = "close" => Closing(res)
    BY <1>4, <2>1, <2>2, CompletingTells
  <2> QED
    BY <2>3 DEF l
<1>12. AskedToClose' => closing
  <2>1. AskedToClose' => AskedToClose
    BY <1>6, <1>7, <1>8, AskedSame
  <2>2. AskedToClose => Lookup(cs, "connection").value = "close"
    BY <1>3, <1>9 DEF Telling
  <2> QED
    BY <1>11, <2>1, <2>2
<1>13. "split" \notin causes' => exchange'.owed = 1
  BY <1>3, <1>6, <1>8, <1>9 DEF Telling
<1> HIDE DEF c, cs, d, closing
<1> QED
  BY <1>3, <1>7, <1>8, <1>10, <1>11, <1>12, <1>13 DEF Telling

\* A response that tells its own length is sent.
LEMMA OwnLengthIsSent ==
  ASSUME NEW c, Complete(c), c.body.len \in 0 .. Longest,
         c.list \in Seq(Unseen("content-length") \cup {LengthHeaders[c.body.len]}),
         Lookup(c.list, "content-length").ret # "missing", NEW q
  PROVE  Sends(q, c)
<1> DEFINE L == LengthHeaders[c.body.len]
           S == Unseen("content-length") \cup {L}
           cs == c.list
<1>1. L \in DOMAIN Lines /\ Lines[L].key = "content-length" /\ Lines[L].number = c.body.len
  BY LengthLine
<1>2. S \in SUBSET DOMAIN Lines /\ cs \in Seq(S)
  BY <1>1, UnseenLines
<1>3. cs \in Seq(DOMAIN Lines)
  <2> HIDE DEF S, cs
  <2> QED
    BY <1>2, SeqWider
<1>4. GetHeader(c, "content-length") = Lookup(cs, "content-length")
  BY <1>3, AllRead
<1>5. PICK h \in S : Sees(h, "content-length") /\ Lookup(cs, "content-length") = Reading(h, "content-length")
  <2>1. Lookup(cs, "content-length").ret # "missing"
    OBVIOUS
  <2> HIDE DEF S, cs
  <2> QED
    BY <1>2, <2>1, LookupIn
<1> HIDE DEF L
<1>6. h = L
  BY <1>5 DEF Unseen
<1>7. GetHeader(c, "content-length").number = c.body.len
  BY <1>1, <1>4, <1>5, <1>6 DEF Reading
<1> QED
  BY <1>7 DEF Sends, Bodied

\* What the client hears of a key that is not missing is the value, or is hidden.
LEMMA HeardIs ==
  ASSUME NEW hs \in Seq(DOMAIN Lines), NEW key, Lookup(hs, key).ret # "missing"
  PROVE  /\ Heard(Lookup(hs, key)) # "missing"
         /\ Heard(Lookup(hs, key)) # "hidden" =>
              Lookup(hs, key).ret = "found" /\ Heard(Lookup(hs, key)) = Lookup(hs, key).value
<1>1. PICK h \in DOMAIN Lines : Lookup(hs, key) = Reading(h, key)
  BY LookupIn
<1>2. Lines[h].value \notin {"missing", "hidden"}
  BY HeadersAssumption
<1> QED
  BY <1>1, <1>2 DEF Reading, Heard

\* When the response is sent the request is answered, and told what becomes of the
\* connection.
LEMMA SendTelling ==
  ASSUME Sound, Telling, SendResponse
  PROVE  Telling' /\ AnsweredOnce' /\ ToldIsDone'
<1>1. /\ pc = "send" /\ fault = "no" /\ pc' = "idle" /\ res' = NewResponse /\ causes' = causes
  BY DEF SendResponse, At, Returned
<1>2. PICK broken \in BOOLEAN, closing \in BOOLEAN : SentWith(broken, closing)
  BY SentSomehow
<1> DEFINE c == res.content
           cs == c.list
<1>3. c.body.len \in 0 .. Longest /\ cs \in Seq(DOMAIN Lines)
  <2>1. c.body.len \in Nat /\ Longest \in Nat
    BY ExchangeBoundsAssumption DEF Sound, ThreadTyped, Responses, Contents, Buffers
  <2> QED
    BY <2>1 DEF Sound, Messages, MessageSound, Contents
<1>4. Received(exchange') = Received(exchange)
  BY <1>2, ReceivedSame DEF SentWith
<1>5. Telling'
  BY <1>1, NothingTelling
<1>6. AnsweredOnce'
  <2> SUFFICES ASSUME causes' \cap {"split", "content-length", "refused"} = {}
               PROVE  exchange'.answers = exchange'.owed
    BY DEF AnsweredOnce
  <2>1. Granted /\ "content-length" \notin causes /\ "split" \notin causes
    BY <1>1 DEF Granted
  <2>2. Complete(c) /\ Lookup(cs, "content-length").ret # "missing" /\ exchange.owed = 1
    BY <1>1, <2>1 DEF Telling
  <2>3. cs \in Seq(Unseen("content-length") \cup {LengthHeaders[c.body.len]})
    BY <1>1, <2>1 DEF Sound, Undecided
  <2>4. Sends(req, c)
    BY <1>3, <2>2, <2>3, OwnLengthIsSent
  <2> QED
    BY <1>2, <2>2, <2>4 DEF SentWith
<1>7. ToldIsDone'
  <2> SUFFICES ASSUME ~exchange'.broken, "refused" \notin causes'
               PROVE  /\ exchange'.connection # "missing"
                      /\ exchange'.connection # "hidden" =>
                           (conn' = "closed" <=> exchange'.connection = "close")
                      /\ (/\ Lookup(Received(exchange').headers, "connection").value = "close"
                          /\ exchange'.status \notin {400, 411, 505} /\ "connection" \notin causes')
                         => conn' = "closed"
    BY DEF ToldIsDone
  <2>1. Granted
    BY <1>1 DEF Granted
  <2>2. /\ Lookup(cs, "connection").ret # "missing"
        /\ Lookup(cs, "connection").ret = "found" =>
             (exchange.closing <=> Lookup(cs, "connection").value = "close")
        /\ AskedToClose => exchange.closing
    BY <1>1, <2>1 DEF Telling
  <2>3. conn = "open" /\ exchange \in Exchanges
    BY <1>1 DEF Sound, UnderWay, ThreadTyped
  <2>4. conn' = "closed" <=> exchange.closing
    BY <1>2, <2>3 DEF SentWith, Exchanges
  <2>5. exchange'.connection = Heard(Lookup(cs, "connection"))
    BY <1>2 DEF SentWith, Told
  <2>6. /\ Heard(Lookup(cs, "connection")) # "missing"
        /\ Heard(Lookup(cs, "connection")) # "hidden" =>
             /\ Lookup(cs, "connection").ret = "found"
             /\ Heard(Lookup(cs, "connection")) = Lookup(cs, "connection").value
    BY <1>3, <2>2, HeardIs
  <2>7. exchange'.status = res.status
    BY <1>2 DEF SentWith
  <2> HIDE DEF c, cs
  <2> QED
    BY <1>1, <1>4, <2>2, <2>4, <2>5, <2>6, <2>7 DEF AskedToClose
<1> QED
  BY <1>5, <1>6, <1>7

\* Where no response is sent there is nothing to answer, or a key was missing.
LEMMA UnansweredTelling ==
  ASSUME Sound, Telling, UpgradeWithoutKey \/ Receive \/ HungUp \/ Owner
  PROVE  Telling' /\ AnsweredOnce' /\ ToldIsDone'
<1>1. CASE UpgradeWithoutKey
  <2>1. /\ pc = "scan" /\ fault = "no" /\ pc' = "idle" /\ res' = NewResponse /\ causes' = causes
        /\ exchange' = [exchange EXCEPT !.leaks = Leaks(req.content) \/ Leaks(res.content)]
        /\ exchange \in Exchanges /\ exchange.answers = 0
    BY <1>1 DEF UpgradeWithoutKey, At, Returned, Sound, ThreadTyped, UnderWay
  <2>2. exchange'.answers = 0
    BY <2>1 DEF Exchanges
  <2>3. "refused" \in causes' \/ Keyless(Received(exchange))'
    BY <1>1, <2>1, KeylessLeft
  <2>4. Telling'
    BY <2>1, NothingTelling
  <2> QED
    BY <2>2, <2>3, <2>4 DEF AnsweredOnce, ToldIsDone
<1>2. CASE Receive
  <2>1. pc' # "idle"
    BY <1>2 DEF Receive
  <2> QED
    BY <1>2, <2>1, ReceiveTelling DEF AnsweredOnce, ToldIsDone, Settled
<1>3. CASE HungUp
  <2>1. exchange'.request = None
    BY <1>3 DEF HungUp, NewExchange
  <2> QED
    BY <1>3, <2>1, ReceiveTelling DEF AnsweredOnce, ToldIsDone, Settled
<1>4. CASE Owner
  <2>1. /\ pc' = pc
        /\ pc = "idle" => exchange' = NewExchange
    BY <1>4, OwnerMoves DEF Sound, ThreadTyped
  <2>2. ~Settled'
    BY <2>1 DEF Settled, NewExchange
  <2> QED
    BY <1>4, <2>2, OwnerTelling DEF AnsweredOnce, ToldIsDone
<1> QED
  BY <1>1, <1>2, <1>3, <1>4

LEMMA StepTelling ==
  ASSUME Sound, Sound', Telling, AnsweredOnce, ToldIsDone, [Next]_vars
  PROVE  Telling' /\ AnsweredOnce' /\ ToldIsDone'
<1>1. ASSUME Telling', pc' # "idle"
      PROVE  Telling' /\ AnsweredOnce' /\ ToldIsDone'
  BY <1>1 DEF AnsweredOnce, ToldIsDone, Settled
<1>2. CASE UpgradeWithoutKey \/ Receive \/ HungUp \/ Owner
  BY <1>2, UnansweredTelling
<1>3. CASE ApplyDefaultHeaders
  BY <1>1, <1>3, ApplyTelling DEF ApplyDefaultHeaders
<1>4. CASE ParseNoLine
  BY <1>1, <1>4, NoLineTelling DEF ParseNoLine
<1>5. CASE Parse
  <2>1. pc' # "idle"
    <3>1. PICK r \in {Received(exchange)}, guess \in Guesses :
            \E refused \in Refusals(Len(r.headers) + 2) :
            \E c, told, len, status : Parsing(r, guess, refused, c, told, len, status)
      BY <1>5, ParseChoices
    <3> QED
      BY <3>1 DEF Parsing
  <2> QED
    BY <1>1, <1>5, <2>1, ParseTelling
<1>6. CASE Upgrade
  BY <1>1, <1>6, UpgradeTelling DEF Upgrade
<1>7. CASE FindEndpoint \/ CheckEndpoint \/ CallEndpoint
  <2>1. pc' # "idle"
    BY <1>7 DEF FindEndpoint, CheckEndpoint, CallEndpoint
  <2> QED
    BY <1>1, <1>7, <2>1, LookingTelling
<1>8. CASE Callback
  <2>1. pc' # "idle"
    BY <1>8 DEF Callback, CallbackAddsHeader, CallbackAppends, CallbackSetsStatus,
       CallbackCopies, CallbackDestroys, Calls, At
  <2> QED
    BY <1>1, <1>8, <2>1, CallbackTelling
<1>9. CASE SetKeepalive
  BY <1>1, <1>9, SetKeepaliveTelling DEF SetKeepalive
<1>10. CASE OnResponseReady
  BY <1>1, <1>10, OnResponseReadyTelling DEF OnResponseReady
<1>11. CASE SendResponse
  BY <1>11, SendTelling
<1>12. CASE UNCHANGED vars
  <2>1. UNCHANGED <<pc, req, res, conn, exchange, causes, fault, book>>
    BY <1>12 DEF vars, thread, admin
  <2>2. Received(exchange') = Received(exchange)
    BY <2>1
  <2>3. Telling'
    BY <2>1, <2>2 DEF Telling, Granted, AskedToClose
  <2>4. AnsweredOnce' /\ ToldIsDone'
    BY <2>1, <2>2 DEF AnsweredOnce, ToldIsDone, Settled, Keyless
  <2> QED
    BY <2>3, <2>4
<1> QED
  BY <1>2, <1>3, <1>4, <1>5, <1>6, <1>7, <1>8, <1>9, <1>10, <1>11, <1>12 DEF Next, Respond

LEMMA AlwaysTelling == Spec => [](Telling /\ AnsweredOnce /\ ToldIsDone)
<1>1. Init => Telling /\ AnsweredOnce /\ ToldIsDone
  <2> SUFFICES ASSUME Init PROVE Telling /\ AnsweredOnce /\ ToldIsDone
    OBVIOUS
  <2>1. Complete(res.content) /\ pc = "idle"
    BY NewContent DEF Init, NewResponse
  <2>2. ~Settled
    BY DEF Init, Settled, NewExchange
  <2> QED
    BY <2>1, <2>2 DEF Telling, AnsweredOnce, ToldIsDone
<1>2. Sound /\ Sound' /\ (Telling /\ AnsweredOnce /\ ToldIsDone) /\ [Next]_vars =>
        (Telling /\ AnsweredOnce /\ ToldIsDone)'
  BY StepTelling
<1> QED
  BY <1>1, <1>2, AlwaysSound, PTL DEF Spec

\* A request is answered once, whatever the callback has done with the response and
\* whatever the owner sets up meanwhile, unless it comes in pieces, an allocation is
\* refused, a length is told by somebody else than the server, or a session is asked for
\* without a key (httpserver.c:981-1026, 1340-1353, 1580-1674).
THEOREM RequestsAreAnsweredOnce == Spec => []AnsweredOnce
BY AlwaysTelling, PTL

\* The client is told what becomes of its connection, by whoever of the three that
\* decide about it: the callback, _set_keepalive and _on_response_ready
\* (httpserver.c:981-1026, 1068-1113).
THEOREM WhatIsToldIsDone == Spec => []ToldIsDone
BY AlwaysTelling, PTL
===============================================================================
