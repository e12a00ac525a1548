# fpxlibc in TLA+

fpxlibc is a C/C++ library: an HTTP and WebSocket server, TCP classes, a QUIC
listener, a JSON reader and writer, a memory arena, containers, hashes, and string
and memory helpers.  This directory holds TLA+ specifications of its parts, the TLC
configurations that check them on small instances, and proofs that TLAPS checks for
every instance.  Source paths below are relative to the repository, which is under
`src/`, so that the server is `src/src/networking/http/httpserver.c`.

    tlc  -workers 2 -config Arena.cfg MCArena.tla
    tlapm ArenaProofs.tla

## The system

| component | state it keeps | operations | hard behaviour | status |
|---|---|---|---|---|
| HTTP server threads, `httpserver.c` 171-236, 445-620, 828-1188, 1367-1390 | per thread: table of connections, count, mutex, condition; the flag `is_listening` | listen, close, one loop per thread, hand-over of an upgraded connection | threads, lost wake-ups, stale indices, check-then-act, blocking under a lock | `HttpServer`, `ConnService` |
| WebSocket sessions, `httpserver.c` 1676-1943 | two close flags per client | parse a frame, validate it, callback, control frames | frames in pieces or merged, close handshake | `WsSession`; how long a frame keeps its thread: `HttpServer` |
| request pipeline, `httpserver.c` 239-443, 750-826, 941-1153, 1232-1365, 1392-1675 | endpoints and their count, the default endpoint, default headers | parse, choose a status, callback, keep-alive, send; registration | order of the checks; set up while threads read; requests in pieces; refused allocations | `HttpExchange` |
| HTTP messages and frames, `http.c` | header, body and payload buffers with length and allocated size | init, add, append, get, copy, destroy | growth, reuse after destroy, refused allocations | `HttpContent`; frames without bytes in `WsSession` |
| arena, `arena.c` | array of regions, linked by offsets | create, alloc, free, destroy | a list relinked by hand, an array that moves, a failed growth | `Arena`, `Allocator` |
| JSON, `json.c` | an arena, a tree of values; temporary arrays while reading | read (measure, then store), destroy, print | two passes that must agree, the end of the document, errors deep in the recursion | `JsonReader`, `JsonGrammar` |
| TCP server and client, `tcpserver.cpp`, `tcpclient.cpp` | poll array, names, number of clients | accept thread, serving loop, disconnect, send to all, close | shared tables without locks | `TcpServer` |
| QUIC listener, `quic.c` | backlog array, thread, mutex, condition | init, listen, accept, stop | initialisation order, waiting without a loop | not modelled |
| vector, linked list | size, capacity, array; nodes | push, pop, shift, grow, shrink | unsigned arithmetic at the edges | not modelled |
| strings, memory, format, endian, math | none | pure functions | boundaries | not modelled |
| hashes, HMAC, base64 | context buffers | init, input, output | block boundaries | not modelled |
| exceptions, assembly variants, tests, build | none | | | not modelled |

How they interact: the listener hands descriptors to HTTP threads through their
tables; an HTTP thread runs the request pipeline on messages of `http.c`, and hands
upgraded connections to WebSocket threads through their tables; these run sessions on
frames of `http.c`, with the SHA-1 and base64 of `crypto.c` for the handshake.  The
JSON reader takes its memory from an arena.  The TCP and QUIC parts stand alone.

What makes each correct: every connection has one owner and is served, in its
protocol, until it is closed (server); a frame is delivered once, whole, and a close is
answered (sessions); a request gets one answer, from the endpoint that was registered for
it, and is told what becomes of its connection (pipeline); a buffer is never read or
written outside what is allocated (messages); blocks do not overlap and are not lost
(arena); both passes count the same and accept JSON, and nothing else (reader); the
tables and the number of clients agree (TCP); a connection is accepted once (QUIC); the
containers behave as sequences.

`PROJECT.json` lists the hazards of each part at their lines, with the properties that
would catch them.

## Modules

| module | what it is |
|---|---|
| `ConnService` | abstract: the life of one connection, without threads |
| `HttpServer` | the threads of `fpx_httpserver_listen` |
| `MCHttpServer` | `HttpServer` with the symmetry of descriptors |
| `HttpServerProofs` | theorems about `HttpServer`: its threads and tables |
| `HttpServiceProofs` | theorems about `HttpServer`: its connections, and `ConnService` |
| `WsSession` | the frames of one WebSocket connection |
| `MCWsSession` | `WsSession` with the frames its peer may send |
| `WsSessionProofs` | theorems about `WsSession` |
| `Allocator` | abstract: blocks of a range that do not overlap |
| `Arena` | the regions of `fpx_arena_alloc` and `fpx_arena_free` |
| `MCArena` | `Arena` for TLC |
| `ArenaProofs` | theorems about `Arena` |
| `HttpContent` | operators: the buffers of a message, `http.c` |
| `HttpExchange` | the requests of one connection, and the calls that set up the server |
| `HttpContentProofs` | lemmas about `HttpContent` |
| `HttpExchangeProofs` | theorems about `HttpExchange` |
| `MCHttpExchange` | `HttpExchange` with requests, headers and method sets |
| `JsonReader` | both runs of `fpx_json_read` |
| `JsonGrammar` | a grammar of JSON, and what it says of `JsonReader` |
| `MCJsonReader` | `JsonGrammar` for TLC |
| `JsonReaderProofs` | theorems about `JsonReader` and `JsonGrammar` |
| `TcpServer` | the two threads of `fpx::TcpServer` and its clients |
| `TcpServerProofs` | theorems about `TcpServer` |

### HttpServer

State: `pfds`, `count`: the table of every thread (`struct _thread`, 188-203);
`pc`, `idx`, `avail`: where a thread is in `_thread_loop`, the index `i` of its current
loop and what is left of `available_clients`; `uNext`, `uLow`, `uPick`: the locals of
`_upgrade_to_ws`; `lFd`, `lpc`, `lNext`, `lLow`, `lPick`: those of the accept loop.
`open`, `ready`, `inbox`, `gone`, `upgraded` are the sockets as the kernel and the peers
see them: open descriptors, those whose `revents` is set, unread data, hang-ups, and
peers that have been sent a 101.

A mutex is not a variable: a thread holds its own exactly at the places `LockedAt`, and
every other critical section (read one count; add one connection) is one atomic action
enabled while the owner is not at such a place.  That is sound because all accesses to
a table are made under its mutex, except the allocation in `_thread_init` and the
`free` at the end of the loop, which are actions of their own.

| action | code |
|---|---|
| `ThreadInit`, `CheckListening`, `ThreadExit` | `_thread_init`, the `while` at 849, the end of the loop |
| `LockLoop`, `Wake`, `SpuriousWake` | lock and `pthread_cond_wait`, 856-859 |
| `SweepExpired` | one disconnect of the timeout sweep, 861-881 |
| `Poll` | `poll()`, 883-889 |
| `ServeHangup`, `HttpRespond`, `SwitchProtocols`, `WsHandle`, `WsHandlePart`, `WsHandleRest`, `WsReset` | one turn of the event loop 891-905, with the handler it calls |
| `UpgradeScan`, `UpgradeAdd`, `UpgradeDrop`, `UpgradeFault` | `_upgrade_to_ws` |
| `Unlock` | the end of the round |
| `Accept`, `AcceptFails`, `Scan`, `Refuse`, `Place`, `PlaceIgnored`, `PlaceFault` | one turn of the accept loop 557-605 |
| `Close` | `fpx_httpserver_close` |
| `PeerSends`, `PeerSendsPart`, `PeerSendsRest`, `PeerHangsUp` | peers (external) |

Contents of requests are abstracted to what happens to the connection.  There is no
clock: any connection may have expired, at any sweep.  A memory error (a table not yet
allocated or already freed, a NULL thread, a negative index) sets `fault` and ends the
behaviour.  The constant `Env` turns on what the surroundings may do besides connecting,
sending and hanging up: clients before all threads are ready (`early`), a response that
cannot be sent (`epipe`), default headers that say `connection: close` (`closing`, which may
come and go, as the program may set them while the server runs), a close (`close`), frames
in pieces (`slow`).

`SwitchProtocols` has two outcomes.  The 101 goes out and the connection stays; or the
connection is closed with it, because a default header says so (1005, 1016-1019) or because
it could not be sent (1009-1012), and `_upgrade_to_ws` is called with its index all the same
(1349).  Such an upgrade is `stale`, a history variable: it moves whatever connection is in
that slot now, or meets an empty one.  `ConnService` has the same as `Loses` and `Strays`:
an upgrade that has lost its connection is `astray` and takes at most one other along.  The
properties say what follows and no more: `SpeaksItsProtocol` allows a WebSocket thread a
connection without a 101 only from such an upgrade, and `FaultHasCause` names everything
that leads to a memory error.

### WsSession

One upgraded connection, from its arrival in the table of a WebSocket thread.  State:
`frames`, `wire`, `gone`: what the peer has sent, how many bytes of it arrive, and whether
it has closed ("fin") or reset ("rst"); `taken`: the bytes read; `phase`: whether the
thread is about to poll, has called the handler, or is in the reading loop of
`_ws_parse_request`; `cur`, `got`: the frame object, its `payload_length` so far;
`closeSent`, `closeRecv`: the flags; `delivered`: the calls of the callback; `sent`: frames
sent to the peer.

The stream is measured in units: a header of two units, three with a long length, one
without masking key; a payload is the stretch of the stream it was copied from, so a
byte too many or of another frame shows.  Where no frame starts, a header may be anything.
One step is one `recv()`, which returns any number of bytes that have arrived, and all
that follows it up to the next one.  A send fails only when the peer has reset.

| action | code |
|---|---|
| `Expire`, `HangUp`, `PollIn` | the sweep, and the event loop of `_thread_loop` for this connection |
| `ReadTooShort` | -1 of `_ws_parse_request` |
| `ReadUnmasked` | -2, with both closes that follow |
| `ReadFrame`, `ReadPart` | the first `recv()` returned exactly the frame, or less or more |
| `ReadMore`, `ReadLast` | the other `recv()` calls; the last is followed by the handler |
| `ReadFails`, `ReadNothing` | `recv()` returns -1 or 0 in the middle of a frame |
| `RefuseReserved`, `CallBack`, `HandleClose`, `HandlePing`, `IgnoreFrame` | part of the two that complete a frame: `_ws_frame_validate`, the callback, `_handle_control_frame` |
| `PeerSends`, `PeerCloses` | the peer (external) |

### Arena

State: `regions`, `count`, `capacity` are the members of `struct __fpx_arena`; `list` is
the order the `__next_offset` fields give; `live` the blocks the program holds.  The
offset of the last region is either UINT64_MAX or, after the free of a last region, the
offset of NULL relative to the array (287-288), which leads to NULL as long as the array
stays where it is and elsewhere once it has moved: `tail`.  The library compiles `alloc/`
without optimisation, so the difference of pointers is computed as it is written.

| action | code |
|---|---|
| `AllocExact`, `AllocSplit`, `AllocNull`, `AllocFault` | the ways through `fpx_arena_alloc`, each with the growth of the array (`Growth`, `TailIn`: `_fpx_arena_double_reg_cap`) at its start |
| `FreeLast`, `FreeOther`, `FreeBeyond`, `FreeUnknown` | the ways through `fpx_arena_free` |

The merging loops of free (298-318) are not spelled out: `NothingToAbsorb` says, and
`NeverMerges` proves, that they never run; `FreeOther` is enabled only then.  A program
that frees a block twice is not modelled.

### HttpContent and HttpExchange

`HttpContent` has no variables: it holds `struct _fpx_http_content` as a record and the
functions of `http.c` as operators on it.  A buffer is its pointer, length and allocated
size as the code keeps them, next to the size of the block that is really there; `wrong`
is the first access that missed the block.  Text is a list of headers of which `Lines`
says what can be found in them; the lookup by substring (584-613) is kept: a key found in
the middle of a line is "hidden" (-3), which is not "missing" (-2), and the callers tell
the two apart.

`HttpExchange` goes on inside what is one step of a thread in `HttpServer`.  State:
`endpoints`, `count`, `fallback`, `defaults` are the members of `struct
_fpx_httpserver_metadata`; `owner` is what the program's thread is in the middle of; `pc`,
`req`, `res`, `found`, `conn` are the variables of `_http_handle_client`.  `book` is what the
calls that have returned add up to, as the documentation of the calls has it, a map from
uri to endpoint; `exchange` and `causes` record one exchange for the properties.

Nothing orders the program's thread with the HTTP threads, so each thing they read of the
server (default headers; the endpoint table; the endpoint that was found; its callback)
is a step of its own, and each call that sets something is cut where it can be seen
half-done.

| action | code |
|---|---|
| `CreateEndpoint`, `CreateEndpointMethods`, `CreateEndpointCallback` | `fpx_httpserver_create_endpoint` with `_endpoint_get` |
| `CreateWsEndpoint`, `CreateWsEndpointCallback` | `fpx_httpserver_create_ws_endpoint` |
| `SetDefaultEndpoint`, `SetDefaultEndpointCallback` | `fpx_httpserver_set_default_http_endpoint` |
| `UnsetDefaultHeaders`, `SetDefaultHeaders`, `SetDefaultHeadersWritten` | `fpx_httpserver_set_default_headers` |
| `Receive`, `HungUp`, `ApplyDefaultHeaders`, `ParseNoLine`, `Parse` | `_http_handle_client` 1232-1291 |
| `Upgrade`, `UpgradeWithoutKey` | 1296-1338 |
| `FindEndpoint`, `CheckEndpoint`, `CallEndpoint` | `_handle_http_endpoint` |
| `CallbackAddsHeader`, `CallbackAppends`, `CallbackSetsStatus`, `CallbackCopies`, `CallbackDestroys` | what a callback may do with its messages (external), through `http.c` |
| `SetKeepalive`, `OnResponseReady`, `SendResponse` | `_set_keepalive`, `_on_response_ready`, `_send_response` |

An allocation may be refused, once in an exchange.  A memory error sets `fault` and ends
the behaviour.  The values of headers are compared whole, and written in lower case
where the code lowers them; that a `strncmp` with the length of a value lets its prefixes
and the empty value match, and that `_sanitize_headers` leaves its buffer without a NUL, is
not modelled.

### JsonReader and JsonGrammar

The recursion of the `_json_*_parse` functions is `stack`, one frame per open object or
array with its member count, its capacity, the size of the temporary array that is really
there, and `expect`, the place in the code.  `phase` tells the dry run from the real one;
`need` is `alloc_size`, `used` what the real run has taken from the arena; `temps` are the
frames whose temporary array is allocated.  The document is a sequence of tokens that the
dry run chooses as it goes and the real run finds again; its first `limit` tokens are the
document, and `padded` says whether white space follows them.  The others lie behind it: the
code mostly looks at the next byte before, or instead of, comparing its position with
`limit`, so that a comma there (248, 755) moves it on by two bytes and past the end for good,
where it goes on reading brackets, values and members (`Beyond`).  What lies there is the
caller's, the same in both runs.  The end may also cut the last token: a number that goes up
to it is refused (611), a `null` is read with the bytes behind (674), a string may find its
closing quote one or two bytes behind (`CutShort`).
The characters of strings and numbers are not modelled: a string takes
nothing or `TextSize`.

| action | code |
|---|---|
| `Word`, `Text` | `_json_number_parse`, `_json_bool_parse`, `_json_null_validate`, `_json_string_parse` |
| `Open`, `EmptyArray`, `EmptyObject`, `Comma`, `Close` | `_json_array_parse`, `_json_object_parse` |
| `Key`, `Colon` | `_json_member_parse` |
| `Reject`, `Refuse`, `Unwind` | the error returns, on the way back through the calls |
| `Measured`, `MeasuredInVain`, `Built`, `GiveUp` | `fpx_json_read` between and after the runs |
| `fpx_json_destroy` | the same |

`JsonGrammar` builds the set of all documents up to a length from shorter ones, without a
reader (`Grammar`, a recursive function), and `ReadsJson` compares.  A tree is a document; where
the reader has met the end (`MeetsEnd`) it is only the beginning of one: a comma that the
document ends in closes all containers, and bytes behind it are taken for a part of it.
What is refused is no document, and does not begin like one unless it ends too early.  The
exception is a number on its own: `42` is JSON and is refused, `42 ` is not.

### TcpServer

State: `sockets`, `names`, `count` are `m_Sockets`, `m_Clients`, `m_ConnectedClients`;
`acceptor` and `server` are the places and locals of the accept thread and of the loop in
`Listen`; `of` is the kernel's table of descriptors, which gives out the smallest free one;
`backlog`, `state`, `wire` are the clients as the kernel sees them.  `overlapped` records
that one change of `count` has undone another one.  Every access of the two threads to
something shared is a step: nothing locks.

| action | code |
|---|---|
| `AcceptCheck`, `Accept`, `AcceptPlace`, `AcceptNoPlace`, `AcceptName`, `AcceptIncrement`, `AcceptWelcome` | `TcpAcceptLoop` |
| `Poll`, `ReadNothing`, `ReadSome`, `ReadWritesToNobody`, `PollAgain` | the loop of `Listen`, with what it writes |
| `ReleaseDecrement`, `ReleaseClose`, `ReleaseFree`, `ReleaseWipe` | `pvt_HandleDisconnect` |
| `Close` | `TcpServer::Close`: the SIGTERM it sends is handled by nobody and ends the program |
| `Connect`, `Send`, `Disconnect` | `TcpClient`, or any client |

Writing to a client that is gone may end the program with SIGPIPE.  A private message to a
slot number that does not exist is read from outside of the table (`ReadWritesToNobody`).
A `write()` that blocks because its client does not read is not modelled.

## Runs

| run | instance | what it shows |
|---|---|---|
| `http_faults` | 1 HTTP and 1 WebSocket thread with 1 place each, 3 descriptors; `early`, `epipe`, `closing`, `close` | types; one owner per descriptor; nobody sleeps on work; memory errors have the causes that are named; locked tables are stable; connections are only lost by a refusal or an ended thread |
| `http_pair` | 2 HTTP threads, 1 WebSocket thread, 2 places, 2 descriptors; `closing` | one owner per descriptor where tables shift; the thread chosen by the listener has room; connections change their protocol after a 101, or with an upgrade that lost its own; `ConnService` is implemented |
| `http_progress` | 1 and 1 thread, 2 places, 2 descriptors, fairness; `slow`, `closing` | the listener comes back to `accept` and every message is read, unless a peer that stops in mid-frame, or a memory error, has stopped the server |
| `http_stale_index` | as above without fairness; `closing` | finding: after a 101 that closed its connection the wrong connection is upgraded |
| `http_close` | as above, `close` | finding: the server accepts after `fpx_httpserver_close` |
| `ws_session` | frames of six kinds (messages without and with payload, close, ping, a reserved bit, no mask), fewer than 10 units in all, a buffer of 4 | types; callbacks get whole frames in order; the close flag is true; frames are answered; a hang-up ends the session |
| `ws_control` | the same | finding: control frames go to the callback |
| `arena` | 5 bytes, requests of 1 to 3, 3 regions per page, at most 7 counted, growth may fail | types; regions tile the range; held blocks are listed; nothing to merge; `Allocator` is implemented |
| `arena_null` | the same, growth succeeds | finding: an arena with nothing in use refuses a request that fits |
| `http_exchange` | 13 requests (bodies that are shorter than their length, lengths below 0, other versions), 2 uris, 2 slots, 1 callback of each kind; at most 3 events: calls of the program in all, and in the exchange, calls of its callback, a refused allocation, a request in pieces | types; memory is sound; one answer per request; the right endpoint; the client is told what is done |
| `json` | documents of up to 8 tokens with anything behind them, nesting of up to 3, a capacity that wraps at 2 | types; exact measure; nothing left; temporary arrays have room below the 16-bit limit; the grammar |
| `tcp` | 3 clients, 2 slots, 1 text on its way, fairness | types; tables agree; names are their owners'; everybody gone is noticed and nobody waits for room that is there |

Bounds.  With one place per thread, three descriptors fill the server, are refused, and
run out, and two connections on their way to WebSockets find no thread with room.  Two
places are the least with a shift in the table and a slot that is skipped after it.  A
descriptor is reused as soon as it is closed.  Two HTTP threads are the least that race
for one WebSocket thread; what comes of their race for its last place needs more
descriptors than `http_pair` has, and is in the theorem about `FaultHasCause`.  One upgrade
that goes astray takes two connections in one table, which `http_pair` has.  One message per peer is unread at a time: the server reads
what there is.  In `ws_session`, 9 units hold up to four
frames, one frame longer than the buffer with others before or after it, and every way to
cut and join them; a long header (three units) can be cut off.  `Wrap` stands for 2^64 and
is also the bound on what a peer sends.  In the arena, 3 regions per page and 7 allocations pass through a growth
of the array, a failed one and the count beyond the array; 5 bytes are enough for exact
fits, splits and blocks on both sides of a freed one.  `MaxSlots` bounds the successful
allocations, since the count never goes down.

In `http_exchange`, a callback makes at most 2 calls and the program at most 3; with 3
events in all (`MaxEvents`) two calls of the program can surround the step of a thread
that reads what they change, or one race while a callback works and an allocation is
refused.  What the program has set up before an exchange counts too, so two endpoints and
a default one fit.  Lengths are counted in halves of a block of the growing buffers, so
that a body fills one block exactly, or passes it; the receive buffer has room for 3 behind
one header, and clients announce 4, -1 and -2 as well.  What the length variable holds behind
the number adds 0, 1 or 3 to it (`Guesses`).  In `json`, 8 tokens are enough for an
object or array in another with something before and after it, and for containers that
have grown several times; the capacity wraps at 2, so that three elements are more than it
counts (the proof covers 2^16 and steps of 8).  In `tcp`, two slots and three clients are
the least with a slot that is reused, a descriptor that comes back to another client,
and somebody who finds no slot; clients connect in their order, which loses nothing as
nothing depends on their names.

Fairness (`http_progress`).  Threads are scheduled: weak fairness of each thread's
steps.  Locking another thread's mutex needs strong fairness, as the mutex is free only
between two rounds of its owner; the code makes that interval long enough with
`usleep(50)` and says why (850-853).  Nothing is assumed of peers, timeouts and spurious
wake-ups.  So a peer may stop in the middle of a frame, and its WebSocket thread then waits
in `recv()` (1926-1938) with its mutex held: the thread serves nobody else, an HTTP thread that
upgrades a connection waits for the mutex with its own held, and the listener for that
one.  `Starved` is that case; both properties except it, and it is the only one but a memory
error.  `EveryMessageRead` is checked for one descriptor (`WatchedMessagesRead`): nothing in
the module tells two descriptors apart.  In `ws_session`, weak fairness of `Receive`: the thread comes back to the
connection and `recv()` returns what has arrived.  The two liveness properties of that run
name what they except, because the code has no answer to it: a frame that `recv()`
returns together with bytes of the next one (`Overrun`: `left_to_read` wraps, and the
thread waits for 2^64 bytes), and an orderly close in the middle of a frame (`CutShort`:
`recv()` returns 0, which is not -1, for ever).  In `tcp`, weak fairness of the accept thread
and of the loop: they are two threads that never wait for each other.  Nothing is assumed
of the clients, nor of `poll()`, which may tell a hang-up late.

## Proofs

`HttpServerProofs`, for any number of threads, places and descriptors, and all of `Env`:

- `TypeCorrect`: `Spec => []TypeOK`; no table is over-filled, no index leaves its table.
- `NoLostWakeup`: `NobodySleepsOnWork`.  A thread sleeps only with an empty table, and
  the addition that makes it non-empty is the one that signals.
- `ListenerNeverOverfills`: `ChosenThreadHasRoom`.  Only the listener adds to HTTP
  threads, so between its scan and its addition their counts can only go down.
- `ConnectionsHaveOneOwner`: `OneOwner`.  The invariant adds the shape of the scans and
  of the tables: no slot behind the count is in use, and the slot being given up is the
  one slot whose descriptor is elsewhere.

`HttpServiceProofs` goes on from there, with what the threads do to one connection.
`Happens` says that every step of any thread, of the listener or of a peer is one of seven
things for it: it is accepted, placed, refused, upgraded, handed over, closed or
abandoned, or nothing.  That lemma is the bulk of the module; the theorems follow from it.

- `ServedInItsProtocol`: `SpeaksItsProtocol`, whatever the surroundings do.  `InProtocol`: the
  slot that `_upgrade_to_ws` has in hand is the only one of an HTTP thread with an upgraded
  connection, unless the thread is `stale`, and then there is none.
- `NoneIsLostOnTheWay`: `LostOnlyByRefusal`, and `LockedTablesAreStable`:
  `LockedTableIsStable`, the action properties of the run `http_faults`.
- `MemoryErrorsHaveCauses`: `FaultHasCause`.  `Started`: no thread has ended while the server
  listens, and without early clients every thread runs before the first one; `Choosing`: an
  HTTP thread that has chosen no WebSocket thread has seen them all full, and where there is
  one HTTP thread only, the thread it chose has no more connections now than it saw.
- `ServerImplementsService`: `ImplementsService`, whatever the surroundings do; the mapping
  gives each connection the place of the table that has it, and `astray` is `stale`.

`WsSessionProofs`, for any frames, buffer, limit of control frames and width of `size_t`:

- `TypeCorrect`: `Spec => []TypeOK`.
- `CallbacksGetTheFrames`: `CallbacksAreFrames`.  The invariant `IInv` adds the `Layout` of
  the stream (frames follow one another, less than `Wrap` in all), `InStep` (between two
  frames all that was read has been delivered, unless a close was sent or is owed to a peer
  that has reset) and `Collecting` (what has been collected of a frame is in one piece).
  `InStep` holds because `_thread_loop` looks at POLLHUP before POLLIN: a peer that cannot
  be sent its close is not read from again.  That `left_to_read` cannot come back to 0 once
  it has wrapped follows from the bound on the stream.
- `CloseFlagTellsTheTruth`: `CloseFlagIsTrue`, inductive with the types.

`ArenaProofs`, for any size, page, set of requests and failures to grow, for programs that
free what they hold.  The inductive invariant `IInv` rests on one observation: only the
region of slot 0 is ever free.  It is the first of the list, so a split always happens
there, the new block is the second of the list, and the free of the last slot gives that
block back to the region it was cut from.  `LastSlot` and `PrevIsNotFirst` say what the
last slot may be and that only the newest block has the first region as predecessor.

- `TypeCorrect`, `ArenaIsTiled`, `HeldBlocksAreListed`, `NeverMerges`: the invariants of
  the run `arena`.
- `ArenaImplementsAllocator`: every step of the arena is a step of `Allocator` or a
  stutter.

`JsonReaderProofs`, about the reader and its grammar, for documents of any length and
nesting, any sizes, and any increment that divides the range of a capacity:

- `TypeCorrect`: `Spec => []TypeOK`, with `used <= need`.
- `NothingIsLeft`: `NothingLeft`.  `Where` says which frames there are at each place of the
  parser, and that a container whose first element has not been read owns no array; then
  the arrays belong to open frames, and there are none once the last one is left.
- `TempsAlwaysHaveRoom`: `TempsHaveRoom`.  `FramesSound` says that the capacity is the size
  of the array or has wrapped to 0 at its largest (`Sized`), and that every frame that waits
  for an element has a slot for it (`HasRoom`).  It needs the increment to divide the
  range: else the capacity would wrap to something else than 0 and be met again.
- `TheRunsAgree`: `MeasureIsExact`.  `After` says which configuration of the parser a token
  leads to, and what it needs, without saying which run this is; there is only one
  (`OneAfter`), and every step of either run is one (`ParseReads`).  `Replay`: the dry run
  leaves a list of configurations behind, its record; the real run is at one of them, with
  what has been taken equal to the sum noted there.  So it ends where the record ends, and
  what it is refused is part of a sum that the record has.  An empty object sets `need`
  back, which is why `Exact` has two cases and the property an exception.  `AlwaysReplay`
  is the invariant itself.
- `ReadsOnlyJson`: `ReadsJson`, in three layers.  The grammar: the table by length has, under
  every length, the words that the equations of a grammar allow (`ValueIs`, `ElementsAre`,
  `MembersAre`); and since all completions of what was read are words of a known set
  (`Rest`: what is expected, then what closes each open container), each token leads from
  one such set to another (`Follows`) or to none (`Misplaced`).  The reader: each function
  of the parser goes on as the grammar does (`WordGoes`, `OpenGoes`, `CloseGoes` and so on,
  together `ParseGoes`), and what none of them accepts has no place there either
  (`AcceptsPlaced`, `RefusedIsNone`).  The run: `Grammatical`, the inductive invariant, has
  two cases.  Within the document (`Going`), what was read followed by r is a value exactly
  when r is in `Rest`.  Behind it (`Past`), the document was read to its end and was
  `Unfinished` there: it begins a value and is none (`InsideUnfinished`); no step of the reader
  leads back.  `RestShort`: whatever is expected has a completion of at most two tokens more
  than there are open containers, so that the lengths of the grammar's table suffice.  From
  `Replay` it takes that a run that has finished has failed nowhere.

`TcpServerProofs`, for any number of clients, slots and texts:

- `TypeCorrect`: `Spec => []TypeOK`.
- `TablesAlwaysAgree`: `TablesAgree`.  `InHand`: what the accept thread holds is open and in
  no slot; `Turn`: the loop only disconnects a slot that is occupied and that it will not
  look at again in this round; `Room`: the accept thread has looked at a count below the
  limit, so there was a free slot, and nobody but itself can take it, so it is not behind
  the one it is trying.  The last part fails once an update of the count is lost or while
  somebody leaves, which is what the property excepts.
- `NamesStayTheirOwn`: `NamesAreTheirOwn`, from the same invariant: a descriptor is closed
  before its slot is free, and the slot is free before its name is wiped.

`HttpContentProofs` has no theorems of its own: lemmas about the operators of
`HttpContent`, for headers and bodies of any length.  What a buffer may become by growing
or being freed; that the block is as large as the code believes, unless an allocation was
refused or a length made up; what `AddHeaders` leaves of a list of headers, and what
`Lookup` reads in it afterwards.  `AddHeaders` is a recursive function: facts about it are
proved from the least place where they would fail (`LeastNumber`, `UpTo`).

`HttpExchangeProofs`, for any requests, headers, uris, slots, lengths and bounds, has four
layers, each an inductive invariant that the next builds on:

- `SetupIsKept`: `Setup`, of the program's side.  The slots in use come first
  (`TableFilled`), a call that is cut in two still knows its slot (`CallUnderWay`), and the
  table is the map the finished calls add up to but for the call under way (`BookAgrees`).
- `MemoryIsKept`: `MemoryIsSound`, and `TypesAreKept`: `TypeOK`.  `Sound` adds to `Setup`
  where the thread is (`UnderWay`), what its two messages hold (`Messages`), that nobody but
  the program has written the headers the server is about to add (`Undecided`), and that
  an endpoint is called only while it has a callback (`Callable`): the fields of an
  endpoint are never taken back, whatever is registered meanwhile.
- `RequestsGoWhereTheyShould`: `DispatchIsRight`.  `Dispatching` says, for each place of the
  thread, what the answer would be if the remaining checks were made at once by the map.
- `RequestsAreAnsweredOnce`: `AnsweredOnce`, and `WhatIsToldIsDone`: `ToldIsDone`.  `Telling`:
  a response that was granted all its memory has its length and its `connection` header by
  the time it is sent, unless something hides it, and the thread's own decision agrees with
  the header.

The proofs use the assumptions on the constants named in the modules, which TLC evaluates
on every run, and the library's facts about sequences and finite sets.  Those of
`HttpExchange` say that requests, default headers and callbacks use headers that `Lines`
describes, that the headers the server writes are among them and contain no other key,
that no header has the value by which `Lookup` says that it found none, and that the
headers of a request fit into the receive buffer.

Every invariant and every action property that a passing run checks is a theorem.  Only
model-checked: everything temporal under fairness (`ListenerReturns`, `WatchedMessagesRead`,
`EveryFrameAnswered`, `HangUpEndsSession`, `NobodyWaitsForever`), which needs ENABLED and is
beyond the prover.  The theorems of induction of the library cannot
be used, since they take an operator; induction on numbers is done with a least
counterexample instead.

## Findings

1. `fpx_httpserver_close` "stops listening" (`httpserver.h` 219), but the accept loop never
   looks at the flag (`http_close`).
2. When a default header says `connection: close`, `_on_response_ready` closes the connection
   of an upgrade after its 101 (1005, 1016-1019), and so it does when the 101 cannot be sent;
   `_upgrade_to_ws` is then called with the index (1349), and moves another connection
   (`http_stale_index`).
3. The branch marked "NOT a control frame" (`httpserver.c` 1842) is taken for every frame
   until the server has sent a close: a peer's close and pings go to the callback and are
   not answered (`ws_control`).
4. A NULL of `fpx_arena_alloc` is said to mean too little space (`arena.c` 130-133); an
   exact fit makes an arena refuse everything even after all blocks are freed
   (`arena_null`).

Other differences met while modelling, which the models contain but no run singles out:

- `fpx_httprequest_get_body` and `fpx_httpresponse_get_body` return the length of the body,
  where `http.h` 206 promises the size a buffer must have;
  `fpx_httpserver_create_endpoint` returns 0 where `httpserver.h` 161 promises an index.
- An upgrade at an endpoint without a WebSocket callback is accepted, and the NULL is
  called later (`httpserver.c` 1843).  An upgrade without a key is neither answered nor
  freed.
- With all WebSocket threads full, an upgrade goes on with a NULL thread (1174).  A peer that
  stops in the middle of a frame stops its thread, and in the end the listener.
- As many bytes as a client's `content-length` says are copied out of the receive buffer
  (1545), whatever it holds, and a length that is a little below 0 becomes a block of no bytes
  that is written to.  Any version that begins with a 1 is served (1257).
- A request in pieces is answered several times.  The answers 400, 411 and 505 do not
  look at `connection: close`.  A header such as `proxy-connection` hides `connection`.
- After the default headers have been unset, their freed block is used by the next call.
  Shorter default headers may leave the end of longer ones behind them.
- An empty object resets the measure of a JSON document, so that `["abc",{}]` is rejected for
  lack of memory.  `{"a":1,}`, `[[],` and `42 x` are accepted, and `[true` where the caller has a
  comma, a bracket or more elements behind it; `42` is not, `42 ` is, and so is a lone `-` with
  a space.
- In the chat server, a client that is accepted while somebody leaves may get no slot and is
  never served nor closed; two updates of the number of clients may overlap; of several
  texts that arrive together only the first is looked at; `Close` ends the process, as it
  sends a SIGTERM nobody handles; the address given to `Listen` is not used.

## Not modelled

- QUIC listener: the accept queue is unfinished (no thread puts anything into it), its
  two hazards are listed at their lines.
- Vector and linked list: sequential containers; `Grow`, which loses the array it has
  allocated, is listed as a hazard.
- Payload bytes, masking, UTF-8 and the bytes of strings and numbers in JSON: data that the
  properties do not tell apart.  The JSON writer, which is one pass over a tree, is left out.
- Strings, memory, formatting, endianness, math, hashes and base64: pure functions of bytes;
  the compression functions work on 32-bit words, which is not what TLC is for.
- A request that fills the receive buffer to its last byte, so that the text in it has no
  end, and the bytes that a copy from behind the buffer brings with it.
- A `write()` or `send()` that blocks for ever, and partial sends that are retried.
- Failures of `pthread_create`, `socket`, `bind` and `mmap` at start-up; a failed `Listen` of
  the chat server leaks its socket.  `TcpServer` begins where `Listen` has its socket, and on
  Linux `Listen` has none: it asks for `SOCK_STREAM | SO_REUSEADDR` (`tcpserver.cpp` 89), which
  is `SOCK_RAW` there, so `socket()` fails and `Listen` throws (90-93).

## Plan

Done: the server, the sessions, the arena, the request pipeline, messages, the JSON reader,
the chat server, and the proofs about them.  Left, in this order:

1. `Quic` (backlog, condition) and `Vector`, `LinkedList` against sequences.
2. Pure operators: base64, substring search, formatting, the buffering of the hashes.
