------------------------------ MODULE HttpServer ------------------------------
(***************************************************************************)
(* The threads of fpx_httpserver_listen: one listener, HttpCount threads   *)
(* that own HTTP connections and WsCount threads that own upgraded ones    *)
(* (src/src/networking/http/httpserver.c).                                 *)
(*                                                                         *)
(* Every thread owns a table of connections (pfds, client_data and         *)
(* connection_count) under its loop_mutex.  It holds the mutex for a whole *)
(* round of its loop: the timeout sweep, poll() and every handler.  The    *)
(* listener takes the mutex of each HTTP thread to find the emptiest one   *)
(* and takes it again to add a connection; an HTTP thread does the same    *)
(* with the WebSocket threads when it upgrades one, its own mutex held.    *)
(*                                                                         *)
(* A critical section that never blocks (reading a count, adding a         *)
(* connection) is one atomic step, enabled while nobody holds the mutex:   *)
(* all accesses to a table are made under it.  Memory errors end the       *)
(* behaviour: the step that commits one sets fault and the process stops.  *)
(***************************************************************************)
EXTENDS Integers, FiniteSets

CONSTANTS
  HttpCount,   \* http_thread_count
  WsCount,     \* ws_thread_count
  ClientsMax,  \* CLIENTS_DEFAULT, the connections a thread may own
  Fds,         \* the descriptors the process may have open at once
  NoFd,        \* -1
  Env          \* what the surroundings may do, see EnvKinds

(***************************************************************************)
(* "early":   a client connects before every thread has run _thread_init.  *)
(* "epipe":   a response is sent to a peer that is gone and fails.         *)
(* "closing": the program's default headers say "connection: close" (it    *)
(*            may set and remove them while the server runs).              *)
(* "close":   the program calls fpx_httpserver_close.                      *)
(* "slow":    what a WebSocket thread reads is only a part of a frame.     *)
(***************************************************************************)
EnvKinds == {"early", "epipe", "closing", "close", "slow"}

ASSUME CountsAssumption ==
  /\ HttpCount \in Nat \ {0}
  /\ WsCount \in Nat \ {0}
  /\ ClientsMax \in Nat \ {0}
ASSUME FdsAssumption == IsFiniteSet(Fds) /\ NoFd \notin Fds
ASSUME EnvAssumption == Env \subseteq EnvKinds

HttpThreads == 1 .. HttpCount
WsThreads   == HttpCount + 1 .. HttpCount + WsCount
Threads     == HttpThreads \cup WsThreads
Slots       == 0 .. ClientsMax - 1
NoThread    == 0

VARIABLES
  listening,   \* is_listening
  pfds,        \* the descriptor in every slot of every thread's table
  count,       \* connection_count of every thread
  pc,          \* where every thread is in _thread_loop
  idx,         \* the index its loop over the table has reached
  avail,       \* how many of the polled connections it has still to serve
  uNext, uLow, uPick,  \* the scan of _upgrade_to_ws, per HTTP thread
  stale,       \* history: HTTP threads whose idx no longer is the connection
               \* they upgrade
  lFd,         \* the descriptor the listener accepted and has not placed
  lpc, lNext, lLow, lPick,  \* the listener and its scan
  open,        \* descriptors open in this process
  ready,       \* open descriptors whose slot has revents set
  inbox,       \* what the peer has sent and the server has not read
  gone,        \* descriptors whose peer has hung up
  upgraded,    \* descriptors whose peer has been sent a 101
  fault        \* the memory error that ended the process, or "none"

tables   == <<pfds, count>>
loops    == <<pc, idx, avail>>
upgrades == <<uNext, uLow, uPick, stale>>
listener == <<lFd, lpc, lNext, lLow, lPick>>
net      == <<open, ready, inbox, gone, upgraded>>
vars     == <<listening, tables, loops, upgrades, listener, net, fault>>

(***************************************************************************)
(* A thread at one of these places holds its own loop_mutex: it sweeps and *)
(* polls, serves the table, waits for the rest of a frame, scans for a     *)
(* WebSocket thread, or has handed a connection over and not removed it.   *)
(***************************************************************************)
LockedAt == {"sweep", "serve", "recv", "scan", "drop"}
Held(t)  == pc[t] \in LockedAt

Ended(t) == pc[t] = "done"

\* The descriptors in thread t's table.
Table(t) == {fd \in Fds : \E k \in Slots : k < count[t] /\ pfds[t][k] = fd}

\* Slot k of thread t counts, unless t has given the connection in it away.
Live(t, k) == ~Ended(t) /\ k < count[t] /\ ~(pc[t] = "drop" /\ k = idx[t])

\* Some thread of S has the connection in its table.
In(S, fd) == \E t \in S, k \in Slots : pfds[t][k] = fd /\ Live(t, k)

\* The server still knows the descriptor: the listener or a thread does.
Owned(fd) == fd = lFd \/ In(Threads, fd)

-----------------------------------------------------------------------------
TypeOK ==
  /\ listening \in BOOLEAN
  /\ pfds \in [Threads -> [Slots -> Fds \cup {NoFd}]]
  /\ count \in [Threads -> 0 .. ClientsMax]
  /\ pc \in [Threads -> {"new", "top", "lock", "wait", "woken", "done"} \cup LockedAt]
  /\ idx \in [Threads -> 0 .. ClientsMax]
  /\ avail \in [Threads -> Nat]
  /\ uNext \in [HttpThreads -> HttpCount + 1 .. HttpCount + WsCount + 1]
  /\ uLow \in [HttpThreads -> 0 .. ClientsMax]
  /\ uPick \in [HttpThreads -> WsThreads \cup {NoThread}]
  /\ stale \subseteq HttpThreads
  /\ lFd \in Fds \cup {NoFd}
  /\ lpc \in {"accept", "scan"}
  /\ lNext \in 1 .. HttpCount + 1
  /\ lLow \in 0 .. ClientsMax
  /\ lPick \in HttpThreads \cup {NoThread}
  /\ open \subseteq Fds
  /\ ready \subseteq Fds
  /\ inbox \in [Fds -> {"none", "part", "msg"}]
  /\ gone \subseteq Fds
  /\ upgraded \subseteq Fds
  /\ fault \in {"none", "uninitialised", "freed", "noThread", "badIndex"}

Empty == [k \in Slots |-> NoFd]

Init ==
  /\ listening = TRUE
  /\ pfds = [t \in Threads |-> Empty]
  /\ count = [t \in Threads |-> 0]
  /\ pc = [t \in Threads |-> "new"]
  /\ idx = [t \in Threads |-> 0]
  /\ avail = [t \in Threads |-> 0]
  /\ uNext = [t \in HttpThreads |-> HttpCount + 1]
  /\ uLow = [t \in HttpThreads |-> ClientsMax]
  /\ uPick = [t \in HttpThreads |-> NoThread]
  /\ stale = {}
  /\ lFd = NoFd /\ lpc = "accept" /\ lNext = 1
  /\ lLow = ClientsMax /\ lPick = NoThread
  /\ open = {} /\ ready = {} /\ gone = {} /\ upgraded = {}
  /\ inbox = [fd \in Fds |-> "none"]
  /\ fault = "none"

-----------------------------------------------------------------------------
(* Operations on a table; the caller holds the thread's mutex. *)

\* Mutant: nobody is ever signalled.
SignalForgotten(p, t) == p

\* pthread_cond_signal: a thread asleep wakes; without one the signal is lost.
Signalled(p, t) == [p EXCEPT ![t] = IF @ = "wait" THEN "woken" ELSE @]

\* The last part of _add_client_to_thread: append fd to thread t's table.
Append(t, fd) ==
  /\ pfds' = [pfds EXCEPT ![t][count[t]] = fd]
  /\ count' = [count EXCEPT ![t] = @ + 1]

\* The table of _disconnect_client: shift down over slot k, clear the last.
Without(tab, n, k) ==
  [s \in Slots |-> IF s >= n - 1 THEN NoFd
                   ELSE IF s < k THEN tab[s] ELSE tab[s + 1]]

Remove(t, k) ==
  /\ pfds' = [pfds EXCEPT ![t] = Without(@, count[t], k)]
  /\ count' = [count EXCEPT ![t] = @ - 1]

\* close(fd): the kernel forgets everything about the descriptor.
CloseFd(fd) ==
  /\ open' = open \ {fd}
  /\ ready' = ready \ {fd}
  /\ inbox' = [inbox EXCEPT ![fd] = "none"]
  /\ gone' = gone \ {fd}
  /\ upgraded' = upgraded \ {fd}

\* _disconnect_client(t, k, TRUE)
Disconnect(t, k) == Remove(t, k) /\ CloseFd(pfds[t][k])

\* The connection stays and what it sent has been read.
Consume(fd) ==
  /\ inbox' = [inbox EXCEPT ![fd] = "none"]
  /\ UNCHANGED <<tables, open, ready, gone, upgraded>>

-----------------------------------------------------------------------------
(* _thread_loop *)

Goto(t, from, to) == pc[t] = from /\ pc' = [pc EXCEPT ![t] = to]

ThreadInit(t) ==
  /\ Goto(t, "new", "top")
  /\ pfds' = [pfds EXCEPT ![t] = Empty]
  /\ UNCHANGED <<listening, count, idx, avail, upgrades, listener, net, fault>>

\* while (is_listening), read without the mutex.
CheckListening(t) ==
  /\ listening
  /\ Goto(t, "top", "lock")
  /\ UNCHANGED <<listening, tables, idx, avail, upgrades, listener, net, fault>>

\* The loop ends: the tables are freed, their descriptors stay open.
ThreadExit(t) ==
  /\ ~listening
  /\ Goto(t, "top", "done")
  /\ pfds' = [pfds EXCEPT ![t] = Empty]
  /\ UNCHANGED <<listening, count, idx, avail, upgrades, listener, net, fault>>

\* Lock the mutex; with an empty table, sleep on the condition.
LockLoop(t) ==
  /\ Goto(t, "lock", IF count[t] < 1 THEN "wait" ELSE "sweep")
  /\ UNCHANGED <<listening, tables, idx, avail, upgrades, listener, net, fault>>

\* pthread_cond_wait may return without a signal.
SpuriousWake(t) ==
  /\ Goto(t, "wait", "woken")
  /\ UNCHANGED <<listening, tables, idx, avail, upgrades, listener, net, fault>>

\* pthread_cond_wait returns with the mutex locked again.
Wake(t) ==
  /\ Goto(t, "woken", "sweep")
  /\ UNCHANGED <<listening, tables, idx, avail, upgrades, listener, net, fault>>

\* Mutant: an expired connection leaves the table and its socket stays open.
SweepWithoutClose(t, k) ==
  /\ pc[t] = "sweep"
  /\ idx[t] <= k /\ k < count[t]
  /\ Remove(t, k)
  /\ idx' = [idx EXCEPT ![t] = k + 1]
  /\ UNCHANGED <<listening, pc, avail, upgrades, listener, net, fault>>

\* Mutant: the sweep goes one slot past the last connection.
SweepTooFar(t, k) ==
  /\ pc[t] = "sweep"
  /\ idx[t] <= k /\ k <= count[t]
  /\ Disconnect(t, k)
  /\ idx' = [idx EXCEPT ![t] = k + 1]
  /\ UNCHANGED <<listening, pc, avail, upgrades, listener, fault>>

(***************************************************************************)
(* The timeout sweep disconnects the next expired connection.  The loop    *)
(* then moves on to index k + 1, past the connection shifted into k.  Any  *)
(* connection may have expired: the model has no clock.                    *)
(***************************************************************************)
SweepExpired(t, k) ==
  /\ pc[t] = "sweep"
  /\ idx[t] <= k /\ k < count[t]
  /\ Disconnect(t, k)
  /\ idx' = [idx EXCEPT ![t] = k + 1]
  /\ UNCHANGED <<listening, pc, avail, upgrades, listener, fault>>

\* The sweep is over and poll() returns, with an event or after a second.
Poll(t) ==
  LET events == {fd \in Table(t) : fd \in gone \/ inbox[fd] # "none"}
  IN  /\ Goto(t, "sweep", "serve")
      /\ ready' = (ready \ Table(t)) \cup events
      /\ avail' = [avail EXCEPT ![t] = Cardinality(events)]
      /\ idx' = [idx EXCEPT ![t] = 0]
      /\ UNCHANGED <<listening, tables, upgrades, listener,
                     open, inbox, gone, upgraded, fault>>

\* Slot k is the next one the event loop of t looks at with revents set.
Turn(t, k) ==
  /\ pc[t] = "serve"
  /\ avail[t] > 0
  /\ idx[t] <= k /\ k < count[t]
  /\ pfds[t][k] \in ready
  /\ \A m \in idx[t] .. k - 1 : pfds[t][m] \notin ready

\* ++j and ++i, whether or not slot k still holds the same connection.
Served(t, k) ==
  /\ avail' = [avail EXCEPT ![t] = @ - 1]
  /\ idx' = [idx EXCEPT ![t] = k + 1]

\* POLLERR, POLLHUP or POLLNVAL, or a handler whose recv() returns < 1.
ServeHangup(t, k) ==
  /\ Turn(t, k)
  /\ pfds[t][k] \in gone
  /\ Disconnect(t, k)
  /\ Served(t, k)
  /\ UNCHANGED <<listening, pc, upgrades, listener, fault>>

(***************************************************************************)
(* A request that ends in a response (_on_response_ready), or in none when *)
(* the handler gives up: the connection stays, or is closed because the    *)
(* response says "connection: close" or could not be sent.                 *)
(***************************************************************************)
HttpRespond(t, k) ==
  /\ t \in HttpThreads
  /\ Turn(t, k)
  /\ inbox[pfds[t][k]] # "none"
  /\ Consume(pfds[t][k]) \/ Disconnect(t, k)
  /\ Served(t, k)
  /\ UNCHANGED <<listening, pc, upgrades, listener, fault>>

\* Mutant: the connection is moved without a 101 having been sent.
SwitchUnannounced(t, k) ==
  /\ t \in HttpThreads
  /\ Turn(t, k)
  /\ inbox[pfds[t][k]] # "none"
  /\ inbox' = [inbox EXCEPT ![pfds[t][k]] = "none"]
  /\ pc' = [pc EXCEPT ![t] = "scan"]
  /\ idx' = [idx EXCEPT ![t] = k]
  /\ UNCHANGED <<listening, tables, avail, upgrades, listener,
                 open, ready, gone, upgraded, fault>>

(***************************************************************************)
(* An upgrade request for a known endpoint.  The 101 goes out first.  When *)
(* it says "connection: close", or sending it fails, _on_response_ready    *)
(* has removed slot k before _upgrade_to_ws is called with k all the same. *)
(***************************************************************************)
SwitchProtocols(t, k) ==
  LET fd == pfds[t][k]
  IN  /\ t \in HttpThreads
      /\ Turn(t, k)
      /\ inbox[fd] # "none"
      /\ \/ /\ inbox' = [inbox EXCEPT ![fd] = "none"]
            /\ upgraded' = upgraded \cup {fd}
            /\ UNCHANGED <<tables, open, ready, gone, stale>>
         \/ /\ "closing" \in Env \/ ("epipe" \in Env /\ fd \in gone)
            /\ Disconnect(t, k)
            /\ stale' = stale \cup {t}
      /\ pc' = [pc EXCEPT ![t] = "scan"]
      /\ idx' = [idx EXCEPT ![t] = k]
      /\ UNCHANGED <<listening, avail, uNext, uLow, uPick, listener, fault>>

-----------------------------------------------------------------------------
(* _upgrade_to_ws, with the mutex of the HTTP thread t held *)

\* Lock the next WebSocket thread, read its count and unlock it.
UpgradeScan(t) ==
  /\ pc[t] = "scan"
  /\ uNext[t] \in WsThreads
  /\ ~Held(uNext[t])
  /\ uNext' = [uNext EXCEPT ![t] = @ + 1]
  /\ LET c == count[uNext[t]]
     IN  /\ uLow' = [uLow EXCEPT ![t] = IF c < @ THEN c ELSE @]
         /\ uPick' = [uPick EXCEPT ![t] = IF c < uLow[t] THEN uNext[t] ELSE @]
  /\ UNCHANGED <<listening, tables, loops, stale, listener, net, fault>>

UpgradeChosen(t) == pc[t] = "scan" /\ uNext[t] \notin WsThreads

\* What stops thread p's table from taking fd, if anything.
AddFault(p, fd) ==
  IF p = NoThread THEN "noThread"
  ELSE IF fd = NoFd \/ count[p] >= ClientsMax THEN "badIndex"
  ELSE IF pc[p] = "new" THEN "uninitialised"
  ELSE IF Ended(p) THEN "freed"
  ELSE "none"

\* Mutant: the lowest count of one upgrade is still there in the next.
UpgradeResetNoCount(t) ==
  /\ uNext' = [uNext EXCEPT ![t] = HttpCount + 1]
  /\ uPick' = [uPick EXCEPT ![t] = NoThread]
  /\ stale' = stale \ {t}
  /\ UNCHANGED uLow

\* The locals of _upgrade_to_ws, and what is known of its index; the next
\* call starts from these again.
UpgradeReset(t) ==
  /\ uNext' = [uNext EXCEPT ![t] = HttpCount + 1]
  /\ uLow' = [uLow EXCEPT ![t] = ClientsMax]
  /\ uPick' = [uPick EXCEPT ![t] = NoThread]
  /\ stale' = stale \ {t}

\* Lock the chosen thread again, add the connection, wake the thread if its
\* table was empty, unlock.
UpgradeAdd(t) ==
  LET p == uPick[t]
      fd == pfds[t][idx[t]]
  IN  /\ UpgradeChosen(t)
      /\ AddFault(p, fd) = "none"
      /\ ~Held(p)
      /\ Append(p, fd)
      /\ pc' = [(IF count[p] = 0 THEN Signalled(pc, p) ELSE pc) EXCEPT ![t] = "drop"]
      /\ ready' = ready \ {fd}
      /\ UpgradeReset(t)
      /\ UNCHANGED <<listening, idx, avail, listener,
                     open, inbox, gone, upgraded, fault>>

\* The same with a NULL thread, a table that is not there, or the negative
\* index _add_client_to_thread returned.
UpgradeFault(t) ==
  /\ UpgradeChosen(t)
  /\ uPick[t] # NoThread => ~Held(uPick[t])
  /\ AddFault(uPick[t], pfds[t][idx[t]]) # "none"
  /\ fault' = AddFault(uPick[t], pfds[t][idx[t]])
  /\ UNCHANGED <<listening, tables, loops, upgrades, listener, net>>

\* Mutant: the hand-over closes the socket (close_socket is TRUE).
UpgradeDropClosing(t) ==
  /\ Goto(t, "drop", "serve")
  /\ Disconnect(t, idx[t])
  /\ Served(t, idx[t])
  /\ UNCHANGED <<listening, upgrades, listener, fault>>

\* _disconnect_client(thread, idx, FALSE), and back in the event loop.
UpgradeDrop(t) ==
  /\ Goto(t, "drop", "serve")
  /\ Remove(t, idx[t])
  /\ Served(t, idx[t])
  /\ UNCHANGED <<listening, upgrades, listener, net, fault>>

-----------------------------------------------------------------------------
(* _ws_handle_client *)

\* A frame is handled; the connection stays, or is closed as too short or
\* because both sides have sent a close frame.
FrameDone(t, k) ==
  /\ Consume(pfds[t][k]) \/ Disconnect(t, k)
  /\ Served(t, k)
  /\ pc' = [pc EXCEPT ![t] = "serve"]
  /\ UNCHANGED <<listening, upgrades, listener, fault>>

WsHandle(t, k) ==
  /\ t \in WsThreads
  /\ Turn(t, k)
  /\ inbox[pfds[t][k]] = "msg"
  /\ FrameDone(t, k)

\* The first recv() returned a part of a frame: wait for the rest in recv().
WsHandlePart(t, k) ==
  /\ t \in WsThreads
  /\ Turn(t, k)
  /\ inbox[pfds[t][k]] = "part"
  /\ pc' = [pc EXCEPT ![t] = "recv"]
  /\ idx' = [idx EXCEPT ![t] = k]
  /\ UNCHANGED <<listening, tables, avail, upgrades, listener, net, fault>>

WsHandleRest(t) ==
  /\ pc[t] = "recv"
  /\ inbox[pfds[t][idx[t]]] = "msg"
  /\ FrameDone(t, idx[t])

\* recv() fails with a reset; after an orderly close it returns 0 for ever.
WsReset(t) ==
  /\ Goto(t, "recv", "serve")
  /\ pfds[t][idx[t]] \in gone
  /\ Consume(pfds[t][idx[t]])
  /\ Served(t, idx[t])
  /\ UNCHANGED <<listening, upgrades, listener, fault>>

\* Mutant: the loop goes straight into its next round without unlocking.
UnlockNever(t) ==
  /\ Goto(t, "serve", "sweep")
  /\ ~ \E k \in Slots : Turn(t, k)
  /\ ready' = ready \ Table(t)
  /\ idx' = [idx EXCEPT ![t] = 0]
  /\ avail' = [avail EXCEPT ![t] = 0]
  /\ UNCHANGED <<listening, tables, upgrades, listener,
                 open, inbox, gone, upgraded, fault>>

\* The event loop ends.  The next poll() overwrites every revents, so those
\* left set are forgotten here.
Unlock(t) ==
  /\ Goto(t, "serve", "top")
  /\ ~ \E k \in Slots : Turn(t, k)
  /\ ready' = ready \ Table(t)
  /\ idx' = [idx EXCEPT ![t] = 0]
  /\ avail' = [avail EXCEPT ![t] = 0]
  /\ UNCHANGED <<listening, tables, upgrades, listener,
                 open, inbox, gone, upgraded, fault>>

-----------------------------------------------------------------------------
(* fpx_httpserver_listen *)

StartScan(fd) ==
  /\ lFd' = fd /\ lpc' = "scan" /\ lNext' = 1
  /\ lLow' = ClientsMax /\ lPick' = NoThread

\* The listener is back at accept(); it no longer knows the descriptor.
Rest == /\ lFd' = NoFd /\ lpc' = "accept" /\ lNext' = 1
        /\ lLow' = ClientsMax /\ lPick' = NoThread

Accept(fd) ==
  /\ lpc = "accept"
  /\ fd \notin open
  /\ "early" \in Env \/ \A t \in Threads : pc[t] # "new"
  /\ open' = open \cup {fd}
  /\ StartScan(fd)
  /\ UNCHANGED <<listening, tables, loops, upgrades,
                 ready, inbox, gone, upgraded, fault>>

\* accept() returns -1, which the listener takes for a descriptor.
AcceptFails ==
  /\ lpc = "accept"
  /\ open = Fds
  /\ StartScan(NoFd)
  /\ UNCHANGED <<listening, tables, loops, upgrades, net, fault>>

\* Mutant: the candidate is taken whether or not its count is lower.
ScanLast ==
  /\ lpc = "scan"
  /\ lNext \in HttpThreads
  /\ ~Held(lNext)
  /\ lNext' = lNext + 1
  /\ lLow' = IF count[lNext] < lLow THEN count[lNext] ELSE lLow
  /\ lPick' = lNext
  /\ UNCHANGED <<listening, tables, loops, upgrades, lFd, lpc, net, fault>>

Scan ==
  /\ lpc = "scan"
  /\ lNext \in HttpThreads
  /\ ~Held(lNext)
  /\ lNext' = lNext + 1
  /\ LET c == count[lNext]
     IN  /\ lLow' = IF c < lLow THEN c ELSE lLow
         /\ lPick' = IF c < lLow THEN lNext ELSE lPick
  /\ UNCHANGED <<listening, tables, loops, upgrades, lFd, lpc, net, fault>>

Scanned == lpc = "scan" /\ lNext \notin HttpThreads

\* Every table is full: send a 503, which leaves the connection open.
Refuse ==
  /\ Scanned
  /\ lLow >= ClientsMax
  /\ Rest
  /\ UNCHANGED <<listening, tables, loops, upgrades, net, fault>>

\* Mutant: the listener adds without locking the mutex again.
PlaceUnlocked ==
  /\ Scanned
  /\ lLow < ClientsMax
  /\ AddFault(lPick, lFd) = "none"
  /\ Append(lPick, lFd)
  /\ pc' = IF count[lPick] = 0 THEN Signalled(pc, lPick) ELSE pc
  /\ Rest
  /\ UNCHANGED <<listening, idx, avail, upgrades, net, fault>>

\* Add the connection to the chosen thread and wake it if it had none.
Place ==
  /\ Scanned
  /\ lLow < ClientsMax
  /\ ~Held(lPick)
  /\ AddFault(lPick, lFd) = "none"
  /\ Append(lPick, lFd)
  /\ pc' = IF count[lPick] = 0 THEN Signalled(pc, lPick) ELSE pc
  /\ Rest
  /\ UNCHANGED <<listening, idx, avail, upgrades, net, fault>>

\* _add_client_to_thread returns -2 or -3: nobody looks at it.
PlaceIgnored ==
  /\ Scanned
  /\ lLow < ClientsMax
  /\ ~Held(lPick)
  /\ AddFault(lPick, lFd) = "badIndex"
  /\ Rest
  /\ UNCHANGED <<listening, tables, loops, upgrades, net, fault>>

PlaceFault ==
  /\ Scanned
  /\ lLow < ClientsMax
  /\ ~Held(lPick)
  /\ AddFault(lPick, lFd) \in {"uninitialised", "freed"}
  /\ fault' = AddFault(lPick, lFd)
  /\ UNCHANGED <<listening, tables, loops, upgrades, listener, net>>

\* fpx_httpserver_close, from any thread of the program.
Close ==
  /\ "close" \in Env
  /\ listening
  /\ listening' = FALSE
  /\ UNCHANGED <<tables, loops, upgrades, listener, net, fault>>

-----------------------------------------------------------------------------
(* Peers.  Bound: at most one message of a peer is unread at a time.  What *)
(* happens on a descriptor nobody knows any more is left out: nobody looks. *)

PeerSends(fd) ==
  /\ fd \in open \ gone /\ Owned(fd)
  /\ inbox[fd] = "none"
  /\ inbox' = [inbox EXCEPT ![fd] = "msg"]
  /\ UNCHANGED <<listening, tables, loops, upgrades, listener,
                 open, ready, gone, upgraded, fault>>

PeerSendsPart(fd) ==
  /\ "slow" \in Env
  /\ fd \in open \ gone /\ Owned(fd)
  /\ inbox[fd] = "none"
  /\ inbox' = [inbox EXCEPT ![fd] = "part"]
  /\ UNCHANGED <<listening, tables, loops, upgrades, listener,
                 open, ready, gone, upgraded, fault>>

PeerSendsRest(fd) ==
  /\ fd \in open \ gone /\ Owned(fd)
  /\ inbox[fd] = "part"
  /\ inbox' = [inbox EXCEPT ![fd] = "msg"]
  /\ UNCHANGED <<listening, tables, loops, upgrades, listener,
                 open, ready, gone, upgraded, fault>>

PeerHangsUp(fd) ==
  /\ fd \in open \ gone /\ Owned(fd)
  /\ gone' = gone \cup {fd}
  /\ UNCHANGED <<listening, tables, loops, upgrades, listener,
                 open, ready, inbox, upgraded, fault>>

-----------------------------------------------------------------------------
ThreadStep(t) ==
  \/ ThreadInit(t)
  \/ CheckListening(t)
  \/ ThreadExit(t)
  \/ LockLoop(t)
  \/ Wake(t)
  \/ \E k \in Slots : SweepExpired(t, k)
  \/ Poll(t)
  \/ \E k \in Slots : ServeHangup(t, k)
  \/ \E k \in Slots : HttpRespond(t, k)
  \/ \E k \in Slots : SwitchProtocols(t, k)
  \/ \E k \in Slots : WsHandle(t, k)
  \/ \E k \in Slots : WsHandlePart(t, k)
  \/ WsHandleRest(t)
  \/ Unlock(t)

UpgradeStep(t) ==
  \/ UpgradeScan(t)
  \/ UpgradeAdd(t)
  \/ UpgradeFault(t)
  \/ UpgradeDrop(t)

ListenerStep ==
  \/ Scan
  \/ Refuse
  \/ Place
  \/ PlaceIgnored
  \/ PlaceFault

PeerStep(fd) ==
  \/ PeerSends(fd)
  \/ PeerSendsPart(fd)
  \/ PeerSendsRest(fd)
  \/ PeerHangsUp(fd)

\* A memory error: the process is gone.
Halted == fault # "none" /\ UNCHANGED vars

Next ==
  \/ /\ fault = "none"
     /\ \/ \E t \in Threads : ThreadStep(t) \/ SpuriousWake(t) \/ WsReset(t)
        \/ \E t \in HttpThreads : UpgradeStep(t)
        \/ \E fd \in Fds : Accept(fd) \/ PeerStep(fd)
        \/ AcceptFails
        \/ ListenerStep
        \/ Close
  \/ Halted

(***************************************************************************)
(* Threads keep running.  Locking the mutex of another thread needs strong *)
(* fairness: it is free only between two rounds of its owner, which the    *)
(* code lengthens with usleep(50) "because otherwise it regrabs the mutex  *)
(* too quickly".  Peers, timeouts and spurious wake-ups owe nothing.       *)
(***************************************************************************)
Fairness ==
  /\ \A t \in Threads : WF_vars(fault = "none" /\ ThreadStep(t))
  /\ \A t \in HttpThreads : SF_vars(fault = "none" /\ UpgradeStep(t))
  /\ SF_vars(fault = "none" /\ ListenerStep)

Spec     == Init /\ [][Next]_vars
FairSpec == Spec /\ Fairness

-----------------------------------------------------------------------------
(* Properties *)

(***************************************************************************)
(* A descriptor has one owner: no two slots, of one table or of two, hold  *)
(* the same connection, the listener holds none that has been placed, and  *)
(* a slot never outlives its descriptor, whose number the next accept()    *)
(* would reuse for a stranger.  During a hand-over the slot being given up *)
(* does not count.                                                         *)
(***************************************************************************)
OneOwner ==
  \A t \in Threads, k \in Slots :
    Live(t, k) =>
      /\ pfds[t][k] \in open \ {lFd}
      /\ \A u \in Threads, m \in Slots :
           Live(u, m) /\ pfds[u][m] = pfds[t][k] => u = t /\ m = k

(***************************************************************************)
(* No lost wake-up: a thread asleep on its condition, with no signal under *)
(* way, owns no connection.  The signal is only sent for the connection    *)
(* that lands in slot 0, from two different places.                        *)
(***************************************************************************)
NobodySleepsOnWork ==
  \A t \in Threads : pc[t] = "wait" => count[t] = 0

(***************************************************************************)
(* The listener drops every lock between finding the emptiest thread and   *)
(* adding to it, and does not look at the result of the addition.  The     *)
(* thread it chose still has room then.                                    *)
(***************************************************************************)
ChosenThreadHasRoom ==
  Scanned /\ lLow < ClientsMax => count[lPick] < ClientsMax

(***************************************************************************)
(* What _upgrade_to_ws takes for granted: the connection it is called for  *)
(* is one whose peer has been sent a 101, so WebSocket threads own only    *)
(* such peers, and an HTTP thread owns one only while it is upgrading it.  *)
(***************************************************************************)
ServedAsAnnounced ==
  \A t \in Threads, k \in Slots :
    Live(t, k) =>
      IF t \in WsThreads
        THEN pfds[t][k] \in upgraded
        ELSE pfds[t][k] \in upgraded => pc[t] = "scan" /\ idx[t] = k

(***************************************************************************)
(* What it does: a connection comes to a WebSocket thread after a 101, or  *)
(* because it has moved into the slot of one that was closed with its 101. *)
(* The second takes an upgrade that has just lost its connection, and one  *)
(* such upgrade takes no other along.  An HTTP thread keeps a peer that    *)
(* was sent a 101 only while it is upgrading it, and never with a stale    *)
(* index.                                                                  *)
(***************************************************************************)
SpeaksItsProtocol ==
  [][\A t \in Threads, k \in Slots :
       LET fd == pfds'[t][k]
       IN  Live(t, k)' =>
             IF t \in WsThreads
               THEN \/ In(WsThreads, fd)
                    \/ fd \in upgraded
                    \/ \E u \in stale \ stale' : pc[u] = "scan" /\ pfds[u][idx[u]] = fd
               ELSE fd \in upgraded' => pc'[t] = "scan" /\ idx'[t] = k /\ t \notin stale']_vars

(***************************************************************************)
(* Nobody changes the table of a thread that holds its mutex but that      *)
(* thread, which moves on in its loop as it does: the indices its handlers *)
(* keep across calls stay good.                                            *)
(***************************************************************************)
LockedTableIsStable ==
  [][\A t \in Threads :
       Held(t) /\ UNCHANGED <<pc[t], idx[t], avail[t]>>
         => UNCHANGED <<pfds[t], count[t]>>]_vars

(***************************************************************************)
(* The server loses track of an open descriptor in two ways only: the 503  *)
(* of a full server, and a thread that ends with connections in its table. *)
(* A hand-over between two threads never does.                             *)
(***************************************************************************)
LostOnlyByRefusal ==
  [][\A fd \in open \cap open' :
       Owned(fd) /\ ~Owned(fd)' =>
         \/ fd = lFd /\ Scanned /\ lLow >= ClientsMax
         \/ \E t \in Threads : ~Ended(t) /\ Ended(t)' /\ fd \in Table(t)]_vars

(***************************************************************************)
(* Every step of the server that would read or write memory it does not    *)
(* own has one of these causes:                                            *)
(*   - a client that comes before a thread has made its tables;            *)
(*   - fpx_httpserver_close, while the listener goes on;                   *)
(*   - an upgrade that has seen every WebSocket thread full: there is no   *)
(*     test for the NULL thread it is left with;                           *)
(*   - an upgrade whose connection was closed with its 101, and no other   *)
(*     has moved into the slot;                                            *)
(*   - two HTTP threads that chose the last place of a WebSocket thread,   *)
(*     which neither has kept: with one HTTP thread, or when the thread    *)
(*     chosen was seen full, it never comes to this.                       *)
(***************************************************************************)
SawAllFull(t)  == uPick[t] = NoThread /\ uLow[t] = ClientsMax
LostItsSlot(t) == t \in stale /\ pfds[t][idx[t]] = NoFd
WasOvertaken(t) ==
  /\ HttpCount > 1
  /\ uPick[t] # NoThread
  /\ uLow[t] < count[uPick[t]] /\ count[uPick[t]] = ClientsMax

FaultHasCause ==
  /\ fault = "uninitialised" => "early" \in Env
  /\ fault = "freed" => ~listening
  /\ fault = "noThread" => \E t \in HttpThreads : UpgradeChosen(t) /\ SawAllFull(t)
  /\ fault = "badIndex" =>
       \E t \in HttpThreads : UpgradeChosen(t) /\ (LostItsSlot(t) \/ WasOvertaken(t))

(***************************************************************************)
(* fpx_httpserver_close "stops listening on the HTTP server": no           *)
(* connection is accepted after it.                                        *)
(***************************************************************************)
ClosedAcceptsNothing == [][~listening => lFd' \in {lFd, NoFd}]_vars

(***************************************************************************)
(* A WebSocket thread waits in recv(), its mutex held, for the rest of a   *)
(* frame that its peer never sends, whether the peer stops or hangs up.    *)
(* The thread serves nobody, an HTTP thread that upgrades a connection     *)
(* waits for its mutex, and the listener for that of the HTTP thread.      *)
(***************************************************************************)
WaitsForRest(t) == pc[t] = "recv" /\ inbox[pfds[t][idx[t]]] = "part"
Starved == \E t \in WsThreads : <>[]WaitsForRest(t)

(***************************************************************************)
(* Every connection the listener accepts is placed or refused, although it *)
(* needs a mutex that its owner holds for whole rounds, unless a peer that *)
(* stops in mid-frame, or a memory error, has stopped the server.          *)
(***************************************************************************)
ListenerReturns ==
  Starved \/ ((lFd # NoFd) ~> (lFd = NoFd \/ fault # "none"))

(***************************************************************************)
(* With the same two exceptions, whatever the peer of a placed connection  *)
(* has sent is read, or the connection is closed: none is passed over for  *)
(* ever by an index that moves on after a removal has shifted the table,   *)
(* and none sits with a thread that is asleep.                             *)
(***************************************************************************)
MessagesRead(fd) ==
  \/ Starved
  \/ (\E t \in Threads : fd \in Table(t)) /\ inbox[fd] # "none"
       ~> (inbox[fd] = "none" \/ fault # "none")

EveryMessageRead == \A fd \in Fds : MessagesRead(fd)

-----------------------------------------------------------------------------
(***************************************************************************)
(* Where a connection is, as ConnService sees it.  A slot being given up   *)
(* does not count, so a hand-over happens in the one step that adds the    *)
(* connection to its new owner.                                            *)
(***************************************************************************)
WhereIs(fd) ==
  IF fd \notin open THEN "free"
  ELSE IF fd = lFd THEN "accepted"
  ELSE IF In(WsThreads, fd) THEN "ws"
  ELSE IF In(HttpThreads, fd) THEN "http"
  ELSE "lost"

Service == INSTANCE ConnService
             WITH Upgraders <- HttpThreads, conn <- [fd \in Fds |-> WhereIs(fd)],
                  switched <- upgraded, astray <- stale

\* The threads of the server implement the life of a connection that
\* ConnService describes, whatever the surroundings do.
ImplementsService == Service!Spec
===============================================================================
