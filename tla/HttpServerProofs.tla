--------------------------- MODULE HttpServerProofs ---------------------------
(***************************************************************************)
(* TLAPS proofs about HttpServer, for any number of threads, connections   *)
(* per thread and descriptors, and whatever the surroundings may do.       *)
(***************************************************************************)
EXTENDS HttpServer, FiniteSetTheorems, TLAPS

\* A thread that works on one slot holds it in idx and still counts it.
AtIndex ==
  \A t \in Threads :
    /\ pc[t] \in {"scan", "drop", "recv"} => avail[t] > 0 /\ idx[t] \in Slots
    /\ pc[t] \in {"drop", "recv"} => idx[t] < count[t]

\* Slots past the last connection are cleared.
TailCleared ==
  \A t \in Threads, k \in Slots : k >= count[t] => pfds[t][k] = NoFd

\* What the type invariant rests on.
Shape == TypeOK /\ AtIndex /\ TailCleared

-----------------------------------------------------------------------------
LEMMA ThreadSets ==
  /\ HttpThreads \subseteq Threads /\ WsThreads \subseteq Threads
  /\ HttpThreads \cap WsThreads = {}
  /\ NoThread \notin Threads
  /\ Threads \subseteq Nat
  /\ HttpThreads # {} /\ WsThreads # {}
<1>1. 1 \in HttpThreads /\ HttpCount + 1 \in WsThreads
  BY CountsAssumption DEF HttpThreads, WsThreads
<1> QED
  BY <1>1, CountsAssumption DEF HttpThreads, WsThreads, Threads, NoThread

LEMMA SlotSets ==
  /\ Slots \subseteq Nat
  /\ 0 \in Slots
  /\ \A k \in 0 .. ClientsMax : k < ClientsMax <=> k \in Slots
BY CountsAssumption DEF Slots

\* poll() reports a natural number of connections.
LEMMA PollCount ==
  ASSUME NEW t \in Threads, NEW events, events \subseteq Table(t)
  PROVE  Cardinality(events) \in Nat
BY FdsAssumption, FS_Subset, FS_CardinalityType DEF Table

THEOREM InitShape == Init => Shape
<1> SUFFICES ASSUME Init PROVE Shape
  OBVIOUS
<1>1. TypeOK
  BY ThreadSets, CountsAssumption
  DEF Init, TypeOK, Empty, LockedAt, WsThreads
<1>2. AtIndex /\ TailCleared
  BY SlotSets DEF Init, AtIndex, TailCleared, Empty
<1> QED
  BY <1>1, <1>2 DEF Shape

-----------------------------------------------------------------------------
(* The two operations on a table. *)

TablesTyped ==
  /\ pfds \in [Threads -> [Slots -> Fds \cup {NoFd}]]
  /\ count \in [Threads -> 0 .. ClientsMax]

LEMMA AppendTables ==
  ASSUME TablesTyped, TailCleared,
         NEW p \in Threads, count[p] < ClientsMax,
         NEW fd \in Fds \cup {NoFd}, Append(p, fd)
  PROVE  /\ TablesTyped' /\ TailCleared'
         /\ count[p] \in Slots
         /\ count'[p] = count[p] + 1
         /\ pfds'[p][count[p]] = fd
         /\ \A k \in Slots : k # count[p] => pfds'[p][k] = pfds[p][k]
         /\ \A t \in Threads : t # p => pfds'[t] = pfds[t] /\ count'[t] = count[t]
<1>1. count[p] \in Slots
  BY SlotSets DEF TablesTyped
<1>2. /\ count' = [count EXCEPT ![p] = count[p] + 1]
      /\ pfds' = [pfds EXCEPT ![p] = [pfds[p] EXCEPT ![count[p]] = fd]]
  BY DEF Append
<1>3. TablesTyped'
  BY <1>1, <1>2, CountsAssumption DEF TablesTyped
<1>4. /\ count'[p] = count[p] + 1
      /\ pfds'[p] = [pfds[p] EXCEPT ![count[p]] = fd]
      /\ \A t \in Threads : t # p => pfds'[t] = pfds[t] /\ count'[t] = count[t]
  BY <1>2 DEF TablesTyped
<1>5. /\ pfds'[p][count[p]] = fd
      /\ \A k \in Slots : k # count[p] => pfds'[p][k] = pfds[p][k]
  BY <1>1, <1>4 DEF TablesTyped
<1>6. TailCleared'
  BY <1>1, <1>4, <1>5, SlotSets DEF TailCleared, TablesTyped
<1> QED
  BY <1>1, <1>3, <1>4, <1>5, <1>6

LEMMA RemoveTables ==
  ASSUME TablesTyped, TailCleared,
         NEW t \in Threads, NEW k \in Slots, count[t] > 0, Remove(t, k)
  PROVE  /\ TablesTyped' /\ TailCleared'
         /\ count'[t] = count[t] - 1
         /\ \A s \in Slots : s < count[t] - 1 =>
              pfds'[t][s] = IF s < k THEN pfds[t][s] ELSE pfds[t][s + 1]
         /\ \A u \in Threads : u # t => pfds'[u] = pfds[u] /\ count'[u] = count[u]
<1> DEFINE tab == Without(pfds[t], count[t], k)
<1>1. /\ count' = [count EXCEPT ![t] = count[t] - 1]
      /\ pfds' = [pfds EXCEPT ![t] = tab]
  BY DEF Remove
<1>2. \A s \in Slots : s < count[t] - 1 => s + 1 \in Slots
  BY CountsAssumption DEF Slots, TablesTyped
<1>3. tab \in [Slots -> Fds \cup {NoFd}]
  BY <1>2, CountsAssumption DEF Without, TablesTyped, Slots
<1>4. \A s \in Slots : tab[s] = IF s >= count[t] - 1 THEN NoFd
                               ELSE IF s < k THEN pfds[t][s] ELSE pfds[t][s + 1]
  BY DEF Without
<1> HIDE DEF tab
<1>5. TablesTyped'
  BY <1>1, <1>3, CountsAssumption DEF TablesTyped
<1>6. /\ count'[t] = count[t] - 1
      /\ pfds'[t] = tab
      /\ \A u \in Threads : u # t => pfds'[u] = pfds[u] /\ count'[u] = count[u]
  BY <1>1 DEF TablesTyped
<1>7. \A s \in Slots : s < count[t] - 1 =>
              pfds'[t][s] = IF s < k THEN pfds[t][s] ELSE pfds[t][s + 1]
  BY <1>4, <1>6, SlotSets DEF TablesTyped
<1>8. TailCleared'
  BY <1>4, <1>6 DEF TailCleared
<1> QED
  BY <1>5, <1>6, <1>7, <1>8

-----------------------------------------------------------------------------
(* Every step keeps Shape. *)

NetTyped ==
  /\ open \subseteq Fds /\ ready \subseteq Fds
  /\ inbox \in [Fds -> {"none", "part", "msg"}]
  /\ gone \subseteq Fds /\ upgraded \subseteq Fds

\* Removing a connection and closing its socket, or keeping it.
LEMMA HandledTables ==
  ASSUME Shape, NEW t \in Threads, NEW k \in Slots, k < count[t],
         Consume(pfds[t][k]) \/ Disconnect(t, k)
  PROVE  /\ TablesTyped' /\ TailCleared' /\ NetTyped'
         /\ \A u \in Threads : u # t => count'[u] = count[u]
<1>1. TablesTyped /\ TailCleared /\ NetTyped /\ count[t] > 0
  BY SlotSets DEF Shape, TypeOK, TablesTyped, NetTyped
<1>2. CASE Consume(pfds[t][k])
  BY <1>1, <1>2 DEF Consume, tables, TablesTyped, TailCleared, NetTyped
<1>3. CASE Disconnect(t, k)
  <2>1. Remove(t, k)
    BY <1>3 DEF Disconnect
  <2>2. NetTyped'
    BY <1>1, <1>3 DEF Disconnect, CloseFd, NetTyped
  <2> QED
    BY <1>1, <2>1, <2>2, RemoveTables
<1> QED
  BY <1>2, <1>3

LEMMA LoopShape ==
  ASSUME Shape, NEW t \in Threads,
         \/ ThreadInit(t) \/ CheckListening(t) \/ ThreadExit(t) \/ LockLoop(t)
         \/ Wake(t) \/ SpuriousWake(t) \/ Unlock(t)
  PROVE  Shape'
<1> USE DEF Shape, Goto
<1>1. CASE ThreadInit(t) \/ ThreadExit(t)
  <2>1. PICK p \in {"top", "done"} : pc' = [pc EXCEPT ![t] = p]
    BY <1>1 DEF ThreadInit, ThreadExit
  <2>2. /\ pfds' = [pfds EXCEPT ![t] = Empty]
        /\ UNCHANGED <<listening, count, idx, avail, upgrades, listener, net, fault>>
    BY <1>1 DEF ThreadInit, ThreadExit
  <2>3. /\ Empty \in [Slots -> Fds \cup {NoFd}]
        /\ \A k \in Slots : Empty[k] = NoFd
    BY DEF Empty
  <2>4. TypeOK'
    BY <2>1, <2>2, <2>3 DEF TypeOK, upgrades, listener, net
  <2>5. AtIndex' /\ TailCleared'
    BY <2>1, <2>2, <2>3 DEF TypeOK, AtIndex, TailCleared
  <2> QED
    BY <2>4, <2>5
<1>2. CASE CheckListening(t) \/ LockLoop(t) \/ Wake(t) \/ SpuriousWake(t)
  <2>1. TypeOK'
    BY <1>2 DEF CheckListening, LockLoop, Wake, SpuriousWake, TypeOK, LockedAt,
                tables, upgrades, listener, net
  <2>2. AtIndex' /\ TailCleared'
    BY <1>2 DEF CheckListening, LockLoop, Wake, SpuriousWake, TypeOK, AtIndex,
                TailCleared, tables
  <2> QED
    BY <2>1, <2>2
<1>3. CASE Unlock(t)
  <2>1. TypeOK'
    BY <1>3, CountsAssumption
    DEF Unlock, TypeOK, LockedAt, tables, upgrades, listener
  <2>2. AtIndex' /\ TailCleared'
    BY <1>3 DEF Unlock, TypeOK, AtIndex, TailCleared, tables
  <2> QED
    BY <2>1, <2>2
<1> QED
  BY <1>1, <1>2, <1>3

LEMMA PollShape ==
  ASSUME Shape, NEW t \in Threads, Poll(t)
  PROVE  Shape'
<1> DEFINE events == {fd \in Table(t) : fd \in gone \/ inbox[fd] # "none"}
<1>1. Cardinality(events) \in Nat
  <2> events \subseteq Table(t)
    OBVIOUS
  <2> QED
    BY PollCount
<1>2. events \subseteq Fds
  BY DEF Table
<1>3. TypeOK'
  <2> HIDE DEF events
  <2>1. /\ pc' = [pc EXCEPT ![t] = "serve"]
        /\ ready' = (ready \ Table(t)) \cup events
        /\ avail' = [avail EXCEPT ![t] = Cardinality(events)]
        /\ idx' = [idx EXCEPT ![t] = 0]
        /\ UNCHANGED <<listening, tables, upgrades, listener,
                       open, inbox, gone, upgraded, fault>>
    BY DEF Poll, Goto, events
  <2> QED
    BY <1>1, <1>2, <2>1, CountsAssumption
    DEF Shape, TypeOK, LockedAt, tables, upgrades, listener
<1>4. AtIndex' /\ TailCleared'
  BY DEF Shape, TypeOK, Poll, Goto, AtIndex, TailCleared, tables
<1> QED
  BY <1>3, <1>4 DEF Shape

\* The steps that handle one connection of thread t, in slot k.
LEMMA ServeShape ==
  ASSUME Shape, NEW t \in Threads, NEW k \in Slots,
         \/ SweepExpired(t, k) \/ ServeHangup(t, k) \/ HttpRespond(t, k)
         \/ WsHandle(t, k) \/ WsHandlePart(t, k)
         \/ SwitchProtocols(t, k)
  PROVE  Shape'
<1>1. /\ k < count[t]
      /\ k + 1 \in 0 .. ClientsMax
      /\ pc[t] \in {"sweep", "serve"}
      /\ pc[t] = "serve" => avail[t] \in Nat /\ avail[t] > 0 /\ avail[t] - 1 \in Nat
  BY CountsAssumption
  DEF SweepExpired, ServeHangup, HttpRespond, WsHandle, WsHandlePart,
      SwitchProtocols, Turn, Slots, Shape, TypeOK
<1>2. CASE SweepExpired(t, k)
  <2>1. TablesTyped' /\ TailCleared' /\ NetTyped' /\ \A u \in Threads : u # t => count'[u] = count[u]
    BY <1>1, <1>2, HandledTables DEF SweepExpired
  <2>2. TypeOK'
    BY <1>1, <1>2, <2>1
    DEF SweepExpired, Shape, TypeOK, TablesTyped, NetTyped, upgrades, listener
  <2>3. AtIndex'
    BY <1>1, <1>2, <2>1 DEF SweepExpired, Shape, TypeOK, AtIndex
  <2> QED
    BY <2>1, <2>2, <2>3 DEF Shape
<1>3. CASE ServeHangup(t, k) \/ HttpRespond(t, k) \/ WsHandle(t, k)
  <2>1. /\ Consume(pfds[t][k]) \/ Disconnect(t, k)
        /\ Served(t, k)
        /\ pc[t] = "serve"
        /\ pc' = [pc EXCEPT ![t] = "serve"]
        /\ UNCHANGED <<listening, upgrades, listener, fault>>
    BY <1>3 DEF ServeHangup, HttpRespond, WsHandle, FrameDone, Turn, Shape, TypeOK
  <2>2. TablesTyped' /\ TailCleared' /\ NetTyped' /\ \A u \in Threads : u # t => count'[u] = count[u]
    BY <1>1, <2>1, HandledTables
  <2>3. TypeOK'
    <3>1. avail' \in [Threads -> Nat] /\ idx' \in [Threads -> 0 .. ClientsMax]
      BY <1>1, <2>1 DEF Served, Shape, TypeOK
    <3>2. /\ pc' = [pc EXCEPT ![t] = "serve"]
          /\ UNCHANGED <<listening, upgrades, listener, fault>>
          /\ TablesTyped' /\ NetTyped'
      BY <2>1, <2>2
    <3> QED
      BY <3>1, <3>2
      DEF Shape, TypeOK, TablesTyped, NetTyped, upgrades, listener, LockedAt
  <2>4. AtIndex'
    BY <1>1, <2>1, <2>2 DEF Served, Shape, TypeOK, AtIndex
  <2> QED
    BY <2>2, <2>3, <2>4 DEF Shape
<1>4. CASE WsHandlePart(t, k)
  <2>1. TypeOK'
    <3> k \in 0 .. ClientsMax
      BY CountsAssumption DEF Slots
    <3> QED
      BY <1>4
      DEF WsHandlePart, Shape, TypeOK, LockedAt, tables, upgrades, listener, net
  <2>2. AtIndex' /\ TailCleared'
    BY <1>1, <1>4 DEF WsHandlePart, Turn, Shape, TypeOK, AtIndex, TailCleared, tables
  <2> QED
    BY <2>1, <2>2 DEF Shape
<1>5. CASE SwitchProtocols(t, k)
  <2>1. /\ pc' = [pc EXCEPT ![t] = "scan"]
        /\ idx' = [idx EXCEPT ![t] = k]
        /\ pc[t] = "serve"
        /\ UNCHANGED <<listening, avail, uNext, uLow, uPick, listener, fault>>
        /\ stale' \subseteq HttpThreads
    BY <1>5 DEF SwitchProtocols, Turn, Shape, TypeOK
  <2>2. TablesTyped' /\ TailCleared' /\ NetTyped' /\ \A u \in Threads : u # t => count'[u] = count[u]
    <3>1. CASE Disconnect(t, k)
      BY <1>1, <3>1, HandledTables
    <3>2. CASE /\ inbox' = [inbox EXCEPT ![pfds[t][k]] = "none"]
               /\ upgraded' = upgraded \cup {pfds[t][k]}
               /\ UNCHANGED <<tables, open, ready, gone>>
      <4>1. pfds[t][k] \in Fds
        BY <1>5 DEF SwitchProtocols, Turn, Shape, TypeOK
      <4> QED
        BY <3>2, <4>1 DEF tables, Shape, TypeOK, TablesTyped, TailCleared, NetTyped
    <3> QED
      BY <1>5, <3>1, <3>2 DEF SwitchProtocols
  <2>3. TypeOK'
    <3> k \in 0 .. ClientsMax
      BY CountsAssumption DEF Slots
    <3> QED
      BY <2>1, <2>2
      DEF Shape, TypeOK, TablesTyped, NetTyped, listener, LockedAt
  <2>4. AtIndex'
    BY <1>1, <2>1, <2>2 DEF Shape, TypeOK, AtIndex
  <2> QED
    BY <2>2, <2>3, <2>4 DEF Shape
<1> QED
  BY <1>2, <1>3, <1>4, <1>5

LEMMA RecvShape ==
  ASSUME Shape, NEW t \in Threads, WsHandleRest(t) \/ WsReset(t)
  PROVE  Shape'
<1> DEFINE k == idx[t]
<1>1. /\ k \in Slots /\ k < count[t] /\ k + 1 \in 0 .. ClientsMax
      /\ avail[t] - 1 \in Nat
  BY CountsAssumption
  DEF WsHandleRest, WsReset, Goto, Shape, TypeOK, AtIndex, Slots
<1>2. /\ Consume(pfds[t][k]) \/ Disconnect(t, k)
      /\ Served(t, k)
      /\ pc' = [pc EXCEPT ![t] = "serve"]
      /\ UNCHANGED <<listening, upgrades, listener, fault>>
  BY DEF WsHandleRest, WsReset, FrameDone, Goto
<1> HIDE DEF k
<1>3. /\ TablesTyped' /\ TailCleared' /\ NetTyped'
      /\ \A u \in Threads : u # t => count'[u] = count[u]
  BY <1>1, <1>2, HandledTables
<1>4. avail' \in [Threads -> Nat] /\ idx' \in [Threads -> 0 .. ClientsMax]
  BY <1>1, <1>2 DEF Served, Shape, TypeOK
<1>5. TypeOK'
  BY <1>2, <1>3, <1>4
  DEF Shape, TypeOK, TablesTyped, NetTyped, upgrades, listener, LockedAt
<1>6. AtIndex'
  BY <1>2, <1>3 DEF Served, Shape, TypeOK, AtIndex
<1> QED
  BY <1>3, <1>5, <1>6 DEF Shape

\* What the checks before an addition leave: a table with room.
LEMMA NoAddFault ==
  ASSUME NEW p, NEW fd, AddFault(p, fd) = "none"
  PROVE  p # NoThread /\ fd # NoFd /\ ~(count[p] >= ClientsMax) /\ pc[p] # "new" /\ ~Ended(p)
BY DEF AddFault

LEMMA AddFaultValues ==
  ASSUME NEW p, NEW fd
  PROVE  AddFault(p, fd) \in {"none", "uninitialised", "freed", "noThread", "badIndex"}
BY DEF AddFault

LEMMA UpgradeShape ==
  ASSUME Shape, NEW t \in HttpThreads, UpgradeStep(t)
  PROVE  Shape'
<1>1. t \in Threads
  BY ThreadSets
<1>2. CASE UpgradeScan(t)
  <2>1. /\ uNext[t] \in WsThreads /\ uNext[t] \in Threads
        /\ uNext[t] + 1 \in HttpCount + 1 .. HttpCount + WsCount + 1
        /\ count[uNext[t]] \in 0 .. ClientsMax
    BY <1>2, CountsAssumption, ThreadSets DEF UpgradeScan, WsThreads, Shape, TypeOK
  <2>2. TypeOK'
    BY <1>2, <2>1 DEF UpgradeScan, Shape, TypeOK, tables, loops, listener, net
  <2>3. AtIndex' /\ TailCleared'
    BY <1>2 DEF UpgradeScan, Shape, AtIndex, TailCleared, tables, loops
  <2> QED
    BY <2>2, <2>3 DEF Shape
<1>3. CASE UpgradeAdd(t)
  <2> DEFINE p == uPick[t]
             fd == pfds[t][idx[t]]
  <2>1. /\ pc[t] = "scan" /\ idx[t] \in Slots /\ avail[t] > 0
        /\ fd \in Fds \cup {NoFd}
    BY <1>1, <1>3 DEF UpgradeAdd, UpgradeChosen, Shape, TypeOK, AtIndex
  <2>2. p # NoThread /\ fd # NoFd /\ ~(count[p] >= ClientsMax)
    BY <1>3, NoAddFault DEF UpgradeAdd
  <2>3. p \in WsThreads /\ p \in Threads /\ p # t /\ count[p] < ClientsMax
    <3>1. p \in WsThreads
      BY <2>2 DEF Shape, TypeOK
    <3>2. p \in Threads /\ p # t
      BY <3>1, ThreadSets
    <3>3. count[p] \in 0 .. ClientsMax
      BY <3>2 DEF Shape, TypeOK
    <3> QED
      BY <2>2, <3>1, <3>2, <3>3, CountsAssumption
  <2>4. idx[t] < count[t]
    BY <1>1, <2>1, <2>2, SlotSets DEF Shape, TailCleared, TypeOK
  <2>5. /\ Append(p, fd)
        /\ ready' = ready \ {fd}
        /\ UpgradeReset(t)
        /\ \E q \in [Threads -> {"new", "top", "lock", "wait", "woken", "done"} \cup LockedAt] :
             /\ \A u \in Threads : q[u] \in {"drop", "recv", "scan"} => q[u] = pc[u]
             /\ pc' = [q EXCEPT ![t] = "drop"]
        /\ UNCHANGED <<listening, idx, avail, listener,
                       open, inbox, gone, upgraded, fault>>
    BY <1>1, <1>3, <2>3 DEF UpgradeAdd, Signalled, Shape, TypeOK
  <2>6. TablesTyped /\ TailCleared
    BY DEF Shape, TypeOK, TablesTyped
  <2> HIDE DEF p, fd
  <2>7. /\ TablesTyped' /\ TailCleared'
        /\ count'[p] = count[p] + 1
        /\ \A u \in Threads : u # p => count'[u] = count[u]
    BY <2>1, <2>3, <2>5, <2>6, AppendTables
  <2>8. uNext' \in [HttpThreads -> HttpCount + 1 .. HttpCount + WsCount + 1]
        /\ uLow' \in [HttpThreads -> 0 .. ClientsMax]
        /\ uPick' \in [HttpThreads -> WsThreads \cup {NoThread}]
        /\ stale' \subseteq HttpThreads
    BY <2>5, CountsAssumption DEF UpgradeReset, Shape, TypeOK
  <2>9. TypeOK'
    BY <2>5, <2>7, <2>8 DEF Shape, TypeOK, TablesTyped, listener, LockedAt
  <2>10. AtIndex'
    BY <1>1, <2>1, <2>3, <2>4, <2>5, <2>7 DEF Shape, TypeOK, AtIndex
  <2> QED
    BY <2>7, <2>9, <2>10 DEF Shape
<1>4. CASE UpgradeFault(t)
  BY <1>4, AddFaultValues
  DEF UpgradeFault, Shape, TypeOK, AtIndex, TailCleared, tables, loops, upgrades, listener, net
<1>5. CASE UpgradeDrop(t)
  <2> DEFINE k == idx[t]
  <2>1. /\ k \in Slots /\ k < count[t] /\ k + 1 \in 0 .. ClientsMax
        /\ avail[t] - 1 \in Nat /\ count[t] > 0
    BY <1>1, <1>5, CountsAssumption
    DEF UpgradeDrop, Goto, Shape, TypeOK, AtIndex, Slots
  <2>2. /\ Remove(t, k) /\ Served(t, k)
        /\ pc' = [pc EXCEPT ![t] = "serve"]
        /\ UNCHANGED <<listening, upgrades, listener, net, fault>>
    BY <1>5 DEF UpgradeDrop, Goto
  <2> HIDE DEF k
  <2>3. TablesTyped /\ TailCleared
    BY DEF Shape, TypeOK, TablesTyped
  <2>4. /\ TablesTyped' /\ TailCleared'
        /\ \A u \in Threads : u # t => count'[u] = count[u]
    BY <1>1, <2>1, <2>2, <2>3, RemoveTables
  <2>5. avail' \in [Threads -> Nat] /\ idx' \in [Threads -> 0 .. ClientsMax]
    BY <1>1, <2>1, <2>2 DEF Served, Shape, TypeOK
  <2>6. TypeOK'
    BY <2>2, <2>4, <2>5
    DEF Shape, TypeOK, TablesTyped, upgrades, listener, net, LockedAt
  <2>7. AtIndex'
    BY <2>2, <2>4 DEF Served, Shape, TypeOK, AtIndex
  <2> QED
    BY <2>4, <2>6, <2>7 DEF Shape
<1> QED
  BY <1>2, <1>3, <1>4, <1>5 DEF UpgradeStep

LEMMA ListenerShape ==
  ASSUME Shape, ListenerStep \/ AcceptFails \/ \E fd \in Fds : Accept(fd)
  PROVE  Shape'
<1>1. CASE AcceptFails \/ Refuse \/ PlaceIgnored \/ \E fd \in Fds : Accept(fd)
  <2>1. /\ lFd' \in Fds \cup {NoFd}
        /\ lpc' \in {"accept", "scan"}
        /\ lNext' = 1 /\ lLow' = ClientsMax /\ lPick' = NoThread
        /\ open' \subseteq Fds
        /\ UNCHANGED <<listening, tables, loops, upgrades,
                       ready, inbox, gone, upgraded, fault>>
    BY <1>1
    DEF AcceptFails, Refuse, PlaceIgnored, Accept, StartScan, Rest, net, Shape, TypeOK
  <2>2. lNext' \in 1 .. HttpCount + 1 /\ lLow' \in 0 .. ClientsMax
    BY <2>1, CountsAssumption
  <2>3. TypeOK'
    BY <2>1, <2>2 DEF Shape, TypeOK, tables, loops, upgrades
  <2>4. AtIndex' /\ TailCleared'
    BY <2>1 DEF Shape, AtIndex, TailCleared, tables, loops
  <2> QED
    BY <2>3, <2>4 DEF Shape
<1>2. CASE Scan
  <2>1. /\ lNext \in HttpThreads /\ lNext \in Threads
        /\ lNext + 1 \in 1 .. HttpCount + 1
        /\ count[lNext] \in 0 .. ClientsMax
    BY <1>2, ThreadSets, CountsAssumption DEF Scan, HttpThreads, Shape, TypeOK
  <2>2. TypeOK'
    BY <1>2, <2>1 DEF Scan, Shape, TypeOK, tables, loops, upgrades, net
  <2>3. AtIndex' /\ TailCleared'
    BY <1>2 DEF Scan, Shape, AtIndex, TailCleared, tables, loops
  <2> QED
    BY <2>2, <2>3 DEF Shape
<1>3. CASE Place
  <2>1. lPick # NoThread /\ ~(count[lPick] >= ClientsMax)
    BY <1>3, NoAddFault DEF Place
  <2>2. lPick \in HttpThreads /\ lPick \in Threads
    BY <2>1, ThreadSets DEF Shape, TypeOK
  <2>3. count[lPick] < ClientsMax
    BY <2>1, <2>2, CountsAssumption DEF Shape, TypeOK
  <2>4. /\ Append(lPick, lFd) /\ lFd \in Fds \cup {NoFd}
        /\ TablesTyped /\ TailCleared
    BY <1>3 DEF Place, Shape, TypeOK, TablesTyped
  <2>5. /\ TablesTyped' /\ TailCleared'
        /\ count'[lPick] = count[lPick] + 1
        /\ \A t \in Threads : t # lPick => count'[t] = count[t]
    BY <2>2, <2>3, <2>4, AppendTables
  <2>6. /\ pc' \in [Threads -> {"new", "top", "lock", "wait", "woken", "done"} \cup LockedAt]
        /\ \A t \in Threads : pc'[t] \in {"drop", "recv", "scan"} => pc'[t] = pc[t]
    BY <1>3, <2>2 DEF Place, Signalled, Shape, TypeOK
  <2>7. /\ lFd' \in Fds \cup {NoFd} /\ lpc' \in {"accept", "scan"}
        /\ lNext' \in 1 .. HttpCount + 1 /\ lLow' \in 0 .. ClientsMax
        /\ lPick' \in HttpThreads \cup {NoThread}
        /\ UNCHANGED <<listening, idx, avail, upgrades, net, fault>>
    BY <1>3, CountsAssumption DEF Place, Rest
  <2>8. TypeOK'
    BY <2>5, <2>6, <2>7 DEF Shape, TypeOK, TablesTyped, upgrades, net
  <2>9. AtIndex'
    <3>1. \A t \in Threads : count[t] \in Nat /\ count'[t] >= count[t]
      BY <2>2, <2>5 DEF Shape, TypeOK
    <3> QED
      BY <2>5, <2>6, <2>7, <3>1 DEF Shape, TypeOK, TablesTyped, AtIndex
  <2> QED
    BY <2>5, <2>8, <2>9 DEF Shape
<1>4. CASE PlaceFault
  BY <1>4
  DEF PlaceFault, Shape, TypeOK, AtIndex, TailCleared, tables, loops, upgrades, listener, net
<1> QED
  BY <1>1, <1>2, <1>3, <1>4 DEF ListenerStep

LEMMA OutsideShape ==
  ASSUME Shape, Close \/ \E fd \in Fds : PeerStep(fd)
  PROVE  Shape'
<1>1. CASE Close
  BY <1>1 DEF Close, Shape, TypeOK, AtIndex, TailCleared, tables, loops, upgrades, listener, net
<1>2. ASSUME NEW fd \in Fds, PeerStep(fd) PROVE Shape'
  BY <1>2
  DEF PeerStep, PeerSends, PeerSendsPart, PeerSendsRest, PeerHangsUp,
      Shape, TypeOK, AtIndex, TailCleared, tables, loops, upgrades, listener
<1> QED
  BY <1>1, <1>2

\* Every step, whoever takes it, keeps the invariant the types rest on.
THEOREM StepShape == Shape /\ [Next]_vars => Shape'
<1> SUFFICES ASSUME Shape, [Next]_vars PROVE Shape'
  OBVIOUS
<1>1. ASSUME NEW t \in Threads, ThreadStep(t) \/ SpuriousWake(t) \/ WsReset(t)
      PROVE  Shape'
  BY <1>1, LoopShape, PollShape, ServeShape, RecvShape DEF ThreadStep
<1>2. CASE UNCHANGED vars
  BY <1>2
  DEF vars, Shape, TypeOK, AtIndex, TailCleared, tables, loops, upgrades, listener, net
<1> QED
  BY <1>1, <1>2, UpgradeShape, ListenerShape, OutsideShape DEF Next, Halted

(***************************************************************************)
(* The model is type correct: the fixed-size tables, their counts and the  *)
(* indices of every loop stay within CLIENTS_DEFAULT.                      *)
(***************************************************************************)
THEOREM TypeCorrect == Spec => []TypeOK
<1>1. Shape => TypeOK
  BY DEF Shape
<1> QED
  BY <1>1, InitShape, StepShape, PTL DEF Spec

-----------------------------------------------------------------------------
(* No lost wake-up. *)

\* Thread u is not put to sleep over a table that has just grown.
Awake(u) ==
  \/ pc'[u] # "wait"
  \/ count'[u] = count[u] /\ (pc[u] = "wait" \/ count[u] < 1)

LEMMA StepAwake ==
  ASSUME Shape, NobodySleepsOnWork, Next, NEW u \in Threads
  PROVE  Awake(u)
<1> USE DEF Awake
<1>1. ASSUME NEW t \in Threads, NEW k \in Slots,
             \/ SweepExpired(t, k) \/ ServeHangup(t, k) \/ HttpRespond(t, k)
             \/ SwitchProtocols(t, k) \/ WsHandle(t, k) \/ WsHandlePart(t, k)
             \/ k = idx[t] /\ (WsHandleRest(t) \/ WsReset(t))
      PROVE  Awake(u)
  <2>1. /\ pc[t] # "wait" /\ pc'[t] # "wait"
        /\ \A v \in Threads : v # t => pc'[v] = pc[v]
    BY <1>1
    DEF SweepExpired, ServeHangup, HttpRespond, SwitchProtocols, WsHandle,
        WsHandlePart, WsHandleRest, WsReset, FrameDone, Turn, Goto, Shape, TypeOK
  <2>2. k < count[t]
    BY <1>1
    DEF SweepExpired, ServeHangup, HttpRespond, SwitchProtocols, WsHandle,
        WsHandlePart, WsHandleRest, WsReset, Turn, Goto, Shape, AtIndex
  <2>3. count' = count \/ Consume(pfds[t][k]) \/ Disconnect(t, k)
    BY <1>1
    DEF SweepExpired, ServeHangup, HttpRespond, SwitchProtocols, WsHandle,
        WsHandlePart, WsHandleRest, WsReset, FrameDone, tables
  <2>4. \A v \in Threads : v # t => count'[v] = count[v]
    BY <2>2, <2>3, HandledTables
  <2> QED
    BY <2>1, <2>4
<1>2. ASSUME NEW t \in Threads,
             \/ ThreadInit(t) \/ CheckListening(t) \/ ThreadExit(t) \/ LockLoop(t)
             \/ Wake(t) \/ SpuriousWake(t) \/ Unlock(t) \/ Poll(t)
      PROVE  Awake(u)
  BY <1>2
  DEF ThreadInit, CheckListening, ThreadExit, LockLoop, Wake, SpuriousWake,
      Unlock, Poll, Goto, tables, Shape, TypeOK
<1>3. ASSUME NEW t \in HttpThreads, UpgradeStep(t)
      PROVE  Awake(u)
  <2>1. t \in Threads
    BY ThreadSets
  <2>2. CASE UpgradeScan(t) \/ UpgradeFault(t)
    BY <2>2 DEF UpgradeScan, UpgradeFault, tables, loops
  <2>3. CASE UpgradeAdd(t)
    BY <2>1, <2>3
    DEF UpgradeAdd, Append, Signalled, NobodySleepsOnWork, Shape, TypeOK
  <2>4. CASE UpgradeDrop(t)
    BY <2>1, <2>4 DEF UpgradeDrop, Goto, Remove, Shape, TypeOK
  <2> QED
    BY <1>3, <2>2, <2>3, <2>4 DEF UpgradeStep
<1>4. ASSUME ListenerStep \/ AcceptFails \/ \E fd \in Fds : Accept(fd)
      PROVE  Awake(u)
  <2>1. CASE Place
    BY <2>1 DEF Place, Append, Signalled, NobodySleepsOnWork, Shape, TypeOK
  <2>2. CASE ~Place
    BY <1>4, <2>2
    DEF ListenerStep, Scan, Refuse, PlaceIgnored, PlaceFault, AcceptFails, Accept,
        tables, loops
  <2> QED
    BY <2>1, <2>2
<1>5. ASSUME Close \/ (\E fd \in Fds : PeerStep(fd)) \/ UNCHANGED vars
      PROVE  Awake(u)
  BY <1>5
  DEF Close, PeerStep, PeerSends, PeerSendsPart, PeerSendsRest, PeerHangsUp,
      vars, tables, loops
<1>6. \A t \in Threads : WsHandleRest(t) \/ WsReset(t) => idx[t] \in Slots
  BY DEF WsHandleRest, WsReset, Goto, Shape, AtIndex
<1>7. ASSUME NEW t \in Threads, ThreadStep(t) \/ SpuriousWake(t) \/ WsReset(t)
      PROVE  Awake(u)
  BY <1>1, <1>2, <1>6, <1>7 DEF ThreadStep
<1> QED
  BY <1>3, <1>4, <1>5, <1>7 DEF Next, Halted

(***************************************************************************)
(* A thread asleep on its condition owns no connection: the one signal     *)
(* that is sent, for slot 0, is never lost, however many additions,        *)
(* hand-overs and spurious wake-ups come together.                         *)
(***************************************************************************)
THEOREM NoLostWakeup == Spec => []NobodySleepsOnWork
<1>1. Init => NobodySleepsOnWork
  BY DEF Init, NobodySleepsOnWork
<1>2. Shape /\ NobodySleepsOnWork /\ [Next]_vars => NobodySleepsOnWork'
  <2> SUFFICES ASSUME Shape, NobodySleepsOnWork, [Next]_vars,
                      NEW u \in Threads, pc'[u] = "wait"
               PROVE  count'[u] = 0
    BY DEF NobodySleepsOnWork
  <2>1. CASE Next
    BY <2>1, StepAwake DEF Awake, NobodySleepsOnWork, Shape, TypeOK
  <2>2. CASE UNCHANGED vars
    BY <2>2 DEF vars, tables, loops, NobodySleepsOnWork
  <2> QED
    BY <2>1, <2>2
<1> QED
  BY <1>1, <1>2, InitShape, StepShape, PTL DEF Spec

-----------------------------------------------------------------------------
(* The listener's choice. *)

\* While a thread is chosen, its count is not above the one that was read.
PickIsCurrent ==
  lLow < ClientsMax => lPick \in HttpThreads /\ count[lPick] <= lLow

\* Only the listener adds to the table of an HTTP thread.
LEMMA HttpCountsFall ==
  ASSUME Shape, [Next]_vars, ~Place, NEW h \in HttpThreads
  PROVE  count'[h] <= count[h]
<1>1. h \in Threads /\ h \notin WsThreads /\ h # NoThread /\ count[h] \in Nat
  BY ThreadSets DEF Shape, TypeOK
<1>2. CASE count' = count
  BY <1>1, <1>2
<1>3. CASE \E t \in Threads, k \in Slots : Remove(t, k)
  BY <1>1, <1>3 DEF Remove, Shape, TypeOK
<1>4. CASE \E t \in HttpThreads : UpgradeAdd(t)
  <2>1. PICK t \in HttpThreads : UpgradeAdd(t)
    BY <1>4
  <2>2. uPick[t] # h
    BY <1>1 DEF Shape, TypeOK
  <2> QED
    BY <1>1, <2>1, <2>2 DEF UpgradeAdd, Append, Shape, TypeOK
<1>5. ASSUME NEW t \in Threads, ThreadStep(t) \/ SpuriousWake(t) \/ WsReset(t)
      PROVE  count' = count \/ \E k \in Slots : Remove(t, k)
  <2>1. ASSUME NEW k \in Slots, Consume(pfds[t][k]) \/ Disconnect(t, k)
        PROVE  count' = count \/ \E s \in Slots : Remove(t, s)
    BY <2>1 DEF Consume, Disconnect, tables
  <2>2. WsHandleRest(t) \/ WsReset(t) => idx[t] \in Slots
    BY DEF WsHandleRest, WsReset, Goto, Shape, AtIndex
  <2>3. ASSUME NEW k \in Slots,
               \/ SweepExpired(t, k) \/ ServeHangup(t, k) \/ HttpRespond(t, k)
               \/ SwitchProtocols(t, k) \/ WsHandle(t, k) \/ WsHandlePart(t, k)
        PROVE  count' = count \/ \E s \in Slots : Remove(t, s)
    BY <2>1, <2>3
    DEF SweepExpired, ServeHangup, HttpRespond, SwitchProtocols, WsHandle,
        WsHandlePart, FrameDone, tables
  <2>4. CASE WsHandleRest(t) \/ WsReset(t)
    BY <2>1, <2>2, <2>4 DEF WsHandleRest, WsReset, FrameDone
  <2>5. CASE \/ ThreadInit(t) \/ CheckListening(t) \/ ThreadExit(t) \/ LockLoop(t)
             \/ Wake(t) \/ SpuriousWake(t) \/ Unlock(t) \/ Poll(t)
    BY <2>5
    DEF ThreadInit, CheckListening, ThreadExit, LockLoop, Wake, SpuriousWake,
        Unlock, Poll, tables
  <2> QED
    BY <1>5, <2>3, <2>4, <2>5 DEF ThreadStep
<1>6. ASSUME NEW t \in HttpThreads, UpgradeStep(t), ~UpgradeAdd(t)
      PROVE  count' = count \/ \E k \in Slots : Remove(t, k)
  <2> t \in Threads
    BY ThreadSets
  <2> QED
    BY <1>6
    DEF UpgradeStep, UpgradeScan, UpgradeFault, UpgradeDrop, Goto, tables,
        Shape, AtIndex
<1>7. ASSUME \/ ListenerStep \/ AcceptFails \/ \E fd \in Fds : Accept(fd)
             \/ Close \/ \E fd \in Fds : PeerStep(fd)
             \/ UNCHANGED vars
      PROVE  count' = count
  BY <1>7
  DEF ListenerStep, Scan, Refuse, PlaceIgnored, PlaceFault, AcceptFails, Accept,
      Close, PeerStep, PeerSends, PeerSendsPart, PeerSendsRest, PeerHangsUp,
      vars, tables
<1> QED
  BY <1>2, <1>3, <1>4, <1>5, <1>6, <1>7, ThreadSets DEF Next, Halted

LEMMA StepPick ==
  ASSUME Shape, PickIsCurrent, [Next]_vars
  PROVE  PickIsCurrent'
<1>1. CASE Place
  BY <1>1, CountsAssumption DEF Place, Rest, PickIsCurrent
<1>2. CASE Scan
  <2>1. lNext \in HttpThreads /\ lNext \in Threads /\ count' = count
    BY <1>2, ThreadSets DEF Scan, tables
  <2>2. count[lNext] \in 0 .. ClientsMax
    BY <2>1 DEF Shape, TypeOK
  <2> QED
    BY <1>2, <2>1, <2>2, CountsAssumption DEF Scan, PickIsCurrent, Shape, TypeOK
<1>3. CASE AcceptFails \/ Refuse \/ PlaceIgnored \/ \E fd \in Fds : Accept(fd)
  BY <1>3, CountsAssumption
  DEF AcceptFails, Refuse, PlaceIgnored, Accept, StartScan, Rest, PickIsCurrent
<1>4. CASE ~Place /\ UNCHANGED listener
  <2>1. \A h \in HttpThreads : count'[h] <= count[h]
    BY <1>4, HttpCountsFall
  <2>2. \A h \in HttpThreads : count[h] \in Nat /\ count'[h] \in Nat
    BY StepShape, ThreadSets DEF Shape, TypeOK
  <2>3. lLow \in Nat /\ lLow' = lLow /\ lPick' = lPick
    BY <1>4 DEF Shape, TypeOK, listener
  <2>4. SUFFICES ASSUME lLow < ClientsMax PROVE lPick \in HttpThreads /\ count'[lPick] <= lLow
    BY <2>3 DEF PickIsCurrent
  <2> QED
    BY <2>1, <2>2, <2>3, <2>4 DEF PickIsCurrent
<1>5. ASSUME NEW t \in Threads, ThreadStep(t) \/ SpuriousWake(t) \/ WsReset(t)
      PROVE  UNCHANGED listener
  BY <1>5
  DEF ThreadStep, ThreadInit, CheckListening, ThreadExit, LockLoop, Wake, SpuriousWake,
      Unlock, Poll, SweepExpired, ServeHangup, HttpRespond, SwitchProtocols, WsHandle,
      WsHandlePart, WsHandleRest, WsReset, FrameDone
<1>6. ASSUME NEW t \in HttpThreads, UpgradeStep(t)
      PROVE  UNCHANGED listener
  BY <1>6 DEF UpgradeStep, UpgradeScan, UpgradeAdd, UpgradeFault, UpgradeDrop
<1>7. ASSUME PlaceFault \/ Close \/ (\E fd \in Fds : PeerStep(fd)) \/ UNCHANGED vars
      PROVE  UNCHANGED listener
  BY <1>7
  DEF PlaceFault, Close, PeerStep, PeerSends, PeerSendsPart, PeerSendsRest,
      PeerHangsUp, vars
<1> QED
  BY <1>1, <1>2, <1>3, <1>4, <1>5, <1>6, <1>7 DEF Next, Halted, ListenerStep

(***************************************************************************)
(* Between its scan and its addition the listener holds no lock, and yet   *)
(* the thread it chose has room when it adds: it is the only one that adds *)
(* to HTTP threads, so what it read can only have become smaller.          *)
(***************************************************************************)
THEOREM ListenerNeverOverfills == Spec => []ChosenThreadHasRoom
<1>1. Init => PickIsCurrent
  BY CountsAssumption DEF Init, PickIsCurrent
<1>2. Shape /\ PickIsCurrent => ChosenThreadHasRoom
  <2> SUFFICES ASSUME Shape, PickIsCurrent, lLow < ClientsMax
               PROVE  count[lPick] < ClientsMax
    BY DEF ChosenThreadHasRoom
  <2>1. lPick \in Threads /\ count[lPick] <= lLow
    BY ThreadSets DEF PickIsCurrent
  <2> QED
    BY <2>1, CountsAssumption DEF Shape, TypeOK
<1>3. Shape /\ PickIsCurrent /\ [Next]_vars => PickIsCurrent'
  BY StepPick
<1> QED
  BY <1>1, <1>2, <1>3, InitShape, StepShape, PTL DEF Spec

-----------------------------------------------------------------------------
(* One owner per descriptor. *)

\* OneOwner, with what it rests on: the listener's descriptor is open, and a
\* table that has not been allocated counts nothing.
Owners ==
  /\ OneOwner
  /\ lFd # NoFd => lFd \in open
  /\ \A t \in Threads : pc[t] = "new" => count[t] = 0

\* A thread that has ended, or is giving a connection away, stays there.
Stays(u) == pc[u] \in {"done", "drop"} => pc'[u] = pc[u] /\ idx'[u] = idx[u]

LEMMA StaysLive ==
  ASSUME NEW u \in Threads, NEW k \in Slots, Stays(u),
         count'[u] = count[u], Live(u, k)'
  PROVE  Live(u, k)
BY DEF Stays, Live, Ended

\* A step that leaves the tables alone and closes nothing.
LEMMA KeepOwners ==
  ASSUME Owners, TypeOK, UNCHANGED tables,
         \A u \in Threads : Stays(u),
         \A u \in Threads : pc'[u] = "new" => pc[u] = "new",
         open \subseteq open',
         lFd' \in {lFd, NoFd} \/ lFd' \in open' \ open
  PROVE  Owners'
<1>1. \A u \in Threads, k \in Slots : Live(u, k)' => Live(u, k) /\ pfds'[u][k] = pfds[u][k]
  BY StaysLive DEF tables
<1>2. NoFd \notin open
  BY FdsAssumption DEF TypeOK
<1>3. OneOwner'
  BY <1>1, <1>2 DEF Owners, OneOwner
<1> QED
  BY <1>3 DEF Owners, tables

\* Where the connection in slot s came from when slot k was removed from t.
Origin(t, k, u, s) == IF u = t /\ s >= k THEN s + 1 ELSE s

LEMMA RemoveOrigin ==
  ASSUME Shape, NEW t \in Threads, NEW k \in Slots, k < count[t], Remove(t, k),
         \A u \in Threads : u # t => Stays(u),
         ~Ended(t), pc[t] = "drop" => k = idx[t],
         NEW u \in Threads, NEW s \in Slots, Live(u, s)'
  PROVE  /\ Origin(t, k, u, s) \in Slots
         /\ Live(u, Origin(t, k, u, s))
         /\ pfds'[u][s] = pfds[u][Origin(t, k, u, s)]
         /\ u = t => Origin(t, k, u, s) # k
<1>1. /\ TablesTyped /\ TailCleared /\ count[t] > 0
      /\ count[t] \in 0 .. ClientsMax
  BY SlotSets DEF Shape, TypeOK, TablesTyped
<1>2. /\ count'[t] = count[t] - 1
      /\ \A m \in Slots : m < count[t] - 1 =>
           pfds'[t][m] = IF m < k THEN pfds[t][m] ELSE pfds[t][m + 1]
      /\ u # t => pfds'[u] = pfds[u] /\ count'[u] = count[u]
  BY <1>1, RemoveTables
<1>3. CASE u # t
  BY <1>2, <1>3, StaysLive DEF Origin
<1>4. CASE u = t
  <2>1. s < count[t] - 1 /\ s \in Nat /\ k \in Nat
    BY <1>2, <1>4, SlotSets DEF Live
  <2>2. s + 1 \in Slots /\ s + 1 < count[t]
    BY <1>1, <2>1, CountsAssumption DEF Slots
  <2> QED
    BY <1>1, <1>2, <1>4, <2>1, <2>2 DEF Origin, Live
<1> QED
  BY <1>3, <1>4

LEMMA OriginInjective ==
  ASSUME NEW t, NEW k \in Slots, NEW u, NEW s \in Slots, NEW m \in Slots,
         Origin(t, k, u, s) = Origin(t, k, u, m)
  PROVE  s = m
BY SlotSets DEF Origin

\* A connection leaves the table of its owner and is closed.
LEMMA DisconnectOwners ==
  ASSUME Shape, Owners, NEW t \in Threads, NEW k \in Slots, k < count[t],
         Disconnect(t, k), lFd' = lFd,
         \A u \in Threads : u # t => Stays(u),
         pc[t] \in {"sweep", "serve", "recv"},
         \A u \in Threads : pc'[u] = "new" => u # t /\ pc[u] = "new"
  PROVE  Owners'
<1> DEFINE fd == pfds[t][k]
<1>1. /\ Live(t, k) /\ ~Ended(t) /\ pc[t] # "drop"
      /\ Remove(t, k) /\ open' = open \ {fd}
  BY DEF Live, Ended, Disconnect, CloseFd
<1>2. fd \in open \ {lFd}
  BY <1>1 DEF Owners, OneOwner
<1>3. ASSUME NEW u \in Threads, NEW s \in Slots, Live(u, s)'
      PROVE  /\ Origin(t, k, u, s) \in Slots
             /\ Live(u, Origin(t, k, u, s))
             /\ pfds'[u][s] = pfds[u][Origin(t, k, u, s)]
             /\ u = t => Origin(t, k, u, s) # k
  BY <1>1, <1>3, RemoveOrigin
<1>4. ASSUME NEW u \in Threads, NEW s \in Slots, Live(u, s)'
      PROVE  pfds'[u][s] \in open' \ {lFd'}
  <2>1. pfds'[u][s] # fd
    BY <1>1, <1>3, <1>4 DEF Owners, OneOwner
  <2>2. pfds'[u][s] \in open \ {lFd}
    BY <1>3, <1>4 DEF Owners, OneOwner
  <2> QED
    BY <1>1, <2>1, <2>2
<1>5. ASSUME NEW u \in Threads, NEW s \in Slots, Live(u, s)',
             NEW v \in Threads, NEW m \in Slots, Live(v, m)',
             pfds'[v][m] = pfds'[u][s]
      PROVE  v = u /\ m = s
  <2>1. v = u /\ Origin(t, k, v, m) = Origin(t, k, u, s)
    BY <1>3, <1>5 DEF Owners, OneOwner
  <2> QED
    BY <2>1, OriginInjective
<1>6. OneOwner'
  BY <1>4, <1>5 DEF OneOwner
<1>7. lFd' # NoFd => lFd' \in open'
  BY <1>1, <1>2 DEF Owners
<1>8. \A u \in Threads : pc'[u] = "new" => count'[u] = 0
  BY <1>1 DEF Remove, Owners, Shape, TypeOK
<1> QED
  BY <1>6, <1>7, <1>8 DEF Owners

\* A connection is added to a table; no other slot changes.
LEMMA AppendOwners ==
  ASSUME Shape, Owners, NEW p \in Threads, NEW fd \in open,
         Append(p, fd), count[p] < ClientsMax,
         pc[p] # "new", pc'[p] # "new",
         open' = open, lFd' \in {lFd, NoFd}, fd # lFd',
         \A u \in Threads : pc'[u] = "new" => pc[u] = "new",
         \A u \in Threads, k \in Slots :
           Live(u, k)' => \/ u = p /\ k = count[p]
                          \/ Live(u, k) /\ pfds[u][k] # fd
  PROVE  Owners'
<1>1. TablesTyped /\ TailCleared /\ fd \in Fds \cup {NoFd}
  BY DEF Shape, TypeOK, TablesTyped
<1>2. /\ count[p] \in Slots
      /\ pfds'[p][count[p]] = fd
      /\ \A k \in Slots : k # count[p] => pfds'[p][k] = pfds[p][k]
      /\ \A u \in Threads : u # p => pfds'[u] = pfds[u] /\ count'[u] = count[u]
  BY <1>1, AppendTables
<1>3. NoFd \notin open
  BY FdsAssumption DEF Shape, TypeOK
<1>4. ASSUME NEW u \in Threads, NEW k \in Slots, Live(u, k)'
      PROVE  \/ u = p /\ k = count[p] /\ pfds'[u][k] = fd
             \/ Live(u, k) /\ pfds'[u][k] = pfds[u][k] /\ pfds[u][k] # fd
  <2>1. CASE u = p /\ k = count[p]
    BY <1>2, <2>1
  <2>2. CASE ~(u = p /\ k = count[p])
    BY <1>2, <1>4, <2>2
  <2> QED
    BY <2>1, <2>2
<1>5. OneOwner'
  BY <1>3, <1>4 DEF Owners, OneOwner
<1>6. \A u \in Threads : pc'[u] = "new" => count'[u] = 0
  BY <1>2 DEF Owners
<1> QED
  BY <1>3, <1>5, <1>6 DEF Owners

LEMMA HandleOwners ==
  ASSUME Shape, Owners, NEW t \in Threads, NEW k \in Slots,
         \/ SweepExpired(t, k) \/ ServeHangup(t, k) \/ HttpRespond(t, k)
         \/ SwitchProtocols(t, k) \/ WsHandle(t, k) \/ WsHandlePart(t, k)
         \/ k = idx[t] /\ (WsHandleRest(t) \/ WsReset(t))
  PROVE  Owners'
<1>1. /\ pc[t] \in {"sweep", "serve", "recv"}
      /\ k < count[t]
      /\ lFd' = lFd
  BY DEF SweepExpired, ServeHangup, HttpRespond, SwitchProtocols, WsHandle,
         WsHandlePart, WsHandleRest, WsReset, FrameDone, Turn, Goto, listener,
         Shape, AtIndex
<1>2. /\ \A u \in Threads : u # t => Stays(u)
      /\ \A u \in Threads : pc'[u] = "new" => u # t /\ pc[u] = "new"
  BY <1>1
  DEF SweepExpired, ServeHangup, HttpRespond, SwitchProtocols, WsHandle,
      WsHandlePart, WsHandleRest, WsReset, FrameDone, Served, Turn, Goto,
      Stays, Shape, TypeOK
<1>3. \/ Disconnect(t, k)
      \/ UNCHANGED <<tables, open>>
  BY DEF SweepExpired, ServeHangup, HttpRespond, SwitchProtocols, WsHandle,
         WsHandlePart, WsHandleRest, WsReset, FrameDone, Consume, net
<1>4. CASE Disconnect(t, k)
  BY <1>1, <1>2, <1>4, DisconnectOwners
<1>5. CASE UNCHANGED <<tables, open>>
  <2>1. Stays(t)
    BY <1>1 DEF Stays
  <2> QED
    BY <1>1, <1>2, <1>5, <2>1, KeepOwners DEF Shape
<1> QED
  BY <1>3, <1>4, <1>5

LEMMA LoopOwners ==
  ASSUME Shape, Owners, NEW t \in Threads,
         \/ ThreadInit(t) \/ CheckListening(t) \/ ThreadExit(t) \/ LockLoop(t)
         \/ Wake(t) \/ SpuriousWake(t) \/ Unlock(t) \/ Poll(t)
  PROVE  Owners'
<1>1. CASE ThreadInit(t) \/ ThreadExit(t)
  <2>1. /\ count' = count /\ open' = open /\ lFd' = lFd /\ idx' = idx
        /\ \A u \in Threads : u # t => pc'[u] = pc[u] /\ pfds'[u] = pfds[u]
        /\ pc'[t] = "done" \/ (pc[t] = "new" /\ pc'[t] = "top")
    BY <1>1 DEF ThreadInit, ThreadExit, Goto, listener, net, Shape, TypeOK
  <2>2. \A k \in Slots : ~Live(t, k)'
    BY <2>1, SlotSets DEF Live, Ended, Owners
  <2>3. \A u \in Threads, k \in Slots : Live(u, k)' =>
          u # t /\ Live(u, k) /\ pfds'[u][k] = pfds[u][k]
    BY <2>1, <2>2 DEF Live, Ended
  <2>4. OneOwner'
    BY <2>1, <2>3 DEF Owners, OneOwner
  <2> QED
    BY <2>1, <2>4 DEF Owners
<1>2. CASE ~(ThreadInit(t) \/ ThreadExit(t))
  <2>1. UNCHANGED <<tables, open, lFd>>
    BY <1>2
    DEF CheckListening, LockLoop, Wake, SpuriousWake, Unlock, Poll, listener, net
  <2>2. \A u \in Threads : Stays(u) /\ (pc'[u] = "new" => pc[u] = "new")
    BY <1>2
    DEF CheckListening, LockLoop, Wake, SpuriousWake, Unlock, Poll, Goto, Stays,
        Shape, TypeOK
  <2> QED
    BY <2>1, <2>2, KeepOwners DEF Shape
<1> QED
  BY <1>1, <1>2

LEMMA UpgradeOwners ==
  ASSUME Shape, Owners, NEW t \in HttpThreads, UpgradeStep(t)
  PROVE  Owners'
<1>1. t \in Threads
  BY ThreadSets
<1>2. CASE UpgradeScan(t) \/ UpgradeFault(t)
  <2>1. UNCHANGED <<tables, loops, open, lFd>>
    BY <1>2 DEF UpgradeScan, UpgradeFault, listener, net
  <2> QED
    BY <2>1, KeepOwners DEF loops, Stays, Shape
<1>3. CASE UpgradeAdd(t)
  <2> DEFINE p == uPick[t]
             fd == pfds[t][idx[t]]
  <2>1. /\ pc[t] = "scan" /\ idx[t] \in Slots
        /\ p # NoThread /\ fd # NoFd /\ ~(count[p] >= ClientsMax)
        /\ pc[p] # "new" /\ ~Ended(p) /\ ~Held(p)
    BY <1>1, <1>3, NoAddFault DEF UpgradeAdd, UpgradeChosen, Shape, AtIndex
  <2>2. p \in WsThreads /\ p \in Threads /\ p # t
    BY <2>1, ThreadSets DEF Shape, TypeOK
  <2>3. count[p] \in 0 .. ClientsMax /\ count[t] \in 0 .. ClientsMax /\ count[p] < ClientsMax
    BY <1>1, <2>1, <2>2, CountsAssumption DEF Shape, TypeOK
  <2>4. Live(t, idx[t])
    <3>1. ~(idx[t] >= count[t])
      BY <1>1, <2>1 DEF Shape, TailCleared
    <3>2. idx[t] \in Nat /\ count[t] \in Nat
      <4>1. idx[t] \in Nat
        BY <2>1, SlotSets, Zenon
      <4>2. 0 .. ClientsMax \subseteq Nat
        BY CountsAssumption
      <4>3. count[t] \in Nat
        BY <2>3, <4>2, Zenon
      <4> QED  BY <4>1, <4>3
    <3>3. idx[t] < count[t]
      BY <3>1, <3>2
    <3> QED
      BY <2>1, <3>3 DEF Live, Ended
  <2>5. fd \in open \ {lFd}
    BY <1>1, <2>1, <2>4 DEF Owners, OneOwner
  <2>6. /\ Append(p, fd)
        /\ UNCHANGED <<idx, listener, open>>
        /\ pc'[t] = "drop"
        /\ pc'[p] \in {pc[p], "woken"}
        /\ \A u \in Threads : u # t /\ u # p => pc'[u] = pc[u]
    BY <1>1, <1>3, <2>2 DEF UpgradeAdd, Signalled, Shape, TypeOK
  <2>7. pc[p] # "drop" /\ pc'[p] # "drop" /\ pc'[p] # "new" /\ pc'[p] # "done"
    BY <2>1, <2>6 DEF Held, LockedAt, Ended
  <2>8. count'[p] = count[p] + 1 /\ \A u \in Threads : u # p => count'[u] = count[u]
    BY <2>2, <2>3, <2>6 DEF Append, Shape, TypeOK
  <2> HIDE DEF p, fd
  <2>9. ASSUME NEW u \in Threads, NEW k \in Slots, Live(u, k)'
        PROVE  \/ u = p /\ k = count[p]
               \/ Live(u, k) /\ pfds[u][k] # fd
    <3>1. CASE u = t
      <4>1. k # idx[t] /\ k < count[t]
        BY <2>2, <2>6, <2>8, <2>9, <3>1 DEF Live, Ended
      <4>2. Live(t, k)
        BY <2>1, <4>1 DEF Live, Ended
      <4> QED
        BY <1>1, <2>1, <2>4, <3>1, <4>1, <4>2 DEF Owners, OneOwner, fd
    <3>2. CASE u # t
      <4>1. Live(u, k) \/ (u = p /\ k = count[p])
        BY <2>1, <2>3, <2>6, <2>7, <2>8, <2>9, <3>2, SlotSets DEF Live, Ended
      <4> QED
        BY <1>1, <2>1, <2>4, <3>2, <4>1 DEF Owners, OneOwner, fd
    <3> QED
      BY <3>1, <3>2
  <2>10. \A u \in Threads : pc'[u] = "new" => pc[u] = "new"
    BY <2>6, <2>7
  <2> QED
    BY <2>1, <2>2, <2>3, <2>5, <2>6, <2>7, <2>9, <2>10, AppendOwners DEF listener
<1>4. CASE UpgradeDrop(t)
  <2> DEFINE k == idx[t]
  <2>1. /\ k \in Slots /\ k < count[t] /\ pc[t] = "drop" /\ ~Ended(t)
        /\ Remove(t, k)
        /\ UNCHANGED <<open, lFd>>
        /\ pc'[t] = "serve"
    BY <1>1, <1>4
    DEF UpgradeDrop, Goto, Shape, TypeOK, AtIndex, Ended, net, listener
  <2>2. /\ \A u \in Threads : u # t => Stays(u) /\ pc'[u] = pc[u]
    BY <1>1, <1>4 DEF UpgradeDrop, Goto, Served, Stays, Shape, TypeOK
  <2>3. \A u \in Threads : u # t => count'[u] = count[u]
    BY <2>1 DEF Remove, Shape, TypeOK
  <2>4. ASSUME NEW u \in Threads, NEW s \in Slots, Live(u, s)'
        PROVE  /\ Origin(t, k, u, s) \in Slots
               /\ Live(u, Origin(t, k, u, s))
               /\ pfds'[u][s] = pfds[u][Origin(t, k, u, s)]
    BY <1>1, <2>1, <2>2, <2>4, RemoveOrigin
  <2> HIDE DEF k
  <2>5. ASSUME NEW u \in Threads, NEW s \in Slots, Live(u, s)'
        PROVE  pfds'[u][s] \in open' \ {lFd'}
    BY <2>1, <2>4, <2>5 DEF Owners, OneOwner
  <2>6. ASSUME NEW u \in Threads, NEW s \in Slots, Live(u, s)',
               NEW v \in Threads, NEW m \in Slots, Live(v, m)',
               pfds'[v][m] = pfds'[u][s]
        PROVE  v = u /\ m = s
    <3>1. v = u /\ Origin(t, k, v, m) = Origin(t, k, u, s)
      BY <2>4, <2>6 DEF Owners, OneOwner
    <3> QED
      BY <2>1, <3>1, OriginInjective
  <2>7. OneOwner'
    BY <2>5, <2>6 DEF OneOwner
  <2> QED
    BY <2>1, <2>2, <2>3, <2>7 DEF Owners
<1> QED
  BY <1>2, <1>3, <1>4 DEF UpgradeStep

LEMMA ListenerOwners ==
  ASSUME Shape, Owners,
         \/ ListenerStep \/ AcceptFails \/ \E fd \in Fds : Accept(fd)
         \/ Close \/ \E fd \in Fds : PeerStep(fd)
         \/ UNCHANGED vars
  PROVE  Owners'
<1>1. CASE Place
  <2>1. /\ lPick # NoThread /\ lFd # NoFd /\ ~(count[lPick] >= ClientsMax)
        /\ pc[lPick] # "new" /\ ~Ended(lPick) /\ ~Held(lPick)
        /\ Append(lPick, lFd) /\ lFd' = NoFd
        /\ UNCHANGED <<idx, open>>
    BY <1>1, NoAddFault DEF Place, Rest, net
  <2>2. lPick \in Threads /\ count[lPick] < ClientsMax /\ lFd \in open
    BY <2>1, ThreadSets, CountsAssumption DEF Shape, TypeOK, Owners
  <2>3. /\ pc'[lPick] \in {pc[lPick], "woken"}
        /\ \A u \in Threads : u # lPick => pc'[u] = pc[u]
    BY <1>1, <2>2 DEF Place, Signalled, Shape, TypeOK
  <2>4. pc[lPick] # "drop" /\ pc'[lPick] # "new"
    BY <2>1, <2>3 DEF Held, LockedAt
  <2>5. /\ count'[lPick] = count[lPick] + 1
        /\ count[lPick] \in 0 .. ClientsMax
        /\ \A u \in Threads : u # lPick => count'[u] = count[u]
    BY <2>1, <2>2 DEF Append, Shape, TypeOK
  <2>6. ASSUME NEW u \in Threads, NEW k \in Slots, Live(u, k)'
        PROVE  (u = lPick /\ k = count[lPick]) \/ (Live(u, k) /\ pfds[u][k] # lFd)
    <3>1. Live(u, k) \/ (u = lPick /\ k = count[lPick])
      BY <2>1, <2>3, <2>4, <2>5, <2>6, SlotSets DEF Live, Ended
    <3> QED
      BY <3>1 DEF Owners, OneOwner
  <2> QED
    BY <2>1, <2>2, <2>3, <2>4, <2>6, AppendOwners
<1>2. CASE ~Place
  <2>1. /\ UNCHANGED <<tables, loops>>
        /\ open \subseteq open'
        /\ lFd' \in {lFd, NoFd} \/ lFd' \in open' \ open
    BY <1>2
    DEF ListenerStep, Scan, Refuse, PlaceIgnored, PlaceFault, AcceptFails, Accept,
        StartScan, Rest, Close, PeerStep, PeerSends, PeerSendsPart, PeerSendsRest,
        PeerHangsUp, vars, net, listener
  <2> QED
    BY <2>1, KeepOwners DEF loops, Stays, Shape
<1> QED
  BY <1>1, <1>2

LEMMA InitOwners == Init => Owners
<1> SUFFICES ASSUME Init PROVE Owners
  OBVIOUS
<1>1. \A t \in Threads, k \in Slots : ~Live(t, k)
  BY SlotSets DEF Init, Live
<1> QED
  BY <1>1 DEF Init, Owners, OneOwner

\* Every step keeps one owner per descriptor.
LEMMA StepOwners == Shape /\ Owners /\ [Next]_vars => Owners'
<1> SUFFICES ASSUME Shape, Owners, [Next]_vars PROVE Owners'
  OBVIOUS
<1>1. ASSUME NEW t \in Threads, ThreadStep(t) \/ SpuriousWake(t) \/ WsReset(t)
      PROVE  Owners'
  <2>1. WsHandleRest(t) \/ WsReset(t) => idx[t] \in Slots
    BY DEF WsHandleRest, WsReset, Goto, Shape, AtIndex
  <2> QED
    BY <1>1, <2>1, HandleOwners, LoopOwners DEF ThreadStep
<1> QED
  BY <1>1, UpgradeOwners, ListenerOwners DEF Next, Halted

(***************************************************************************)
(* A connection has one owner at a time, through additions, removals that  *)
(* shift the tables, hand-overs between threads, failed answers, reuse of  *)
(* descriptor numbers and the end of threads.                              *)
(***************************************************************************)
THEOREM ConnectionsHaveOneOwner == Spec => []OneOwner
<1>1. Owners => OneOwner
  BY DEF Owners
<1> QED
  BY <1>1, InitOwners, StepOwners, InitShape, StepShape, PTL DEF Spec
===============================================================================
