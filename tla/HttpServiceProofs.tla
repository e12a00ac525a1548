--------------------------- MODULE HttpServiceProofs ---------------------------
(***************************************************************************)
(* TLAPS proofs about what the threads of HttpServer do to a connection:   *)
(* every step of any of them is one of eight things that can happen to     *)
(* one, or nothing.  From that follow the protocol it is served in, that   *)
(* none is lost on the way, and that the server implements ConnService.    *)
(***************************************************************************)
EXTENDS HttpServerProofs

\* Thread t has the connection in its table.
Has(t, fd) == \E k \in Slots : Live(t, k) /\ pfds[t][k] = fd

\* The threads of T hold after the step the connections they held before.
SameTables(T) == \A t \in T, fd \in Fds : Has(t, fd)' <=> Has(t, fd)

\* The threads of T that look for a WebSocket thread still do, for the same slot.
StillScanning(T) ==
  \A t \in T :
    /\ pc'[t] = "scan" <=> pc[t] = "scan"
    /\ pc[t] = "scan" => pfds'[t] = pfds[t] /\ count'[t] = count[t] /\ idx'[t] = idx[t]

-----------------------------------------------------------------------------
(* What a step can do. *)

Nothing ==
  /\ SameTables(Threads) /\ StillScanning(Threads)
  /\ UNCHANGED <<open, lFd, upgraded, stale>>

IsAccepted(fd) ==
  /\ lFd = NoFd /\ fd \notin open
  /\ lFd' = fd /\ open' = open \cup {fd}
  /\ SameTables(Threads) /\ StillScanning(Threads)
  /\ UNCHANGED <<upgraded, stale>>

IsPlaced(t) ==
  /\ lFd \in open /\ lFd' = NoFd
  /\ \A u \in Threads, f \in Fds : Has(u, f)' <=> Has(u, f) \/ (u = t /\ f = lFd)
  /\ StillScanning(Threads)
  /\ UNCHANGED <<open, upgraded, stale>>

IsRefused ==
  /\ lFd # NoFd /\ lFd' = NoFd
  /\ Scanned /\ lLow >= ClientsMax
  /\ SameTables(Threads) /\ StillScanning(Threads)
  /\ UNCHANGED <<open, upgraded, stale>>

IsSwitched(t, fd) ==
  /\ Has(t, fd) /\ pc[t] = "serve"
  /\ upgraded' = upgraded \cup {fd}
  /\ pc'[t] = "scan" /\ idx'[t] < count'[t] /\ pfds'[t][idx'[t]] = fd
  /\ SameTables(Threads) /\ StillScanning(Threads \ {t})
  /\ UNCHANGED <<open, lFd, stale>>

IsMoved(t, p, fd) ==
  /\ Has(t, fd) /\ fd = pfds[t][idx[t]]
  /\ pc[t] = "scan" /\ pc'[t] = "drop"
  /\ \A u \in Threads, f \in Fds :
       Has(u, f)' <=> (Has(u, f) /\ ~(u = t /\ f = fd)) \/ (u = p /\ f = fd)
  /\ stale' = stale \ {t}
  /\ StillScanning(Threads \ {t})
  /\ UNCHANGED <<open, lFd, upgraded>>

Closing(t, fd) ==
  /\ Has(t, fd) /\ pc[t] \in {"sweep", "serve", "recv"}
  /\ open' = open \ {fd} /\ upgraded' = upgraded \ {fd}
  /\ \A u \in Threads, f \in Fds : Has(u, f)' <=> Has(u, f) /\ f # fd
  /\ StillScanning(Threads \ {t})
  /\ UNCHANGED lFd

IsClosed(t, fd) == Closing(t, fd) /\ pc'[t] # "scan" /\ UNCHANGED stale

\* A thread that has closed the connection with its 101 goes on to upgrade it.
IsLost(t, fd) ==
  /\ Closing(t, fd)
  /\ pc[t] = "serve" /\ pc'[t] = "scan"
  /\ stale' = stale \cup {t}

IsAbandoned(t) ==
  /\ pc[t] = "top" /\ pc'[t] = "done"
  /\ \A u \in Threads, f \in Fds : Has(u, f)' <=> Has(u, f) /\ u # t
  /\ StillScanning(Threads)
  /\ UNCHANGED <<open, lFd, upgraded, stale>>

Happens ==
  \/ Nothing
  \/ \E fd \in Fds : IsAccepted(fd)
  \/ \E t \in HttpThreads : IsPlaced(t)
  \/ IsRefused
  \/ \E t \in HttpThreads, fd \in Fds : IsSwitched(t, fd)
  \/ \E t \in HttpThreads, p \in WsThreads, fd \in Fds : IsMoved(t, p, fd)
  \/ \E t \in Threads, fd \in Fds : IsClosed(t, fd)
  \/ \E t \in HttpThreads, fd \in Fds : IsLost(t, fd)
  \/ \E t \in Threads : IsAbandoned(t)

-----------------------------------------------------------------------------
(* How the operations on a table show in Has. *)

LEMMA HasIsOpen ==
  ASSUME OneOwner, NEW t \in Threads, NEW fd, Has(t, fd)
  PROVE  fd \in open /\ fd # lFd
BY DEF Has, OneOwner

LEMMA HasOnce ==
  ASSUME OneOwner, NEW t \in Threads, NEW u \in Threads, NEW fd, Has(t, fd), Has(u, fd)
  PROVE  t = u
BY DEF Has, OneOwner

LEMMA KeepHas ==
  ASSUME NEW t \in Threads, NEW fd,
         pfds'[t] = pfds[t], count'[t] = count[t],
         pc'[t] = "done" <=> pc[t] = "done",
         pc'[t] = "drop" <=> pc[t] = "drop",
         pc[t] = "drop" => idx'[t] = idx[t]
  PROVE  Has(t, fd)' <=> Has(t, fd)
BY DEF Has, Live, Ended

\* A removal leaves what is in the other slots.
LEMMA RemoveHas ==
  ASSUME Shape, NEW t \in Threads, NEW k \in Slots, k < count[t], Remove(t, k),
         pc'[t] \notin {"done", "drop"}, NEW fd
  PROVE  Has(t, fd)' <=> \E s \in Slots : s < count[t] /\ s # k /\ pfds[t][s] = fd
<1>1. /\ TablesTyped /\ TailCleared /\ count[t] > 0
      /\ count[t] \in 0 .. ClientsMax
  BY SlotSets DEF Shape, TypeOK, TablesTyped
<1>2. /\ count'[t] = count[t] - 1
      /\ \A m \in Slots : m < count[t] - 1 =>
           pfds'[t][m] = IF m < k THEN pfds[t][m] ELSE pfds[t][m + 1]
  BY <1>1, RemoveTables
<1>3. ASSUME NEW m \in Slots, Live(t, m)', pfds'[t][m] = fd
      PROVE  \E s \in Slots : s < count[t] /\ s # k /\ pfds[t][s] = fd
  <2>1. m < count[t] - 1 /\ m \in Nat /\ k \in Nat
    BY <1>2, <1>3, SlotSets DEF Live
  <2>2. m + 1 \in Slots /\ m + 1 < count[t] /\ m + 1 # m
    BY <1>1, <2>1, CountsAssumption DEF Slots
  <2>3. CASE m < k
    BY <1>1, <1>2, <1>3, <2>1, <2>3
  <2>4. CASE ~(m < k)
    BY <1>1, <1>2, <1>3, <2>1, <2>2, <2>4
  <2> QED
    BY <2>3, <2>4
<1>4. ASSUME NEW s \in Slots, s < count[t], s # k, pfds[t][s] = fd
      PROVE  Has(t, fd)'
  <2> DEFINE m == IF s < k THEN s ELSE s - 1
  <2>1. m \in Slots /\ m < count[t] - 1 /\ (IF m < k THEN m ELSE m + 1) = s
    BY <1>1, <1>4, CountsAssumption DEF Slots
  <2>2. pfds'[t][m] = fd
    BY <1>2, <1>4, <2>1
  <2>3. Live(t, m)'
    BY <1>2, <2>1 DEF Live, Ended
  <2> QED
    BY <2>1, <2>2, <2>3 DEF Has
<1> QED
  BY <1>3, <1>4 DEF Has

\* The connection in slot k is out of the table when its slot is removed.
LEMMA TakenHas ==
  ASSUME Shape, OneOwner, NEW t \in Threads, NEW k \in Slots, k < count[t],
         Remove(t, k), pc[t] \notin {"done", "drop"}, pc'[t] \notin {"done", "drop"},
         NEW fd
  PROVE  Has(t, fd)' <=> Has(t, fd) /\ fd # pfds[t][k]
<1>1. \A s \in Slots : Live(t, s) <=> s < count[t]
  BY DEF Live, Ended
<1>2. Has(t, fd)' <=> \E s \in Slots : s < count[t] /\ s # k /\ pfds[t][s] = fd
  BY RemoveHas
<1> QED
  BY <1>1, <1>2 DEF Has, OneOwner

LEMMA AppendHas ==
  ASSUME Shape, NEW p \in Threads, count[p] < ClientsMax,
         NEW fd \in Fds, Append(p, fd),
         pc[p] \notin {"done", "drop"}, pc'[p] \notin {"done", "drop"}, NEW f
  PROVE  Has(p, f)' <=> Has(p, f) \/ f = fd
<1>1. TablesTyped /\ TailCleared
  BY DEF Shape, TypeOK, TablesTyped
<1>2. /\ count[p] \in Slots
      /\ count'[p] = count[p] + 1
      /\ pfds'[p][count[p]] = fd
      /\ \A k \in Slots : k # count[p] => pfds'[p][k] = pfds[p][k]
  BY <1>1, AppendTables
<1>3. \A s \in Slots : /\ Live(p, s) <=> s < count[p]
                       /\ Live(p, s)' <=> s < count[p] + 1
  BY <1>2 DEF Live, Ended
<1>4. count[p] \in Nat /\ Slots \subseteq Nat
  BY <1>2, SlotSets
<1>5. \A s, n \in Nat : (s < n + 1 <=> s < n \/ s = n) /\ (s < n => s # n)
  OBVIOUS
<1>6. \A s \in Slots : /\ s < count[p] + 1 <=> s < count[p] \/ s = count[p]
                       /\ s < count[p] => s # count[p]
  BY <1>4, <1>5, Zenon
<1>7. \A s \in Slots : Live(p, s)' <=> Live(p, s) \/ s = count[p]
  BY <1>3, <1>6
<1>8. \A s \in Slots : Live(p, s) => s # count[p]
  BY <1>3, <1>6
<1> QED
  BY <1>2, <1>7, <1>8, Zenon DEF Has

-----------------------------------------------------------------------------
(* Every step is one of these. *)

\* A step of thread t that leaves the others where they are.
LEMMA OthersKeep ==
  ASSUME NEW t \in Threads,
         \A u \in Threads : u # t =>
           /\ pfds'[u] = pfds[u] /\ count'[u] = count[u]
           /\ pc'[u] = pc[u] /\ idx'[u] = idx[u]
  PROVE  SameTables(Threads \ {t}) /\ StillScanning(Threads \ {t})
<1>1. \A u \in Threads \ {t}, fd \in Fds : Has(u, fd)' <=> Has(u, fd)
  BY KeepHas
<1> QED
  BY <1>1 DEF SameTables, StillScanning

\* A step that leaves all tables alone, and every thread at its slot.
LEMMA AllKeep ==
  ASSUME UNCHANGED tables,
         \A u \in Threads :
           /\ pc'[u] = pc[u] \/ {pc[u], pc'[u]} \cap {"done", "drop", "scan"} = {}
           /\ pc[u] \in {"drop", "scan"} => idx'[u] = idx[u]
  PROVE  SameTables(Threads) /\ StillScanning(Threads)
<1>1. ASSUME NEW u \in Threads
      PROVE  /\ pfds'[u] = pfds[u] /\ count'[u] = count[u]
             /\ pc'[u] = "done" <=> pc[u] = "done"
             /\ pc'[u] = "drop" <=> pc[u] = "drop"
             /\ pc'[u] = "scan" <=> pc[u] = "scan"
             /\ pc[u] \in {"drop", "scan"} => idx'[u] = idx[u]
  BY DEF tables
<1>2. \A u \in Threads, fd \in Fds : Has(u, fd)' <=> Has(u, fd)
  BY <1>1, KeepHas
<1> QED
  BY <1>1, <1>2 DEF SameTables, StillScanning

LEMMA HandleHappens ==
  ASSUME Shape, Owners, NEW t \in Threads, NEW k \in Slots,
         \/ SweepExpired(t, k) \/ ServeHangup(t, k) \/ HttpRespond(t, k)
         \/ SwitchProtocols(t, k) \/ WsHandle(t, k) \/ WsHandlePart(t, k)
         \/ k = idx[t] /\ (WsHandleRest(t) \/ WsReset(t))
  PROVE  Happens
<1> DEFINE fd == pfds[t][k]
<1>1. /\ pc[t] \in {"sweep", "serve", "recv"}
      /\ k < count[t]
      /\ lFd' = lFd
      /\ pc'[t] \in {"sweep", "serve", "recv", "scan"}
  BY DEF SweepExpired, ServeHangup, HttpRespond, SwitchProtocols, WsHandle,
         WsHandlePart, WsHandleRest, WsReset, FrameDone, Turn, Goto, listener,
         Shape, AtIndex, TypeOK
<1>2. Live(t, k) /\ Has(t, fd) /\ fd \in open /\ fd \in Fds
  <2>1. Live(t, k) /\ Has(t, fd)
    BY <1>1 DEF Live, Ended, Has
  <2> QED
    BY <2>1 DEF Owners, OneOwner, Shape, TypeOK
<1>3. \A u \in Threads : u # t => pc'[u] = pc[u] /\ idx'[u] = idx[u]
  BY DEF SweepExpired, ServeHangup, HttpRespond, SwitchProtocols, WsHandle,
         WsHandlePart, WsHandleRest, WsReset, FrameDone, Served, Goto, Shape, TypeOK
<1>4. CASE Disconnect(t, k)
  <2>1. /\ Remove(t, k)
        /\ open' = open \ {fd} /\ upgraded' = upgraded \ {fd}
    BY <1>4 DEF Disconnect, CloseFd
  <2>2. \A u \in Threads : u # t => pfds'[u] = pfds[u] /\ count'[u] = count[u]
    BY <2>1 DEF Remove, Shape, TypeOK
  <2>3. SameTables(Threads \ {t}) /\ StillScanning(Threads \ {t})
    BY <1>3, <2>2, OthersKeep
  <2>4. \A f \in Fds : Has(t, f)' <=> Has(t, f) /\ f # fd
    BY <1>1, <2>1, TakenHas DEF Owners
  <2>5. ASSUME NEW u \in Threads, NEW f \in Fds
        PROVE  Has(u, f)' <=> Has(u, f) /\ f # fd
    <3>1. u # t => (Has(u, f)' <=> Has(u, f)) /\ (Has(u, f) => f # fd)
      BY <1>2, <2>3, HasOnce DEF SameTables, Owners
    <3> QED
      BY <2>4, <3>1
  <2>6. Closing(t, fd)
    BY <1>1, <1>2, <2>1, <2>3, <2>5 DEF Closing
  <2>7. CASE SwitchProtocols(t, k)
    <3>1. t \in HttpThreads /\ pc[t] = "serve" /\ pc'[t] = "scan"
      BY <2>7 DEF SwitchProtocols, Turn, Shape, TypeOK
    <3>2. stale' = stale \cup {t}
      BY <1>2, <2>1, <2>7 DEF SwitchProtocols
    <3>3. IsLost(t, fd)
      BY <2>6, <3>1, <3>2 DEF IsLost
    <3> QED
      BY <1>2, <3>1, <3>3 DEF Happens
  <2>8. CASE ~SwitchProtocols(t, k)
    <3>1. pc'[t] # "scan" /\ stale' = stale
      BY <1>1, <2>8
      DEF SweepExpired, ServeHangup, HttpRespond, WsHandle, WsHandlePart,
          WsHandleRest, WsReset, FrameDone, Turn, Goto, upgrades, Shape, TypeOK
    <3>2. IsClosed(t, fd)
      BY <2>6, <3>1 DEF IsClosed
    <3> QED
      BY <1>2, <3>2 DEF Happens
  <2> QED
    BY <2>7, <2>8
<1>5. CASE UNCHANGED <<tables, open>> /\ pc'[t] # "scan"
  <2>1. upgraded' = upgraded /\ stale' = stale
    BY <1>2, <1>5
    DEF SweepExpired, ServeHangup, HttpRespond, SwitchProtocols, WsHandle,
        WsHandlePart, WsHandleRest, WsReset, FrameDone, Consume, Disconnect,
        CloseFd, net, upgrades, Shape, TypeOK
  <2>2. SameTables(Threads) /\ StillScanning(Threads)
    BY <1>1, <1>3, <1>5, AllKeep
  <2> QED
    BY <1>1, <1>5, <2>1, <2>2 DEF Happens, Nothing
<1>6. CASE UNCHANGED <<tables, open>> /\ pc'[t] = "scan"
  <2>1. SwitchProtocols(t, k)
    BY <1>1, <1>6
    DEF SweepExpired, ServeHangup, HttpRespond, WsHandle, WsHandlePart,
        WsHandleRest, WsReset, FrameDone, Turn, Goto, Shape, TypeOK
  <2>2. /\ upgraded' = upgraded \cup {fd} /\ stale' = stale
        /\ idx'[t] = k /\ pc[t] = "serve" /\ t \in HttpThreads
    BY <1>2, <1>6, <2>1
    DEF SwitchProtocols, Turn, Disconnect, CloseFd, Shape, TypeOK
  <2>3. \A u \in Threads : pfds'[u] = pfds[u] /\ count'[u] = count[u]
    BY <1>6 DEF tables
  <2>4. SameTables(Threads \ {t}) /\ StillScanning(Threads \ {t})
    BY <1>3, <2>3, OthersKeep
  <2>5. \A f \in Fds : Has(t, f)' <=> Has(t, f)
    BY <1>6, <2>2, <2>3, KeepHas
  <2>6. SameTables(Threads)
    BY <2>4, <2>5 DEF SameTables
  <2>7. IsSwitched(t, fd)
    BY <1>1, <1>2, <1>6, <2>2, <2>3, <2>4, <2>6 DEF IsSwitched
  <2> QED
    BY <1>2, <2>2, <2>7 DEF Happens
<1>7. Disconnect(t, k) \/ UNCHANGED <<tables, open>>
  BY DEF SweepExpired, ServeHangup, HttpRespond, SwitchProtocols, WsHandle,
         WsHandlePart, WsHandleRest, WsReset, FrameDone, Consume, net
<1> QED
  BY <1>4, <1>5, <1>6, <1>7

LEMMA LoopHappens ==
  ASSUME Shape, Owners, NEW t \in Threads,
         \/ ThreadInit(t) \/ CheckListening(t) \/ ThreadExit(t) \/ LockLoop(t)
         \/ Wake(t) \/ SpuriousWake(t) \/ Unlock(t) \/ Poll(t)
  PROVE  Happens
<1>1. /\ UNCHANGED <<open, lFd, upgraded, stale, count>>
      /\ \A u \in Threads : u # t => pfds'[u] = pfds[u] /\ count'[u] = count[u]
                                     /\ pc'[u] = pc[u] /\ idx'[u] = idx[u]
  BY DEF ThreadInit, CheckListening, ThreadExit, LockLoop, Wake, SpuriousWake, Unlock,
         Poll, Goto, listener, net, tables, upgrades, Shape, TypeOK
<1>2. SameTables(Threads \ {t}) /\ StillScanning(Threads \ {t})
  BY <1>1, OthersKeep
<1>3. CASE ThreadInit(t)
  <2>1. pc[t] = "new" /\ pc'[t] = "top" /\ count[t] = 0 /\ count'[t] = 0
    BY <1>1, <1>3 DEF ThreadInit, Goto, Owners, Shape, TypeOK
  <2>2. \A k \in Slots : ~Live(t, k) /\ ~Live(t, k)'
    <3>1. \A k \in Slots : ~(k < 0)
      BY CountsAssumption DEF Slots
    <3> QED
      BY <2>1, <3>1 DEF Live
  <2>3. \A f \in Fds : Has(t, f)' <=> Has(t, f)
    BY <2>2 DEF Has
  <2>4. SameTables(Threads) /\ StillScanning(Threads)
    BY <1>2, <2>1, <2>3 DEF SameTables, StillScanning
  <2> QED
    BY <1>1, <2>4 DEF Happens, Nothing
<1>4. CASE ThreadExit(t)
  <2>1. pc[t] = "top" /\ pc'[t] = "done"
    BY <1>4 DEF ThreadExit, Goto, Shape, TypeOK
  <2>2. \A f \in Fds : ~Has(t, f)'
    BY <2>1 DEF Has, Live, Ended
  <2>3. \A u \in Threads, f \in Fds : Has(u, f)' <=> Has(u, f) /\ u # t
    BY <1>2, <2>2 DEF SameTables
  <2>4. StillScanning(Threads)
    BY <1>2, <2>1 DEF StillScanning
  <2>5. IsAbandoned(t)
    BY <1>1, <2>1, <2>3, <2>4 DEF IsAbandoned
  <2> QED
    BY <2>5 DEF Happens
<1>5. CASE ~(ThreadInit(t) \/ ThreadExit(t))
  <2>1. /\ UNCHANGED tables
        /\ {pc[t], pc'[t]} \cap {"done", "drop", "scan"} = {}
    BY <1>5
    DEF CheckListening, LockLoop, Wake, SpuriousWake, Unlock, Poll, Goto, Shape, TypeOK
  <2>2. SameTables(Threads) /\ StillScanning(Threads)
    BY <1>1, <2>1, AllKeep
  <2> QED
    BY <1>1, <2>2 DEF Happens, Nothing
<1> QED
  BY <1>3, <1>4, <1>5

LEMMA UpgradeHappens ==
  ASSUME Shape, Owners, NEW t \in HttpThreads, UpgradeStep(t)
  PROVE  Happens
<1>1. t \in Threads
  BY ThreadSets
<1>2. CASE UpgradeScan(t) \/ UpgradeFault(t)
  <2>1. UNCHANGED <<tables, loops, open, lFd, upgraded, stale>>
    BY <1>2 DEF UpgradeScan, UpgradeFault, listener, net, upgrades
  <2>2. SameTables(Threads) /\ StillScanning(Threads)
    BY <2>1, AllKeep DEF loops
  <2> QED
    BY <2>1, <2>2 DEF Happens, Nothing
<1>3. CASE UpgradeAdd(t)
  <2> PICK p \in WsThreads \cup {NoThread} : p = uPick[t]
    BY DEF Shape, TypeOK
  <2> PICK fd \in Fds \cup {NoFd} : fd = pfds[t][idx[t]]
    BY <1>1, <1>3 DEF UpgradeAdd, UpgradeChosen, Shape, TypeOK, AtIndex
  <2>1. /\ pc[t] = "scan" /\ idx[t] \in Slots
        /\ p # NoThread /\ fd # NoFd /\ ~(count[p] >= ClientsMax)
        /\ pc[p] # "new" /\ ~Ended(p) /\ ~Held(p)
    BY <1>1, <1>3, NoAddFault DEF UpgradeAdd, UpgradeChosen, Shape, AtIndex
  <2>2. p \in WsThreads /\ p \in Threads /\ p # t
    BY <2>1, ThreadSets DEF Shape, TypeOK
  <2>3. count[p] \in 0 .. ClientsMax /\ count[t] \in 0 .. ClientsMax /\ count[p] < ClientsMax
    BY <1>1, <2>1, <2>2, CountsAssumption DEF Shape, TypeOK
  <2>4. Live(t, idx[t]) /\ idx[t] < count[t]
    <3>1. ~(idx[t] >= count[t])
      BY <1>1, <2>1 DEF Shape, TailCleared
    <3>2. idx[t] \in 0 .. ClientsMax
      BY <1>1 DEF Shape, TypeOK
    <3>3. idx[t] < count[t]
      BY <2>3, <3>1, <3>2, CountsAssumption
    <3> QED
      BY <2>1, <3>3 DEF Live, Ended
  <2>5. Has(t, fd) /\ fd \in open /\ fd \in Fds
    BY <1>1, <2>1, <2>4 DEF Has, Owners, OneOwner, Shape, TypeOK
  <2>6. /\ Append(p, fd)
        /\ UNCHANGED <<idx, lFd, open, upgraded>>
        /\ stale' = stale \ {t}
        /\ pc'[t] = "drop"
        /\ pc'[p] \in {pc[p], "woken"}
        /\ \A u \in Threads : u # t /\ u # p => pc'[u] = pc[u]
    BY <1>1, <1>3, <2>2 DEF UpgradeAdd, UpgradeReset, Signalled, listener, Shape, TypeOK
  <2>7. pc[p] \notin {"done", "drop", "scan"} /\ pc'[p] \notin {"done", "drop", "scan"}
    BY <2>1, <2>6 DEF Held, LockedAt, Ended
  <2>8. \A u \in Threads : u # p => pfds'[u] = pfds[u] /\ count'[u] = count[u]
    BY <2>6 DEF Append, Shape, TypeOK
  <2>9. \A f \in Fds : Has(p, f)' <=> Has(p, f) \/ f = fd
    BY <2>2, <2>3, <2>5, <2>6, <2>7, AppendHas
  <2>10. \A f \in Fds : Has(t, f)' <=> Has(t, f) /\ f # fd
    <3>1. \A s \in Slots : Live(t, s)' <=> Live(t, s) /\ s # idx[t]
      BY <1>1, <2>1, <2>2, <2>6, <2>8 DEF Live, Ended
    <3>2. pfds'[t] = pfds[t]
      BY <1>1, <2>2, <2>8
    <3> QED
      BY <1>1, <2>1, <2>4, <3>1, <3>2 DEF Has, Owners, OneOwner
  <2>11. ASSUME NEW u \in Threads, u # t, u # p, NEW f \in Fds
         PROVE  Has(u, f)' <=> Has(u, f)
    BY <2>6, <2>8, <2>11, KeepHas
  <2>12. \A u \in Threads, f \in Fds :
           Has(u, f)' <=> (Has(u, f) /\ ~(u = t /\ f = fd)) \/ (u = p /\ f = fd)
    BY <2>2, <2>9, <2>10, <2>11
  <2>13. StillScanning(Threads \ {t})
    BY <2>6, <2>7, <2>8 DEF StillScanning
  <2>14. IsMoved(t, p, fd)
    BY <2>1, <2>5, <2>6, <2>12, <2>13 DEF IsMoved
  <2> QED
    BY <2>2, <2>5, <2>14 DEF Happens
<1>4. CASE UpgradeDrop(t)
  <2> DEFINE k == idx[t]
  <2>1. /\ k \in Slots /\ k < count[t] /\ pc[t] = "drop"
        /\ Remove(t, k)
        /\ UNCHANGED <<open, lFd, upgraded, stale>>
        /\ pc'[t] = "serve"
    BY <1>1, <1>4
    DEF UpgradeDrop, Goto, Shape, TypeOK, AtIndex, net, listener, upgrades
  <2>2. \A u \in Threads : u # t =>
          /\ pc'[u] = pc[u] /\ idx'[u] = idx[u]
          /\ pfds'[u] = pfds[u] /\ count'[u] = count[u]
    BY <1>1, <1>4 DEF UpgradeDrop, Goto, Served, Remove, Shape, TypeOK
  <2>3. SameTables(Threads \ {t}) /\ StillScanning(Threads \ {t})
    BY <1>1, <2>2, OthersKeep
  <2>4. \A s \in Slots : Live(t, s) <=> s < count[t] /\ s # k
    BY <2>1 DEF Live, Ended
  <2>5. \A f \in Fds : Has(t, f)' <=> \E s \in Slots : s < count[t] /\ s # k /\ pfds[t][s] = f
    <3> HIDE DEF k
    <3> QED
      BY <1>1, <2>1, RemoveHas
  <2>6. \A f \in Fds : Has(t, f)' <=> Has(t, f)
    BY <2>4, <2>5 DEF Has
  <2>7. SameTables(Threads) /\ StillScanning(Threads)
    BY <2>1, <2>3, <2>6 DEF SameTables, StillScanning
  <2> QED
    BY <2>1, <2>7 DEF Happens, Nothing
<1> QED
  BY <1>2, <1>3, <1>4 DEF UpgradeStep

\* The listener is at accept() with no descriptor in its hands.
AtRest == lpc = "accept" => lFd = NoFd

LEMMA ListenerHappens ==
  ASSUME Shape, Owners, PickIsCurrent, AtRest,
         \/ ListenerStep \/ AcceptFails \/ \E fd \in Fds : Accept(fd)
         \/ Close \/ \E fd \in Fds : PeerStep(fd)
         \/ UNCHANGED vars
  PROVE  Happens
<1>1. CASE Place
  <2> PICK p \in HttpThreads \cup {NoThread} : p = lPick
    BY DEF Shape, TypeOK
  <2>1. /\ p # NoThread /\ lFd # NoFd /\ ~(count[p] >= ClientsMax)
        /\ pc[p] # "new" /\ ~Ended(p) /\ ~Held(p)
        /\ Append(p, lFd) /\ lFd' = NoFd
        /\ UNCHANGED <<idx, open, upgraded, stale>>
    BY <1>1, NoAddFault DEF Place, Rest, net, upgrades
  <2>2. /\ p \in HttpThreads /\ p \in Threads /\ count[p] < ClientsMax
        /\ lFd \in open /\ lFd \in Fds
    BY <2>1, ThreadSets, CountsAssumption DEF Shape, TypeOK, Owners
  <2>3. /\ pc'[p] \in {pc[p], "woken"}
        /\ \A u \in Threads : u # p => pc'[u] = pc[u]
    BY <1>1, <2>2 DEF Place, Signalled, Shape, TypeOK
  <2>4. pc[p] \notin {"done", "drop", "scan"} /\ pc'[p] \notin {"done", "drop", "scan"}
    BY <2>1, <2>3 DEF Held, LockedAt, Ended
  <2>5. \A u \in Threads : u # p => pfds'[u] = pfds[u] /\ count'[u] = count[u]
    BY <2>1 DEF Append, Shape, TypeOK
  <2>6. \A f \in Fds : Has(p, f)' <=> Has(p, f) \/ f = lFd
    <3> PICK fd \in Fds : fd = lFd
      BY <2>2
    <3> QED
      BY <2>1, <2>2, <2>4, AppendHas
  <2>7. \A u \in Threads, f \in Fds : u # p => (Has(u, f)' <=> Has(u, f))
    BY <2>1, <2>3, <2>5, KeepHas
  <2>8. StillScanning(Threads)
    BY <2>1, <2>3, <2>4, <2>5 DEF StillScanning
  <2>9. IsPlaced(p)
    BY <2>1, <2>2, <2>6, <2>7, <2>8 DEF IsPlaced
  <2> QED
    BY <2>2, <2>9 DEF Happens
<1>2. CASE ~Place
  <2>1. UNCHANGED <<tables, loops, upgraded, stale>>
    BY <1>2
    DEF ListenerStep, Scan, Refuse, PlaceIgnored, PlaceFault, AcceptFails, Accept,
        Close, PeerStep, PeerSends, PeerSendsPart, PeerSendsRest, PeerHangsUp, vars, net,
        upgrades
  <2>2. SameTables(Threads) /\ StillScanning(Threads)
    BY <2>1, AllKeep DEF loops
  <2>3. CASE \E fd \in Fds : Accept(fd)
    BY <2>1, <2>2, <2>3 DEF Accept, StartScan, AtRest, IsAccepted, Happens
  <2>4. CASE Refuse
    BY <2>1, <2>2, <2>4 DEF Refuse, Rest, net, IsRefused, Nothing, Happens
  <2>5. CASE PlaceIgnored
    <3>1. Scanned /\ lLow < ClientsMax /\ AddFault(lPick, lFd) = "badIndex"
      BY <2>5 DEF PlaceIgnored
    <3>2. lPick \in Threads /\ ~(count[lPick] >= ClientsMax)
      BY <3>1, ThreadSets, CountsAssumption DEF PickIsCurrent, Shape, TypeOK
    <3>3. lFd = NoFd
      BY <3>1, <3>2 DEF AddFault
    <3> QED
      BY <2>1, <2>2, <2>5, <3>3 DEF PlaceIgnored, Rest, net, Nothing, Happens
  <2>6. CASE AcceptFails \/ Scan \/ PlaceFault \/ Close \/ UNCHANGED vars
            \/ \E fd \in Fds : PeerStep(fd)
    <3>1. UNCHANGED <<open, lFd>>
      BY <2>6
      DEF Scan, PlaceFault, AcceptFails, StartScan, AtRest, Close, PeerStep, PeerSends,
          PeerSendsPart, PeerSendsRest, PeerHangsUp, vars, net, listener
    <3> QED
      BY <2>1, <2>2, <3>1 DEF Nothing, Happens
  <2> QED
    BY <1>2, <2>3, <2>4, <2>5, <2>6 DEF ListenerStep
<1> QED
  BY <1>1, <1>2

LEMMA StepRest ==
  ASSUME AtRest, [Next]_vars
  PROVE  AtRest'
<1>1. ASSUME NEW t \in Threads, ThreadStep(t) \/ SpuriousWake(t) \/ WsReset(t)
      PROVE  UNCHANGED listener
  BY <1>1
  DEF ThreadStep, ThreadInit, CheckListening, ThreadExit, LockLoop, Wake, SpuriousWake,
      Unlock, Poll, SweepExpired, ServeHangup, HttpRespond, SwitchProtocols, WsHandle,
      WsHandlePart, WsHandleRest, WsReset, FrameDone
<1>2. ASSUME NEW t \in HttpThreads, UpgradeStep(t)
      PROVE  UNCHANGED listener
  BY <1>2 DEF UpgradeStep, UpgradeScan, UpgradeAdd, UpgradeFault, UpgradeDrop
<1>3. CASE ListenerStep \/ AcceptFails \/ \E fd \in Fds : Accept(fd)
  BY <1>3
  DEF ListenerStep, Scan, Refuse, Place, PlaceIgnored, PlaceFault, AcceptFails, Accept,
      StartScan, Rest, Scanned, AtRest, listener
<1>4. CASE Close \/ (\E fd \in Fds : PeerStep(fd)) \/ UNCHANGED vars
  BY <1>4
  DEF Close, PeerStep, PeerSends, PeerSendsPart, PeerSendsRest, PeerHangsUp, vars,
      listener, AtRest
<1> QED
  BY <1>1, <1>2, <1>3, <1>4 DEF Next, Halted, listener, AtRest

\* What is known of the server in every state, to tell what a step does.
Known == Shape /\ Owners /\ PickIsCurrent /\ AtRest

LEMMA InitKnown == Init => Known
<1>1. Init => PickIsCurrent /\ AtRest
  BY CountsAssumption DEF Init, PickIsCurrent, AtRest
<1> QED
  BY <1>1, InitShape, InitOwners DEF Known

LEMMA StepKnown == Known /\ [Next]_vars => Known'
BY StepShape, StepOwners, StepPick, StepRest DEF Known

LEMMA StepHappens == Known /\ [Next]_vars => Happens
<1> SUFFICES ASSUME Known, [Next]_vars PROVE Happens
  OBVIOUS
<1>1. ASSUME NEW t \in Threads, ThreadStep(t) \/ SpuriousWake(t) \/ WsReset(t)
      PROVE  Happens
  <2>1. WsHandleRest(t) \/ WsReset(t) => idx[t] \in Slots
    BY DEF WsHandleRest, WsReset, Goto, Known, Shape, AtIndex
  <2> QED
    BY <1>1, <2>1, HandleHappens, LoopHappens DEF ThreadStep, Known
<1> QED
  BY <1>1, UpgradeHappens, ListenerHappens DEF Next, Halted, Known

-----------------------------------------------------------------------------
(* The protocol a connection is served in. *)

\* An HTTP thread has a connection that speaks WebSocket only in the slot it is
\* upgrading, and what it is upgrading is one unless its index is stale.
InProtocol ==
  /\ upgraded \subseteq open /\ lFd \notin upgraded
  /\ \A t \in HttpThreads, fd \in Fds :
       Has(t, fd) /\ fd \in upgraded =>
         pc[t] = "scan" /\ pfds[t][idx[t]] = fd /\ t \notin stale
  /\ \A t \in Threads :
       pc[t] = "scan" => /\ t \in HttpThreads
                         /\ t \in stale \/ (idx[t] < count[t] /\ pfds[t][idx[t]] \in upgraded)
  /\ \A t \in stale : pc[t] = "scan"

LEMMA InitInProtocol == Init => InProtocol
<1> SUFFICES ASSUME Init PROVE InProtocol
  OBVIOUS
<1>1. \A t \in Threads, k \in Slots : ~Live(t, k)
  BY SlotSets DEF Init, Live
<1> QED
  BY <1>1, ThreadSets DEF Init, InProtocol, Has

LEMMA HappensInProtocol ==
  ASSUME Known, InProtocol, Happens
  PROVE  InProtocol'
<1>1. OneOwner /\ open \subseteq Fds /\ NoFd \notin Fds /\ stale \subseteq HttpThreads
  BY FdsAssumption DEF Known, Owners, Shape, TypeOK
<1>2. /\ HttpThreads \subseteq Threads /\ WsThreads \subseteq Threads
      /\ HttpThreads \cap WsThreads = {}
  BY ThreadSets
<1>3. CASE Nothing \/ IsRefused \/ \E fd \in Fds : IsAccepted(fd)
  <2>1. /\ upgraded' = upgraded /\ stale' = stale /\ open \subseteq open'
        /\ lFd' = lFd \/ lFd' = NoFd \/ lFd' \notin open
        /\ SameTables(Threads) /\ StillScanning(Threads)
    BY <1>3 DEF Nothing, IsRefused, IsAccepted
  <2> QED
    BY <1>1, <1>2, <2>1 DEF InProtocol, SameTables, StillScanning
<1>4. ASSUME NEW t \in HttpThreads, IsPlaced(t) PROVE InProtocol'
  BY <1>1, <1>2, <1>4 DEF InProtocol, IsPlaced, StillScanning
<1>5. ASSUME NEW t \in HttpThreads, NEW fd \in Fds, IsSwitched(t, fd) PROVE InProtocol'
  <2>1. fd \in open /\ fd # lFd
    BY <1>1, <1>2, <1>5, HasIsOpen DEF IsSwitched
  <2>2. \A u \in Threads : u # t => ~Has(u, fd)
    BY <1>1, <1>2, <1>5, HasOnce DEF IsSwitched
  <2>3. t \notin stale /\ \A f \in Fds : Has(t, f) => f \notin upgraded
    BY <1>5 DEF IsSwitched, InProtocol
  <2> QED
    BY <1>1, <1>2, <1>5, <2>1, <2>2, <2>3 DEF InProtocol, IsSwitched, SameTables, StillScanning
<1>6. ASSUME NEW t \in HttpThreads, NEW p \in WsThreads, NEW fd \in Fds, IsMoved(t, p, fd)
      PROVE  InProtocol'
  <2>1. \A f \in Fds : Has(t, f) /\ f \in upgraded => f = fd
    BY <1>2, <1>6 DEF IsMoved, InProtocol
  <2> QED
    BY <1>1, <1>2, <1>6, <2>1 DEF InProtocol, IsMoved, StillScanning
<1>7. ASSUME NEW t \in Threads, NEW fd \in Fds, Closing(t, fd),
             NEW u \in Threads, pc[u] = "scan", u \notin stale
      PROVE  pfds[u][idx[u]] # fd
  <2>1. Has(u, pfds[u][idx[u]])
    BY <1>2, <1>7 DEF InProtocol, Has, Live, Ended, Known, Shape, AtIndex
  <2>2. u # t
    BY <1>7 DEF Closing
  <2> QED
    BY <1>1, <1>7, <2>1, <2>2, HasOnce DEF Closing
<1>8. ASSUME NEW t \in Threads, NEW fd \in Fds, IsClosed(t, fd) PROVE InProtocol'
  <2>1. StillScanning(Threads) /\ Closing(t, fd)
    BY <1>8 DEF IsClosed, Closing, StillScanning
  <2> QED
    BY <1>1, <1>2, <1>7, <1>8, <2>1 DEF InProtocol, IsClosed, Closing, StillScanning
<1>9. ASSUME NEW t \in HttpThreads, NEW fd \in Fds, IsLost(t, fd) PROVE InProtocol'
  <2>1. Closing(t, fd) /\ t \in Threads
    BY <1>2, <1>9 DEF IsLost
  <2>2. \A f \in Fds : Has(t, f) => f \notin upgraded
    BY <1>9 DEF IsLost, InProtocol
  <2> QED
    BY <1>1, <1>2, <1>7, <1>9, <2>1, <2>2 DEF InProtocol, IsLost, Closing, StillScanning
<1>10. ASSUME NEW t \in Threads, IsAbandoned(t) PROVE InProtocol'
  BY <1>1, <1>2, <1>10 DEF InProtocol, IsAbandoned, StillScanning
<1> QED
  BY <1>3, <1>4, <1>5, <1>6, <1>8, <1>9, <1>10 DEF Happens

\* What SpeaksItsProtocol says of one step.
Spoken ==
  \A t \in Threads, k \in Slots :
    LET fd == pfds'[t][k]
    IN  Live(t, k)' =>
          IF t \in WsThreads
            THEN \/ In(WsThreads, fd)
                 \/ fd \in upgraded
                 \/ \E u \in stale \ stale' : pc[u] = "scan" /\ pfds[u][idx[u]] = fd
            ELSE fd \in upgraded' => pc'[t] = "scan" /\ idx'[t] = k /\ t \notin stale'

LEMMA StepSpoken ==
  ASSUME Known, InProtocol, Happens, Known', InProtocol'
  PROVE  Spoken
<1> SUFFICES ASSUME NEW t \in Threads, NEW k \in Slots, Live(t, k)',
                    NEW fd, fd = pfds'[t][k]
             PROVE  IF t \in WsThreads
                      THEN \/ In(WsThreads, fd)
                           \/ fd \in upgraded
                           \/ \E u \in stale \ stale' : pc[u] = "scan" /\ pfds[u][idx[u]] = fd
                      ELSE fd \in upgraded' => pc'[t] = "scan" /\ idx'[t] = k /\ t \notin stale'
  BY DEF Spoken
<1>1. Has(t, fd)' /\ fd \in Fds
  BY DEF Has, Known, Owners, OneOwner, Shape, TypeOK
<1>2. CASE t \in WsThreads
  <2>1. CASE Has(t, fd)
    BY <1>2, <2>1 DEF In, Has
  <2>2. CASE ~Has(t, fd)
    <3>0. t \in Threads /\ t \notin HttpThreads
      BY <1>2, ThreadSets
    <3>a. ~(Nothing \/ IsRefused \/ \E f \in Fds : IsAccepted(f))
      BY <1>1, <2>2, <3>0 DEF Nothing, IsRefused, IsAccepted, SameTables
    <3>b. ~(\E u \in HttpThreads : IsPlaced(u))
      BY <1>1, <2>2, <3>0 DEF IsPlaced
    <3>c. ~(\E u \in HttpThreads, f \in Fds : IsSwitched(u, f))
      BY <1>1, <2>2, <3>0 DEF IsSwitched, SameTables
    <3>d. ~(\/ \E u \in Threads, f \in Fds : IsClosed(u, f)
            \/ \E u \in HttpThreads, f \in Fds : IsLost(u, f)
            \/ \E u \in Threads : IsAbandoned(u))
      BY <1>1, <2>2, <3>0 DEF IsClosed, IsLost, Closing, IsAbandoned
    <3>e. PICK u \in HttpThreads, p \in WsThreads, f \in Fds : IsMoved(u, p, f)
      BY <3>a, <3>b, <3>c, <3>d DEF Happens
    <3>1. IsMoved(u, p, f) /\ f = fd
      BY <1>1, <2>2, <3>0, <3>e DEF IsMoved
    <3>2. /\ pc[u] = "scan" /\ pfds[u][idx[u]] = fd /\ stale' = stale \ {u} /\ Has(u, fd)
      BY <3>1 DEF IsMoved
    <3>3. u \in stale \/ pfds[u][idx[u]] \in upgraded
      <4>1. u \in Threads
        BY ThreadSets
      <4> QED
        BY <3>2, <4>1 DEF InProtocol
    <3> QED
      BY <1>2, <3>2, <3>3
  <2> QED
    BY <2>1, <2>2
<1>3. CASE t \in HttpThreads /\ fd \in upgraded'
  <2>1. pc'[t] = "scan" /\ pfds'[t][idx'[t]] = fd /\ t \notin stale' /\ idx'[t] < count'[t]
    BY <1>1, <1>3 DEF InProtocol
  <2>2. idx'[t] \in Slots /\ Live(t, idx[t])'
    BY <2>1 DEF Known, Shape, AtIndex, Live, Ended
  <2> QED
    BY <1>3, <2>1, <2>2, ThreadSets DEF Known, Owners, OneOwner
<1> QED
  BY <1>2, <1>3 DEF Threads

(***************************************************************************)
(* A WebSocket thread gets a connection after its 101, or from an upgrade  *)
(* that has just closed its own with one; an HTTP thread has such a peer   *)
(* only in the slot it is upgrading.  This is so whatever comes between:   *)
(* full tables, timeouts, other upgrades, responses that cannot be sent or *)
(* say "connection: close", threads that start late or end early.          *)
(***************************************************************************)
THEOREM ServedInItsProtocol == Spec => SpeaksItsProtocol
<1>1. Known /\ InProtocol /\ [Next]_vars => InProtocol'
  BY StepHappens, HappensInProtocol
<1>2. Known /\ InProtocol /\ [Next]_vars /\ Known' /\ InProtocol' => Spoken
  BY StepHappens, StepSpoken
<1> QED
  BY <1>1, <1>2, InitInProtocol, InitKnown, StepKnown, PTL
  DEF Spec, SpeaksItsProtocol, Spoken

-----------------------------------------------------------------------------
(* No connection is lost on the way. *)

LEMMA InIsHas ==
  ASSUME NEW S, NEW fd
  PROVE  In(S, fd) <=> \E t \in S : Has(t, fd)
BY DEF In, Has

LEMMA OwnedIsHas ==
  ASSUME NEW fd
  PROVE  /\ Owned(fd) <=> fd = lFd \/ \E t \in Threads : Has(t, fd)
         /\ Owned(fd)' <=> fd = lFd' \/ \E t \in Threads : Has(t, fd)'
BY DEF Owned, In, Has

(***************************************************************************)
(* An open connection is forgotten by the 503 of a full server and by a    *)
(* thread that ends, and in no other way: not between the listener's scan  *)
(* and its addition, whose result nobody looks at, and not in a hand-over, *)
(* also when the 101 before it has failed.                                 *)
(***************************************************************************)
THEOREM NoneIsLostOnTheWay == Spec => LostOnlyByRefusal
<1>1. Known /\ [Next]_vars =>
        \A fd \in open \cap open' :
          Owned(fd) /\ ~Owned(fd)' =>
            \/ fd = lFd /\ Scanned /\ lLow >= ClientsMax
            \/ \E t \in Threads : ~Ended(t) /\ Ended(t)' /\ fd \in Table(t)
  <2> SUFFICES ASSUME Known, [Next]_vars, NEW fd \in open \cap open',
                      Owned(fd), ~Owned(fd)'
               PROVE  \/ fd = lFd /\ Scanned /\ lLow >= ClientsMax
                      \/ \E t \in Threads : ~Ended(t) /\ Ended(t)' /\ fd \in Table(t)
    OBVIOUS
  <2>1. Happens
    BY StepHappens
  <2>2. /\ fd = lFd \/ \E t \in Threads : Has(t, fd)
        /\ fd # lFd' /\ \A t \in Threads : ~Has(t, fd)'
    BY OwnedIsHas
  <2>3. fd \in Fds /\ fd # NoFd /\ HttpThreads \subseteq Threads /\ WsThreads \subseteq Threads
    BY FdsAssumption, ThreadSets DEF Known, Shape, TypeOK
  <2>4. CASE Nothing \/ \E f \in Fds : IsAccepted(f)
    BY <2>2, <2>3, <2>4 DEF Nothing, IsAccepted, SameTables
  <2>5. CASE \E t \in HttpThreads : IsPlaced(t)
    BY <2>2, <2>3, <2>5 DEF IsPlaced
  <2>6. CASE IsRefused
    BY <2>2, <2>3, <2>6 DEF IsRefused, SameTables
  <2>7. CASE \E t \in HttpThreads, f \in Fds : IsSwitched(t, f)
    BY <2>2, <2>3, <2>7 DEF IsSwitched, SameTables
  <2>8. CASE \E t \in HttpThreads, p \in WsThreads, f \in Fds : IsMoved(t, p, f)
    BY <2>2, <2>3, <2>8 DEF IsMoved
  <2>9. CASE \/ \E t \in Threads, f \in Fds : IsClosed(t, f)
             \/ \E t \in HttpThreads, f \in Fds : IsLost(t, f)
    BY <2>2, <2>3, <2>9 DEF IsClosed, IsLost, Closing
  <2>10. CASE \E t \in Threads : IsAbandoned(t)
    <3>1. PICK t \in Threads : IsAbandoned(t)
      BY <2>10
    <3>2. Has(t, fd)
      BY <2>2, <2>3, <3>1 DEF IsAbandoned
    <3>3. fd \in Table(t)
      BY <2>3, <3>2 DEF Has, Live, Table
    <3> QED
      BY <3>1, <3>3 DEF IsAbandoned, Ended
  <2> QED
    BY <2>1, <2>4, <2>5, <2>6, <2>7, <2>8, <2>9, <2>10 DEF Happens
<1> QED
  BY <1>1, InitKnown, StepKnown, PTL DEF Spec, LostOnlyByRefusal

-----------------------------------------------------------------------------
(* The server implements ConnService. *)

\* Where a connection is, by who has it.
Located ==
  \A fd \in Fds :
    /\ WhereIs(fd) = "free" <=> fd \notin open
    /\ WhereIs(fd) = "accepted" <=> fd \in open /\ fd = lFd
    /\ WhereIs(fd) = "ws" <=> \E t \in WsThreads : Has(t, fd)
    /\ WhereIs(fd) = "http" <=> \E t \in HttpThreads : Has(t, fd)
    /\ WhereIs(fd) \in {"free", "accepted", "ws", "http", "lost"}

LEMMA KnownLocated == Known => Located
<1> SUFFICES ASSUME Known, NEW fd \in Fds
             PROVE  /\ WhereIs(fd) = "free" <=> fd \notin open
                    /\ WhereIs(fd) = "accepted" <=> fd \in open /\ fd = lFd
                    /\ WhereIs(fd) = "ws" <=> \E t \in WsThreads : Has(t, fd)
                    /\ WhereIs(fd) = "http" <=> \E t \in HttpThreads : Has(t, fd)
                    /\ WhereIs(fd) \in {"free", "accepted", "ws", "http", "lost"}
  BY DEF Located
<1>1. /\ In(WsThreads, fd) <=> \E t \in WsThreads : Has(t, fd)
      /\ In(HttpThreads, fd) <=> \E t \in HttpThreads : Has(t, fd)
  BY InIsHas
<1>2. /\ In(WsThreads, fd) \/ In(HttpThreads, fd) => fd \in open /\ fd # lFd
      /\ ~(In(WsThreads, fd) /\ In(HttpThreads, fd))
  BY <1>1, HasIsOpen, HasOnce, ThreadSets DEF Known, Owners
<1> HIDE DEF In
<1> QED
  BY <1>1, <1>2 DEF WhereIs

\* The connection is somewhere else, and all others are where they were.
Goes(fd, to) ==
  \A f \in Fds : WhereIs(f)' = IF f = fd THEN to ELSE WhereIs(f)

\* How that looks to ConnService.
LEMMA GoesSteps ==
  ASSUME NEW fd \in Fds, NEW to, Goes(fd, to)
  PROVE  Service!Step(fd, WhereIs(fd), to)
BY DEF Goes, Service!Step

LEMMA HappensService ==
  ASSUME Known, Located, Located', InProtocol, Happens
  PROVE  Service!Next \/ UNCHANGED <<[fd \in Fds |-> WhereIs(fd)], upgraded, stale>>
<1> USE DEF Located
<1>1. OneOwner /\ NoFd \notin Fds /\ open \subseteq Fds
  BY FdsAssumption DEF Known, Owners, Shape, TypeOK
<1>2. /\ HttpThreads \subseteq Threads /\ WsThreads \subseteq Threads
      /\ HttpThreads \cap WsThreads = {}
  BY ThreadSets
<1>3. CASE Nothing
  <2>1. \A fd \in Fds : WhereIs(fd)' = WhereIs(fd)
    BY <1>2, <1>3 DEF Nothing, SameTables
  <2> QED
    BY <1>3, <2>1 DEF Nothing
<1>4. ASSUME NEW fd \in Fds, IsAccepted(fd) PROVE Service!Next
  <2>1. WhereIs(fd) = "free" /\ WhereIs(fd)' = "accepted"
    BY <1>4 DEF IsAccepted
  <2>2. Goes(fd, "accepted")
    BY <1>1, <1>2, <1>4, <2>1 DEF IsAccepted, SameTables, Goes
  <2> QED
    BY <1>4, <2>1, <2>2, GoesSteps DEF IsAccepted, Service!Next, Service!Accepts
<1>5. ASSUME NEW t \in HttpThreads, IsPlaced(t) PROVE Service!Next
  <2> PICK fd \in Fds : fd = lFd
    BY <1>1, <1>5 DEF IsPlaced
  <2>1. WhereIs(fd) = "accepted" /\ WhereIs(fd)' = "http"
    BY <1>2, <1>5 DEF IsPlaced
  <2>2. Goes(fd, "http")
    BY <1>1, <1>2, <1>5, <2>1 DEF IsPlaced, Goes
  <2> QED
    BY <1>5, <2>1, <2>2, GoesSteps DEF IsPlaced, Service!Next, Service!Places
<1>6. CASE IsRefused
  <2> PICK fd \in Fds : fd = lFd
    BY <1>1, <1>6 DEF IsRefused, Known, Owners
  <2>1. WhereIs(fd) = "accepted" /\ WhereIs(fd)' = "lost"
    BY <1>1, <1>2, <1>6 DEF IsRefused, SameTables, Known, Owners
  <2>2. Goes(fd, "lost")
    BY <1>1, <1>2, <1>6, <2>1 DEF IsRefused, SameTables, Goes
  <2> QED
    BY <1>6, <2>1, <2>2, GoesSteps DEF IsRefused, Service!Next, Service!Refuses
<1>7. ASSUME NEW t \in HttpThreads, NEW fd \in Fds, IsSwitched(t, fd) PROVE Service!Next
  <2>1. WhereIs(fd) = "http" /\ fd \notin upgraded
    BY <1>7 DEF IsSwitched, InProtocol
  <2>2. \A f \in Fds : WhereIs(f)' = WhereIs(f)
    BY <1>2, <1>7 DEF IsSwitched, SameTables
  <2> QED
    BY <1>7, <2>1, <2>2 DEF IsSwitched, Service!Next, Service!Switches
<1>8. ASSUME NEW t \in HttpThreads, NEW p \in WsThreads, NEW fd \in Fds, IsMoved(t, p, fd)
      PROVE  Service!Next
  <2>1. WhereIs(fd) = "http" /\ WhereIs(fd)' = "ws"
    BY <1>2, <1>8 DEF IsMoved
  <2>2. Goes(fd, "ws")
    BY <1>1, <1>2, <1>8, <2>1 DEF IsMoved, Goes
  <2>3. CASE t \in stale
    <3>1. fd \notin upgraded
      BY <1>8, <2>3 DEF IsMoved, InProtocol
    <3>2. Service!Strays(fd, t)
      BY <1>8, <2>1, <2>2, <2>3, <3>1, GoesSteps DEF IsMoved, Service!Strays
    <3> QED
      BY <3>2 DEF Service!Next
  <2>4. CASE t \notin stale
    <3>1. fd \in upgraded /\ stale' = stale
      BY <1>2, <1>8, <2>4 DEF IsMoved, InProtocol
    <3>2. Service!Moves(fd)
      BY <1>8, <2>1, <2>2, <3>1, GoesSteps DEF IsMoved, Service!Moves
    <3> QED
      BY <3>2 DEF Service!Next
  <2> QED
    BY <2>3, <2>4
<1>9. ASSUME NEW t \in Threads, NEW fd \in Fds, Closing(t, fd)
      PROVE  /\ Service!Step(fd, WhereIs(fd), "free")
             /\ t \in HttpThreads => WhereIs(fd) = "http" /\ fd \notin upgraded
             /\ t \in WsThreads => WhereIs(fd) = "ws"
             /\ upgraded' = upgraded \ {fd}
  <2>1. WhereIs(fd)' = "free"
    BY <1>9 DEF Closing
  <2>2. Goes(fd, "free")
    BY <1>1, <1>2, <1>9, <2>1 DEF Closing, Goes
  <2>3. t \in HttpThreads => WhereIs(fd) = "http" /\ fd \notin upgraded
    BY <1>9 DEF Closing, InProtocol
  <2>4. t \in WsThreads => WhereIs(fd) = "ws"
    BY <1>9 DEF Closing
  <2> QED
    BY <1>9, <2>2, <2>3, <2>4, GoesSteps DEF Closing
<1>11. ASSUME NEW t \in Threads, NEW fd \in Fds, IsClosed(t, fd) PROVE Service!Next
  <2>1. Service!Closes(fd)
    BY <1>9, <1>11 DEF IsClosed, Threads, Service!Closes
  <2> QED
    BY <2>1 DEF Service!Next
<1>12. ASSUME NEW t \in HttpThreads, NEW fd \in Fds, IsLost(t, fd) PROVE Service!Next
  <2>1. t \notin stale /\ fd \notin upgraded /\ t \in Threads
    BY <1>2, <1>9, <1>12 DEF IsLost, InProtocol
  <2>2. Service!Loses(fd, t)
    BY <1>2, <1>9, <1>12, <2>1 DEF IsLost, Service!Loses
  <2> QED
    BY <2>2 DEF Service!Next
<1>10. ASSUME NEW t \in Threads, IsAbandoned(t)
       PROVE  Service!Next \/ UNCHANGED <<[fd \in Fds |-> WhereIs(fd)], upgraded, stale>>
  <2> PICK lost \in SUBSET Fds : lost = {f \in Fds : Has(t, f)}
    OBVIOUS
  <2>1. \A f \in lost : WhereIs(f) \in {"http", "ws"}
    BY DEF Threads
  <2>2. ASSUME NEW f \in lost PROVE WhereIs(f)' = "lost"
    <3>1. f \in open' /\ f # lFd' /\ \A u \in Threads : ~Has(u, f)'
      BY <1>1, <1>10, HasIsOpen, HasOnce DEF IsAbandoned
    <3> QED
      BY <1>2, <3>1
  <2>3. ASSUME NEW f \in Fds \ lost PROVE WhereIs(f)' = WhereIs(f)
    <3>1. \A u \in Threads : Has(u, f)' <=> Has(u, f)
      BY <1>10 DEF IsAbandoned
    <3> QED
      BY <1>2, <1>10, <3>1 DEF IsAbandoned
  <2>4. CASE lost = {}
    BY <1>10, <2>3, <2>4 DEF IsAbandoned
  <2>5. CASE lost # {}
    <3>1. Service!Abandons(lost)
      BY <1>10, <2>2, <2>3, <2>5 DEF IsAbandoned, Service!Abandons
    <3>2. lost \in SUBSET {f \in Fds : [fd \in Fds |-> WhereIs(fd)][f] \in {"http", "ws"}}
      BY <2>1
    <3> QED
      BY <3>1, <3>2 DEF Service!Next
  <2> QED
    BY <2>4, <2>5
<1> QED
  BY <1>3, <1>4, <1>5, <1>6, <1>7, <1>8, <1>10, <1>11, <1>12 DEF Happens

(***************************************************************************)
(* The threads of the server, with all their tables, scans and locks, do   *)
(* to a connection only what ConnService allows: every step of theirs is a *)
(* step of it, or none, whatever the surroundings do.                      *)
(***************************************************************************)
THEOREM ServerImplementsService == Spec => ImplementsService
<1>1. Init => InProtocol
  BY InitInProtocol
<1>2. Init => Service!Init
  BY DEF Init, Service!Init, WhereIs
<1>3. Known /\ InProtocol /\ [Next]_vars => InProtocol'
  BY StepHappens, HappensInProtocol
<1>4. /\ Known /\ Known' /\ InProtocol /\ [Next]_vars
      /\ Located /\ Located'
      => [Service!Next]_<<[fd \in Fds |-> WhereIs(fd)], upgraded, stale>>
  BY StepHappens, HappensService
<1> QED
  BY <1>1, <1>2, <1>3, <1>4, InitKnown, StepKnown, KnownLocated, PTL
  DEF Spec, ImplementsService, Service!Spec

-----------------------------------------------------------------------------
(* A locked table is its owner's. *)

\* What LockedTableIsStable says of one thread and one step.
Stable(u) ==
  Held(u) /\ UNCHANGED <<pc[u], idx[u], avail[u]>> => UNCHANGED <<pfds[u], count[u]>>

LEMMA StepStable ==
  ASSUME Shape, [Next]_vars, NEW u \in Threads
  PROVE  Stable(u)
<1> USE DEF Stable
<1>1. ASSUME NEW t \in Threads, NEW k \in Slots,
             \/ SweepExpired(t, k) \/ ServeHangup(t, k) \/ HttpRespond(t, k)
             \/ SwitchProtocols(t, k) \/ WsHandle(t, k) \/ WsHandlePart(t, k)
             \/ k = idx[t] /\ (WsHandleRest(t) \/ WsReset(t))
      PROVE  Stable(u)
  <2>1. UNCHANGED tables \/ Remove(t, k)
    BY <1>1
    DEF SweepExpired, ServeHangup, HttpRespond, SwitchProtocols, WsHandle, WsHandlePart,
        WsHandleRest, WsReset, FrameDone, Consume, Disconnect, tables
  <2>2. UNCHANGED tables \/ pc'[t] # pc[t] \/ idx'[t] # idx[t] \/ avail'[t] # avail[t]
    <3>1. SweepExpired(t, k) => idx'[t] # idx[t]
      BY CountsAssumption DEF SweepExpired, Shape, TypeOK, Slots
    <3>2. SwitchProtocols(t, k) => pc'[t] # pc[t]
      BY DEF SwitchProtocols, Turn, Shape, TypeOK
    <3>3. Served(t, k) /\ avail[t] \in Nat => avail'[t] # avail[t]
      BY DEF Served, Shape, TypeOK
    <3>4. avail[t] \in Nat
      BY DEF Shape, TypeOK
    <3> QED
      BY <1>1, <3>1, <3>2, <3>3, <3>4
      DEF ServeHangup, HttpRespond, WsHandle, WsHandlePart, WsHandleRest, WsReset,
          FrameDone
  <2>3. Remove(t, k) => \A v \in Threads : v # t => pfds'[v] = pfds[v] /\ count'[v] = count[v]
    BY DEF Remove, Shape, TypeOK
  <2> QED
    BY <2>1, <2>2, <2>3 DEF tables
<1>2. ASSUME NEW t \in Threads,
             \/ ThreadInit(t) \/ CheckListening(t) \/ ThreadExit(t) \/ LockLoop(t)
             \/ Wake(t) \/ SpuriousWake(t) \/ Unlock(t) \/ Poll(t)
      PROVE  Stable(u)
  BY <1>2
  DEF ThreadInit, CheckListening, ThreadExit, LockLoop, Wake, SpuriousWake,
      Unlock, Poll, Goto, tables, Shape, TypeOK
<1>3. ASSUME NEW t \in HttpThreads, UpgradeStep(t)
      PROVE  Stable(u)
  <2>1. t \in Threads
    BY ThreadSets
  <2>2. CASE UpgradeScan(t) \/ UpgradeFault(t)
    BY <2>2 DEF UpgradeScan, UpgradeFault, tables
  <2>3. CASE UpgradeAdd(t)
    BY <2>3 DEF UpgradeAdd, Append, Shape, TypeOK
  <2>4. CASE UpgradeDrop(t)
    BY <2>1, <2>4 DEF UpgradeDrop, Goto, Remove, Shape, TypeOK
  <2> QED
    BY <1>3, <2>2, <2>3, <2>4 DEF UpgradeStep
<1>4. CASE \/ ListenerStep \/ AcceptFails \/ \E fd \in Fds : Accept(fd)
           \/ Close \/ \E fd \in Fds : PeerStep(fd)
           \/ UNCHANGED vars
  <2>1. CASE Place
    BY <2>1 DEF Place, Append, Shape, TypeOK
  <2>2. CASE ~Place
    BY <1>4, <2>2
    DEF ListenerStep, Scan, Refuse, PlaceIgnored, PlaceFault, AcceptFails, Accept,
        Close, PeerStep, PeerSends, PeerSendsPart, PeerSendsRest, PeerHangsUp, vars, tables
  <2> QED
    BY <2>1, <2>2
<1>5. \A t \in Threads : WsHandleRest(t) \/ WsReset(t) => idx[t] \in Slots
  BY DEF WsHandleRest, WsReset, Goto, Shape, AtIndex
<1>6. ASSUME NEW t \in Threads, ThreadStep(t) \/ SpuriousWake(t) \/ WsReset(t)
      PROVE  Stable(u)
  BY <1>1, <1>2, <1>5, <1>6 DEF ThreadStep
<1> QED
  BY <1>3, <1>4, <1>6 DEF Next, Halted

(***************************************************************************)
(* The table of a thread that holds its mutex changes in its own steps     *)
(* only, each of which moves on in its loop: an index that a handler keeps *)
(* from one call to the next still is the index of the same connection.    *)
(***************************************************************************)
THEOREM LockedTablesAreStable == Spec => LockedTableIsStable
<1>1. Shape /\ [Next]_vars => \A t \in Threads : Stable(t)
  BY StepStable
<1> QED
  BY <1>1, InitShape, StepShape, PTL DEF Spec, LockedTableIsStable, Stable

-----------------------------------------------------------------------------
(* Every memory error has one of its causes. *)

\* Threads run before the first client, and none ends before the server is closed.
Started ==
  /\ listening => \A t \in Threads : pc[t] # "done"
  /\ "early" \in Env \/ open = {} \/ \A t \in Threads : pc[t] # "new"

\* An HTTP thread has chosen a WebSocket thread when it has seen one with room,
\* and the one there is finds as much room there as it has seen.
Choosing ==
  \A t \in HttpThreads :
    /\ uPick[t] = NoThread <=> uLow[t] = ClientsMax
    /\ HttpCount = 1 /\ uPick[t] # NoThread => count[uPick[t]] <= uLow[t]

Safe == Known /\ InProtocol /\ Started /\ Choosing

LEMMA StepStarted ==
  ASSUME Shape, Started, [Next]_vars
  PROVE  Started'
<1>1. ASSUME /\ listening' = listening
             /\ \A u \in Threads : pc'[u] = pc[u] \/ pc'[u] \notin {"new", "done"}
             /\ open' \subseteq open
      PROVE  Started'
  BY <1>1 DEF Started
<1>2. ASSUME NEW t \in Threads, NEW k \in Slots,
             \/ SweepExpired(t, k) \/ ServeHangup(t, k) \/ HttpRespond(t, k)
             \/ SwitchProtocols(t, k) \/ WsHandle(t, k) \/ WsHandlePart(t, k)
             \/ k = idx[t] /\ (WsHandleRest(t) \/ WsReset(t))
      PROVE  Started'
  <2>1. /\ listening' = listening
        /\ \A u \in Threads : pc'[u] = pc[u] \/ pc'[u] \notin {"new", "done"}
    BY <1>2
    DEF SweepExpired, ServeHangup, HttpRespond, SwitchProtocols, WsHandle, WsHandlePart,
        WsHandleRest, WsReset, FrameDone, Turn, Goto, Shape, TypeOK
  <2>2. open' \subseteq open
    BY <1>2
    DEF SweepExpired, ServeHangup, HttpRespond, SwitchProtocols, WsHandle, WsHandlePart,
        WsHandleRest, WsReset, FrameDone, Consume, Disconnect, CloseFd, net
  <2> QED
    BY <1>1, <2>1, <2>2
<1>3. ASSUME NEW t \in Threads,
             \/ ThreadInit(t) \/ CheckListening(t) \/ LockLoop(t)
             \/ Wake(t) \/ SpuriousWake(t) \/ Unlock(t) \/ Poll(t)
      PROVE  Started'
  BY <1>1, <1>3
  DEF ThreadInit, CheckListening, LockLoop, Wake, SpuriousWake,
      Unlock, Poll, Goto, net, Shape, TypeOK
<1>4. ASSUME NEW t \in Threads, ThreadExit(t)
      PROVE  Started'
  BY <1>4 DEF ThreadExit, Goto, net, Started, Shape, TypeOK
<1>5. ASSUME NEW t \in HttpThreads, UpgradeStep(t)
      PROVE  Started'
  <2>1. t \in Threads
    BY ThreadSets
  <2>2. /\ listening' = listening /\ open' = open
        /\ \A u \in Threads : pc'[u] = pc[u] \/ pc'[u] \notin {"new", "done"}
    BY <1>5, <2>1
    DEF UpgradeStep, UpgradeScan, UpgradeFault, UpgradeAdd, UpgradeDrop, Goto, Signalled,
        loops, net, Shape, TypeOK
  <2> QED
    BY <1>1, <2>2
<1>6. CASE ListenerStep \/ AcceptFails \/ (\E fd \in Fds : PeerStep(fd)) \/ UNCHANGED vars
  <2>1. /\ listening' = listening /\ open' = open
        /\ \A u \in Threads : pc'[u] = pc[u] \/ pc'[u] \notin {"new", "done"}
    BY <1>6
    DEF ListenerStep, Scan, Refuse, Place, PlaceIgnored, PlaceFault, AcceptFails,
        PeerStep, PeerSends, PeerSendsPart, PeerSendsRest, PeerHangsUp, Signalled, vars,
        loops, net, Shape, TypeOK
  <2> QED
    BY <1>1, <2>1
<1>7. ASSUME Close \/ \E fd \in Fds : Accept(fd)
      PROVE  Started'
  BY <1>7 DEF Accept, Close, loops, net, Started
<1>8. \A t \in Threads : WsHandleRest(t) \/ WsReset(t) => idx[t] \in Slots
  BY DEF WsHandleRest, WsReset, Goto, Shape, AtIndex
<1>9. ASSUME NEW t \in Threads, ThreadStep(t) \/ SpuriousWake(t) \/ WsReset(t)
      PROVE  Started'
  BY <1>2, <1>3, <1>4, <1>8, <1>9 DEF ThreadStep
<1> QED
  BY <1>5, <1>6, <1>7, <1>9 DEF Next, Halted

\* Only _upgrade_to_ws adds to the table of a WebSocket thread.
LEMMA WsTablesShrink ==
  ASSUME Known, [Next]_vars, NEW p \in WsThreads, ~ \E t \in HttpThreads : UpgradeAdd(t)
  PROVE  count'[p] <= count[p]
<1>1. p \in Threads /\ p \notin HttpThreads /\ count[p] \in 0 .. ClientsMax /\ count[p] \in Nat
  BY ThreadSets, CountsAssumption DEF Known, Shape, TypeOK
<1>2. ASSUME UNCHANGED count PROVE count'[p] <= count[p]
  BY <1>1, <1>2
<1>3. ASSUME NEW t \in Threads, NEW k \in Slots, Remove(t, k) PROVE count'[p] <= count[p]
  BY <1>1, <1>3 DEF Remove, Known, Shape, TypeOK
<1>4. ASSUME NEW t \in Threads, NEW k \in Slots,
             \/ SweepExpired(t, k) \/ ServeHangup(t, k) \/ HttpRespond(t, k)
             \/ SwitchProtocols(t, k) \/ WsHandle(t, k) \/ WsHandlePart(t, k)
             \/ k = idx[t] /\ (WsHandleRest(t) \/ WsReset(t))
      PROVE  count'[p] <= count[p]
  <2>1. UNCHANGED count \/ Remove(t, k)
    BY <1>4
    DEF SweepExpired, ServeHangup, HttpRespond, SwitchProtocols, WsHandle, WsHandlePart,
        WsHandleRest, WsReset, FrameDone, Consume, Disconnect, tables
  <2> QED
    BY <1>2, <1>3, <2>1
<1>5. ASSUME NEW t \in Threads,
             \/ ThreadInit(t) \/ CheckListening(t) \/ ThreadExit(t) \/ LockLoop(t)
             \/ Wake(t) \/ SpuriousWake(t) \/ Unlock(t) \/ Poll(t)
      PROVE  count'[p] <= count[p]
  BY <1>2, <1>5
  DEF ThreadInit, CheckListening, ThreadExit, LockLoop, Wake, SpuriousWake, Unlock, Poll,
      tables
<1>6. \A t \in Threads : WsHandleRest(t) \/ WsReset(t) => idx[t] \in Slots
  BY DEF WsHandleRest, WsReset, Goto, Known, Shape, AtIndex
<1>7. ASSUME NEW t \in Threads, ThreadStep(t) \/ SpuriousWake(t) \/ WsReset(t)
      PROVE  count'[p] <= count[p]
  BY <1>4, <1>5, <1>6, <1>7 DEF ThreadStep
<1>8. ASSUME NEW t \in HttpThreads, UpgradeStep(t)
      PROVE  count'[p] <= count[p]
  <2>1. CASE UpgradeScan(t) \/ UpgradeFault(t)
    BY <1>2, <2>1 DEF UpgradeScan, UpgradeFault, tables
  <2>2. CASE UpgradeDrop(t)
    <3>1. t \in Threads /\ idx[t] \in Slots /\ Remove(t, idx[t])
      BY <2>2, ThreadSets DEF UpgradeDrop, Goto, Known, Shape, AtIndex
    <3> QED
      BY <1>3, <3>1
  <2> QED
    BY <1>8, <2>1, <2>2 DEF UpgradeStep
<1>9. CASE Place
  <2>1. lPick # p /\ count' = [count EXCEPT ![lPick] = @ + 1]
    BY <1>1, <1>9, ThreadSets DEF Place, Append, Known, Shape, TypeOK
  <2> QED
    BY <1>1, <2>1 DEF Known, Shape, TypeOK
<1>10. CASE \/ Scan \/ Refuse \/ PlaceIgnored \/ PlaceFault \/ AcceptFails \/ Close
            \/ (\E fd \in Fds : Accept(fd) \/ PeerStep(fd)) \/ UNCHANGED vars
  BY <1>2, <1>10
  DEF Scan, Refuse, PlaceIgnored, PlaceFault, AcceptFails, Accept, Close, PeerStep,
      PeerSends, PeerSendsPart, PeerSendsRest, PeerHangsUp, tables, vars
<1> QED
  BY <1>7, <1>8, <1>9, <1>10 DEF Next, Halted, ListenerStep

LEMMA StepChoosing ==
  ASSUME Safe, [Next]_vars
  PROVE  Choosing'
<1>1. CASE UNCHANGED <<uLow, uPick>> /\ ~ \E t \in HttpThreads : UpgradeAdd(t)
  <2>1. ASSUME NEW t \in HttpThreads, HttpCount = 1, uPick[t] # NoThread
        PROVE  count'[uPick[t]] <= uLow[t]
    <3>1. uPick[t] \in WsThreads /\ uPick[t] \in Threads /\ uLow[t] \in 0 .. ClientsMax
      BY <2>1, ThreadSets DEF Safe, Known, Shape, TypeOK
    <3>2. count'[uPick[t]] <= count[uPick[t]]
      BY <1>1, <3>1, WsTablesShrink DEF Safe
    <3>3. count[uPick[t]] <= uLow[t]
      BY <2>1 DEF Safe, Choosing
    <3>4. Known'
      BY StepKnown DEF Safe
    <3>5. count'[uPick[t]] \in 0 .. ClientsMax /\ count[uPick[t]] \in 0 .. ClientsMax
      BY <3>1, <3>4 DEF Safe, Known, Shape, TypeOK
    <3> QED
      BY <3>1, <3>2, <3>3, <3>5, CountsAssumption
  <2> QED
    BY <1>1, <2>1 DEF Safe, Choosing
<1>2. ASSUME NEW t \in HttpThreads, UpgradeScan(t)
      PROVE  Choosing'
  <2> PICK p \in WsThreads : p = uNext[t]
    BY <1>2 DEF UpgradeScan
  <2>1. /\ uLow' = [uLow EXCEPT ![t] = IF count[p] < uLow[t] THEN count[p] ELSE uLow[t]]
        /\ uPick' = [uPick EXCEPT ![t] = IF count[p] < uLow[t] THEN p ELSE uPick[t]]
        /\ count' = count
    BY <1>2 DEF UpgradeScan, tables
  <2>2. /\ p # NoThread /\ count[p] \in 0 .. ClientsMax /\ uLow[t] \in 0 .. ClientsMax
    BY ThreadSets DEF Safe, Known, Shape, TypeOK
  <2>3. count[p] < uLow[t] => count[p] # ClientsMax /\ count[p] <= count[p]
    BY <2>2, CountsAssumption
  <2>4. /\ uLow'[t] = IF count[p] < uLow[t] THEN count[p] ELSE uLow[t]
        /\ uPick'[t] = IF count[p] < uLow[t] THEN p ELSE uPick[t]
        /\ \A u \in HttpThreads : u # t => uLow'[u] = uLow[u] /\ uPick'[u] = uPick[u]
    BY <2>1 DEF Safe, Known, Shape, TypeOK
  <2> QED
    BY <2>1, <2>2, <2>3, <2>4 DEF Safe, Choosing
<1>3. ASSUME NEW t \in HttpThreads, UpgradeAdd(t)
      PROVE  Choosing'
  <2>1. /\ uLow'[t] = ClientsMax /\ uPick'[t] = NoThread
        /\ \A u \in HttpThreads : u # t => uLow'[u] = uLow[u] /\ uPick'[u] = uPick[u]
    BY <1>3 DEF UpgradeAdd, UpgradeReset, Safe, Known, Shape, TypeOK
  <2>2. HttpCount = 1 => \A u \in HttpThreads : u = t
    BY DEF HttpThreads
  <2> QED
    BY <2>1, <2>2 DEF Safe, Choosing
<1>4. ASSUME NEW t \in Threads, ThreadStep(t) \/ SpuriousWake(t) \/ WsReset(t)
      PROVE  UNCHANGED <<uLow, uPick>>
  BY <1>4
  DEF ThreadStep, ThreadInit, CheckListening, ThreadExit, LockLoop, Wake, SpuriousWake,
      SweepExpired, Poll, ServeHangup, HttpRespond, SwitchProtocols, WsHandle,
      WsHandlePart, WsHandleRest, WsReset, FrameDone, Unlock, upgrades
<1>5. CASE \/ ListenerStep \/ AcceptFails \/ Close \/ UNCHANGED vars
           \/ \E fd \in Fds : Accept(fd) \/ PeerStep(fd)
  <2>1. UNCHANGED <<uLow, uPick>>
    BY <1>5
    DEF ListenerStep, Scan, Refuse, Place, PlaceIgnored, PlaceFault, AcceptFails, Accept,
        Close, PeerStep, PeerSends, PeerSendsPart, PeerSendsRest, PeerHangsUp, upgrades, vars
  <2> QED
    BY <1>1, <1>3, <2>1
<1>6. ASSUME NEW t \in HttpThreads, UpgradeFault(t) \/ UpgradeDrop(t)
      PROVE  UNCHANGED <<uLow, uPick>>
  BY <1>6 DEF UpgradeFault, UpgradeDrop, upgrades
<1> QED
  BY <1>1, <1>2, <1>3, <1>4, <1>5, <1>6 DEF Next, Halted, UpgradeStep

LEMMA StepFault ==
  ASSUME Safe, FaultHasCause, [Next]_vars
  PROVE  FaultHasCause'
<1>1. ASSUME UNCHANGED vars PROVE FaultHasCause'
  BY <1>1
  DEF FaultHasCause, UpgradeChosen, SawAllFull, LostItsSlot, WasOvertaken, vars, tables,
      loops, upgrades
<1>2. ASSUME fault' = "none" PROVE FaultHasCause'
  BY <1>2 DEF FaultHasCause
<1>3. ASSUME NEW t \in HttpThreads, UpgradeFault(t)
      PROVE  FaultHasCause'
  <2> DEFINE fd == pfds[t][idx[t]]
  <2>1. /\ t \in Threads /\ pc[t] = "scan" /\ idx[t] \in Slots
        /\ UNCHANGED <<listening, tables, loops, upgrades>>
        /\ fault' = AddFault(uPick[t], fd)
        /\ UpgradeChosen(t) /\ UpgradeChosen(t)'
    BY <1>3, ThreadSets
    DEF UpgradeFault, UpgradeChosen, Safe, Known, Shape, AtIndex, loops, upgrades
  <2>2. fd = NoFd \/ (fd \in open /\ Live(t, idx[t]))
    <3>1. CASE idx[t] >= count[t]
      BY <2>1, <3>1 DEF Safe, Known, Shape, TailCleared
    <3>2. CASE ~(idx[t] >= count[t])
      <4>1. idx[t] < count[t]
        BY <2>1, <3>2, SlotSets DEF Safe, Known, Shape, TypeOK
      <4>2. Live(t, idx[t])
        BY <2>1, <4>1 DEF Live, Ended
      <4> QED
        BY <2>1, <4>2 DEF Safe, Known, Owners, OneOwner
    <3> QED
      BY <3>1, <3>2
  <2>3. fd = NoFd => t \in stale
    <3>1. NoFd \notin upgraded
      BY FdsAssumption DEF Safe, InProtocol, Known, Shape, TypeOK
    <3> QED
      BY <2>1, <3>1 DEF Safe, InProtocol
  <2>4. CASE uPick[t] = NoThread
    <3>1. fault' = "noThread" /\ SawAllFull(t)'
      BY <2>1, <2>4 DEF AddFault, SawAllFull, Safe, Choosing, upgrades
    <3> QED
      BY <2>1, <3>1 DEF FaultHasCause
  <2>5. CASE uPick[t] # NoThread /\ fd = NoFd
    <3>1. fault' = "badIndex" /\ LostItsSlot(t)'
      BY <2>1, <2>3, <2>5 DEF AddFault, LostItsSlot, upgrades, tables, loops
    <3> QED
      BY <2>1, <3>1 DEF FaultHasCause
  <2>6. CASE uPick[t] # NoThread /\ fd # NoFd /\ count[uPick[t]] >= ClientsMax
    <3>1. /\ count[uPick[t]] \in 0 .. ClientsMax /\ uLow[t] \in 0 .. ClientsMax
          /\ uLow[t] # ClientsMax
          /\ HttpCount = 1 => count[uPick[t]] <= uLow[t]
      BY <2>6, ThreadSets DEF Safe, Choosing, Known, Shape, TypeOK
    <3>2. count[uPick[t]] = ClientsMax /\ uLow[t] < count[uPick[t]] /\ HttpCount > 1
      BY <2>6, <3>1, CountsAssumption
    <3>3. fault' = "badIndex" /\ WasOvertaken(t)'
      BY <2>1, <2>6, <3>2 DEF AddFault, WasOvertaken, upgrades, tables
    <3> QED
      BY <2>1, <3>3 DEF FaultHasCause
  <2>7. CASE uPick[t] # NoThread /\ fd # NoFd /\ ~(count[uPick[t]] >= ClientsMax)
    <3>1. uPick[t] \in Threads /\ open # {}
      BY <2>2, <2>7, ThreadSets DEF Safe, Known, Shape, TypeOK
    <3>2. pc[uPick[t]] = "new" => "early" \in Env
      BY <3>1 DEF Safe, Started
    <3>3. pc[uPick[t]] = "done" => ~listening'
      BY <2>1, <3>1 DEF Safe, Started
    <3>4. \/ fault' = "uninitialised" /\ pc[uPick[t]] = "new"
          \/ fault' = "freed" /\ pc[uPick[t]] = "done"
          \/ fault' = "none"
      BY <2>1, <2>7 DEF AddFault, Ended
    <3> QED
      BY <3>2, <3>3, <3>4 DEF FaultHasCause
  <2> HIDE DEF fd
  <2> QED
    BY <2>4, <2>5, <2>6, <2>7
<1>4. CASE PlaceFault
  <2>1. /\ lPick # NoThread /\ lFd # NoFd /\ listening' = listening
        /\ \/ fault' = "uninitialised" /\ pc[lPick] = "new"
           \/ fault' = "freed" /\ pc[lPick] = "done"
    BY <1>4 DEF PlaceFault, AddFault, Ended
  <2>2. lPick \in Threads /\ lFd \in open
    BY <2>1, ThreadSets DEF Safe, Known, Owners, Shape, TypeOK
  <2> QED
    BY <2>1, <2>2 DEF FaultHasCause, Safe, Started
<1>5. ASSUME NEW t \in Threads, ThreadStep(t) \/ SpuriousWake(t) \/ WsReset(t)
      PROVE  fault' = fault
  BY <1>5
  DEF ThreadStep, ThreadInit, CheckListening, ThreadExit, LockLoop, Wake, SpuriousWake,
      SweepExpired, Poll, ServeHangup, HttpRespond, SwitchProtocols, WsHandle,
      WsHandlePart, WsHandleRest, WsReset, FrameDone, Unlock
<1>6. ASSUME NEW t \in HttpThreads, UpgradeScan(t) \/ UpgradeAdd(t) \/ UpgradeDrop(t)
      PROVE  fault' = fault
  BY <1>6 DEF UpgradeScan, UpgradeAdd, UpgradeDrop
<1>7. ASSUME \/ Scan \/ Refuse \/ Place \/ PlaceIgnored \/ AcceptFails \/ Close
             \/ \E fd \in Fds : Accept(fd) \/ PeerStep(fd)
      PROVE  fault' = fault
  BY <1>7
  DEF Scan, Refuse, Place, PlaceIgnored, AcceptFails, Accept, Close, PeerStep,
      PeerSends, PeerSendsPart, PeerSendsRest, PeerHangsUp
<1>8. UNCHANGED vars \/ fault = "none"
  BY DEF Next, Halted
<1> QED
  BY <1>1, <1>2, <1>3, <1>4, <1>5, <1>6, <1>7, <1>8
  DEF Next, Halted, UpgradeStep, ListenerStep

(***************************************************************************)
(* A memory error has one of the causes that FaultHasCause names, whatever *)
(* the numbers of threads, places and descriptors are and whatever the     *)
(* surroundings do.  In particular, with threads that run before the first *)
(* client and nobody closing the server, _upgrade_to_ws is the only one to *)
(* make one, and with one HTTP thread the place it has seen in a WebSocket *)
(* thread is still free when it adds the connection.                       *)
(***************************************************************************)
THEOREM MemoryErrorsHaveCauses == Spec => []FaultHasCause
<1>1. Init => Safe /\ FaultHasCause
  <2>1. Init => Started /\ Choosing /\ FaultHasCause
    BY CountsAssumption DEF Init, Started, Choosing, FaultHasCause
  <2> QED
    BY <2>1, InitKnown, InitInProtocol DEF Safe
<1>2. Safe /\ FaultHasCause /\ [Next]_vars => Safe' /\ FaultHasCause'
  <2> SUFFICES ASSUME Safe, FaultHasCause, [Next]_vars PROVE Safe' /\ FaultHasCause'
    OBVIOUS
  <2>1. Known' /\ InProtocol' /\ Started'
    BY StepKnown, StepHappens, HappensInProtocol, StepStarted DEF Safe, Known
  <2> QED
    BY <2>1, StepChoosing, StepFault DEF Safe
<1> QED
  BY <1>1, <1>2, PTL DEF Spec
===============================================================================
