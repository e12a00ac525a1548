------------------------------ MODULE ConnService ------------------------------
(***************************************************************************)
(* What the server promises about one connection, with no threads, tables  *)
(* or locks: it is accepted, placed with HTTP or refused, perhaps switched *)
(* and then moved to WebSockets, and closed; a descriptor that is closed   *)
(* may come back as a new connection.  A lost one is open and nobody will  *)
(* ever close it: refused, or owned by a thread that has ended.            *)
(*                                                                         *)
(* One promise is not kept: an upgrade whose connection is closed with its *)
(* 101 goes on without it.  Such an upgrade is astray, and takes at most   *)
(* one connection along that never asked to be switched.                   *)
(***************************************************************************)
CONSTANTS
  Fds,
  Upgraders  \* whoever carries out an upgrade, one at a time

VARIABLES
  conn,      \* where the connection behind every descriptor is
  switched,  \* the connections whose peer has been sent a 101
  astray     \* the upgraders that have lost the connection they upgrade

TypeOK ==
  /\ conn \in [Fds -> {"free", "accepted", "http", "ws", "lost"}]
  /\ switched \subseteq Fds
  /\ astray \subseteq Upgraders

Init ==
  /\ conn = [fd \in Fds |-> "free"]
  /\ switched = {}
  /\ astray = {}

Step(fd, from, to) == conn[fd] = from /\ conn' = [conn EXCEPT ![fd] = to]

Accepts(fd) == Step(fd, "free", "accepted") /\ UNCHANGED <<switched, astray>>
Places(fd)  == Step(fd, "accepted", "http") /\ UNCHANGED <<switched, astray>>
Refuses(fd) == Step(fd, "accepted", "lost") /\ UNCHANGED <<switched, astray>>

\* Only a peer served as HTTP is switched, and only once.
Switches(fd) ==
  /\ fd \notin switched
  /\ conn[fd] = "http"
  /\ switched' = switched \cup {fd}
  /\ UNCHANGED <<conn, astray>>

\* Only a switched connection is handed to WebSockets ...
Moves(fd) ==
  /\ fd \in switched
  /\ Step(fd, "http", "ws")
  /\ UNCHANGED <<switched, astray>>

\* ... but for one by every upgrade that is astray.
Strays(fd, u) ==
  /\ u \in astray
  /\ fd \notin switched
  /\ Step(fd, "http", "ws")
  /\ astray' = astray \ {u}
  /\ UNCHANGED switched

\* An HTTP connection half-way through its upgrade is not closed.
Closes(fd) ==
  /\ \/ Step(fd, "http", "free") /\ fd \notin switched
     \/ Step(fd, "ws", "free")
  /\ switched' = switched \ {fd}
  /\ UNCHANGED astray

\* A connection is closed together with the 101 that was to switch it.
Loses(fd, u) ==
  /\ fd \notin switched
  /\ u \notin astray
  /\ Step(fd, "http", "free")
  /\ astray' = astray \cup {u}
  /\ UNCHANGED switched

\* A thread ends with the connections in lost, which it has, still open.
Abandons(lost) ==
  /\ lost # {}
  /\ conn' = [fd \in Fds |-> IF fd \in lost THEN "lost" ELSE conn[fd]]
  /\ UNCHANGED <<switched, astray>>

Next ==
  \/ \E fd \in Fds :
       Accepts(fd) \/ Places(fd) \/ Refuses(fd) \/ Switches(fd) \/ Moves(fd) \/ Closes(fd)
  \/ \E fd \in Fds, u \in Upgraders : Loses(fd, u) \/ Strays(fd, u)
  \/ \E lost \in SUBSET {fd \in Fds : conn[fd] \in {"http", "ws"}} : Abandons(lost)

Spec == Init /\ [][Next]_<<conn, switched, astray>>
===============================================================================
