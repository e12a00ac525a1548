---------------------------- MODULE TcpServerProofs ----------------------------
(***************************************************************************)
(* TLAPS proofs about TcpServer, for any number of clients, of slots and   *)
(* of texts on their way.                                                  *)
(***************************************************************************)
EXTENDS TcpServer, FiniteSetTheorems, SequenceTheorems, TLAPS

\* The slots whose descriptor is open.
Held == {i \in Occupied : ~Closing(i)}

\* The accept thread is at a slot of the table, or past the last one; what it
\* has accepted is open and nobody else's.
InHand ==
  /\ acceptor.pc = "place" =>
       /\ acceptor.slot \in 1 .. MaxConnections + 1
       /\ acceptor.fd \in Descriptors /\ of[acceptor.fd] # None
       /\ \A i \in Held : sockets[i] # acceptor.fd
  /\ acceptor.pc = "name" => acceptor.slot \in Slots

\* The loop disconnects a client that is in a slot and that it is done with.
Turn ==
  /\ server.todo \subseteq Occupied
  /\ server.pc \in {"decrement", "close", "free"} => server.slot \in Occupied
  /\ server.pc \in {"decrement", "close", "free", "wipe"} =>
       server.slot \in Slots \ server.todo

Distinct == \A i, k \in Held : i # k => sockets[i] # sockets[k]

HeldOpen == \A i \in Held : ClientOf(i) # None

Kept ==
  \A d \in Descriptors : of[d] # None =>
    \/ \E i \in Held : sockets[i] = d
    \/ acceptor.pc = "place" /\ acceptor.fd = d
    \/ \E late \in BOOLEAN : <<of[d], late>> \in lost

\* There is a slot for whoever is being accepted, which is not behind the accept
\* thread.
Room ==
  ~overlapped /\ ~acceptor.late =>
    /\ acceptor.pc = "accept" => \E i \in Slots : sockets[i] = None
    /\ acceptor.pc = "place" => \E i \in Slots : sockets[i] = None /\ i >= acceptor.slot

LostLate == \A l \in lost : l[2] \/ overlapped

Placing == acceptor.pc \in {"name", "increment"}

Counted ==
  ~overlapped => Cardinality(Occupied) = count + (IF Leaving THEN 1 ELSE 0)
                                         + (IF Placing THEN 1 ELSE 0)

Tables ==
  /\ InHand /\ Turn /\ Distinct /\ HeldOpen
  /\ Kept /\ Room /\ LostLate /\ Counted /\ NamesAreTheirOwn

Inv == TypeOK /\ Tables

-----------------------------------------------------------------------------
\* Nothing has happened yet, or all is over.
Blank ==
  /\ sockets = NoSlots /\ names = NoSlots /\ count = 0 /\ of = NoFiles
  /\ backlog = <<>> /\ state = NobodyYet /\ wire = Nothing
  /\ acceptor = NoAcceptor /\ server = NoServer
  /\ overlapped = FALSE /\ lost = {}
  /\ ended \in {"no", "SIGPIPE", "SIGTERM", "outside"}

LEMMA BlankInv == Blank => Inv
<1> SUFFICES ASSUME Blank PROVE Inv
  OBVIOUS
<1>1. Occupied = {} /\ Held = {}
  BY DEF Blank, Occupied, Held, NoSlots
<1>2. TypeOK
  <2>1. /\ NoSlots \in [Slots -> Descriptors \cup {None}]
        /\ NoSlots \in [Slots -> Clients \cup {None, Anonymous}]
        /\ NoFiles \in [Descriptors -> Clients \cup {None}]
        /\ NobodyYet \in [Clients -> {"new", "connected", "closed"}]
        /\ Nothing \in [Clients -> Seq({"text", "bye"})]
    BY DEF NoSlots, NoFiles, NobodyYet, Nothing
  <2>2. NoAcceptor \in [pc : {"check", "accept", "place", "name", "increment", "welcome"},
                        fd : Descriptors \cup {None}, slot : 0 .. MaxConnections + 1,
                        read : Int, late : BOOLEAN]
    BY MaxConnectionsAssumption DEF NoAcceptor
  <2>3. NoServer \in [pc : {"poll", "serve", "decrement", "close", "free", "wipe"},
                      todo : SUBSET Slots, hung : SUBSET Slots, slot : 0 .. MaxConnections,
                      read : Int]
    BY MaxConnectionsAssumption DEF NoServer
  <2>4. backlog \in Seq(Clients) /\ lost \in SUBSET (Clients \X BOOLEAN)
    BY DEF Blank
  <2>5. count \in Int /\ ended \in {"no", "SIGPIPE", "SIGTERM", "outside"}
    BY DEF Blank
  <2>6. overlapped \in BOOLEAN
    BY Zenon DEF Blank
  <2> QED
    BY <2>1, <2>2, <2>3, <2>4, <2>5, <2>6, Zenon DEF Blank, TypeOK
<1>3. InHand /\ Turn /\ Room /\ LostLate
  BY DEF Blank, NoAcceptor, NoServer, InHand, Turn, Room, LostLate
<1>4. Distinct /\ HeldOpen
  BY <1>1 DEF Distinct, HeldOpen
<1>5. Kept /\ NamesAreTheirOwn
  BY DEF Blank, Kept, NamesAreTheirOwn, NoFiles, NoSlots
<1>6. Counted
  BY <1>1, FS_EmptySet DEF Blank, Counted, Leaving, Placing, NoAcceptor, NoServer
<1> QED
  BY <1>2, <1>3, <1>4, <1>5, <1>6 DEF Inv, Tables

LEMMA InitInv == Init => Inv
<1>1. Init => Blank
  BY DEF Init, Blank
<1> QED
  BY <1>1, BlankInv

LEMMA EndsInv ==
  ASSUME NEW why \in {"SIGPIPE", "SIGTERM", "outside"}, Ends(why)
  PROVE  Inv'
<1>1. Blank'
  BY DEF Ends, Blank
<1>2. Blank' => Inv'
  BY BlankInv, PTL
<1> QED
  BY <1>1, <1>2

-----------------------------------------------------------------------------
\* The steps by which the number of clients, the slots and the descriptors change,
\* and those that only move the loop or a client.
Still(c, i) ==
  \/ Connect(c) \/ Send(c) \/ Disconnect(c)
  \/ Poll \/ PollAgain \/ ReadNothing(i) \/ ReadSome(i)

LEMMA HeldFacts ==
  ASSUME TypeOK, NEW i \in Held
  PROVE  i \in Slots /\ sockets[i] \in Descriptors /\ sockets[i] # None
BY DEF TypeOK, Held, Occupied

LEMMA OccupiedFinite ==
  /\ IsFiniteSet(Occupied) /\ Cardinality(Occupied) \in Nat
  /\ Cardinality(Occupied) < MaxConnections => \E i \in Slots : sockets[i] = None
<1>1. IsFiniteSet(Slots) /\ Cardinality(Slots) = MaxConnections
  BY FS_Interval, MaxConnectionsAssumption DEF Slots
<1>2. Occupied \in SUBSET Slots
  BY DEF Occupied
<1>3. IsFiniteSet(Occupied)
  BY <1>1, <1>2, FS_Subset
<1>4. Cardinality(Occupied) \in Nat
  BY <1>3, FS_CardinalityType
<1>5. Cardinality(Occupied) < MaxConnections => Occupied # Slots
  BY <1>1, <1>4, MaxConnectionsAssumption
<1> QED
  BY <1>2, <1>3, <1>4, <1>5 DEF Occupied

-----------------------------------------------------------------------------
\* The types, action by action; those of the threads first.

AcceptorType == [pc : {"check", "accept", "place", "name", "increment", "welcome"},
                 fd : Descriptors \cup {None}, slot : 0 .. MaxConnections + 1,
                 read : Int, late : BOOLEAN]
ServerType == [pc : {"poll", "serve", "decrement", "close", "free", "wipe"},
               todo : SUBSET Slots, hung : SUBSET Slots, slot : 0 .. MaxConnections,
               read : Int]

LEMMA NoThreadTyped == NoAcceptor \in AcceptorType /\ NoServer \in ServerType
BY MaxConnectionsAssumption DEF NoAcceptor, NoServer, AcceptorType, ServerType

LEMMA ClientOfTyped ==
  ASSUME TypeOK, HeldOpen, NEW i \in Held
  PROVE  ClientOf(i) \in Clients /\ wire[ClientOf(i)] \in Seq({"text", "bye"})
<1>1. sockets[i] \in Descriptors
  BY HeldFacts
<1>2. of[sockets[i]] \in Clients
  BY <1>1 DEF TypeOK, HeldOpen, ClientOf
<1> QED
  BY <1>2 DEF TypeOK, ClientOf

LEMMA ServesFacts ==
  ASSUME Inv, NEW i \in Slots, Serves(i)
  PROVE  /\ i \in Occupied /\ i \in Held /\ ServerAt("serve") /\ i \in server.todo
         /\ ClientOf(i) \in Clients /\ wire[ClientOf(i)] \in Seq({"text", "bye"})
<1>1. i \in Occupied /\ i \in Held /\ ServerAt("serve") /\ i \in server.todo
  BY DEF Inv, Tables, Turn, Serves, ServerAt, Held, Closing
<1> QED
  BY <1>1, ClientOfTyped DEF Inv, Tables

LEMMA ServedTyped ==
  ASSUME TypeOK, NEW i \in Slots, Release(i) \/ Proceed(i)
  PROVE  server' \in ServerType
<1>1. server \in ServerType /\ count \in Int
  BY DEF TypeOK, ServerType
<1>2. i \in 0 .. MaxConnections
  BY MaxConnectionsAssumption DEF Slots
<1>3. CASE Release(i)
  BY <1>1, <1>2, <1>3 DEF Release, ServerType
<1>4. CASE Proceed(i)
  BY <1>1, <1>4 DEF Proceed, ServerType
<1> QED
  BY <1>3, <1>4

LEMMA PeersTyped ==
  ASSUME Inv, NEW c \in Clients, Connect(c) \/ Send(c) \/ Disconnect(c)
  PROVE  TypeOK'
<1>1. /\ wire \in [Clients -> Seq({"text", "bye"})] /\ backlog \in Seq(Clients)
      /\ state \in [Clients -> {"new", "connected", "closed"}]
  BY DEF Inv, TypeOK
<1>2. backlog' \in Seq(Clients)
  <2>1. Append(backlog, c) \in Seq(Clients)
    BY <1>1
  <2> QED
    BY <1>1, <2>1, Zenon DEF Connect, Send, Disconnect
<1>3. state' \in [Clients -> {"new", "connected", "closed"}]
  BY <1>1 DEF Connect, Send, Disconnect
<1>4. wire' \in [Clients -> Seq({"text", "bye"})]
  <2>1. /\ Append(wire[c], "text") \in Seq({"text", "bye"})
        /\ Append(wire[c], "bye") \in Seq({"text", "bye"})
    BY <1>1
  <2>2. /\ [wire EXCEPT ![c] = Append(@, "text")] \in [Clients -> Seq({"text", "bye"})]
        /\ [wire EXCEPT ![c] = Append(@, "bye")] \in [Clients -> Seq({"text", "bye"})]
    BY <1>1, <2>1
  <2> QED
    BY <1>1, <2>2, Zenon DEF Connect, Send, Disconnect
<1>5. UNCHANGED <<tables, of, acceptor, server, ended, overlapped, lost>>
  BY DEF Connect, Send, Disconnect
<1> QED
  BY <1>2, <1>3, <1>4, <1>5, Zenon DEF Inv, TypeOK, tables

LEMMA AcceptorTyped ==
  ASSUME Inv, Acceptor
  PROVE  TypeOK'
<1>1. acceptor \in AcceptorType /\ count \in Int /\ TypeOK /\ InHand
  BY DEF Inv, Tables, TypeOK, AcceptorType
<1>2. CASE AcceptCheck
  <2>1. Leaving \in BOOLEAN
    BY DEF Leaving
  <2>2. acceptor' \in AcceptorType
    BY <1>1, <1>2, <2>1, Zenon DEF AcceptCheck, AcceptorType
  <2> QED
    BY <1>1, <1>2, <2>2, Zenon DEF AcceptCheck, TypeOK, AcceptorType, tables, peers
<1>3. CASE Accept
  <2>1. Head(backlog) \in Clients /\ Tail(backlog) \in Seq(Clients)
    BY <1>1, <1>3 DEF Accept, TypeOK
  <2>2. 1 \in 0 .. MaxConnections + 1
    BY MaxConnectionsAssumption
  <2>3. PICK fd \in Descriptors :
          /\ of' = [of EXCEPT ![fd] = Head(backlog)]
          /\ acceptor' = [acceptor EXCEPT !.pc = "place", !.fd = fd, !.slot = 1]
    BY <1>3 DEF Accept
  <2>4. acceptor' \in AcceptorType
    BY <1>1, <2>2, <2>3 DEF AcceptorType
  <2>5. of' \in [Descriptors -> Clients \cup {None}]
    BY <1>1, <2>1, <2>3 DEF TypeOK
  <2> QED
    BY <1>1, <1>3, <2>1, <2>4, <2>5, Zenon DEF Accept, TypeOK, AcceptorType, tables
<1>4. CASE AcceptPlace
  <2>1. acceptor.pc = "place" /\ acceptor.slot \in Slots /\ acceptor.fd \in Descriptors
    BY <1>1, <1>4 DEF AcceptPlace, AcceptorAt, InHand
  <2>2. acceptor.slot + 1 \in 0 .. MaxConnections + 1
    BY <2>1, MaxConnectionsAssumption DEF Slots
  <2>3. acceptor' \in AcceptorType
    BY <1>1, <1>4, <2>2 DEF AcceptPlace, AcceptorType
  <2>4. sockets' \in [Slots -> Descriptors \cup {None}]
    BY <1>1, <1>4, <2>1 DEF AcceptPlace, TypeOK
  <2> QED
    BY <1>1, <1>4, <2>3, <2>4, Zenon DEF AcceptPlace, TypeOK, AcceptorType, peers
<1>5. CASE AcceptNoPlace
  <2>1. acceptor.fd \in Descriptors /\ of[acceptor.fd] # None /\ acceptor.late \in BOOLEAN
    BY <1>1, <1>5 DEF AcceptNoPlace, AcceptorAt, InHand, AcceptorType
  <2>2. <<of[acceptor.fd], acceptor.late>> \in Clients \X BOOLEAN
    BY <1>1, <2>1 DEF TypeOK
  <2>3. lost' \in SUBSET (Clients \X BOOLEAN)
    BY <1>1, <1>5, <2>2, Zenon DEF AcceptNoPlace, TypeOK
  <2> QED
    BY <1>1, <1>5, <2>3, NoThreadTyped, Zenon
       DEF AcceptNoPlace, TypeOK, AcceptorType, tables, peers
<1>6. CASE AcceptName
  <2>1. acceptor' \in AcceptorType
    BY <1>1, <1>6 DEF AcceptName, AcceptorAt, AcceptorType
  <2>2. names' \in [Slots -> Clients \cup {None, Anonymous}]
    BY <1>1, <1>6 DEF AcceptName, TypeOK
  <2> QED
    BY <1>1, <1>6, <2>1, <2>2, Zenon DEF AcceptName, TypeOK, AcceptorType, peers
<1>7. CASE AcceptIncrement
  <2>1. acceptor' = [acceptor EXCEPT !.pc = "welcome", !.read = 0]
    BY <1>7 DEF AcceptIncrement
  <2>4. acceptor' \in AcceptorType
    <3>1. 0 \in Int
      OBVIOUS
    <3> QED
      BY <1>1, <2>1, <3>1, Zenon DEF AcceptorType
  <2>2. count' \in Int
    BY <1>1, <1>7 DEF AcceptIncrement, AcceptorType
  <2>3. overlapped' \in BOOLEAN
    BY <1>7, Zenon DEF AcceptIncrement
  <2> QED
    BY <1>1, <1>7, <2>2, <2>3, <2>4, Zenon DEF AcceptIncrement, TypeOK, AcceptorType, peers
<1>8. CASE AcceptWelcome
  <2>1. CASE acceptor' = NoAcceptor
             /\ UNCHANGED <<tables, of, peers, server, ended, overlapped, lost>>
    BY <1>1, <2>1, NoThreadTyped, Zenon DEF TypeOK, AcceptorType, tables, peers
  <2>2. CASE Ends("SIGPIPE")
    BY <2>2, EndsInv DEF Inv
  <2> QED
    BY <1>8, <2>1, <2>2 DEF AcceptWelcome
<1> QED
  BY <1>2, <1>3, <1>4, <1>5, <1>6, <1>7, <1>8 DEF Acceptor

LEMMA ReadSomeTyped ==
  ASSUME Inv, NEW i \in Slots, ReadSome(i)
  PROVE  TypeOK'
<1> DEFINE c == ClientOf(i)
<1>1. c \in Clients /\ wire[c] \in Seq({"text", "bye"}) /\ TypeOK
  BY ServesFacts DEF ReadSome, Inv
<1>2. PICK n \in 1 .. Len(wire[c]), kind \in Kinds(Head(wire[c])) :
        /\ wire' = [wire EXCEPT ![c] = SubSeq(@, n + 1, Len(@))]
        /\ names' = IF kind = "name" THEN [names EXCEPT ![i] = c] ELSE names
        /\ IF kind = "bye" \/ i \in server.hung THEN Release(i) ELSE Proceed(i)
  BY DEF ReadSome
<1> HIDE DEF c
<1>3. wire' \in [Clients -> Seq({"text", "bye"})]
  <2>1. SubSeq(wire[c], n + 1, Len(wire[c])) \in Seq({"text", "bye"})
    BY <1>1, <1>2, SubSeqProperties
  <2> QED
    BY <1>1, <1>2, <2>1 DEF TypeOK
<1>4. names' \in [Slots -> Clients \cup {None, Anonymous}]
  BY <1>1, <1>2 DEF TypeOK
<1>5. server' \in ServerType
  BY <1>1, <1>2, ServedTyped
<1> QED
  BY <1>1, <1>3, <1>4, <1>5, Zenon DEF ReadSome, TypeOK, ServerType

LEMMA ServerTyped ==
  ASSUME Inv, Server
  PROVE  TypeOK'
<1>1. server \in ServerType /\ count \in Int /\ TypeOK /\ Turn
  BY DEF Inv, Tables, TypeOK, ServerType
<1>2. CASE Poll
  <2>1. Readable \subseteq Slots /\ HungUp \subseteq Slots
    BY DEF Readable, HungUp, Occupied
  <2>2. PICK hung \in {{}, HungUp} :
          server' = [server EXCEPT !.pc = "serve", !.todo = Readable, !.hung = hung]
    BY <1>2 DEF Poll
  <2>3. server' \in ServerType
    BY <1>1, <2>1, <2>2 DEF ServerType
  <2> QED
    BY <1>1, <1>2, <2>3, Zenon DEF Poll, TypeOK, ServerType, tables, peers
<1>3. CASE PollAgain
  BY <1>1, <1>3, NoThreadTyped, Zenon DEF PollAgain, TypeOK, ServerType, tables, peers
<1>4. ASSUME NEW i \in Slots, ReadNothing(i) PROVE TypeOK'
  BY <1>1, <1>4, ServedTyped, Zenon DEF ReadNothing, TypeOK, ServerType, tables, peers
<1>5. ASSUME NEW i \in Slots, ReadWritesToNobody(i) PROVE TypeOK'
  BY <1>5, EndsInv DEF ReadWritesToNobody, Inv
<1>6. CASE ReleaseDecrement
  <2>1. server' = [server EXCEPT !.pc = "close", !.read = 0]
    BY <1>6 DEF ReleaseDecrement
  <2>2. server' \in ServerType
    <3>1. 0 \in Int
      OBVIOUS
    <3> QED
      BY <1>1, <2>1, <3>1, Zenon DEF ServerType
  <2>3. count' \in Int
    BY <1>1, <1>6 DEF ReleaseDecrement, ServerType
  <2>4. overlapped' \in BOOLEAN
    BY <1>6, Zenon DEF ReleaseDecrement
  <2> QED
    BY <1>1, <1>6, <2>2, <2>3, <2>4, Zenon DEF ReleaseDecrement, TypeOK, ServerType, peers
<1>7. CASE ReleaseClose
  <2>1. server' \in ServerType
    BY <1>1, <1>7 DEF ReleaseClose, ServerAt, ServerType
  <2>2. of' \in [Descriptors -> Clients \cup {None}]
    BY <1>1, <1>7 DEF ReleaseClose, TypeOK
  <2>3. wire' \in [Clients -> Seq({"text", "bye"})]
    <3>1. <<>> \in Seq({"text", "bye"})
      OBVIOUS
    <3> QED
      BY <1>1, <1>7, <3>1, Zenon DEF ReleaseClose, TypeOK
  <2> QED
    BY <1>1, <1>7, <2>1, <2>2, <2>3, Zenon DEF ReleaseClose, TypeOK, ServerType, tables
<1>8. CASE ReleaseFree
  <2>1. server' \in ServerType
    BY <1>1, <1>8 DEF ReleaseFree, ServerAt, ServerType
  <2>2. sockets' \in [Slots -> Descriptors \cup {None}]
    BY <1>1, <1>8 DEF ReleaseFree, TypeOK
  <2> QED
    BY <1>1, <1>8, <2>1, <2>2, Zenon DEF ReleaseFree, TypeOK, ServerType, peers
<1>9. CASE ReleaseWipe
  <2>1. server' = [server EXCEPT !.pc = "serve", !.slot = 0]
    BY <1>9 DEF ReleaseWipe
  <2>2. server' \in ServerType
    <3>1. 0 \in 0 .. MaxConnections
      BY MaxConnectionsAssumption
    <3> QED
      BY <1>1, <2>1, <3>1, Zenon DEF ServerType
  <2>3. names' \in [Slots -> Clients \cup {None, Anonymous}]
    BY <1>1, <1>9 DEF ReleaseWipe, TypeOK
  <2> QED
    BY <1>1, <1>9, <2>2, <2>3, Zenon DEF ReleaseWipe, TypeOK, ServerType, peers
<1> QED
  BY <1>2, <1>3, <1>4, <1>5, <1>6, <1>7, <1>8, <1>9, ReadSomeTyped DEF Server

LEMMA NextTyped == Inv /\ [Next]_vars => TypeOK'
<1> SUFFICES ASSUME Inv, [Next]_vars PROVE TypeOK'
  OBVIOUS
<1>1. CASE \E c \in Clients : Connect(c) \/ Send(c) \/ Disconnect(c)
  BY <1>1, PeersTyped
<1>2. CASE Close
  BY <1>2, EndsInv DEF Close, Inv
<1>3. CASE UNCHANGED vars
  BY <1>3, Zenon DEF vars, tables, peers, TypeOK, Inv
<1> QED
  BY <1>1, <1>2, <1>3, AcceptorTyped, ServerTyped DEF Next

-----------------------------------------------------------------------------
\* The tables, action by action.

LEMMA HeldSame ==
  ASSUME sockets' = sockets,
         \/ server' = server
         \/ server.pc # "free" /\ server'.pc # "free"
  PROVE  Occupied' = Occupied /\ Held' = Held
BY DEF Occupied, Held, Closing

\* What the steps that only move the loop or a client leave alone.
LEMMA StillFacts ==
  ASSUME Inv, NEW c \in Clients, NEW i \in Slots, Still(c, i)
  PROVE  /\ UNCHANGED <<sockets, count, of, acceptor, overlapped, lost>>
         /\ server' = server \/ (/\ server.pc \in {"poll", "serve"}
                                 /\ server'.pc \in {"serve", "decrement", "poll"})
         /\ Occupied' = Occupied /\ Held' = Held /\ Leaving' = Leaving
<1>0. server \in ServerType
  BY DEF Inv, TypeOK, ServerType
<1>1. UNCHANGED <<sockets, count, of, acceptor, overlapped, lost>>
  BY DEF Still, Connect, Send, Disconnect, Poll, PollAgain, ReadNothing, ReadSome,
         tables, peers
<1>2. CASE server' = server
  BY <1>1, <1>2, HeldSame DEF Leaving
<1>3. CASE Poll \/ PollAgain \/ ReadNothing(i) \/ ReadSome(i)
  <2>1. server.pc \in {"poll", "serve"}
    BY <1>3 DEF Poll, PollAgain, ReadNothing, ReadSome, Serves, ServerAt
  <2>2. server'.pc \in {"serve", "decrement", "poll"}
    <3>1. CASE Poll
      <4>1. server'.pc = "serve"
        BY <1>0, <3>1 DEF Poll, ServerType
      <4> QED
        BY <4>1
    <3>3. CASE PollAgain
      BY <3>3 DEF PollAgain, NoServer
    <3>2. CASE ReadNothing(i) \/ ReadSome(i)
      <4>1. Release(i) \/ Proceed(i)
        BY <3>2 DEF ReadNothing, ReadSome
      <4>2. server.pc = "serve"
        BY <3>2 DEF ReadNothing, ReadSome, Serves, ServerAt
      <4> QED
        BY <1>0, <4>1, <4>2 DEF Release, Proceed, ServerType
    <3> QED
      BY <1>3, <3>1, <3>2, <3>3
  <2> QED
    BY <1>1, <2>1, <2>2, HeldSame DEF Leaving
<1> QED
  BY <1>1, <1>2, <1>3 DEF Still, Connect, Send, Disconnect

\* What is left to do is in slots, and not in the one that is disconnected.
LEMMA StillTurn ==
  ASSUME Inv, NEW c \in Clients, NEW i \in Slots, Still(c, i)
  PROVE  Turn'
<1>0. server \in ServerType /\ Turn /\ Occupied' = Occupied
  BY StillFacts DEF Inv, Tables, TypeOK, ServerType
<1>1. CASE server' = server
  BY <1>0, <1>1 DEF Turn
<1>2. CASE Poll
  <2>1. Readable \subseteq Occupied
    BY DEF Readable
  <2>2. server'.pc = "serve" /\ server'.todo = Readable
    BY <1>0, <1>2 DEF Poll, ServerType
  <2> QED
    BY <1>0, <2>1, <2>2 DEF Turn
<1>3. CASE PollAgain
  BY <1>0, <1>3 DEF PollAgain, NoServer, Turn
<1>4. CASE ReadNothing(i) \/ ReadSome(i)
  <2>1. i \in Occupied /\ server.pc = "serve"
    BY <1>4, ServesFacts DEF ReadNothing, ReadSome, ServerAt
  <2>2. Release(i) \/ Proceed(i)
    BY <1>4 DEF ReadNothing, ReadSome
  <2>3. CASE Release(i)
    <3>1. server'.slot = i /\ server'.todo = server.todo \ {i}
      BY <1>0, <2>3 DEF Release, ServerType
    <3> QED
      BY <1>0, <2>1, <3>1 DEF Turn
  <2>4. CASE Proceed(i)
    <3>1. server'.pc = "serve" /\ server'.todo = server.todo \ {i}
      BY <1>0, <2>1, <2>4 DEF Proceed, ServerType
    <3> QED
      BY <1>0, <3>1 DEF Turn
  <2> QED
    BY <2>2, <2>3, <2>4
<1> QED
  BY <1>1, <1>2, <1>3, <1>4 DEF Still, Connect, Send, Disconnect

\* A name that is given is the one of the client in the slot.
LEMMA StillNames ==
  ASSUME Inv, NEW c \in Clients, NEW i \in Slots, Still(c, i)
  PROVE  NamesAreTheirOwn'
<1>0. /\ server \in ServerType /\ NamesAreTheirOwn /\ Occupied' = Occupied
      /\ sockets' = sockets /\ of' = of
      /\ names \in [Slots -> Clients \cup {None, Anonymous}]
      /\ server' = server \/ server.pc \in {"poll", "serve"}
  BY StillFacts DEF Inv, Tables, TypeOK, ServerType
<1>1. \A k \in Slots : ClientOf(k)' = ClientOf(k)
  BY <1>0 DEF ClientOf
<1>2. CASE names' = names
  BY <1>0, <1>1, <1>2 DEF NamesAreTheirOwn
<1>3. CASE ReadSome(i)
  <2>1. i \in Occupied /\ server.pc = "serve"
    BY <1>3, ServesFacts DEF ReadSome, ServerAt
  <2>2. names' = names \/ names' = [names EXCEPT ![i] = ClientOf(i)]
    BY <1>3 DEF ReadSome
  <2> QED
    BY <1>0, <1>1, <2>1, <2>2 DEF NamesAreTheirOwn
<1> QED
  BY <1>2, <1>3 DEF Still, Connect, Send, Disconnect, Poll, PollAgain, ReadNothing, tables

LEMMA StillTables ==
  ASSUME Inv, NEW c \in Clients, NEW i \in Slots, Still(c, i)
  PROVE  Tables'
<1>0. /\ UNCHANGED <<sockets, count, of, acceptor, overlapped, lost>>
      /\ Occupied' = Occupied /\ Held' = Held /\ Leaving' = Leaving /\ Tables
  BY StillFacts DEF Inv
<1>1. InHand' /\ Distinct' /\ Kept' /\ Room' /\ LostLate'
  BY <1>0 DEF Tables, InHand, Distinct, Kept, Room, LostLate
<1>2. HeldOpen'
  BY <1>0 DEF Tables, HeldOpen, ClientOf
<1>3. Counted'
  BY <1>0 DEF Tables, Counted, Placing
<1> QED
  BY <1>1, <1>2, <1>3, StillTurn, StillNames DEF Tables

LEMMA AcceptCheckTables ==
  ASSUME Inv, AcceptCheck
  PROVE  Tables'
<1>0. /\ UNCHANGED <<sockets, names, count, of, server, overlapped, lost>>
      /\ acceptor.pc = "check" /\ acceptor \in AcceptorType /\ count \in Int
      /\ Leaving \in BOOLEAN /\ Tables
  BY DEF AcceptCheck, AcceptorAt, Inv, TypeOK, AcceptorType, tables, Leaving
<1>1. Occupied' = Occupied /\ Held' = Held /\ Leaving' = Leaving
  BY <1>0, HeldSame DEF Leaving
<1>2. acceptor'.pc = "accept" /\ acceptor'.late = Leaving
  BY <1>0 DEF AcceptCheck, AcceptorType
<1>3. InHand' /\ Turn' /\ Distinct' /\ LostLate'
  BY <1>0, <1>1, <1>2 DEF Tables, InHand, Turn, Distinct, LostLate
<1>4. HeldOpen' /\ NamesAreTheirOwn'
  BY <1>0, <1>1 DEF Tables, HeldOpen, NamesAreTheirOwn, ClientOf
<1>5. Kept' /\ Counted'
  BY <1>0, <1>1, <1>2 DEF Tables, Kept, Counted, Placing
<1>6. Room'
  <2>1. ~overlapped /\ ~Leaving => Cardinality(Occupied) = count
    BY <1>0, OccupiedFinite DEF Tables, Counted, Placing
  <2>2. count < MaxConnections
    BY DEF AcceptCheck
  <2>3. ~overlapped /\ ~Leaving => \E i \in Slots : sockets[i] = None
    BY <2>1, <2>2, OccupiedFinite
  <2> QED
    BY <1>0, <1>2, <2>3 DEF Room
<1> QED
  BY <1>3, <1>4, <1>5, <1>6 DEF Tables

LEMMA AcceptTables ==
  ASSUME Inv, Accept
  PROVE  Tables'
<1>0. /\ UNCHANGED <<sockets, names, count, server, overlapped, lost>>
      /\ acceptor.pc = "accept" /\ acceptor \in AcceptorType
      /\ Tables /\ TypeOK
  BY DEF Accept, AcceptorAt, Inv, TypeOK, AcceptorType, tables
<1>1. Occupied' = Occupied /\ Held' = Held /\ Leaving' = Leaving
  BY <1>0, HeldSame DEF Leaving
<1>2. PICK fd \in Descriptors :
        /\ of[fd] = None /\ of' = [of EXCEPT ![fd] = Head(backlog)]
        /\ acceptor' = [acceptor EXCEPT !.pc = "place", !.fd = fd, !.slot = 1]
  BY DEF Accept
<1>3. /\ acceptor'.pc = "place" /\ acceptor'.fd = fd /\ acceptor'.slot = 1
      /\ acceptor'.late = acceptor.late
  BY <1>0, <1>2 DEF AcceptorType
<1>4. /\ Head(backlog) \in Clients /\ of'[fd] # None
      /\ \A d \in Descriptors \ {fd} : of'[d] = of[d]
  <2>1. Head(backlog) \in Clients
    BY <1>0 DEF Accept, TypeOK
  <2>2. Head(backlog) # None
    BY <2>1, NamesAssumption DEF Clients
  <2>3. of \in [Descriptors -> Clients \cup {None}]
    BY <1>0 DEF TypeOK
  <2>4. of'[fd] = Head(backlog) /\ \A d \in Descriptors \ {fd} : of'[d] = of[d]
    BY <1>2, <2>3
  <2> QED
    BY <2>1, <2>2, <2>4
<1>5. \A i \in Held : sockets[i] # fd /\ ClientOf(i)' = ClientOf(i)
  <2> TAKE i \in Held
  <2>1. sockets[i] \in Descriptors /\ ClientOf(i) # None
    BY <1>0, HeldFacts DEF Tables, HeldOpen
  <2>2. sockets[i] # fd
    BY <1>2, <2>1 DEF ClientOf
  <2> QED
    BY <1>0, <1>4, <2>1, <2>2 DEF ClientOf
<1>6. InHand' /\ HeldOpen'
  BY <1>0, <1>1, <1>3, <1>4, <1>5, MaxConnectionsAssumption DEF Tables, InHand, HeldOpen
<1>7. Turn' /\ Distinct' /\ LostLate'
  BY <1>0, <1>1 DEF Tables, Turn, Distinct, LostLate
<1>8. Kept'
  BY <1>0, <1>1, <1>3, <1>4 DEF Tables, Kept
<1>9. Room'
  BY <1>0, <1>3 DEF Tables, Room, Slots
<1>10. Counted'
  BY <1>0, <1>1, <1>3 DEF Tables, Counted, Placing
<1>11. NamesAreTheirOwn'
  BY <1>0, <1>1, <1>5 DEF Tables, NamesAreTheirOwn, Held, Closing
<1> QED
  BY <1>6, <1>7, <1>8, <1>9, <1>10, <1>11 DEF Tables

LEMMA AcceptPlaceTables ==
  ASSUME Inv, AcceptPlace
  PROVE  Tables'
<1>0. /\ UNCHANGED <<names, count, of, server, overlapped, lost>>
      /\ acceptor.pc = "place" /\ acceptor.slot \in Slots /\ acceptor \in AcceptorType
      /\ acceptor.fd \in Descriptors /\ of[acceptor.fd] # None
      /\ Tables /\ TypeOK
  BY DEF AcceptPlace, AcceptorAt, Inv, Tables, InHand, TypeOK, AcceptorType, tables
<1> DEFINE s == acceptor.slot
           d == acceptor.fd
<1>1. CASE sockets[s] # None
  <2>1. sockets' = sockets /\ acceptor' = [acceptor EXCEPT !.slot = @ + 1]
    BY <1>1 DEF AcceptPlace
  <2>2. /\ acceptor'.pc = "place" /\ acceptor'.slot = s + 1 /\ acceptor'.fd = d
        /\ acceptor'.late = acceptor.late
    BY <1>0, <2>1 DEF AcceptorType
  <2>3. Occupied' = Occupied /\ Held' = Held /\ Leaving' = Leaving
    BY <1>0, <2>1, HeldSame DEF Leaving
  <2>4. InHand'
    BY <1>0, <2>1, <2>2, <2>3, MaxConnectionsAssumption DEF Tables, InHand, Slots
  <2>5. Turn' /\ Distinct' /\ LostLate' /\ Kept' /\ Counted'
    BY <1>0, <2>1, <2>2, <2>3 DEF Tables, Turn, Distinct, LostLate, Kept, Counted, Placing
  <2>6. HeldOpen' /\ NamesAreTheirOwn'
    BY <1>0, <2>1, <2>3 DEF Tables, HeldOpen, NamesAreTheirOwn, ClientOf
  <2>7. Room'
    <3>1. \A i \in Slots : sockets[i] = None /\ i >= s => i >= s + 1
      BY <1>0, <1>1 DEF Slots
    <3> QED
      BY <1>0, <2>1, <2>2, <3>1 DEF Tables, Room
  <2> QED
    BY <2>4, <2>5, <2>6, <2>7 DEF Tables
<1>2. CASE sockets[s] = None
  <2>1. /\ sockets' = [sockets EXCEPT ![s] = d]
        /\ acceptor' = [acceptor EXCEPT !.pc = "name", !.late = FALSE]
    BY <1>2 DEF AcceptPlace
  <2>2. acceptor'.pc = "name" /\ acceptor'.slot = s
    BY <1>0, <2>1 DEF AcceptorType
  <2>3. d # None
    BY <1>0, NamesAssumption DEF Descriptors, Clients
  <2>4. /\ s \notin Occupied /\ s \notin Held
        /\ Occupied' = Occupied \cup {s} /\ Leaving' = Leaving
    BY <1>0, <1>2, <2>1, <2>3 DEF Occupied, Held, Leaving, TypeOK
  <2>5. ~(server.pc = "free" /\ server.slot = s)
    BY <1>0, <2>4 DEF Tables, Turn
  <2>6. Held' = Held \cup {s}
    BY <1>0, <2>4, <2>5 DEF Held, Closing
  <2>7. sockets'[s] = d /\ \A i \in Slots \ {s} : sockets'[i] = sockets[i]
    BY <1>0, <2>1 DEF TypeOK
  <2>8. Held \subseteq Slots \ {s}
    BY <2>4 DEF Held, Occupied
  <2>9. \A i \in Held : sockets[i] # d
    BY <1>0 DEF Tables, InHand
  <2>10. InHand' /\ Room'
    BY <1>0, <2>2 DEF InHand, Room
  <2>11. Turn' /\ LostLate'
    BY <1>0, <2>4 DEF Tables, Turn, LostLate
  <2>12. Distinct'
    BY <1>0, <2>6, <2>7, <2>8, <2>9 DEF Tables, Distinct
  <2>13. HeldOpen'
    BY <1>0, <2>6, <2>7, <2>8 DEF Tables, HeldOpen, ClientOf
  <2>14. Kept'
    BY <1>0, <2>2, <2>6, <2>7, <2>8 DEF Tables, Kept
  <2>15. Counted'
    <3>1. Cardinality(Occupied') = Cardinality(Occupied) + 1
      BY <2>4, OccupiedFinite, FS_AddElement
    <3>2. Placing' /\ ~Placing
      BY <1>0, <2>2 DEF Placing
    <3> QED
      BY <1>0, <2>4, <3>1, <3>2, OccupiedFinite DEF Tables, Counted, TypeOK
  <2>16. NamesAreTheirOwn'
    BY <1>0, <2>4, <2>7 DEF Tables, NamesAreTheirOwn, ClientOf, Occupied
  <2> QED
    BY <2>10, <2>11, <2>12, <2>13, <2>14, <2>15, <2>16 DEF Tables
<1> QED
  BY <1>1, <1>2

LEMMA AcceptNoPlaceTables ==
  ASSUME Inv, AcceptNoPlace
  PROVE  Tables'
<1>0. /\ UNCHANGED <<sockets, names, count, of, server, overlapped>>
      /\ acceptor.pc = "place" /\ acceptor.slot \notin Slots /\ Tables
      /\ acceptor.fd \in Descriptors /\ acceptor.slot \in 1 .. MaxConnections + 1
      /\ lost' = lost \cup {<<of[acceptor.fd], acceptor.late>>}
      /\ acceptor'.pc = "check"
      /\ acceptor.late \in BOOLEAN
  BY DEF AcceptNoPlace, AcceptorAt, Inv, Tables, InHand, tables, NoAcceptor, TypeOK
<1>1. Occupied' = Occupied /\ Held' = Held /\ Leaving' = Leaving
  BY <1>0, HeldSame DEF Leaving
<1>2. InHand' /\ Turn' /\ Distinct' /\ Room'
  BY <1>0, <1>1 DEF Tables, InHand, Turn, Distinct, Room
<1>3. HeldOpen' /\ NamesAreTheirOwn'
  BY <1>0, <1>1 DEF Tables, HeldOpen, NamesAreTheirOwn, ClientOf
<1>4. Counted'
  BY <1>0, <1>1 DEF Tables, Counted, Placing
<1>5. Kept'
  <2> SUFFICES ASSUME NEW d \in Descriptors, of[d] # None
               PROVE  \/ \E i \in Held : sockets[i] = d
                      \/ \E late \in BOOLEAN : <<of[d], late>> \in lost'
    BY <1>0, <1>1 DEF Kept
  <2>1. CASE acceptor.fd = d
    BY <1>0, <2>1
  <2>2. CASE acceptor.fd # d
    BY <1>0, <2>2 DEF Tables, Kept
  <2> QED
    BY <2>1, <2>2
<1>6. LostLate'
  <2>1. ~\E i \in Slots : i >= acceptor.slot
    BY <1>0, MaxConnectionsAssumption DEF Slots
  <2>2. overlapped \/ acceptor.late
    BY <1>0, <2>1 DEF Tables, Room
  <2> QED
    BY <1>0, <2>2 DEF Tables, LostLate
<1> QED
  BY <1>2, <1>3, <1>4, <1>5, <1>6 DEF Tables

LEMMA AcceptNameTables ==
  ASSUME Inv, AcceptName
  PROVE  Tables'
<1>0. /\ UNCHANGED <<sockets, count, of, server, overlapped, lost>>
      /\ acceptor.pc = "name" /\ acceptor \in AcceptorType /\ Tables /\ TypeOK
      /\ acceptor'.pc = "increment"
  BY DEF AcceptName, AcceptorAt, Inv, TypeOK, AcceptorType
<1>1. Occupied' = Occupied /\ Held' = Held /\ Leaving' = Leaving
  BY <1>0, HeldSame DEF Leaving
<1>2. InHand' /\ Turn' /\ Distinct' /\ Room' /\ LostLate'
  BY <1>0, <1>1 DEF Tables, InHand, Turn, Distinct, Room, LostLate
<1>3. HeldOpen' /\ Kept'
  BY <1>0, <1>1 DEF Tables, HeldOpen, Kept, ClientOf
<1>4. Counted'
  BY <1>0, <1>1 DEF Tables, Counted, Placing
<1>5. NamesAreTheirOwn'
  <2>1. \A i \in Slots : names'[i] = names[i] \/ names'[i] = Anonymous
    BY <1>0 DEF AcceptName, TypeOK
  <2> QED
    BY <1>0, <1>1, <2>1 DEF Tables, NamesAreTheirOwn, ClientOf
<1> QED
  BY <1>2, <1>3, <1>4, <1>5 DEF Tables

LEMMA AcceptIncrementTables ==
  ASSUME Inv, AcceptIncrement
  PROVE  Tables'
<1>0. /\ UNCHANGED <<sockets, names, of, server, lost>>
      /\ acceptor.pc = "increment" /\ acceptor \in AcceptorType /\ Tables
      /\ acceptor'.pc = "welcome" /\ count \in Int
      /\ count' = acceptor.read + 1
  BY DEF AcceptIncrement, AcceptorAt, Inv, TypeOK, AcceptorType
<1>1. Occupied' = Occupied /\ Held' = Held /\ Leaving' = Leaving
  BY <1>0, HeldSame DEF Leaving
<1>2. overlapped' = (overlapped \/ count # acceptor.read)
  BY DEF AcceptIncrement
<1>3. InHand' /\ Turn' /\ Distinct' /\ Room'
  BY <1>0, <1>1 DEF Tables, InHand, Turn, Distinct, Room
<1>4. HeldOpen' /\ Kept' /\ NamesAreTheirOwn'
  BY <1>0, <1>1 DEF Tables, HeldOpen, Kept, NamesAreTheirOwn, ClientOf
<1>5. Counted'
  <2> SUFFICES ASSUME ~overlapped' PROVE Counted'
    BY DEF Counted
  <2>1. ~overlapped /\ count = acceptor.read
    BY <1>2
  <2>2. Placing /\ ~Placing'
    BY <1>0 DEF Placing
  <2> QED
    BY <1>0, <1>1, <2>1, <2>2, OccupiedFinite DEF Tables, Counted
<1>6. LostLate'
  BY <1>0, <1>2 DEF Tables, LostLate
<1> QED
  BY <1>3, <1>4, <1>5, <1>6 DEF Tables

\* Nothing but the accept thread itself has changed.
LEMMA AcceptWelcomeTables ==
  ASSUME Inv, AcceptWelcome
  PROVE  Tables'
<1>1. CASE Ends("SIGPIPE")
  BY <1>1, EndsInv DEF Inv
<1>2. CASE /\ acceptor' = NoAcceptor
           /\ UNCHANGED <<tables, of, peers, server, ended, overlapped, lost>>
  <2>0. /\ UNCHANGED <<sockets, names, count, of, server, overlapped, lost>>
        /\ acceptor.pc = "welcome" /\ acceptor'.pc = "check" /\ Tables
    BY <1>2 DEF AcceptWelcome, AcceptorAt, NoAcceptor, tables, Inv
  <2>1. Occupied' = Occupied /\ Held' = Held /\ Leaving' = Leaving
    BY <2>0, HeldSame DEF Leaving
  <2>2. InHand' /\ Turn' /\ Distinct' /\ Room' /\ LostLate'
    BY <2>0, <2>1 DEF Tables, InHand, Turn, Distinct, Room, LostLate
  <2>3. HeldOpen' /\ Kept' /\ NamesAreTheirOwn'
    BY <2>0, <2>1 DEF Tables, HeldOpen, Kept, NamesAreTheirOwn, ClientOf
  <2>4. Counted'
    BY <2>0, <2>1 DEF Tables, Counted, Placing
  <2> QED
    BY <2>2, <2>3, <2>4 DEF Tables
<1> QED
  BY <1>1, <1>2 DEF AcceptWelcome

LEMMA ReleaseDecrementTables ==
  ASSUME Inv, ReleaseDecrement
  PROVE  Tables'
<1>0. /\ UNCHANGED <<sockets, names, of, acceptor, lost>>
      /\ server.pc = "decrement" /\ Tables /\ count \in Int
      /\ server'.pc = "close" /\ server'.slot = server.slot /\ server'.todo = server.todo
      /\ count' = server.read - 1
  BY DEF ReleaseDecrement, ServerAt, Inv, TypeOK
<1>1. Occupied' = Occupied /\ Held' = Held
  BY <1>0, HeldSame
<1>2. overlapped' = (overlapped \/ count # server.read)
  BY DEF ReleaseDecrement
<1>3. InHand' /\ Turn' /\ Distinct' /\ Room'
  BY <1>0, <1>1, <1>2 DEF Tables, InHand, Turn, Distinct, Room
<1>4. HeldOpen' /\ Kept' /\ NamesAreTheirOwn'
  BY <1>0, <1>1 DEF Tables, HeldOpen, Kept, NamesAreTheirOwn, ClientOf
<1>5. LostLate'
  BY <1>0, <1>2 DEF Tables, LostLate
<1>6. Counted'
  <2> SUFFICES ASSUME ~overlapped' PROVE Counted'
    BY DEF Counted
  <2>1. ~overlapped /\ count = server.read
    BY <1>2
  <2>2. Leaving' /\ ~Leaving /\ Placing' = Placing
    BY <1>0 DEF Leaving, Placing
  <2> QED
    BY <1>0, <1>1, <2>1, <2>2, OccupiedFinite DEF Tables, Counted
<1> QED
  BY <1>3, <1>4, <1>5, <1>6 DEF Tables

LEMMA ReleaseCloseTables ==
  ASSUME Inv, ReleaseClose
  PROVE  Tables'
<1> DEFINE s == server.slot
           d == sockets[server.slot]
<1>0. /\ UNCHANGED <<sockets, names, count, acceptor, overlapped, lost>>
      /\ server.pc = "close" /\ Tables /\ TypeOK /\ s \in Occupied
      /\ server'.pc = "free" /\ server'.slot = s /\ server'.todo = server.todo
      /\ of' = [of EXCEPT ![d] = None]
  BY DEF ReleaseClose, ServerAt, Inv, Tables, TypeOK, Turn, tables
<1>1. Occupied' = Occupied /\ Held = Occupied /\ Held' = Held \ {s} /\ Leaving' = Leaving
  BY <1>0 DEF Occupied, Held, Closing, Leaving
<1>2. \A i \in Held' : sockets[i] # d /\ ClientOf(i)' = ClientOf(i)
  <2> TAKE i \in Held'
  <2>1. i \in Held /\ i # s /\ s \in Held
    BY <1>0, <1>1
  <2>2. sockets[i] # d
    BY <1>0, <2>1 DEF Tables, Distinct
  <2>3. sockets[i] \in Descriptors
    BY <1>0, <2>1, HeldFacts
  <2> QED
    BY <1>0, <2>2, <2>3 DEF ClientOf, TypeOK
<1>3. InHand'
  <2>1. ASSUME acceptor.pc = "place"
        PROVE  acceptor.fd \in Descriptors /\ acceptor.fd # d /\ of[acceptor.fd] # None
    BY <1>0, <1>1, <2>1 DEF Tables, InHand
  <2>2. acceptor.pc = "place" => of'[acceptor.fd] = of[acceptor.fd]
    BY <1>0, <2>1 DEF TypeOK
  <2> QED
    BY <1>0, <1>1, <2>1, <2>2 DEF Tables, InHand
<1>4. Turn' /\ Distinct' /\ Room' /\ LostLate'
  BY <1>0, <1>1 DEF Tables, Turn, Distinct, Room, LostLate
<1>5. HeldOpen'
  BY <1>0, <1>1, <1>2 DEF Tables, HeldOpen
<1>6. Kept'
  <2> SUFFICES ASSUME NEW e \in Descriptors, of'[e] # None
               PROVE  \/ \E i \in Held' : sockets[i] = e
                      \/ acceptor.pc = "place" /\ acceptor.fd = e
                      \/ \E late \in BOOLEAN : <<of'[e], late>> \in lost
    BY <1>0 DEF Kept
  <2>1. e # d /\ of'[e] = of[e]
    BY <1>0 DEF TypeOK
  <2>2. \A i \in Held : sockets[i] = e => i \in Held'
    BY <1>0, <1>1, <2>1
  <2> QED
    BY <1>0, <2>1, <2>2 DEF Tables, Kept
<1>7. Counted'
  BY <1>0, <1>1 DEF Tables, Counted, Placing
<1>8. NamesAreTheirOwn'
  <2> SUFFICES ASSUME NEW i \in Slots, i # s,
                      names[i] \notin {None, Anonymous}
               PROVE  i \in Occupied /\ names[i] = ClientOf(i)'
    BY <1>0, <1>1 DEF NamesAreTheirOwn
  <2>1. i \in Occupied /\ names[i] = ClientOf(i)
    BY <1>0 DEF Tables, NamesAreTheirOwn
  <2> QED
    BY <1>1, <1>2, <2>1
<1> QED
  BY <1>3, <1>4, <1>5, <1>6, <1>7, <1>8 DEF Tables

LEMMA ReleaseFreeTables ==
  ASSUME Inv, ReleaseFree
  PROVE  Tables'
<1> DEFINE s == server.slot
<1>0. /\ UNCHANGED <<names, count, of, acceptor, overlapped, lost>>
      /\ server.pc = "free" /\ Tables /\ TypeOK /\ s \in Occupied /\ s \notin server.todo
      /\ server'.pc = "wipe" /\ server'.slot = s /\ server'.todo = server.todo
      /\ sockets' = [sockets EXCEPT ![s] = None]
  BY DEF ReleaseFree, ServerAt, Inv, Tables, TypeOK, Turn, peers
<1>1. \A i \in Slots : sockets'[i] = IF i = s THEN None ELSE sockets[i]
  BY <1>0 DEF TypeOK
<1>2. Occupied' = Occupied \ {s} /\ Held' = Held /\ s \notin Held
  BY <1>0, <1>1 DEF Occupied, Held, Closing
<1>3. \A i \in Held : i \in Slots /\ sockets'[i] = sockets[i]
  BY <1>1, <1>2 DEF Held, Occupied
<1>4. InHand' /\ Distinct'
  BY <1>0, <1>2, <1>3 DEF Tables, InHand, Distinct
<1>5. Turn'
  BY <1>0, <1>2 DEF Tables, Turn
<1>6. HeldOpen' /\ Kept' /\ LostLate'
  BY <1>0, <1>2, <1>3 DEF Tables, HeldOpen, Kept, LostLate, ClientOf
<1>7. Room'
  BY <1>0, <1>1 DEF Tables, Room
<1>8. Counted'
  <2>1. Cardinality(Occupied') = Cardinality(Occupied) - 1
    BY <1>0, <1>2, OccupiedFinite, FS_RemoveElement
  <2>2. Leaving /\ ~Leaving' /\ Placing' = Placing
    BY <1>0 DEF Leaving, Placing
  <2> QED
    BY <1>0, <2>1, <2>2, OccupiedFinite DEF Tables, Counted, TypeOK
<1>9. NamesAreTheirOwn'
  <2> SUFFICES ASSUME NEW i \in Slots, i # s,
                      names[i] \notin {None, Anonymous}
               PROVE  i \in Occupied' /\ names[i] = ClientOf(i)'
    BY <1>0 DEF NamesAreTheirOwn
  <2>1. i \in Occupied /\ names[i] = ClientOf(i)
    BY <1>0 DEF Tables, NamesAreTheirOwn
  <2> QED
    BY <1>0, <1>1, <1>2, <2>1 DEF ClientOf
<1> QED
  BY <1>4, <1>5, <1>6, <1>7, <1>8, <1>9 DEF Tables

LEMMA ReleaseWipeTables ==
  ASSUME Inv, ReleaseWipe
  PROVE  Tables'
<1>0. /\ UNCHANGED <<sockets, count, of, acceptor, overlapped, lost>>
      /\ server.pc = "wipe" /\ Tables /\ TypeOK
      /\ server'.pc = "serve" /\ server'.todo = server.todo
      /\ names' = [names EXCEPT ![server.slot] = None]
  BY DEF ReleaseWipe, ServerAt, Inv, TypeOK, peers
<1>1. Occupied' = Occupied /\ Held' = Held /\ Leaving' = Leaving
  BY <1>0, HeldSame DEF Leaving
<1>2. InHand' /\ Turn' /\ Distinct' /\ Room' /\ LostLate'
  BY <1>0, <1>1 DEF Tables, InHand, Turn, Distinct, Room, LostLate
<1>3. HeldOpen' /\ Kept'
  BY <1>0, <1>1 DEF Tables, HeldOpen, Kept, ClientOf
<1>4. Counted'
  BY <1>0, <1>1 DEF Tables, Counted, Placing
<1>5. NamesAreTheirOwn'
  <2>1. \A i \in Slots : names'[i] = IF i = server.slot THEN None ELSE names[i]
    BY <1>0 DEF TypeOK
  <2> QED
    BY <1>0, <1>1, <2>1 DEF Tables, NamesAreTheirOwn, ClientOf
<1> QED
  BY <1>2, <1>3, <1>4, <1>5 DEF Tables

-----------------------------------------------------------------------------
LEMMA NextTables == Inv /\ [Next]_vars => Tables'
<1> SUFFICES ASSUME Inv, [Next]_vars PROVE Tables'
  OBVIOUS
<1>0. 1 \in Clients /\ 1 \in Slots
  BY MaxClientsAssumption, MaxConnectionsAssumption DEF Clients, Slots
<1>1. ASSUME NEW c \in Clients, Connect(c) \/ Send(c) \/ Disconnect(c)
      PROVE  Tables'
  BY <1>0, <1>1, StillTables DEF Still
<1>2. CASE Acceptor
  BY <1>2, AcceptCheckTables, AcceptTables, AcceptPlaceTables, AcceptNoPlaceTables,
     AcceptNameTables, AcceptIncrementTables, AcceptWelcomeTables DEF Acceptor
<1>3. CASE Server
  <2>1. CASE Poll \/ PollAgain
    BY <1>0, <2>1, StillTables DEF Still
  <2>2. ASSUME NEW i \in Slots, ReadNothing(i) \/ ReadSome(i) PROVE Tables'
    BY <1>0, <2>2, StillTables DEF Still
  <2>3. ASSUME NEW i \in Slots, ReadWritesToNobody(i) PROVE Tables'
    BY <2>3, EndsInv DEF ReadWritesToNobody, Inv
  <2> QED
    BY <1>3, <2>1, <2>2, <2>3, ReleaseDecrementTables, ReleaseCloseTables,
       ReleaseFreeTables, ReleaseWipeTables DEF Server
<1>4. CASE Close
  BY <1>4, EndsInv DEF Close, Inv
<1>5. CASE UNCHANGED vars
  <2>1. UNCHANGED <<sockets, names, count, of, acceptor, server, overlapped, lost>>
    BY <1>5 DEF vars, tables
  <2>2. Occupied' = Occupied /\ Held' = Held /\ Leaving' = Leaving /\ Tables
    BY <2>1, HeldSame DEF Leaving, Inv
  <2> QED
    BY <2>1, <2>2 DEF Tables, InHand, Turn, Distinct, HeldOpen, Kept, Room, LostLate,
                      Counted, Placing, NamesAreTheirOwn, ClientOf
<1> QED
  BY <1>1, <1>2, <1>3, <1>4, <1>5 DEF Next

LEMMA NextInv == Inv /\ [Next]_vars => Inv'
BY NextTyped, NextTables DEF Inv

LEMMA InvTablesAgree == Inv => TablesAgree
<1> SUFFICES ASSUME Inv PROVE TablesAgree
  OBVIOUS
<1>1. \A i, k \in Occupied : (i # k /\ ~Closing(i) /\ ~Closing(k)) => sockets[i] # sockets[k]
  BY DEF Inv, Tables, Distinct, Held
<1>2. \A i \in Occupied : Closing(i) \/ ClientOf(i) # None
  BY DEF Inv, Tables, HeldOpen, Held
<1>3. \A d \in Descriptors : of[d] # None =>
        \/ \E i \in Occupied : sockets[i] = d
        \/ acceptor.pc = "place" /\ acceptor.fd = d
        \/ \E late \in BOOLEAN : <<of[d], late>> \in lost
  BY DEF Inv, Tables, Kept, Held
<1>4. LostLate /\ Counted
  BY DEF Inv, Tables
<1> QED
  BY <1>1, <1>2, <1>3, <1>4, Zenon DEF TablesAgree, LostLate, Counted, Placing

THEOREM AlwaysInv == Spec => []Inv
BY InitInv, NextInv, PTL DEF Spec

\* Every variable of the chat server has its type, whatever the two threads do to
\* each other: no slot holds anything but an open descriptor or INVALID_SOCKET.
\* (TcpAcceptLoop, Listen and pvt_HandleDisconnect.)
THEOREM TypeCorrect == Spec => []TypeOK
<1>1. Inv => TypeOK
  BY DEF Inv
<1> QED
  BY <1>1, AlwaysInv, PTL

\* For any number of clients and of slots: what is written for one client goes to
\* it alone, a client has a slot unless somebody was leaving or an update of the
\* number of clients was lost, and else that number is right.  (TcpAcceptLoop and
\* pvt_HandleDisconnect.)
THEOREM TablesAlwaysAgree == Spec => []TablesAgree
BY InvTablesAgree, AlwaysInv, PTL

\* For any number of clients and of slots: no slot that is in use has the name of
\* a client that has left it.  (TcpAcceptLoop and pvt_HandleDisconnect.)
THEOREM NamesStayTheirOwn == Spec => []NamesAreTheirOwn
<1>1. Inv => NamesAreTheirOwn
  BY DEF Inv, Tables
<1> QED
  BY <1>1, AlwaysInv, PTL
=============================================================================
