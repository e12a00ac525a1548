------------------------------- MODULE TcpServer -------------------------------
(***************************************************************************)
(* The chat server fpx::TcpServer (src/src/networking/tcp/tcpserver.cpp):  *)
(* the thread that accepts clients and the loop that serves them share the *)
(* table of sockets, the table of names and the number of clients, without *)
(* a lock.  Its clients are fpx::TcpClient's (tcpclient.cpp).              *)
(*                                                                         *)
(* Descriptors are the smallest numbers not in use, as the kernel gives    *)
(* them out, so that one that is closed comes back for another client.     *)
(*                                                                         *)
(* The model begins where Listen has its listening socket and has started  *)
(* the accept thread.  Listen gets there only where SOCK_STREAM |          *)
(* SO_REUSEADDR, which it asks socket() for (tcpserver.cpp:89), is a       *)
(* stream socket: on Linux it is SOCK_RAW, socket() fails, and Listen      *)
(* closes and throws (90-93) before any of what follows here.              *)
(***************************************************************************)
EXTENDS Integers, Sequences, FiniteSets

CONSTANTS
  MaxClients,      \* bound: clients, one connection each
  MaxConnections,  \* FPX_MAX_CONNECTIONS
  MaxSends,        \* bound: texts on their way at a time
  Anonymous, None

ASSUME MaxConnectionsAssumption == MaxConnections \in Nat \ {0}
ASSUME MaxSendsAssumption == MaxSends \in Nat
ASSUME MaxClientsAssumption == MaxClients \in Nat \ {0}
ASSUME NamesAssumption == Anonymous # None /\ {Anonymous, None} \cap Nat = {}

VARIABLES
  sockets,    \* m_Sockets, by slot: the descriptor, or None for INVALID_SOCKET
  names,      \* m_Clients: None, Anonymous, or the client that gave the name
  count,      \* m_ConnectedClients
  of,         \* the client a descriptor of the program is open to, or None
  backlog,    \* clients the kernel has connected, that nobody has accepted
  state,      \* of each client: "new", "connected" or "closed"
  wire,       \* what each client has sent and nobody has read: "text" or "bye"
  acceptor,   \* the accept thread
  server,     \* the loop in Listen
  ended,      \* why there is no program any more, or "no"
  overlapped, \* one change of the number of clients has undone another one
  lost        \* clients that were accepted and got no slot, and whether somebody
              \* was leaving while the number of clients was looked at

tables == <<sockets, names, count>>
peers  == <<backlog, state, wire>>
vars   == <<tables, of, peers, acceptor, server, ended, overlapped, lost>>

\* In the order in which they connect.
Clients     == 1 .. MaxClients
Slots       == 1 .. MaxConnections
Descriptors == Clients

NoSlots    == [i \in Slots |-> None]
NoFiles    == [d \in Descriptors |-> None]
NobodyYet  == [c \in Clients |-> "new"]
Nothing    == [c \in Clients |-> <<>>]
NoAcceptor == [pc |-> "check", fd |-> None, slot |-> 0, read |-> 0, late |-> FALSE]
NoServer   == [pc |-> "poll", todo |-> {}, hung |-> {}, slot |-> 0, read |-> 0]

\* Listening, with the listening socket in its place and the accept thread started.
Init ==
  /\ sockets = NoSlots /\ names = NoSlots /\ count = 0 /\ of = NoFiles
  /\ backlog = <<>> /\ state = NobodyYet /\ wire = Nothing
  /\ acceptor = NoAcceptor /\ server = NoServer
  /\ ended = "no" /\ overlapped = FALSE /\ lost = {}

Runs == ended = "no"

\* The program ends, and nothing is left of it.
Ends(why) ==
  /\ ended' = why
  /\ sockets' = NoSlots /\ names' = NoSlots /\ count' = 0 /\ of' = NoFiles
  /\ backlog' = <<>> /\ state' = NobodyYet /\ wire' = Nothing
  /\ acceptor' = NoAcceptor /\ server' = NoServer
  /\ overlapped' = FALSE /\ lost' = {}

-----------------------------------------------------------------------------
(* The clients. *)

\* TcpClient::Connect.
Connect(c) ==
  /\ Runs /\ state[c] = "new" /\ \A b \in 1 .. c - 1 : state[b] # "new"
  /\ state' = [state EXCEPT ![c] = "connected"]
  /\ backlog' = Append(backlog, c)
  /\ UNCHANGED <<tables, of, wire, acceptor, server, ended, overlapped, lost>>

Unread == Cardinality({c \in Clients : \E i \in DOMAIN wire[c] : wire[c][i] = "text"})

\* TcpClient::SendRaw and SendMessage, and the name that an interactive Connect sends.
Send(c) ==
  /\ Runs /\ state[c] = "connected" /\ Unread < MaxSends
  /\ wire' = [wire EXCEPT ![c] = Append(@, "text")]
  /\ UNCHANGED <<tables, of, backlog, state, acceptor, server, ended, overlapped,
                 lost>>

\* TcpClient::Disconnect, or a client that is just gone.
Disconnect(c) ==
  /\ Runs /\ state[c] = "connected"
  /\ state' = [state EXCEPT ![c] = "closed"]
  /\ wire' \in {wire, [wire EXCEPT ![c] = Append(@, "bye")]}
  /\ UNCHANGED <<tables, of, backlog, acceptor, server, ended, overlapped, lost>>

-----------------------------------------------------------------------------
(* TcpAcceptLoop. *)

AcceptorAt(p) == Runs /\ acceptor.pc = p

\* The slot of somebody who is being disconnected and is not counted any more.
Leaving == server.pc \in {"close", "free"}

\* Mutant: one client more than there are slots.
AcceptCheckTooMany ==
  /\ AcceptorAt("check") /\ count <= MaxConnections
  /\ acceptor' = [acceptor EXCEPT !.pc = "accept", !.late = Leaving]
  /\ UNCHANGED <<tables, of, peers, server, ended, overlapped, lost>>

AcceptCheck ==
  /\ AcceptorAt("check") /\ count < MaxConnections
  /\ acceptor' = [acceptor EXCEPT !.pc = "accept", !.late = Leaving]
  /\ UNCHANGED <<tables, of, peers, server, ended, overlapped, lost>>

Accept ==
  /\ AcceptorAt("accept") /\ backlog # <<>>
  /\ \E fd \in Descriptors :
       /\ of[fd] = None /\ \A d \in 1 .. fd - 1 : of[d] # None
       /\ of' = [of EXCEPT ![fd] = Head(backlog)]
       /\ acceptor' = [acceptor EXCEPT !.pc = "place", !.fd = fd, !.slot = 1]
  /\ backlog' = Tail(backlog)
  /\ UNCHANGED <<tables, state, wire, server, ended, overlapped, lost>>

\* The slots are tried one after the other; with none left the descriptor is
\* forgotten.
AcceptPlace ==
  /\ AcceptorAt("place") /\ acceptor.slot \in Slots
  /\ IF sockets[acceptor.slot] = None
     THEN /\ sockets' = [sockets EXCEPT ![acceptor.slot] = acceptor.fd]
          /\ acceptor' = [acceptor EXCEPT !.pc = "name", !.late = FALSE]
     ELSE /\ acceptor' = [acceptor EXCEPT !.slot = @ + 1]
          /\ UNCHANGED sockets
  /\ UNCHANGED <<names, count, of, peers, server, ended, overlapped, lost>>

AcceptNoPlace ==
  /\ AcceptorAt("place") /\ acceptor.slot \notin Slots
  /\ lost' = lost \cup {<<of[acceptor.fd], acceptor.late>>}
  /\ acceptor' = NoAcceptor
  /\ UNCHANGED <<tables, of, peers, server, ended, overlapped>>

AcceptName ==
  /\ AcceptorAt("name")
  /\ names' = [names EXCEPT ![acceptor.slot] = Anonymous]
  /\ acceptor' = [acceptor EXCEPT !.pc = "increment", !.read = count]
  /\ UNCHANGED <<sockets, count, of, peers, server, ended, overlapped, lost>>

\* The number that was read before, and one.
AcceptIncrement ==
  /\ AcceptorAt("increment")
  /\ count' = acceptor.read + 1
  /\ overlapped' = (overlapped \/ count # acceptor.read)
  /\ acceptor' = [acceptor EXCEPT !.pc = "welcome", !.read = 0]
  /\ UNCHANGED <<sockets, names, of, peers, server, ended, lost>>

\* Writing to a client that is gone may raise SIGPIPE, which nobody handles.
Gone(fds) == \E d \in fds : of[d] # None /\ state[of[d]] = "closed"

\* The descriptor may have been closed by now, which is no harm.
AcceptWelcome ==
  /\ AcceptorAt("welcome")
  /\ \/ /\ acceptor' = NoAcceptor
        /\ UNCHANGED <<tables, of, peers, server, ended, overlapped, lost>>
     \/ Gone({acceptor.fd}) /\ Ends("SIGPIPE")

Acceptor ==
  \/ AcceptCheck \/ Accept \/ AcceptPlace \/ AcceptNoPlace
  \/ AcceptName \/ AcceptIncrement \/ AcceptWelcome

-----------------------------------------------------------------------------
(* The loop of Listen. *)

ServerAt(p) == Runs /\ server.pc = p

\* The client in a slot.
ClientOf(i) == of[sockets[i]]

\* The slots poll() finds something to read in, which is also said of those
\* that hung up; that somebody hung up may be told at once or not.
Occupied == {i \in Slots : sockets[i] # None}
Readable == {i \in Occupied : wire[ClientOf(i)] # <<>> \/ state[ClientOf(i)] = "closed"}
HungUp   == {i \in Occupied : state[ClientOf(i)] = "closed"}

\* With nothing to do it polls again.
Poll ==
  /\ ServerAt("poll") /\ Readable # {}
  /\ \E hung \in {{}, HungUp} :
       server' = [server EXCEPT !.pc = "serve", !.todo = Readable, !.hung = hung]
  /\ UNCHANGED <<tables, of, peers, acceptor, ended, overlapped, lost>>

\* The next slot of the loop, and what is left when it is done with.
Serves(i) == ServerAt("serve") /\ i \in server.todo /\ \A j \in server.todo : i <= j
Proceed(i) == server' = [server EXCEPT !.todo = @ \ {i}, !.hung = @ \ {i}]

\* pvt_HandleDisconnect begins with the number of clients.
Release(i) ==
  server' = [server EXCEPT !.pc = "decrement", !.slot = i, !.read = count,
                           !.todo = @ \ {i}, !.hung = @ \ {i}]

\* Mutant: nothing read is nothing to do.
ReadNothingIgnored(i) ==
  /\ Serves(i) /\ wire[ClientOf(i)] = <<>>
  /\ Proceed(i)
  /\ UNCHANGED <<tables, of, peers, acceptor, ended, overlapped, lost>>

\* read() returns 0: the client has closed its end.
ReadNothing(i) ==
  /\ Serves(i) /\ wire[ClientOf(i)] = <<>>
  /\ Release(i)
  /\ UNCHANGED <<tables, of, peers, acceptor, ended, overlapped, lost>>

\* What a text may be: "NAME:", "MSG:", "MSG:!pm", another command or "ECHO:", or
\* something that is not recognised.
Kinds(text) == IF text = "bye" THEN {"bye", "unknown"}
               ELSE {"name", "msg", "pm", "command", "unknown"}

\* To whom something is written for a text of the client in slot i: all the
\* others, one of them, itself, or nobody.
Others(i) == {sockets[k] : k \in Occupied} \ {sockets[i]}
Receivers(kind, i) ==
  CASE kind = "msg"                       -> {Others(i)}
    [] kind = "pm"                        -> {{sockets[k]} : k \in Occupied} \cup {{}}
    [] kind = "command"                   -> {{sockets[i]}}
    [] kind \in {"name", "bye", "unknown"} -> {{}}

(***************************************************************************)
(* read() returns one text or several, run together, of which the first    *)
(* alone is looked at; or one in pieces, that is not recognised.           *)
(***************************************************************************)
ReadSome(i) ==
  /\ Serves(i)
  /\ LET c == ClientOf(i)
     IN  \E n \in 1 .. Len(wire[c]) : \E kind \in Kinds(Head(wire[c])) :
           /\ wire' = [wire EXCEPT ![c] = SubSeq(@, n + 1, Len(@))]
           /\ names' = IF kind = "name" THEN [names EXCEPT ![i] = c] ELSE names
           /\ IF kind = "bye" \/ i \in server.hung THEN Release(i) ELSE Proceed(i)
  /\ UNCHANGED <<sockets, count, of, backlog, state, acceptor, ended, overlapped,
                 lost>>

\* What is written for it reaches somebody who is gone; or it is a private
\* message to a slot that does not exist, which is not checked.
ReadWritesToNobody(i) ==
  /\ Serves(i) /\ wire[ClientOf(i)] # <<>>
  /\ \E kind \in Kinds(Head(wire[ClientOf(i)])) :
       \/ (\E fds \in Receivers(kind, i) : Gone(fds)) /\ Ends("SIGPIPE")
       \/ kind = "pm" /\ Ends("outside")

PollAgain ==
  /\ ServerAt("serve") /\ server.todo = {}
  /\ server' = NoServer
  /\ UNCHANGED <<tables, of, peers, acceptor, ended, overlapped, lost>>

\* pvt_HandleDisconnect: one client less than were read, ...
ReleaseDecrement ==
  /\ ServerAt("decrement")
  /\ count' = server.read - 1
  /\ overlapped' = (overlapped \/ count # server.read)
  /\ server' = [server EXCEPT !.pc = "close", !.read = 0]
  /\ UNCHANGED <<sockets, names, of, peers, acceptor, ended, lost>>

ReleaseClose ==
  /\ ServerAt("close")
  /\ of' = [of EXCEPT ![sockets[server.slot]] = None]
  /\ wire' = [wire EXCEPT ![ClientOf(server.slot)] = <<>>]
  /\ server' = [server EXCEPT !.pc = "free"]
  /\ UNCHANGED <<tables, backlog, state, acceptor, ended, overlapped, lost>>

\* Mutant: the slot is cleared like everything else.
ReleaseZero ==
  /\ ServerAt("free")
  /\ sockets' = [sockets EXCEPT ![server.slot] = 0]
  /\ server' = [server EXCEPT !.pc = "wipe"]
  /\ UNCHANGED <<names, count, of, peers, acceptor, ended, overlapped, lost>>

\* ... its slot is free, ...
ReleaseFree ==
  /\ ServerAt("free")
  /\ sockets' = [sockets EXCEPT ![server.slot] = None]
  /\ server' = [server EXCEPT !.pc = "wipe"]
  /\ UNCHANGED <<names, count, of, peers, acceptor, ended, overlapped, lost>>

\* Mutant: the name stays.
ReleaseKeepName ==
  /\ ServerAt("wipe")
  /\ server' = [server EXCEPT !.pc = "serve", !.slot = 0]
  /\ UNCHANGED <<tables, of, peers, acceptor, ended, overlapped, lost>>

\* ... and nobody's name is in it, of whoever has it by now.
ReleaseWipe ==
  /\ ServerAt("wipe")
  /\ names' = [names EXCEPT ![server.slot] = None]
  /\ server' = [server EXCEPT !.pc = "serve", !.slot = 0]
  /\ UNCHANGED <<sockets, count, of, peers, acceptor, ended, overlapped, lost>>

Server ==
  \/ \E i \in Slots : ReadNothing(i) \/ ReadSome(i) \/ ReadWritesToNobody(i)
  \/ Poll \/ PollAgain
  \/ ReleaseDecrement \/ ReleaseClose \/ ReleaseFree \/ ReleaseWipe

\* Close, from another thread: it closes the socket, and sends the accept thread
\* SIGTERM, which nobody handles either.
Close == Runs /\ Ends("SIGTERM")

-----------------------------------------------------------------------------
Next ==
  \/ \E c \in Clients : Connect(c) \/ Send(c) \/ Disconnect(c)
  \/ Acceptor \/ Server \/ Close

\* The two threads are not blocked by each other.
Spec == Init /\ [][Next]_vars /\ WF_vars(Acceptor) /\ WF_vars(Server)

-----------------------------------------------------------------------------
(* Properties. *)

TypeOK ==
  /\ sockets \in [Slots -> Descriptors \cup {None}]
  /\ names \in [Slots -> Clients \cup {None, Anonymous}]
  /\ count \in Int
  /\ of \in [Descriptors -> Clients \cup {None}]
  /\ backlog \in Seq(Clients)
  /\ state \in [Clients -> {"new", "connected", "closed"}]
  /\ wire \in [Clients -> Seq({"text", "bye"})]
  /\ acceptor \in [pc : {"check", "accept", "place", "name", "increment", "welcome"},
                   fd : Descriptors \cup {None}, slot : 0 .. MaxConnections + 1,
                   read : Int, late : BOOLEAN]
  /\ server \in [pc : {"poll", "serve", "decrement", "close", "free", "wipe"},
                 todo : SUBSET Slots, hung : SUBSET Slots, slot : 0 .. MaxConnections,
                 read : Int]
  /\ ended \in {"no", "SIGPIPE", "SIGTERM", "outside"}
  /\ overlapped \in BOOLEAN
  /\ lost \in SUBSET (Clients \X BOOLEAN)

\* The slot whose descriptor is closed and still there.
Closing(i) == server.pc = "free" /\ server.slot = i

(***************************************************************************)
(* The slots hold different descriptors, open ones, so that what is        *)
(* written for one client goes to it, and once; each client is in a slot,  *)
(* in the hands of the accept thread, or lost, which it is when somebody   *)
(* was leaving or the number of clients is not right; and that is right as *)
(* long as no change of it has undone another one.  (TcpAcceptLoop and     *)
(* pvt_HandleDisconnect, tcpserver.cpp:39-68 and 339-346.)                 *)
(***************************************************************************)
TablesAgree ==
  /\ \A i, k \in Occupied : (i # k /\ ~Closing(i) /\ ~Closing(k)) => sockets[i] # sockets[k]
  /\ \A i \in Occupied : Closing(i) \/ ClientOf(i) # None
  /\ \A d \in Descriptors : of[d] # None =>
       \/ \E i \in Occupied : sockets[i] = d
       \/ acceptor.pc = "place" /\ acceptor.fd = d
       \/ \E late \in BOOLEAN : <<of[d], late>> \in lost
  /\ \A l \in lost : l[2] \/ overlapped
  /\ ~overlapped =>
       Cardinality(Occupied) = count + (IF Leaving THEN 1 ELSE 0)
                               + (IF acceptor.pc \in {"name", "increment"} THEN 1 ELSE 0)

(***************************************************************************)
(* A message is never said to be from somebody who has had the slot before,*)
(* and no such name is in the list of who is online: whatever the accept   *)
(* thread and a disconnection do to each other, at worst the name is none. *)
(* (tcpserver.cpp:56-58 and 344-345.)                                      *)
(***************************************************************************)
NamesAreTheirOwn ==
  \A i \in Slots :
    \/ server.pc \in {"decrement", "close", "free", "wipe"} /\ server.slot = i
    \/ names[i] \in {None, Anonymous}
    \/ i \in Occupied /\ names[i] = ClientOf(i)

Served(c) == \E i \in Occupied : ClientOf(i) = c

(***************************************************************************)
(* In the end (each client connects once) nobody who is gone is in a slot, *)
(* whatever was left to be read and however that was run together; and     *)
(* nobody waits to be accepted for ever while there is room, as long as no *)
(* change of the number of clients was undone.  (The loop of Listen and    *)
(* TcpAcceptLoop.)                                                         *)
(***************************************************************************)
NobodyWaitsForever ==
  /\ <>[](Runs => \A c \in Clients : Served(c) => state[c] # "closed")
  /\ []<>~(/\ Runs /\ ~overlapped
            /\ backlog # <<>> /\ Cardinality(Occupied) < MaxConnections)
=============================================================================
