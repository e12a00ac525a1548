------------------------------- MODULE WsSession -------------------------------
(***************************************************************************)
(* One upgraded connection in the table of a WebSocket thread: the frames  *)
(* its peer sends, the recv() calls that read them and what                *)
(* _ws_handle_client makes of them (src/src/networking/http/httpserver.c). *)
(*                                                                         *)
(* The stream is measured in bytes of a small size of our own: see         *)
(* HeaderSize.  A payload is the stretch of the stream it was copied from. *)
(* One step is one recv() with all that follows it up to the next one.     *)
(***************************************************************************)
EXTENDS Integers, Sequences

CONSTANTS
  Headers,     \* the frames a peer may send: [op, masked, rsv, len]
  ControlMax,  \* 125, the longest payload a control frame may have
  Buffer,      \* BUFFER_DEFAULT, what one recv() returns at most
  Wrap         \* 2^64, where size_t wraps around; nobody sends as much

Ops == {"data", "close", "ping"}   \* "data": every other opcode, PONG included

ASSUME HeadersAssumption ==
  Headers \subseteq [op : Ops, masked : BOOLEAN, rsv : BOOLEAN, len : Nat]
ASSUME SizesAssumption ==
  /\ ControlMax \in Nat
  /\ Buffer \in Nat /\ Buffer > 2
  /\ Wrap \in Nat \ {0}

VARIABLES
  frames,     \* the frames the peer has sent, each with its place in the stream
  wire,       \* how many bytes of them arrive
  gone,       \* "fin" once the peer has closed, "rst" once it has reset
  taken,      \* how many bytes the server has read
  phase,      \* "poll", "ready" (handler called), "recv" (in the middle of a frame)
  cur, got,   \* the frame being received and its payload_length so far
  closeSent, closeRecv,  \* the flags of the client
  delivered,  \* what the callback has been called with
  sent,       \* the close and pong frames that were sent to the peer
  open        \* the connection is in the table

peer    == <<frames, wire>>
flags   == <<closeSent, closeRecv>>
vars    == <<peer, gone, taken, phase, cur, got, flags, delivered, sent, open>>

Unread  == wire - taken
NoFrame == [op |-> "none", rsv |-> FALSE, len |-> 0, from |-> 0]

(***************************************************************************)
(* Two bytes of flags and length and four of masking key are two units; a  *)
(* length of more than 125 takes a third.  A header without masking key is *)
(* one unit, less than minimum_length.                                     *)
(***************************************************************************)
HeaderSize(h) ==
  IF ~h.masked THEN 1 ELSE IF h.len > ControlMax THEN 3 ELSE 2
MinimumLength == 2
FrameSize(h) == HeaderSize(h) + h.len

\* What the callback should get for frame f.
Whole(f) == [op |-> f.head.op, from |-> f.at + HeaderSize(f.head), len |-> f.head.len]

\* What the bytes at the current place mean as a header: that of the frame
\* that starts there, or anything at all.
HeadersHere ==
  LET here == {k \in DOMAIN frames : frames[k].at = taken}
  IN  IF here = {} THEN Headers ELSE {frames[k].head : k \in here}

TypeOK ==
  /\ frames \in Seq([at : Nat, head : Headers])
  /\ wire \in 0 .. Wrap - 1
  /\ gone \in {"no", "fin", "rst"}
  /\ taken \in 0 .. wire
  /\ phase \in {"poll", "ready", "recv"}
  /\ cur \in [op : Ops \cup {"none"}, rsv : BOOLEAN, len : Nat, from : Nat]
  /\ got \in 0 .. taken
  /\ closeSent \in BOOLEAN /\ closeRecv \in BOOLEAN
  /\ delivered \in Seq([op : Ops, from : Nat, len : Nat])
  /\ sent \in Seq({"close", "pong"})
  /\ open \in BOOLEAN

Init ==
  /\ frames = <<>> /\ wire = 0 /\ gone = "no"
  /\ taken = 0 /\ phase = "poll" /\ cur = NoFrame /\ got = 0
  /\ closeSent = FALSE /\ closeRecv = FALSE
  /\ delivered = <<>> /\ sent = <<>>
  /\ open = TRUE

-----------------------------------------------------------------------------
(* What is sent to the peer.  A send fails only when the peer has reset. *)

Repeat(x, n) == [k \in 1 .. n |-> x]

\* Send n close frames.  CLOSE_SENT is set when the last one went out.
SendCloses(n) ==
  \E ok \in IF gone = "rst" THEN {0} ELSE 0 .. n :
    /\ sent' = sent \o Repeat("close", ok)
    /\ closeSent' = (closeSent \/ ok = n)
    /\ gone' = IF ok < n THEN "rst" ELSE gone

SendPong ==
  \/ /\ gone # "rst"
     /\ sent' = Append(sent, "pong")
     /\ UNCHANGED gone
  \/ /\ gone' = "rst"
     /\ UNCHANGED sent

Drop == open' = FALSE

-----------------------------------------------------------------------------
(* A frame has been read whole: op and rsv from its header, from and len for *)
(* what append_payload has collected.                                        *)

\* Mutant: a refused frame leaves no trace in the flags.
RefuseForgotten(rsv) ==
  /\ rsv /\ ~closeSent
  /\ sent' = Append(sent, "close")
  /\ UNCHANGED <<closeSent, gone, closeRecv, delivered, open>>

\* _ws_frame_validate: no extension was negotiated.
RefuseReserved(rsv) ==
  /\ rsv /\ ~closeSent
  /\ SendCloses(1)
  /\ UNCHANGED <<closeRecv, delivered, open>>

\* opcode & 0x80 is never set: every frame is given to the callback.
CallBack(f) ==
  /\ ~f.rsv /\ ~closeSent
  /\ delivered' = Append(delivered, [op |-> f.op, from |-> f.from, len |-> f.len])
  /\ UNCHANGED <<flags, gone, sent, open>>

(***************************************************************************)
(* _handle_control_frame, reached only when CLOSE_SENT is set: its branch  *)
(* that answers a close is never taken.                                    *)
(***************************************************************************)
HandleClose(f) ==
  /\ closeSent /\ f.op = "close" /\ f.len <= ControlMax
  /\ closeRecv' = TRUE
  /\ Drop
  /\ UNCHANGED <<closeSent, gone, delivered, sent>>

HandlePing(f) ==
  /\ closeSent /\ f.op = "ping" /\ f.len <= ControlMax
  /\ SendPong
  /\ UNCHANGED <<flags, delivered, open>>

IgnoreFrame(f) ==
  /\ closeSent
  /\ f.op = "data" \/ f.len > ControlMax
  /\ UNCHANGED <<flags, gone, delivered, sent, open>>

Handle(f) ==
  \/ RefuseReserved(f.rsv)
  \/ CallBack(f)
  \/ HandleClose(f)
  \/ HandlePing(f)
  \/ IgnoreFrame(f)

-----------------------------------------------------------------------------
(* The turn of the connection in _thread_loop *)

\* The timeout sweep.
Expire ==
  /\ open /\ phase = "poll"
  /\ Drop
  /\ UNCHANGED <<peer, gone, taken, phase, cur, got, flags, delivered, sent>>

\* Mutant: only POLLIN is looked at.
HangUpUnseen ==
  /\ open /\ phase = "poll" /\ gone = "rst"
  /\ phase' = "ready"
  /\ UNCHANGED <<peer, gone, taken, cur, got, flags, delivered, sent, open>>

\* poll() reports POLLERR or POLLHUP, which are looked at before POLLIN.
HangUp ==
  /\ open /\ phase = "poll" /\ gone = "rst"
  /\ Drop
  /\ UNCHANGED <<peer, gone, taken, phase, cur, got, flags, delivered, sent>>

\* poll() reports POLLIN: data, or the end of the stream.
PollIn ==
  /\ open /\ phase = "poll"
  /\ gone # "rst" /\ (Unread > 0 \/ gone = "fin")
  /\ phase' = "ready"
  /\ UNCHANGED <<peer, gone, taken, cur, got, flags, delivered, sent, open>>

\* How much the first recv() may return, and how much a later one may.
AtOnce == {n \in 1 .. Buffer : n <= Unread}
Left   == (cur.len - got) % Wrap
ForNow == {n \in AtOnce : n <= Left}

\* Mutant: the end of the stream is not taken for a disconnect.
ReadTooShortButSome ==
  /\ phase = "ready"
  /\ \E n \in AtOnce, h \in HeadersHere :
       n < MinimumLength \/ (h.masked /\ n < HeaderSize(h))
  /\ Drop
  /\ phase' = "poll"
  /\ UNCHANGED <<peer, gone, taken, cur, got, flags, delivered, sent>>

\* -1: recv() failed or returned less than a header, in one piece.
ReadTooShort ==
  /\ phase = "ready"
  /\ \/ Unread = 0
     \/ \E n \in AtOnce, h \in HeadersHere :
          n < MinimumLength \/ (h.masked /\ n < HeaderSize(h))
  /\ Drop
  /\ phase' = "poll"
  /\ UNCHANGED <<peer, gone, taken, cur, got, flags, delivered, sent>>

(***************************************************************************)
(* -2: the frame is not masked.  A close is sent, and another one by the   *)
(* validation, which sets the flag.  What recv() returned is dropped, what *)
(* it did not is left to be read as a header.                              *)
(***************************************************************************)
ReadUnmasked(n, h) ==
  /\ phase = "ready"
  /\ n \in AtOnce /\ n >= MinimumLength
  /\ ~h.masked
  /\ SendCloses(IF closeSent THEN 1 ELSE 2)
  /\ taken' = taken + n
  /\ phase' = "poll"
  /\ UNCHANGED <<peer, cur, got, closeRecv, delivered, open>>

\* The first recv() of a frame that goes into the buffer whole.
ReadFrame(n, h) ==
  /\ phase = "ready"
  /\ n \in AtOnce
  /\ h.masked
  /\ n = FrameSize(h)
  /\ Handle([op |-> h.op, rsv |-> h.rsv, from |-> taken + HeaderSize(h), len |-> h.len])
  /\ taken' = taken + n
  /\ phase' = "poll"
  /\ UNCHANGED <<peer, cur, got>>

\* Mutant: what was read with the header is not counted.
ReadPartUncounted(n, h) ==
  /\ phase = "ready"
  /\ n \in AtOnce /\ n >= HeaderSize(h)
  /\ h.masked
  /\ n # FrameSize(h)
  /\ cur' = [op |-> h.op, rsv |-> h.rsv, len |-> h.len, from |-> taken + HeaderSize(h)]
  /\ got' = 0
  /\ taken' = taken + n
  /\ phase' = "recv"
  /\ UNCHANGED <<peer, gone, flags, delivered, sent, open>>

\* The first recv() returned less than the frame, or more than it: all of it
\* is appended, and left_to_read wraps around.
ReadPart(n, h) ==
  /\ phase = "ready"
  /\ n \in AtOnce /\ n >= HeaderSize(h)
  /\ h.masked
  /\ n # FrameSize(h)
  /\ cur' = [op |-> h.op, rsv |-> h.rsv, len |-> h.len, from |-> taken + HeaderSize(h)]
  /\ got' = n - HeaderSize(h)
  /\ taken' = taken + n
  /\ phase' = "recv"
  /\ UNCHANGED <<peer, gone, flags, delivered, sent, open>>

\* Mutant: what was asked for is counted, not what was returned.
ReadMoreAsked(n) ==
  /\ phase = "recv"
  /\ n \in 1 .. Buffer /\ n < Left
  /\ got' = got + n
  /\ taken' = taken + n
  /\ UNCHANGED <<peer, gone, phase, cur, flags, delivered, sent, open>>

ReadMore(n) ==
  /\ phase = "recv"
  /\ n \in ForNow /\ n < Left
  /\ got' = got + n
  /\ taken' = taken + n
  /\ UNCHANGED <<peer, gone, phase, cur, flags, delivered, sent, open>>

\* The recv() that brings left_to_read to 0.
ReadLast(n) ==
  /\ phase = "recv"
  /\ n \in ForNow /\ n = Left
  /\ Handle([cur EXCEPT !.len = got + n])
  /\ taken' = taken + n
  /\ phase' = "poll" /\ cur' = NoFrame /\ got' = 0
  /\ UNCHANGED peer

\* -3: recv() fails, and so does sending a close.
ReadFails ==
  /\ phase = "recv"
  /\ Unread = 0 /\ gone = "rst"
  /\ phase' = "poll" /\ cur' = NoFrame /\ got' = 0
  /\ UNCHANGED <<peer, gone, taken, flags, delivered, sent, open>>

\* recv() returns 0, which is not -1: the loop calls it again.
ReadNothing ==
  /\ phase = "recv"
  /\ Unread = 0 /\ gone = "fin"
  /\ UNCHANGED vars

-----------------------------------------------------------------------------
(* The peer.  Bound: it sends less than Wrap bytes.  It may close in the     *)
(* middle of a frame, and need not wait for one frame to be read before it   *)
(* sends the next.                                                           *)

Total == IF frames = <<>> THEN 0
         ELSE frames[Len(frames)].at + FrameSize(frames[Len(frames)].head)

PeerSends(h) ==
  /\ open /\ gone = "no"
  /\ h \in Headers
  /\ Total + FrameSize(h) < Wrap
  /\ frames' = Append(frames, [at |-> Total, head |-> h])
  /\ wire' = Total + FrameSize(h)
  /\ UNCHANGED <<gone, taken, phase, cur, got, flags, delivered, sent, open>>

PeerCloses(how, cut) ==
  /\ open
  /\ \/ gone = "no" /\ how \in {"fin", "rst"}
     \/ gone = "fin" /\ how = "rst"
  /\ gone' = how
  /\ cut \in taken .. wire
  /\ wire' = cut
  /\ UNCHANGED <<frames, taken, phase, cur, got, flags, delivered, sent, open>>

Receive ==
  \/ HangUp
  \/ PollIn
  \/ ReadTooShort
  \/ \E n \in 1 .. Buffer, h \in HeadersHere :
       ReadUnmasked(n, h) \/ ReadFrame(n, h) \/ ReadPart(n, h)
  \/ \E n \in 1 .. Buffer : ReadMore(n) \/ ReadLast(n)
  \/ ReadFails
  \/ ReadNothing

\* The slot in the table is given to somebody else.
Ended == ~open /\ UNCHANGED vars

Next ==
  \/ Receive
  \/ Expire
  \/ \E h \in Headers : PeerSends(h)
  \/ \E how \in {"fin", "rst"}, cut \in taken .. wire : PeerCloses(how, cut)
  \/ Ended

Spec == Init /\ [][Next]_vars
FairSpec == Spec /\ WF_vars(Receive)

-----------------------------------------------------------------------------
(***************************************************************************)
(* The k-th call of the callback gets the k-th frame of the peer: whole,   *)
(* however recv() cut it up, with nothing of the next one, no frame twice  *)
(* and none left out, also when frames are refused, when a close cannot be *)
(* sent, and when the peer resets the connection at any point.             *)
(***************************************************************************)
CallbacksAreFrames ==
  \A k \in DOMAIN delivered : k \in DOMAIN frames /\ delivered[k] = Whole(frames[k])

\* CLOSE_SENT is set exactly when the peer has been sent a close frame, as
\* long as the connection is not reset: -2 sends one without setting it.
CloseFlagIsTrue ==
  gone # "rst" => (closeSent <=> \E k \in DOMAIN sent : sent[k] = "close")

\* recv() has returned bytes of another frame with the one being received.
Overrun == phase = "recv" /\ got > cur.len

\* The peer has closed in the middle of what is being received.
CutShort == phase = "recv" /\ gone = "fin" /\ Unread = 0

(***************************************************************************)
(* Every frame is given to the callback, or a close is sent and the frames *)
(* that follow are not wanted, or the connection ends; the exception is a  *)
(* frame that was read together with bytes of the next one, which          *)
(* _ws_parse_request waits to see the rest of for ever.                    *)
(***************************************************************************)
EveryFrameAnswered ==
  []<>(\/ Len(delivered) = Len(frames)
       \/ closeSent \/ ~open \/ gone # "no"
       \/ Overrun)

\* When the peer is gone the connection leaves the table, except when it
\* closes in the middle of a frame: recv() then returns 0 again and again.
HangUpEndsSession == (gone # "no") ~> (~open \/ CutShort)

\* "NOT a control frame" (httpserver.c 1842): no close, no ping.
CallbackGetsNoControlFrame ==
  \A k \in DOMAIN delivered : delivered[k].op = "data"
===============================================================================
