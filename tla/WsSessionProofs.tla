---------------------------- MODULE WsSessionProofs ----------------------------
(***************************************************************************)
(* TLAPS proofs about WsSession, for any set of frames a peer may send and *)
(* any sizes of the buffer, of a control frame and of size_t.              *)
(***************************************************************************)
EXTENDS WsSession, SequenceTheorems, TLAPS

\* The handler runs on an open connection, in "recv" on a frame it has begun.
Handling ==
  /\ phase # "poll" => open
  /\ phase = "recv" => cur.op \in Ops

Shape == TypeOK /\ Handling /\ wire <= Total

\* What a frame is once it has been read.
FrameRead == [op : Ops, rsv : BOOLEAN, len : Nat, from : Nat]

-----------------------------------------------------------------------------
LEMMA HeaderFacts ==
  ASSUME NEW h \in Headers
  PROVE  /\ h.op \in Ops /\ h.masked \in BOOLEAN /\ h.rsv \in BOOLEAN /\ h.len \in Nat
         /\ HeaderSize(h) \in 1 .. 3
         /\ FrameSize(h) \in Nat /\ FrameSize(h) >= 1
         /\ FrameSize(h) = HeaderSize(h) + h.len
<1>1. h \in [op : Ops, masked : BOOLEAN, rsv : BOOLEAN, len : Nat]
  BY HeadersAssumption
<1>2. h.op \in Ops /\ h.masked \in BOOLEAN /\ h.rsv \in BOOLEAN /\ h.len \in Nat
  BY <1>1
<1>3. HeaderSize(h) \in 1 .. 3
  BY DEF HeaderSize
<1> QED
  BY <1>2, <1>3 DEF FrameSize

LEMMA FramesTyped ==
  ASSUME TypeOK, NEW k \in DOMAIN frames
  PROVE  frames[k] \in [at : Nat, head : Headers]
<1>1. frames \in Seq([at : Nat, head : Headers])
  BY DEF TypeOK
<1>2. k \in 1 .. Len(frames)
  BY <1>1
<1> QED
  BY <1>1, <1>2, ElementOfSeq, Zenon

LEMMA HeadersHereTyped == TypeOK => HeadersHere \subseteq Headers
<1> SUFFICES ASSUME TypeOK, NEW h \in HeadersHere
             PROVE  h \in Headers
  OBVIOUS
<1>1. CASE \E k \in DOMAIN frames : frames[k].at = taken /\ h = frames[k].head
  BY <1>1, FramesTyped
<1>2. CASE h \in Headers
  BY <1>2
<1> QED
  BY <1>1, <1>2 DEF HeadersHere

LEMMA TotalFacts ==
  ASSUME TypeOK
  PROVE  /\ Total \in Nat
         /\ frames # <<>> => Len(frames) \in DOMAIN frames
<1>1. CASE frames = <<>>
  BY <1>1 DEF Total
<1>2. CASE frames # <<>>
  <2>1. Len(frames) \in DOMAIN frames
    BY <1>2 DEF TypeOK
  <2>2. frames[Len(frames)] \in [at : Nat, head : Headers]
    BY <2>1, FramesTyped
  <2> QED
    BY <1>2, <2>1, <2>2, HeaderFacts DEF Total
<1> QED
  BY <1>1, <1>2

LEMMA SendClosesTyped ==
  ASSUME TypeOK, NEW n \in {1, 2}, SendCloses(n)
  PROVE  /\ sent' \in Seq({"close", "pong"})
         /\ closeSent' \in BOOLEAN
         /\ gone' \in {"no", "fin", "rst"}
         /\ closeSent => closeSent'
         /\ closeSent' \/ gone' = "rst"
<1>1. PICK ok \in 0 .. n : /\ sent' = sent \o Repeat("close", ok)
                           /\ closeSent' = (closeSent \/ ok = n)
                           /\ gone' = IF ok < n THEN "rst" ELSE gone
  BY DEF SendCloses
<1>2. Repeat("close", ok) \in Seq({"close", "pong"})
  BY DEF Repeat
<1>3. sent' \in Seq({"close", "pong"})
  BY <1>1, <1>2 DEF TypeOK
<1>4. closeSent' \in BOOLEAN /\ (closeSent => closeSent')
  BY <1>1 DEF TypeOK
<1>5. gone' \in {"no", "fin", "rst"}
  BY <1>1 DEF TypeOK
<1>6. CASE ok = n
  BY <1>1, <1>3, <1>4, <1>5, <1>6
<1>7. CASE ok < n
  BY <1>1, <1>3, <1>4, <1>5, <1>7
<1> QED
  BY <1>6, <1>7

LEMMA HandleTyped ==
  ASSUME TypeOK, NEW f \in FrameRead, Handle(f)
  PROVE  /\ sent' \in Seq({"close", "pong"})
         /\ closeSent' \in BOOLEAN /\ closeRecv' \in BOOLEAN
         /\ gone' \in {"no", "fin", "rst"}
         /\ delivered' \in Seq([op : Ops, from : Nat, len : Nat])
         /\ open' \in BOOLEAN
<1>1. CASE RefuseReserved(f.rsv)
  BY <1>1, SendClosesTyped DEF RefuseReserved, TypeOK
<1>2. CASE CallBack(f)
  <2>1. [op |-> f.op, from |-> f.from, len |-> f.len] \in [op : Ops, from : Nat, len : Nat]
    BY DEF FrameRead
  <2> QED
    BY <1>2, <2>1 DEF CallBack, TypeOK, flags
<1>3. CASE HandleClose(f)
  BY <1>3 DEF HandleClose, Drop, TypeOK
<1>4. CASE HandlePing(f)
  <2>1. sent' = Append(sent, "pong") \/ sent' = sent
    BY <1>4 DEF HandlePing, SendPong
  <2>2. sent' \in Seq({"close", "pong"})
    <3>1. sent \in Seq({"close", "pong"})
      BY DEF TypeOK
    <3>2. Append(sent, "pong") \in Seq({"close", "pong"})
      BY <3>1
    <3> QED
      BY <2>1, <3>1, <3>2
  <2>3. gone' \in {"no", "fin", "rst"}
    BY <1>4 DEF HandlePing, SendPong, TypeOK
  <2> QED
    BY <1>4, <2>2, <2>3 DEF HandlePing, TypeOK, flags
<1>5. CASE IgnoreFrame(f)
  BY <1>5 DEF IgnoreFrame, TypeOK, flags
<1> QED
  BY <1>1, <1>2, <1>3, <1>4, <1>5 DEF Handle

THEOREM InitShape == Init => Shape
<1> SUFFICES ASSUME Init PROVE Shape
  OBVIOUS
<1>1. cur \in [op : Ops \cup {"none"}, rsv : BOOLEAN, len : Nat, from : Nat]
  BY DEF Init, NoFrame
<1>2. wire \in 0 .. Wrap - 1 /\ taken \in 0 .. wire /\ got \in 0 .. taken
  BY SizesAssumption DEF Init
<1>3. /\ frames \in Seq([at : Nat, head : Headers])
      /\ delivered \in Seq([op : Ops, from : Nat, len : Nat])
      /\ sent \in Seq({"close", "pong"})
  BY DEF Init
<1>4. TypeOK
  BY <1>1, <1>2, <1>3 DEF Init, TypeOK
<1> QED
  BY <1>4 DEF Init, Shape, Handling, Total

\* The frame the first recv() of a turn has brought.
LEMMA ReadFrameTyped ==
  ASSUME TypeOK, NEW h \in Headers
  PROVE  [op |-> h.op, rsv |-> h.rsv, from |-> taken + HeaderSize(h), len |-> h.len]
           \in FrameRead
BY HeaderFacts DEF TypeOK, FrameRead

\* The frame the last recv() of a turn has completed.
LEMMA ReadLastTyped ==
  ASSUME Shape, phase = "recv", NEW n \in Nat
  PROVE  [cur EXCEPT !.len = got + n] \in FrameRead
<1>1. cur \in [op : Ops \cup {"none"}, rsv : BOOLEAN, len : Nat, from : Nat]
  BY DEF Shape, TypeOK
<1>2. cur.op \in Ops /\ got + n \in Nat
  BY DEF Shape, TypeOK, Handling
<1>3. [cur EXCEPT !.len = got + n]
        = [op |-> cur.op, rsv |-> cur.rsv, len |-> got + n, from |-> cur.from]
  BY <1>1
<1> QED
  BY <1>1, <1>2, <1>3 DEF FrameRead

LEMMA NoFrameTyped ==
  NoFrame \in [op : Ops \cup {"none"}, rsv : BOOLEAN, len : Nat, from : Nat]
BY DEF NoFrame

\* No more bytes arrive than the peer has sent.
LEMMA NextWire == Shape /\ [Next]_vars => wire' <= Total'
<1> SUFFICES ASSUME Shape, [Next]_vars PROVE wire' <= Total'
  OBVIOUS
<1>1. frames' = frames => Total' = Total
  BY DEF Total
<1>2. ASSUME NEW h \in Headers, PeerSends(h)
      PROVE  wire' <= Total'
  <2>1. frames \in Seq([at : Nat, head : Headers]) /\ Total \in Nat
    BY TotalFacts DEF Shape, TypeOK
  <2>2. Append(frames, [at |-> Total, head |-> h]) # <<>>
    BY <2>1
  <2>3. /\ Len(frames') = Len(frames) + 1
        /\ frames'[Len(frames) + 1] = [at |-> Total, head |-> h]
    BY <1>2, <2>1 DEF PeerSends
  <2>4. Total' = Total + FrameSize(h)
    BY <1>2, <2>2, <2>3 DEF PeerSends, Total
  <2> QED
    BY <1>2, <2>1, <2>4, HeaderFacts DEF PeerSends
<1>3. ASSUME NEW how \in {"fin", "rst"}, NEW cut \in taken .. wire, PeerCloses(how, cut)
      PROVE  wire' <= Total'
  BY <1>1, <1>3, TotalFacts DEF PeerCloses, Shape, TypeOK
<1>4. CASE UNCHANGED <<frames, wire>>
  BY <1>1, <1>4 DEF Shape
<1>5. Receive \/ Expire \/ Ended \/ UNCHANGED vars => UNCHANGED <<frames, wire>>
  BY DEF Receive, HangUp, PollIn, ReadTooShort, ReadUnmasked, ReadFrame, ReadPart, ReadMore,
         ReadLast, ReadFails, ReadNothing, Expire, Ended, vars, peer
<1> QED
  BY <1>2, <1>3, <1>4, <1>5 DEF Next

THEOREM NextShape == Shape /\ [Next]_vars => Shape'
<1> SUFFICES ASSUME Shape, [Next]_vars PROVE Shape'
  OBVIOUS
<1> DEFINE Typed == TypeOK /\ Handling
<1> USE DEF Shape
<1>1. HangUp \/ Expire => Typed'
  BY DEF HangUp, Expire, Drop, TypeOK, Handling, peer, flags
<1>2. PollIn => Typed'
  BY DEF PollIn, TypeOK, Handling, peer, flags
<1>3. ReadTooShort => Typed'
  BY DEF ReadTooShort, Drop, TypeOK, Handling, peer, flags
<1>4. ASSUME NEW n \in 1 .. Buffer, NEW h \in HeadersHere, ReadUnmasked(n, h)
      PROVE  Typed'
  <2>1. PICK m \in {1, 2} : SendCloses(m)
    BY <1>4 DEF ReadUnmasked
  <2>2. taken' \in 0 .. wire /\ got \in 0 .. taken'
    BY <1>4, SizesAssumption DEF ReadUnmasked, AtOnce, Unread, TypeOK
  <2> QED
    BY <1>4, <2>1, <2>2, SendClosesTyped DEF ReadUnmasked, TypeOK, Handling, peer
<1>5. ASSUME NEW n \in 1 .. Buffer, NEW h \in HeadersHere, ReadFrame(n, h)
      PROVE  Typed'
  <2> DEFINE f == [op |-> h.op, rsv |-> h.rsv, from |-> taken + HeaderSize(h), len |-> h.len]
  <2>1. f \in FrameRead
    BY HeadersHereTyped, ReadFrameTyped
  <2>2. Handle(f)
    BY <1>5 DEF ReadFrame
  <2> HIDE DEF f
  <2>3. /\ sent' \in Seq({"close", "pong"})
        /\ closeSent' \in BOOLEAN /\ closeRecv' \in BOOLEAN
        /\ gone' \in {"no", "fin", "rst"}
        /\ delivered' \in Seq([op : Ops, from : Nat, len : Nat])
        /\ open' \in BOOLEAN
    BY <2>1, <2>2, HandleTyped
  <2>4. taken' \in 0 .. wire /\ got \in 0 .. taken'
    BY <1>5, SizesAssumption DEF ReadFrame, AtOnce, Unread, TypeOK
  <2>5. phase' = "poll" /\ UNCHANGED <<frames, wire, cur, got>>
    BY <1>5 DEF ReadFrame, peer
  <2> QED
    BY <2>3, <2>4, <2>5 DEF TypeOK, Handling
<1>6. ASSUME NEW n \in 1 .. Buffer, NEW h \in HeadersHere, ReadPart(n, h)
      PROVE  Typed'
  <2>1. h \in Headers
    BY HeadersHereTyped
  <2>2. /\ h.op \in Ops /\ h.rsv \in BOOLEAN /\ h.len \in Nat
        /\ HeaderSize(h) \in 1 .. 3
    BY <2>1, HeaderFacts
  <2>3. /\ taken' = taken + n /\ got' = n - HeaderSize(h)
        /\ n >= HeaderSize(h) /\ n <= wire - taken
    BY <1>6 DEF ReadPart, AtOnce, Unread
  <2>4. taken \in Nat /\ taken + HeaderSize(h) \in Nat /\ wire \in Nat /\ n \in Nat
    BY <2>2, SizesAssumption DEF TypeOK
  <2>5. taken' \in 0 .. wire /\ got' \in 0 .. taken'
    BY <2>2, <2>3, <2>4
  <2>6. /\ cur' \in [op : Ops \cup {"none"}, rsv : BOOLEAN, len : Nat, from : Nat]
        /\ cur'.op \in Ops
    BY <1>6, <2>2, <2>4 DEF ReadPart
  <2> QED
    BY <1>6, <2>5, <2>6 DEF ReadPart, TypeOK, Handling, peer, flags
<1>7. ASSUME NEW n \in 1 .. Buffer, ReadMore(n)
      PROVE  Typed'
  <2>1. taken' \in 0 .. wire /\ got' \in 0 .. taken'
    BY <1>7, SizesAssumption DEF ReadMore, ForNow, AtOnce, Unread, TypeOK
  <2> QED
    BY <1>7, <2>1 DEF ReadMore, TypeOK, Handling, peer, flags
<1>8. ASSUME NEW n \in 1 .. Buffer, ReadLast(n)
      PROVE  Typed'
  <2> DEFINE f == [cur EXCEPT !.len = got + n]
  <2>1. f \in FrameRead
    BY <1>8, ReadLastTyped, SizesAssumption DEF ReadLast
  <2>2. Handle(f)
    BY <1>8 DEF ReadLast
  <2> HIDE DEF f
  <2>3. /\ sent' \in Seq({"close", "pong"})
        /\ closeSent' \in BOOLEAN /\ closeRecv' \in BOOLEAN
        /\ gone' \in {"no", "fin", "rst"}
        /\ delivered' \in Seq([op : Ops, from : Nat, len : Nat])
        /\ open' \in BOOLEAN
    BY <2>1, <2>2, HandleTyped
  <2>4. taken' \in 0 .. wire /\ 0 \in 0 .. taken'
    BY <1>8, SizesAssumption DEF ReadLast, ForNow, AtOnce, Unread, TypeOK
  <2>5. phase' = "poll" /\ cur' = NoFrame /\ got' = 0 /\ UNCHANGED <<frames, wire>>
    BY <1>8 DEF ReadLast, peer
  <2> QED
    BY <2>3, <2>4, <2>5, NoFrameTyped DEF TypeOK, Handling
<1>9. ReadFails => Typed'
  BY NoFrameTyped DEF ReadFails, TypeOK, Handling, peer, flags
<1>10. ReadNothing \/ Ended \/ UNCHANGED vars => Typed'
  BY DEF ReadNothing, Ended, vars, peer, flags, TypeOK, Handling
<1>11. ASSUME NEW h \in Headers, PeerSends(h)
       PROVE  Typed'
  <2>1. [at |-> Total, head |-> h] \in [at : Nat, head : Headers]
    BY TotalFacts
  <2>2. frames' \in Seq([at : Nat, head : Headers])
    BY <1>11, <2>1 DEF PeerSends, TypeOK
  <2>3. wire' \in 0 .. Wrap - 1 /\ taken \in 0 .. wire'
    BY <1>11, HeaderFacts, TotalFacts, SizesAssumption DEF PeerSends, TypeOK
  <2> QED
    BY <1>11, <2>2, <2>3 DEF PeerSends, TypeOK, Handling, flags
<1>12. ASSUME NEW how \in {"fin", "rst"}, NEW cut \in taken .. wire, PeerCloses(how, cut)
       PROVE  Typed'
  <2>1. wire' \in 0 .. Wrap - 1 /\ taken \in 0 .. wire'
    BY <1>12, SizesAssumption DEF PeerCloses, TypeOK
  <2> QED
    BY <1>12, <2>1 DEF PeerCloses, TypeOK, Handling, flags
<1>13. Typed'
  <2> HIDE DEF Typed
  <2> QED
    BY <1>1, <1>2, <1>3, <1>4, <1>5, <1>6, <1>7, <1>8, <1>9, <1>10, <1>11, <1>12
    DEF Next, Receive
<1>14. wire' <= Total'
  BY NextWire
<1> QED
  BY <1>13, <1>14
-----------------------------------------------------------------------------
(* Every callback gets a frame. *)

\* Where frame k ends in the stream.
End(k) == frames[k].at + FrameSize(frames[k].head)

\* Frames follow one another without a gap.
Layout ==
  /\ \A k \in DOMAIN frames : frames[k].at = IF k = 1 THEN 0 ELSE End(k - 1)
  /\ \A i, j \in DOMAIN frames : i < j => End(i) <= frames[j].at
  /\ Total < Wrap

\* Where the frame after those delivered starts.
Place == IF delivered = <<>> THEN 0 ELSE End(Len(delivered))

\* Between two frames everything read has been delivered, until a close has
\* been sent; the loop itself stops a connection that could not be sent one.
InStep ==
  open /\ ~closeSent /\ (phase = "ready" \/ (phase = "poll" /\ gone # "rst"))
    => taken = Place

\* In the middle of a frame: what has been collected lies in one piece, and
\* the frame is the next one to be delivered.
NextFrame == Len(delivered) + 1
Collecting ==
  phase = "recv" =>
    /\ cur.from + got = taken
    /\ ~closeSent =>
         /\ NextFrame \in DOMAIN frames
         /\ cur.op = frames[NextFrame].head.op
         /\ cur.len = frames[NextFrame].head.len
         /\ cur.from = frames[NextFrame].at + HeaderSize(frames[NextFrame].head)

IInv == Shape /\ Layout /\ InStep /\ Collecting /\ CallbacksAreFrames

\* left_to_read, computed in a size_t.
LEMMA Remainder ==
  ASSUME NEW x \in Int, x < Wrap, -Wrap < x
  PROVE  x % Wrap = IF x >= 0 THEN x ELSE x + Wrap
<1>1. Wrap \in Nat \ {0}
  BY SizesAssumption
<1>2. CASE x >= 0
  <2>1. x \in 0 .. Wrap - 1
    BY <1>1, <1>2
  <2> QED
    BY <1>1, <2>1, <1>2
<1>3. CASE x < 0
  BY <1>1, <1>3
<1> QED
  BY <1>2, <1>3

LEMMA EndFacts ==
  ASSUME TypeOK, Layout, NEW k \in DOMAIN frames
  PROVE  /\ k \in 1 .. Len(frames) /\ Len(frames) \in Nat
         /\ frames[k].at \in Nat /\ frames[k].head \in Headers
         /\ End(k) \in Nat /\ frames[k].at < End(k) /\ End(k) <= Total
<1>1. k \in 1 .. Len(frames) /\ Len(frames) \in Nat
  BY DEF TypeOK
<1>2. frames[k].at \in Nat /\ frames[k].head \in Headers
  BY FramesTyped
<1>3. End(k) \in Nat /\ frames[k].at < End(k)
  BY <1>2, HeaderFacts DEF End
<1>4. Total = End(Len(frames))
  BY <1>1 DEF Total, End
<1>5. CASE k < Len(frames)
  <2>1. Len(frames) \in DOMAIN frames
    BY <1>1
  <2>2. End(k) <= frames[Len(frames)].at
    BY <1>5, <2>1 DEF Layout
  <2>3. frames[Len(frames)].at \in Nat /\ frames[Len(frames)].head \in Headers
    BY <2>1, FramesTyped
  <2>4. frames[Len(frames)].at <= End(Len(frames)) /\ End(Len(frames)) \in Nat
    BY <2>3, HeaderFacts DEF End
  <2> QED
    BY <1>1, <1>2, <1>3, <1>4, <2>2, <2>3, <2>4
<1>6. CASE k = Len(frames)
  BY <1>1, <1>2, <1>3, <1>4, <1>6
<1> QED
  BY <1>1, <1>5, <1>6

\* A handler that finds something to read, no close sent, is at the start of
\* the next frame, and reads the header of that frame.
LEMMA AtNextFrame ==
  ASSUME IInv, phase = "ready", ~closeSent, Unread > 0
  PROVE  /\ NextFrame \in DOMAIN frames
         /\ frames[NextFrame].at = taken
         /\ HeadersHere = {frames[NextFrame].head}
<1> DEFINE d == Len(delivered)
<1>1. TypeOK /\ Layout
  BY DEF IInv, Shape
<1>2. taken = Place /\ taken \in Nat /\ wire \in Nat /\ Total \in Nat /\ taken < Total
  <2>1. open
    BY DEF IInv, Shape, Handling
  <2>2. taken = Place
    BY <2>1 DEF IInv, InStep
  <2>3. taken \in Nat /\ wire \in Nat /\ Total \in Nat
    BY <1>1, TotalFacts, SizesAssumption DEF TypeOK
  <2>4. wire <= Total /\ wire - taken > 0
    BY DEF IInv, Shape, Unread
  <2> QED
    BY <2>2, <2>3, <2>4
<1>3. frames # <<>>
  BY <1>2 DEF Total
<1>4. Len(frames) \in Nat /\ Len(frames) >= 1 /\ DOMAIN frames = 1 .. Len(frames)
  BY <1>1, <1>3 DEF TypeOK
<1>5. d \in Nat /\ (delivered = <<>> <=> d = 0)
  BY <1>1 DEF TypeOK
<1>6. NextFrame \in DOMAIN frames /\ frames[NextFrame].at = taken
  <2>1. CASE d = 0
    <3>1. Place = 0 /\ NextFrame = 1
      BY <1>5, <2>1 DEF Place, NextFrame
    <3>2. 1 \in DOMAIN frames
      BY <1>4
    <3>3. frames[1].at = 0
      BY <3>2, <1>1 DEF Layout
    <3> QED
      BY <3>1, <3>2, <3>3, <1>2
  <2>2. CASE d # 0
    <3>1. d \in DOMAIN delivered
      BY <1>1, <1>5, <2>2 DEF TypeOK
    <3>2. d \in DOMAIN frames
      BY <3>1 DEF IInv, CallbacksAreFrames
    <3>3. Place = End(d)
      BY <1>5, <2>2 DEF Place
    <3>4. d # Len(frames)
      <4>1. Total = End(Len(frames))
        BY <1>3 DEF Total, End
      <4> QED
        BY <4>1, <3>3, <1>2
    <3>5. d + 1 \in DOMAIN frames
      BY <3>2, <3>4, <1>4, <1>5
    <3>6. frames[d + 1].at = IF d + 1 = 1 THEN 0 ELSE End((d + 1) - 1)
      BY <3>5, <1>1 DEF Layout
    <3>7. frames[d + 1].at = End(d)
      BY <3>6, <1>5, <2>2
    <3> QED
      BY <3>3, <3>5, <3>7, <1>2 DEF NextFrame
  <2> QED
    BY <2>1, <2>2
<1>7. ASSUME NEW k \in DOMAIN frames, frames[k].at = taken
      PROVE  k = NextFrame
  <2> DEFINE m == NextFrame
  <2>1. /\ k \in Nat /\ m \in Nat /\ m \in DOMAIN frames
        /\ frames[m].at = taken
    BY <1>6, <1>4
  <2>2. /\ frames[k].at < End(k) /\ End(k) \in Nat
        /\ frames[m].at < End(m) /\ End(m) \in Nat
    BY <1>1, <2>1, EndFacts
  <2> HIDE DEF m
  <2>3. ASSUME k < m PROVE FALSE
    <3>1. End(k) <= frames[m].at
      BY <1>1, <2>1, <2>3 DEF Layout
    <3> QED
      BY <3>1, <2>1, <2>2, <1>2, <1>7
  <2>4. ASSUME m < k PROVE FALSE
    <3>1. End(m) <= frames[k].at
      BY <1>1, <2>1, <2>4 DEF Layout
    <3> QED
      BY <3>1, <2>1, <2>2, <1>2, <1>7
  <2>5. k = m
    BY <2>1, <2>3, <2>4
  <2> QED
    BY <2>5 DEF m
<1>8. {k \in DOMAIN frames : frames[k].at = taken} = {NextFrame}
  BY <1>6, <1>7
<1>9. HeadersHere = {frames[k].head : k \in {NextFrame}}
  BY <1>8 DEF HeadersHere
<1> QED
  BY <1>6, <1>9

-----------------------------------------------------------------------------
(* What a frame that has been read does to the invariant. *)

\* The next frame, if no close has been sent, has been read to its end.
Complete(f) ==
  ~closeSent =>
    /\ NextFrame \in DOMAIN frames
    /\ [op |-> f.op, from |-> f.from, len |-> f.len] = Whole(frames[NextFrame])
    /\ taken' = End(NextFrame)

LEMMA HandleKeeps ==
  ASSUME IInv, NEW f \in FrameRead, Handle(f), Complete(f),
         frames' = frames, phase' = "poll"
  PROVE  InStep' /\ CallbacksAreFrames'
<1>1. TypeOK /\ CallbacksAreFrames
  BY DEF IInv, Shape
<1>2. ASSUME delivered' = delivered, closeSent' \/ gone' = "rst"
      PROVE  InStep' /\ CallbacksAreFrames'
  BY <1>1, <1>2 DEF InStep, CallbacksAreFrames, Whole
<1>3. CASE RefuseReserved(f.rsv)
  <2>1. delivered' = delivered /\ SendCloses(1)
    BY <1>3 DEF RefuseReserved
  <2>2. closeSent' \/ gone' = "rst"
    BY <1>1, <2>1, SendClosesTyped
  <2> QED
    BY <1>2, <2>1, <2>2
<1>4. CASE CallBack(f)
  <2> DEFINE e == [op |-> f.op, from |-> f.from, len |-> f.len]
             n == Len(delivered)
  <2>1. ~closeSent /\ delivered' = Append(delivered, e)
    BY <1>4 DEF CallBack
  <2>2. /\ NextFrame \in DOMAIN frames
        /\ e = Whole(frames[NextFrame])
        /\ taken' = End(NextFrame)
    BY <2>1 DEF Complete
  <2> HIDE DEF e
  <2>3. delivered \in Seq([op : Ops, from : Nat, len : Nat]) /\ n \in Nat
    BY <1>1 DEF TypeOK
  <2>4. /\ Len(delivered') = n + 1 /\ delivered' # <<>>
        /\ DOMAIN delivered' = 1 .. n + 1
        /\ delivered'[n + 1] = e
        /\ \A k \in 1 .. n : delivered'[k] = delivered[k]
    BY <2>1, <2>3
  <2>5. DOMAIN delivered = 1 .. n
    BY <2>3
  <2>6. taken' = Place'
    BY <2>2, <2>4 DEF Place, End, NextFrame
  <2>7. ASSUME NEW k \in DOMAIN delivered'
        PROVE  k \in DOMAIN frames /\ delivered'[k] = Whole(frames[k])
    <3>1. CASE k \in 1 .. n
      BY <3>1, <2>4, <2>5, <1>1 DEF CallbacksAreFrames
    <3>2. CASE k = n + 1
      BY <3>2, <2>2, <2>4 DEF NextFrame
    <3> QED
      BY <3>1, <3>2, <2>3, <2>4
  <2>8. CallbacksAreFrames'
    BY <2>7 DEF CallbacksAreFrames, Whole
  <2> QED
    BY <2>6, <2>8 DEF InStep
<1>5. CASE HandleClose(f)
  BY <1>2, <1>5 DEF HandleClose
<1>6. CASE HandlePing(f)
  BY <1>2, <1>6 DEF HandlePing, flags
<1>7. CASE IgnoreFrame(f)
  BY <1>2, <1>7 DEF IgnoreFrame, flags
<1> QED
  BY <1>3, <1>4, <1>5, <1>6, <1>7 DEF Handle

\* A frame that was appended after the others keeps them in their places.
LEMMA SendsKeep ==
  ASSUME IInv, NEW h \in Headers, PeerSends(h)
  PROVE  Layout' /\ InStep' /\ Collecting' /\ CallbacksAreFrames'
<1> DEFINE n == Len(frames)
           e == [at |-> Total, head |-> h]
<1>1. TypeOK /\ Layout /\ CallbacksAreFrames
  BY DEF IInv, Shape
<1>2. /\ frames \in Seq([at : Nat, head : Headers])
      /\ n \in Nat /\ DOMAIN frames = 1 .. n
      /\ Total \in Nat /\ FrameSize(h) \in Nat
  BY <1>1, TotalFacts, HeaderFacts DEF TypeOK
<1>3. /\ frames' = Append(frames, e)
      /\ Total + FrameSize(h) < Wrap
      /\ UNCHANGED <<gone, taken, phase, cur, got, closeSent, closeRecv, delivered, open>>
  BY DEF PeerSends, flags
<1> HIDE DEF e
<1>4. /\ DOMAIN frames' = 1 .. n + 1 /\ Len(frames') = n + 1 /\ frames' # <<>>
      /\ frames'[n + 1] = e
      /\ \A k \in 1 .. n : frames'[k] = frames[k]
  BY <1>2, <1>3
<1>5. e.at = Total /\ e.head = h
  BY DEF e
<1>6. \A k \in 1 .. n : End(k)' = End(k)
  BY <1>4 DEF End
<1>7. Total' = Total + FrameSize(h)
  BY <1>4, <1>5 DEF Total
<1>8. ASSUME NEW k \in 1 .. n
      PROVE  End(k) <= Total /\ End(k) \in Nat
  BY <1>1, <1>2, <1>8, EndFacts
<1>9. Layout'
  <2>1. ASSUME NEW k \in DOMAIN frames'
        PROVE  frames'[k].at = IF k = 1 THEN 0 ELSE End(k - 1)'
    <3>1. CASE k \in 1 .. n
      <4>1. frames[k].at = IF k = 1 THEN 0 ELSE End(k - 1)
        BY <1>1, <1>2, <3>1 DEF Layout
      <4>2. k # 1 => k - 1 \in 1 .. n
        BY <1>2, <3>1
      <4>3. k # 1 => End(k - 1)' = End(k - 1)
        BY <4>2, <1>6
      <4> QED
        BY <1>4, <3>1, <4>1, <4>3
    <3>2. CASE k = n + 1 /\ n = 0
      <4>1. Total = 0
        BY <1>2, <3>2 DEF Total
      <4> QED
        BY <1>4, <1>5, <3>2, <4>1
    <3>3. CASE k = n + 1 /\ n # 0
      <4>1. frames # <<>> /\ n \in 1 .. n
        BY <1>2, <3>3
      <4>2. Total = End(n)
        BY <4>1 DEF Total, End
      <4>3. (k - 1) = n /\ k # 1
        BY <1>2, <3>3
      <4>4. End(k - 1)' = End(n)
        BY <4>1, <4>3, <1>6
      <4> QED
        BY <1>4, <1>5, <3>3, <4>2, <4>3, <4>4
    <3> QED
      BY <1>2, <1>4, <3>1, <3>2, <3>3
  <2>2. ASSUME NEW i \in DOMAIN frames', NEW j \in DOMAIN frames', i < j
        PROVE  End(i)' <= frames'[j].at
    <3>1. i \in 1 .. n /\ End(i)' = End(i)
      BY <1>2, <1>4, <1>6, <2>2
    <3>2. CASE j \in 1 .. n
      BY <1>1, <1>2, <1>4, <2>2, <3>1, <3>2 DEF Layout
    <3>3. CASE j = n + 1
      BY <1>4, <1>5, <1>8, <3>1, <3>3
    <3> QED
      BY <1>2, <1>4, <3>2, <3>3
  <2> QED
    BY <1>3, <1>7, <2>1, <2>2 DEF Layout
<1>10. \A k \in DOMAIN delivered : k \in 1 .. n
  BY <1>1, <1>2 DEF CallbacksAreFrames
<1>11. Place' = Place
  <2>1. delivered # <<>> => Len(delivered) \in DOMAIN delivered
    BY <1>1 DEF TypeOK
  <2>2. delivered # <<>> => End(Len(delivered))' = End(Len(delivered))
    BY <2>1, <1>10, <1>6, <1>3
  <2> QED
    BY <2>2, <1>3 DEF Place
<1>12. InStep'
  BY <1>3, <1>11 DEF IInv, InStep
<1>13. Collecting'
  <2>1. NextFrame \in 1 .. n => frames'[NextFrame] = frames[NextFrame]
    BY <1>4
  <2>2. NextFrame \in 1 .. n => NextFrame \in DOMAIN frames'
    BY <1>2, <1>4
  <2>3. NextFrame' = NextFrame
    BY <1>3 DEF NextFrame
  <2> QED
    BY <1>2, <1>3, <2>1, <2>2, <2>3 DEF IInv, Collecting
<1>14. CallbacksAreFrames'
  <2>1. ASSUME NEW k \in DOMAIN delivered
        PROVE  k \in DOMAIN frames' /\ delivered[k] = Whole(frames'[k])
    <3>1. k \in 1 .. n /\ delivered[k] = Whole(frames[k])
      BY <1>1, <1>2 DEF CallbacksAreFrames
    <3>2. k \in DOMAIN frames'
      BY <3>1, <1>2, <1>4
    <3> QED
      BY <3>1, <3>2, <1>4
  <2> QED
    BY <2>1, <1>3 DEF CallbacksAreFrames, Whole
<1> QED
  BY <1>9, <1>12, <1>13, <1>14

THEOREM InitIInv == Init => IInv
<1> SUFFICES ASSUME Init PROVE IInv
  OBVIOUS
<1>1. Shape
  BY InitShape
<1>2. Layout
  BY SizesAssumption DEF Init, Layout, Total
<1>3. InStep /\ Collecting /\ CallbacksAreFrames
  BY DEF Init, InStep, Place, Collecting, CallbacksAreFrames
<1> QED
  BY <1>1, <1>2, <1>3 DEF IInv

THEOREM NextIInv == IInv /\ [Next]_vars => IInv'
<1> SUFFICES ASSUME IInv, [Next]_vars PROVE IInv'
  OBVIOUS
<1>1. Shape /\ TypeOK /\ Shape'
  BY NextShape DEF IInv, Shape
<1> DEFINE Rest == Layout /\ InStep /\ Collecting /\ CallbacksAreFrames
<1>2. ASSUME frames' = frames
      PROVE  Layout'
  BY <1>2 DEF IInv, Layout, End, Total
<1>3. ASSUME UNCHANGED <<frames, taken, delivered>>
      PROVE  Place' = Place /\ CallbacksAreFrames'
  BY <1>3 DEF IInv, Place, End, CallbacksAreFrames, Whole
<1>4. ASSUME UNCHANGED <<frames, taken, cur, got, phase, closeSent, delivered>>
      PROVE  Collecting'
  BY <1>4 DEF IInv, Collecting, NextFrame
<1>5. HangUp \/ Expire => Rest'
  BY <1>2, <1>3, <1>4 DEF HangUp, Expire, Drop, InStep, peer, flags
<1>6. PollIn => Rest'
  BY <1>2, <1>3 DEF PollIn, IInv, InStep, Collecting, peer, flags
<1>7. ReadTooShort => Rest'
  BY <1>2, <1>3 DEF ReadTooShort, Drop, InStep, Collecting, peer, flags
<1>8. ASSUME NEW n \in 1 .. Buffer, NEW h \in HeadersHere, ReadUnmasked(n, h)
      PROVE  Rest'
  <2>1. PICK m \in {1, 2} : SendCloses(m)
    BY <1>8 DEF ReadUnmasked
  <2>2. closeSent' \/ gone' = "rst"
    BY <1>1, <2>1, SendClosesTyped
  <2>3. CallbacksAreFrames'
    BY <1>8 DEF ReadUnmasked, IInv, CallbacksAreFrames, Whole, peer
  <2> QED
    BY <1>2, <1>8, <2>2, <2>3 DEF ReadUnmasked, InStep, Collecting, peer
<1>9. ASSUME NEW n \in 1 .. Buffer, NEW h \in HeadersHere, ReadFrame(n, h)
      PROVE  Rest'
  <2> DEFINE f == [op |-> h.op, rsv |-> h.rsv, from |-> taken + HeaderSize(h), len |-> h.len]
             m == NextFrame
  <2>1. f \in FrameRead /\ h \in Headers
    BY <1>1, HeadersHereTyped, ReadFrameTyped
  <2>2. Handle(f) /\ phase = "ready" /\ n <= Unread /\ n = FrameSize(h) /\ taken' = taken + n
    BY <1>9 DEF ReadFrame, AtOnce
  <2>3. Unread > 0
    BY <1>1, <2>2, SizesAssumption DEF Unread, TypeOK
  <2>4. Complete(f)
    <3> SUFFICES ASSUME ~closeSent
                 PROVE  /\ m \in DOMAIN frames
                        /\ [op |-> f.op, from |-> f.from, len |-> f.len] = Whole(frames[m])
                        /\ taken' = End(m)
      BY DEF Complete
    <3>1. m \in DOMAIN frames /\ frames[m].at = taken /\ h = frames[m].head
      BY <2>2, <2>3, AtNextFrame
    <3> QED
      BY <2>2, <3>1 DEF Whole, End
  <2>5. phase' = "poll" /\ frames' = frames
    BY <1>9 DEF ReadFrame, peer
  <2> HIDE DEF f
  <2>6. InStep' /\ CallbacksAreFrames'
    BY <2>1, <2>2, <2>4, <2>5, HandleKeeps
  <2> QED
    BY <1>2, <2>5, <2>6 DEF Collecting
<1>10. ASSUME NEW n \in 1 .. Buffer, NEW h \in HeadersHere, ReadPart(n, h)
       PROVE  Rest'
  <2> DEFINE m == NextFrame
  <2>1. h \in Headers /\ HeaderSize(h) \in 1 .. 3
    BY <1>1, HeadersHereTyped, HeaderFacts
  <2>2. /\ phase = "ready" /\ n <= Unread
        /\ cur' = [op |-> h.op, rsv |-> h.rsv, len |-> h.len, from |-> taken + HeaderSize(h)]
        /\ got' = n - HeaderSize(h) /\ taken' = taken + n
        /\ phase' = "recv"
        /\ UNCHANGED <<frames, closeSent, delivered>>
    BY <1>10 DEF ReadPart, AtOnce, peer, flags
  <2>3. taken \in Nat /\ n \in Nat /\ Unread > 0
    BY <1>1, <2>2, SizesAssumption DEF Unread, TypeOK
  <2>4. cur'.from + got' = taken'
    BY <2>1, <2>2, <2>3
  <2>5. ~closeSent => m \in DOMAIN frames /\ frames[m].at = taken /\ h = frames[m].head
    BY <2>2, <2>3, AtNextFrame
  <2>6. NextFrame' = m
    BY <2>2 DEF NextFrame
  <2> HIDE DEF m
  <2>7. Collecting'
    BY <2>2, <2>4, <2>5, <2>6 DEF Collecting
  <2>8. InStep' /\ CallbacksAreFrames'
    BY <2>2 DEF IInv, InStep, CallbacksAreFrames, Whole
  <2> QED
    BY <1>2, <2>2, <2>7, <2>8
<1>11. ASSUME NEW n \in 1 .. Buffer, ReadMore(n)
       PROVE  Rest'
  <2>1. /\ phase = "recv" /\ got' = got + n /\ taken' = taken + n
        /\ UNCHANGED <<frames, phase, cur, closeSent, delivered>>
    BY <1>11 DEF ReadMore, peer, flags
  <2>2. taken \in Nat /\ got \in Nat /\ n \in Nat /\ cur.from \in Nat
    BY <1>1, SizesAssumption DEF TypeOK
  <2>3. cur'.from + got' = taken'
    BY <2>1, <2>2 DEF IInv, Collecting
  <2>4. Collecting'
    BY <2>1, <2>3 DEF IInv, Collecting, NextFrame
  <2>5. InStep' /\ CallbacksAreFrames'
    BY <2>1 DEF IInv, InStep, CallbacksAreFrames, Whole
  <2> QED
    BY <1>2, <2>1, <2>4, <2>5
<1>12. ASSUME NEW n \in 1 .. Buffer, ReadLast(n)
       PROVE  Rest'
  <2> DEFINE f == [cur EXCEPT !.len = got + n]
             m == NextFrame
  <2>1. f \in FrameRead
    BY <1>1, <1>12, ReadLastTyped, SizesAssumption DEF ReadLast
  <2>2. /\ Handle(f) /\ phase = "recv" /\ n <= Unread /\ n = Left
        /\ taken' = taken + n /\ phase' = "poll" /\ frames' = frames
    BY <1>12 DEF ReadLast, ForNow, AtOnce, peer
  <2>3. /\ taken \in Nat /\ got \in Nat /\ n \in Nat /\ n >= 1
        /\ cur \in [op : Ops \cup {"none"}, rsv : BOOLEAN, len : Nat, from : Nat]
        /\ wire \in Nat /\ wire < Wrap /\ Wrap \in Nat
    BY <1>1, SizesAssumption DEF TypeOK
  <2>4. f.op = cur.op /\ f.from = cur.from /\ f.len = got + n
    BY <2>3
  <2> HIDE DEF f
  <2>5. Complete(f)
    <3> SUFFICES ASSUME ~closeSent
                 PROVE  /\ m \in DOMAIN frames
                        /\ [op |-> f.op, from |-> f.from, len |-> f.len] = Whole(frames[m])
                        /\ taken' = End(m)
      BY DEF Complete
    <3>1. /\ m \in DOMAIN frames
          /\ cur.op = frames[m].head.op
          /\ cur.len = frames[m].head.len
          /\ cur.from = frames[m].at + HeaderSize(frames[m].head)
          /\ cur.from + got = taken
      BY <2>2 DEF IInv, Collecting
    <3>2. cur.from \in Nat /\ cur.len \in Nat
      BY <2>3
    <3>3. frames[m].head \in Headers /\ frames[m].at \in Nat /\ End(m) \in Nat /\ End(m) <= Total
      BY <1>1, <3>1, EndFacts DEF IInv
    <3>4. HeaderSize(frames[m].head) \in 1 .. 3
          /\ FrameSize(frames[m].head) = HeaderSize(frames[m].head) + frames[m].head.len
      BY <3>3, HeaderFacts
    <3>5. End(m) = cur.from + cur.len
      BY <3>1, <3>2, <3>3, <3>4 DEF End
    <3>6. Total \in Nat /\ Total < Wrap
      BY <1>1, TotalFacts DEF IInv, Layout
    <3>7. cur.len - got \in Int /\ cur.len - got < Wrap /\ -Wrap < cur.len - got
      BY <2>2, <2>3, <3>1, <3>2, <3>3, <3>5, <3>6 DEF Unread
    <3>8. n = IF cur.len - got >= 0 THEN cur.len - got ELSE cur.len - got + Wrap
      BY <2>2, <3>7, Remainder DEF Left
    <3>9. got + n = cur.len
      BY <2>2, <2>3, <3>1, <3>2, <3>8 DEF Unread
    <3>10. taken' = End(m)
      BY <2>2, <2>3, <3>1, <3>2, <3>5, <3>9
    <3> QED
      BY <2>4, <3>1, <3>9, <3>10 DEF Whole
  <2>6. InStep' /\ CallbacksAreFrames'
    BY <2>1, <2>2, <2>5, HandleKeeps
  <2> QED
    BY <1>2, <2>2, <2>6 DEF Collecting
<1>13. ReadFails => Rest'
  BY <1>2, <1>3 DEF ReadFails, InStep, Collecting, peer, flags
<1>14. ReadNothing \/ Ended \/ UNCHANGED vars => Rest'
  BY <1>2, <1>3, <1>4 DEF ReadNothing, Ended, vars, peer, flags, IInv, InStep
<1>15. ASSUME NEW h \in Headers, PeerSends(h)
       PROVE  Rest'
  BY <1>15, SendsKeep
<1>16. ASSUME NEW how \in {"fin", "rst"}, NEW cut \in taken .. wire, PeerCloses(how, cut)
       PROVE  Rest'
  <2>1. /\ UNCHANGED <<frames, taken, cur, got, phase, closeSent, delivered, open>>
        /\ gone # "rst"
    BY <1>16 DEF PeerCloses, flags
  <2>2. InStep'
    BY <1>3, <2>1 DEF IInv, InStep
  <2> QED
    BY <1>2, <1>3, <1>4, <2>1, <2>2
<1>17. Rest'
  <2> HIDE DEF Rest
  <2> QED
    BY <1>5, <1>6, <1>7, <1>8, <1>9, <1>10, <1>11, <1>12, <1>13, <1>14, <1>15, <1>16
    DEF Next, Receive
<1> QED
  BY <1>1, <1>17 DEF IInv

-----------------------------------------------------------------------------
(* The flag CLOSE_SENT. *)

HasClose(s) == \E k \in DOMAIN s : s[k] = "close"

LEMMA CloseAppended ==
  ASSUME NEW s \in Seq({"close", "pong"}), NEW ok \in Nat
  PROVE  HasClose(s \o Repeat("close", ok)) <=> HasClose(s) \/ ok > 0
<1> DEFINE r == Repeat("close", ok)
<1>1. r \in Seq({"close", "pong"}) /\ Len(r) = ok /\ \A k \in 1 .. ok : r[k] = "close"
  BY DEF Repeat
<1> HIDE DEF r
<1>2. /\ DOMAIN (s \o r) = 1 .. Len(s) + ok /\ DOMAIN s = 1 .. Len(s) /\ Len(s) \in Nat
      /\ \A k \in 1 .. Len(s) : (s \o r)[k] = s[k]
      /\ \A k \in 1 .. ok : (s \o r)[Len(s) + k] = "close"
  BY <1>1
<1>3. HasClose(s) => HasClose(s \o r)
  BY <1>2 DEF HasClose
<1>4. ok > 0 => HasClose(s \o r)
  <2> SUFFICES ASSUME ok > 0 PROVE HasClose(s \o r)
    OBVIOUS
  <2>1. 1 \in 1 .. ok /\ Len(s) + 1 \in 1 .. Len(s) + ok
    BY <1>2
  <2> QED
    BY <1>2, <2>1 DEF HasClose
<1>5. ASSUME ok = 0, HasClose(s \o r)
      PROVE  HasClose(s)
  <2>1. PICK k \in DOMAIN (s \o r) : (s \o r)[k] = "close"
    BY <1>5 DEF HasClose
  <2>2. k \in 1 .. Len(s)
    <3>1. k \in 1 .. Len(s) + ok
      BY <1>2, <2>1, Zenon
    <3>2. Len(s) \in Nat
      OBVIOUS
    <3>3. Len(s) + ok = Len(s)
      BY <1>5, <3>2
    <3> QED
      BY <3>1, <3>3
  <2>3. k \in DOMAIN s /\ s[k] = "close"
    BY <1>2, <2>1, <2>2
  <2> QED
    BY <2>3 DEF HasClose
<1> QED
  BY <1>3, <1>4, <1>5 DEF r

LEMMA SendClosesTrue ==
  ASSUME TypeOK, CloseFlagIsTrue, NEW n \in {1, 2}, SendCloses(n)
  PROVE  CloseFlagIsTrue'
<1>1. PICK ok \in IF gone = "rst" THEN {0} ELSE 0 .. n :
        /\ sent' = sent \o Repeat("close", ok)
        /\ closeSent' = (closeSent \/ ok = n)
        /\ gone' = IF ok < n THEN "rst" ELSE gone
  BY DEF SendCloses
<1>2. ok \in 0 .. n
  BY <1>1
<1>3. CASE ok < n \/ gone = "rst"
  BY <1>1, <1>2, <1>3 DEF CloseFlagIsTrue
<1>4. CASE ok = n /\ gone # "rst"
  <2>1. ok \in Nat /\ ok > 0
    BY <1>4
  <2>2. HasClose(sent')
    BY <1>1, <2>1, CloseAppended DEF TypeOK
  <2>3. closeSent'
    BY <1>1, <1>4
  <2> QED
    BY <2>2, <2>3 DEF HasClose, CloseFlagIsTrue
<1> QED
  BY <1>2, <1>3, <1>4

LEMMA PongTrue ==
  ASSUME TypeOK, CloseFlagIsTrue, SendPong, closeSent' = closeSent
  PROVE  CloseFlagIsTrue'
<1>1. CASE gone' = "rst"
  BY <1>1 DEF CloseFlagIsTrue
<1>2. CASE gone # "rst" /\ sent' = Append(sent, "pong") /\ gone' = gone
  <2>1. sent \in Seq({"close", "pong"})
    BY DEF TypeOK
  <2>2. /\ DOMAIN sent' = 1 .. Len(sent) + 1 /\ DOMAIN sent = 1 .. Len(sent)
        /\ Len(sent) \in Nat
        /\ sent'[Len(sent) + 1] = "pong"
        /\ \A k \in 1 .. Len(sent) : sent'[k] = sent[k]
    BY <1>2, <2>1
  <2>3. (\E k \in DOMAIN sent' : sent'[k] = "close") <=> (\E k \in DOMAIN sent : sent[k] = "close")
    BY <2>2
  <2> QED
    BY <1>2, <2>3 DEF CloseFlagIsTrue
<1> QED
  BY <1>1, <1>2 DEF SendPong

THEOREM NextFlag == Shape /\ CloseFlagIsTrue /\ [Next]_vars => CloseFlagIsTrue'
<1> SUFFICES ASSUME Shape, CloseFlagIsTrue, [Next]_vars
             PROVE  CloseFlagIsTrue'
  OBVIOUS
<1>1. TypeOK
  BY DEF Shape
<1>2. ASSUME UNCHANGED <<closeSent, sent>>, gone' = gone \/ gone' = "rst" \/ gone = "no"
      PROVE  CloseFlagIsTrue'
  BY <1>2 DEF CloseFlagIsTrue
<1>3. ASSUME NEW f, Handle(f)
      PROVE  CloseFlagIsTrue'
  <2>1. CASE RefuseReserved(f.rsv)
    BY <1>1, <2>1, SendClosesTrue DEF RefuseReserved
  <2>2. CASE CallBack(f) \/ HandleClose(f) \/ IgnoreFrame(f)
    BY <1>2, <2>2 DEF CallBack, HandleClose, IgnoreFrame, flags
  <2>3. CASE HandlePing(f)
    BY <1>1, <2>3, PongTrue DEF HandlePing, flags
  <2> QED
    BY <1>3, <2>1, <2>2, <2>3 DEF Handle
<1>4. ASSUME NEW n \in 1 .. Buffer, NEW h \in HeadersHere, ReadUnmasked(n, h)
      PROVE  CloseFlagIsTrue'
  <2>1. PICK m \in {1, 2} : SendCloses(m)
    BY <1>4 DEF ReadUnmasked
  <2> QED
    BY <1>1, <2>1, SendClosesTrue
<1>5. ASSUME NEW n \in 1 .. Buffer, NEW h \in HeadersHere, ReadFrame(n, h)
      PROVE  CloseFlagIsTrue'
  BY <1>3, <1>5 DEF ReadFrame
<1>6. ASSUME NEW n \in 1 .. Buffer, ReadLast(n)
      PROVE  CloseFlagIsTrue'
  BY <1>3, <1>6 DEF ReadLast
<1>7. ASSUME NEW n \in 1 .. Buffer, NEW h \in HeadersHere, ReadPart(n, h)
      PROVE  CloseFlagIsTrue'
  BY <1>2, <1>7 DEF ReadPart, flags
<1>8. ASSUME NEW n \in 1 .. Buffer, ReadMore(n)
      PROVE  CloseFlagIsTrue'
  BY <1>2, <1>8 DEF ReadMore, flags
<1>9. ASSUME NEW h \in Headers, PeerSends(h)
      PROVE  CloseFlagIsTrue'
  BY <1>2, <1>9 DEF PeerSends, flags
<1>10. ASSUME NEW how \in {"fin", "rst"}, NEW cut \in taken .. wire, PeerCloses(how, cut)
       PROVE  CloseFlagIsTrue'
  BY <1>2, <1>10 DEF PeerCloses, flags
<1>11. HangUp \/ Expire \/ PollIn \/ ReadTooShort \/ ReadFails \/ ReadNothing \/ Ended
         \/ UNCHANGED vars => CloseFlagIsTrue'
  BY <1>2 DEF HangUp, Expire, PollIn, ReadTooShort, ReadFails, ReadNothing, Ended, vars, flags
<1> QED
  BY <1>4, <1>5, <1>6, <1>7, <1>8, <1>9, <1>10, <1>11 DEF Next, Receive

-----------------------------------------------------------------------------
\* The type invariant of WsSession; recv() never returns what did not arrive.
THEOREM TypeCorrect == Spec => []TypeOK
<1>1. Init => Shape
  BY InitShape
<1>2. Shape /\ [Next]_vars => Shape'
  BY NextShape
<1>3. Shape => TypeOK
  BY DEF Shape
<1> QED
  BY <1>1, <1>2, <1>3, PTL DEF Spec

\* The k-th call of the callback in _ws_handle_client gets the k-th frame the
\* peer sent, whole, whatever recv() returns and whenever the peer goes.
THEOREM CallbacksGetTheFrames == Spec => []CallbacksAreFrames
<1>1. Init => IInv
  BY InitIInv
<1>2. IInv /\ [Next]_vars => IInv'
  BY NextIInv
<1>3. IInv => CallbacksAreFrames
  BY DEF IInv
<1> QED
  BY <1>1, <1>2, <1>3, PTL DEF Spec

\* CLOSE_SENT is set exactly when a close frame has been sent, until the peer
\* resets the connection.
THEOREM CloseFlagTellsTheTruth == Spec => []CloseFlagIsTrue
<1>1. Init => Shape /\ CloseFlagIsTrue
  BY InitShape DEF Init, CloseFlagIsTrue
<1>2. Shape /\ CloseFlagIsTrue /\ [Next]_vars => (Shape /\ CloseFlagIsTrue)'
  BY NextShape, NextFlag
<1> QED
  BY <1>1, <1>2, PTL DEF Spec
===============================================================================
