--------------------------- MODULE RecvPathProofs ---------------------------
(***************************************************************************)
(* Proofs about RecvPath, for any handle, any number of members, packets   *)
(* and joins.                                                              *)
(***************************************************************************)
EXTENDS RecvPath, SequenceTheorems, WellFoundedInduction, TLAPS

(* The inductive invariant. What is due is an unbroken run up to the last  *)
(* packet that came, and as long as the channel takes packets it begins    *)
(* where the stream ends: a read takes the oldest of it. An ERR on a       *)
(* socket, which is taken at its word, means that its link is gone.        *)

\* A packet read now goes into the channel.
Taking == present /\ entry.recv_tx /\ handle # "dropped"

Unregistered == handle = "waiting" =>
                  ~present /\ chan = <<>> /\ received = <<>> /\ kind \in {"accepted", "mirror"}

DueIsRun == \A p \in Ready : p \in 1..sent /\ \A q \in p..sent : q \in Ready

Consecutive == \A i \in 1..Len(Stream) : Stream[i] = Stream[1] + (i - 1)

FromFirst == Len(Stream) > 0 /\ kind \in {"caller", "group"} => Stream[1] = 1

NotAhead == Len(Stream) > 0 => Stream[1] >= 1 /\ Stream[Len(Stream)] <= sent

Frontier ==
  Taking =>
    /\ Len(Stream) > 0 => \A q \in 1..sent : q \in Ready <=> q > Stream[Len(Stream)]
    /\ Len(Stream) = 0 /\ kind \in {"caller", "group"} => \A q \in 1..sent : q \in Ready

NoHandshake == kind # "group" => \A m \in Members : member[m] \in {"up", "down"}

ErrIsReal == kind \in {"caller", "accepted"} /\ "ERR" \in events \cup batch =>
               \A m \in Members : member[m] = "down"

\* The receive end goes with the first terminal status, so that a reaper finds
\* one that is still there only at the poll that reads that status.
LiveStatus == /\ entry.recv_tx => ~is_terminal_status(entry.last_status)
              /\ handle = "waiting" => entry.last_status = "Init"

IInv == /\ TypeOK
        /\ Unregistered
        /\ DueIsRun
        /\ Consecutive
        /\ FromFirst
        /\ NotAhead
        /\ Frontier
        /\ NoHandshake
        /\ ErrIsReal
        /\ LiveStatus

\* What a status update leaves of a SocketState: both channel ends, unless the
\* status is terminal, and then not the receive end.
LEMMA UpdateStatusFields ==
  ASSUME NEW e \in [last_status : SocketStatus, recv_tx : BOOLEAN, send_rx : BOOLEAN],
         NEW st \in SocketStatus
  PROVE  /\ update_status(e, st) \in
              [last_status : SocketStatus, recv_tx : BOOLEAN, send_rx : BOOLEAN]
         /\ update_status(e, st).last_status = st
         /\ update_status(e, st).recv_tx <=> (e.recv_tx /\ ~is_terminal_status(st))
         /\ ~is_terminal_status(st) => (update_status(e, st).send_rx <=> e.send_rx)
BY DEF update_status

\* A set of naturals that is not empty has a least element.
LEMMA LeastOf ==
  ASSUME NEW T, T \subseteq Nat, T # {}
  PROVE  \E x \in T : \A y \in T : x <= y
<1> DEFINE R == OpToRel(<, Nat)
<1>1. IsWellFoundedOn(R, Nat)
  BY NatLessThanWellFounded
<1>2. \A x, y \in Nat : x < y => <<x, y>> \in R
  BY DEF OpToRel
<1> HIDE DEF R
<1>3. PICK x \in T : \A y \in T : ~(<<y, x>> \in R)
  BY <1>1, WFMin
<1>4. \A y \in T : x <= y
  <2> SUFFICES ASSUME NEW y \in T, ~(x <= y) PROVE FALSE
    OBVIOUS
  <2>1. x \in Nat /\ y \in Nat /\ y < x
    OBVIOUS
  <2> QED BY <1>2, <1>3, <2>1
<1> QED BY <1>4

\* The oldest packet that is due.
LEMMA Oldest ==
  ASSUME IInv, Ready # {}
  PROVE  Min(Ready) \in Ready /\ \A q \in Ready : Min(Ready) <= q
<1>1. Ready \subseteq Nat
  BY DEF IInv, DueIsRun
<1>2. \E x \in Ready : \A y \in Ready : x <= y
  BY <1>1, LeastOf
<1> QED BY <1>2 DEF Min

\* The stream is the two sequences in a row.
LEMMA StreamIs ==
  ASSUME NEW T, NEW a \in Seq(T), NEW b \in Seq(T)
  PROVE  /\ a \o b \in Seq(T)
         /\ Len(a \o b) = Len(a) + Len(b) /\ Len(a) \in Nat /\ Len(b) \in Nat
         /\ \A i \in 1..Len(a) : (a \o b)[i] = a[i]
         /\ \A i \in 1..Len(b) : (a \o b)[Len(a) + i] = b[i]
OBVIOUS

\* recv() moves a packet from the channel to the application: the stream is
\* the same.
LEMMA TakenStaysInPlace ==
  ASSUME NEW T, NEW a \in Seq(T), NEW b \in Seq(T), b # <<>>
  PROVE  Append(a, Head(b)) \o Tail(b) = a \o b
<1> DEFINE s == Append(a, Head(b)) \o Tail(b)
           t == a \o b
<1>1. /\ Append(a, Head(b)) \in Seq(T) /\ Tail(b) \in Seq(T)
      /\ Len(Append(a, Head(b))) = Len(a) + 1 /\ Len(Tail(b)) = Len(b) - 1
      /\ Len(a) \in Nat /\ Len(b) \in Nat \ {0}
  <2>0. Len(b) \in Nat \ {0}
    BY EmptySeq
  <2>1. Head(b) \in T /\ Len(a) \in Nat /\ Len(b) \in Nat /\ Len(b) # 0
    BY <2>0, HeadTailProperties
  <2>2. Tail(b) \in Seq(T) /\ Len(Tail(b)) = Len(b) - 1
    BY <2>1
  <2>3. Append(a, Head(b)) \in Seq(T) /\ Len(Append(a, Head(b))) = Len(a) + 1
    BY <2>1
  <2> QED BY <2>1, <2>2, <2>3
<1>2. s \in Seq(T) /\ t \in Seq(T) /\ Len(s) = Len(t)
      /\ Len(t) = Len(a) + Len(b)
  BY <1>1
<1>3. ASSUME NEW i \in 1..Len(t) PROVE s[i] = t[i]
  <2>1. CASE i \in 1..Len(a)
    BY <1>1, <2>1
  <2>2. CASE i = Len(a) + 1
    BY <1>1, <2>2
  <2>3. CASE i \in (Len(a) + 2)..Len(t)
    <3> DEFINE k == i - (Len(a) + 1)
    <3>1. k \in 1..Len(Tail(b)) /\ k + 1 \in 1..Len(b)
      BY <1>1, <1>2, <2>3
    <3>2. s[i] = Tail(b)[k]
      BY <1>1, <3>1
    <3>3. Tail(b)[k] = b[k + 1]
      BY <1>1, <3>1
    <3>4. t[i] = b[k + 1]
      BY <1>1, <3>1
    <3> QED BY <3>2, <3>3, <3>4
  <2> QED BY <1>1, <1>2, <2>1, <2>2, <2>3
<1>4. DOMAIN s = 1..Len(t) /\ DOMAIN t = 1..Len(t)
  BY <1>2
<1> HIDE DEF s, t
<1>5. s = t
  BY <1>2, <1>3, <1>4
<1> QED BY <1>5 DEF s, t

\* The stream's part of the invariant, under a step that leaves the stream and
\* what is due alone, or that ends the taking.
LEMMA StreamKeeps ==
  ASSUME IInv, kind' = kind, Stream' = Stream, sent' = sent,
         Ready' = Ready \/ (Ready' = {} /\ ~Taking'),
         Taking' => Taking \/ (Len(Stream) = 0 /\ kind \notin {"caller", "group"})
  PROVE  DueIsRun' /\ Consecutive' /\ FromFirst' /\ NotAhead' /\ Frontier'
<1> USE DEF IInv
<1>1. DueIsRun'
  BY DEF DueIsRun
<1>2. Consecutive' /\ FromFirst' /\ NotAhead'
  BY DEF Consecutive, FromFirst, NotAhead
<1>3. Frontier'
  BY DEF Frontier
<1> QED BY <1>1, <1>2, <1>3

\* The links' part, under a step that leaves them alone and raises nothing.
LEMMA LinksKeep ==
  ASSUME IInv, kind' = kind, member' = member, events' \cup batch' \subseteq events \cup batch
  PROVE  NoHandshake' /\ ErrIsReal'
<1>1. NoHandshake'
  BY DEF IInv, NoHandshake
<1>2. ErrIsReal'
  BY DEF IInv, ErrIsReal
<1> QED BY <1>1, <1>2

\* recv(), close() and the handle's Drop.
LEMMA AppKeeps ==
  ASSUME IInv, App
  PROVE  IInv'
<1>0. /\ chan \in Seq(1..MaxPackets[kind]) /\ received \in Seq(1..MaxPackets[kind])
      /\ Len(chan) \in Nat /\ Len(received) \in Nat /\ sent \in Nat
      /\ Len(chan) + Len(received) <= sent
  BY RecvAssumption DEF IInv, TypeOK
<1>1. UNCHANGED <<kind, present, entry, phase, has_connected, batch, member, joins, buf, sent,
                  latch, events>>
  BY DEF App, recv, close, Drop, bridge, loop, libsrt
<1>2. Ready' = Ready
  BY <1>1 DEF Ready
<1>3. NoHandshake' /\ ErrIsReal'
  BY <1>1, LinksKeep
<1>4. CASE recv
  <2>1. /\ handle = "open" /\ chan # <<>> /\ UNCHANGED <<handle, closing>>
        /\ received' = Append(received, Head(chan)) /\ chan' = Tail(chan)
    BY <1>4 DEF recv
  <2>2. Stream' = Stream
    BY <1>0, <2>1, TakenStaysInPlace DEF Stream
  <2>3. /\ chan' \in Seq(1..MaxPackets[kind]) /\ received' \in Seq(1..MaxPackets[kind])
        /\ Len(chan') = Len(chan) - 1 /\ Len(received') = Len(received) + 1
    <3>1. /\ Head(chan) \in 1..MaxPackets[kind] /\ Tail(chan) \in Seq(1..MaxPackets[kind])
          /\ Len(Tail(chan)) = Len(chan) - 1
      BY <1>0, <2>1, HeadTailProperties
    <3>2. /\ Append(received, Head(chan)) \in Seq(1..MaxPackets[kind])
          /\ Len(Append(received, Head(chan))) = Len(received) + 1
      BY <1>0, <3>1, AppendProperties
    <3> QED BY <2>1, <3>1, <3>2
  <2>4. TypeOK'
    BY <1>0, <1>1, <2>1, <2>3 DEF IInv, TypeOK
  <2>5. Unregistered' /\ LiveStatus'
    BY <1>1, <1>3, <2>1 DEF IInv, Unregistered, LiveStatus
  <2>6. DueIsRun' /\ Consecutive' /\ FromFirst' /\ NotAhead' /\ Frontier'
    BY <1>1, <1>2, <2>1, <2>2, StreamKeeps DEF Taking
  <2> QED BY <1>3, <2>4, <2>5, <2>6 DEF IInv
<1>5. CASE close
  <2>1. handle = "open" /\ closing' = TRUE /\ UNCHANGED <<handle, chan, received>>
    BY <1>5 DEF close
  <2>2. Stream' = Stream
    BY <2>1 DEF Stream
  <2>3. TypeOK'
    BY <1>1, <2>1 DEF IInv, TypeOK
  <2>4. Unregistered' /\ LiveStatus'
    BY <1>1, <1>3, <2>1 DEF IInv, Unregistered, LiveStatus
  <2>5. DueIsRun' /\ Consecutive' /\ FromFirst' /\ NotAhead' /\ Frontier'
    BY <1>1, <1>2, <2>1, <2>2, StreamKeeps DEF Taking
  <2> QED BY <1>3, <2>3, <2>4, <2>5 DEF IInv
<1>6. CASE Drop
  <2>1. handle' = "dropped" /\ closing' = TRUE /\ chan' = <<>> /\ received' = received
    BY <1>6 DEF Drop
  <2>2. /\ chan' \in Seq(1..MaxPackets[kind]) /\ Len(chan') = 0
        /\ Len(Stream) = Len(received) + Len(chan) /\ Len(Stream') = Len(received)
        /\ \A i \in 1..Len(received) : Stream[i] = received[i] /\ Stream'[i] = received[i]
    <3>1. chan' \in Seq(1..MaxPackets[kind]) /\ Len(chan') = 0
      BY <2>1
    <3>2. /\ Len(Stream) = Len(received) + Len(chan)
          /\ \A i \in 1..Len(received) : Stream[i] = received[i]
      BY <1>0, StreamIs DEF Stream
    <3>3. Stream' = received \o chan' /\ Len(Stream') = Len(received)
          /\ \A i \in 1..Len(received) : Stream'[i] = received[i]
      BY <1>0, <2>1, <3>1, StreamIs DEF Stream
    <3> QED BY <3>1, <3>2, <3>3
  <2>3. TypeOK'
    BY <1>0, <1>1, <2>1, <2>2 DEF IInv, TypeOK
  <2>4. Unregistered' /\ LiveStatus' /\ DueIsRun' /\ Frontier'
    BY <1>1, <1>2, <2>1 DEF IInv, Unregistered, LiveStatus, DueIsRun, Frontier, Taking
  <2>5. Consecutive' /\ FromFirst'
    BY <1>0, <1>1, <2>2 DEF IInv, Consecutive, FromFirst
  <2>6. NotAhead'
    <3> SUFFICES ASSUME Len(Stream') > 0
                 PROVE  Stream'[1] >= 1 /\ Stream'[Len(Stream')] <= sent'
      BY DEF NotAhead
    <3>1. /\ 1 \in 1..Len(received) /\ Len(received) \in 1..Len(received)
          /\ Len(received) \in 1..Len(Stream) /\ Len(Stream) \in 1..Len(Stream)
          /\ Len(Stream) > 0
      BY <1>0, <2>2
    <3>2. /\ Stream[1] >= 1 /\ Stream[Len(Stream)] <= sent
          /\ Stream[Len(received)] = Stream[1] + (Len(received) - 1)
          /\ Stream[Len(Stream)] = Stream[1] + (Len(Stream) - 1)
      BY <3>1 DEF IInv, NotAhead, Consecutive
    <3>3. Stream[1] \in 1..MaxPackets[kind]
      <4>1. received[1] \in 1..MaxPackets[kind]
        BY <1>0, <3>1, ElementOfSeq
      <4> QED BY <2>2, <3>1, <4>1
    <3>4. Stream[Len(received)] <= sent
      BY <1>0, <2>2, <3>2, <3>3, RecvAssumption
    <3> QED BY <1>1, <2>2, <3>1, <3>2, <3>4
  <2> QED BY <1>3, <2>3, <2>4, <2>5, <2>6 DEF IInv
<1> QED BY <1>4, <1>5, <1>6 DEF App

\* The release of the id, by Close or by the reaper.
LEMMA ReleaseKeeps ==
  ASSUME IInv, Release,
         UNCHANGED <<kind, handle, received, chan, has_connected, batch, joins, sent>>,
         closing' \in BOOLEAN, phase' \in {"cmds", "events", "err", "sweep", "poll"} \cup InHandleRecv
  PROVE  IInv'
<1>1. /\ present' = FALSE /\ entry' = [entry EXCEPT !.recv_tx = FALSE]
      /\ member' = [m \in Members |-> "down"] /\ buf' = [m \in Members |-> {}]
      /\ latch' = FALSE /\ events' = {}
  BY DEF Release
<1>2. /\ entry' \in [last_status : SocketStatus, recv_tx : BOOLEAN, send_rx : BOOLEAN]
      /\ member' \in [Members -> LinkState]
      /\ buf' \in [Members -> SUBSET (1..MaxPackets[kind])]
  <2>1. entry' \in [last_status : SocketStatus, recv_tx : BOOLEAN, send_rx : BOOLEAN]
    BY <1>1 DEF IInv, TypeOK
  <2>2. member' \in [Members -> LinkState]
    BY <1>1 DEF LinkState
  <2>3. buf' \in [Members -> SUBSET (1..MaxPackets[kind])]
    BY <1>1
  <2> QED BY <2>1, <2>2, <2>3
<1>3. TypeOK'
  BY <1>1, <1>2 DEF IInv, TypeOK, InHandleRecv
<1>4. Ready' = {} /\ ~Taking' /\ Stream' = Stream
  BY <1>1 DEF Ready, Taking, Stream
<1>5. DueIsRun' /\ Consecutive' /\ FromFirst' /\ NotAhead' /\ Frontier'
  BY <1>4, StreamKeeps
<1>6. /\ ~entry'.recv_tx /\ entry'.last_status = entry.last_status
      /\ \A m \in Members : member'[m] = "down"
  BY <1>1 DEF IInv, TypeOK
<1>7. Unregistered' /\ NoHandshake' /\ ErrIsReal' /\ LiveStatus'
  BY <1>1, <1>6 DEF IInv, Unregistered, NoHandshake, ErrIsReal, LiveStatus
<1> QED BY <1>3, <1>5, <1>7 DEF IInv

\* A step that leaves the handle, the stream and the links alone.
LEMMA EntryKeeps ==
  ASSUME IInv,
         UNCHANGED <<kind, handle, closing, received, chan, present, member, joins, buf, sent>>,
         entry' \in [last_status : SocketStatus, recv_tx : BOOLEAN, send_rx : BOOLEAN],
         entry'.recv_tx => entry.recv_tx,
         entry' = entry \/ (present /\ (entry'.recv_tx => ~is_terminal_status(entry'.last_status))),
         phase' \in {"cmds", "events", "err", "sweep", "poll"} \cup InHandleRecv,
         has_connected' \in BOOLEAN, latch' \in BOOLEAN,
         events' \cup batch' \subseteq events \cup batch
  PROVE  IInv'
<1>1. batch' \subseteq {"IN", "ERR"} /\ events' \subseteq {"IN", "ERR"}
  BY DEF IInv, TypeOK
<1>2. TypeOK'
  BY <1>1 DEF IInv, TypeOK, InHandleRecv
<1>3. NoHandshake' /\ ErrIsReal'
  BY LinksKeep
<1>4. Ready' = Ready /\ Stream' = Stream /\ (Taking' => Taking)
  BY DEF Ready, Stream, Taking
<1>5. DueIsRun' /\ Consecutive' /\ FromFirst' /\ NotAhead' /\ Frontier'
  BY <1>4, StreamKeeps
<1>6. Unregistered' /\ LiveStatus'
  BY DEF IInv, Unregistered, LiveStatus
<1> QED BY <1>2, <1>3, <1>5, <1>6 DEF IInv

\* libsrt's answer is a status.
LEMMA LibReads ==
  lib \in {"Connected", "Connecting", "Broken"} /\ lib \in SocketStatus
BY DEF lib, getsockstate, SocketStatus

\* It is terminal only in an outage: of a group that handshakes, the first
\* listed is the one read.
LEMMA TerminalIsOutage ==
  ASSUME IInv, is_terminal_status(lib)
  PROVE  Outage
<1>1. lib = "Broken"
  BY LibReads DEF is_terminal_status
<1>2. member \in [Members -> LinkState] /\ \A m \in Members : member[m] # "up"
  BY <1>1 DEF lib, getsockstate, IInv, TypeOK
<1>3. Up = {}
  BY <1>2 DEF Up
<1>4. CASE Handshaking(member) = {}
  <2>1. \A m \in Members : member[m] = "down"
    BY <1>2, <1>4 DEF Handshaking, LinkState
  <2> QED BY <1>3, <2>1 DEF Outage
<1>5. CASE Handshaking(member) # {}
  <2>1. Handshaking(member) \subseteq Nat /\ Handshaking(member) \subseteq Members
    BY RecvAssumption DEF Handshaking
  <2>2. \E x \in Handshaking(member) : \A y \in Handshaking(member) : x <= y
    BY <1>5, <2>1, LeastOf
  <2>3. Min(Handshaking(member)) \in Handshaking(member)
    BY <2>2 DEF Min
  <2>4. member[Min(Handshaking(member))] # "pending"
    BY <1>1, <1>2, <1>5 DEF lib, getsockstate
  <2>5. PICK m \in Members : member[m] = "midway"
    BY <2>1, <2>3, <2>4 DEF Handshaking
  <2>6. kind = "group"
    BY <2>5 DEF IInv, NoHandshake
  <2> QED BY <1>3, <2>5, <2>6 DEF Outage, is_group
<1> QED BY <1>4, <1>5

\* The registration of an accepted connection starts the stream.
LEMMA RegisterSocketKeeps ==
  ASSUME IInv, RegisterSocket
  PROVE  IInv'
<1> DEFINE e == [entry EXCEPT !.recv_tx = TRUE]
<1>1. /\ handle = "waiting" /\ handle' = "open" /\ present' = TRUE
      /\ entry' = e \/ entry' = update_status(e, lib)
      /\ UNCHANGED <<kind, closing, received, chan, phase, has_connected, batch, member, joins,
                     buf, sent, latch, events>>
  BY DEF RegisterSocket, loop, libsrt
<1>2. /\ e \in [last_status : SocketStatus, recv_tx : BOOLEAN, send_rx : BOOLEAN]
      /\ e.last_status = entry.last_status
  BY DEF IInv, TypeOK
<1> HIDE DEF e
<1>3. /\ entry' \in [last_status : SocketStatus, recv_tx : BOOLEAN, send_rx : BOOLEAN]
      /\ entry'.recv_tx => ~is_terminal_status(entry'.last_status)
  <2>1. CASE entry' = e
    <3>1. e.last_status = "Init"
      BY <1>1, <1>2 DEF IInv, LiveStatus
    <3> QED BY <1>2, <2>1, <3>1 DEF is_terminal_status
  <2>2. CASE entry' = update_status(e, lib)
    BY <1>2, <2>2, UpdateStatusFields, LibReads
  <2> QED BY <1>1, <2>1, <2>2
<1>4. TypeOK'
  BY <1>1, <1>3 DEF IInv, TypeOK
<1>5. NoHandshake' /\ ErrIsReal'
  BY <1>1, LinksKeep
<1>6. Ready' = Ready /\ Stream' = Stream
  BY <1>1 DEF Ready, Stream
<1>7. Len(Stream) = 0 /\ kind \notin {"caller", "group"}
  <2>1. chan = <<>> /\ received = <<>> /\ kind \in {"accepted", "mirror"}
    BY <1>1 DEF IInv, Unregistered
  <2> QED BY <2>1 DEF Stream
<1>8. DueIsRun' /\ Consecutive' /\ FromFirst' /\ NotAhead' /\ Frontier'
  BY <1>1, <1>6, <1>7, StreamKeeps
<1>9. Unregistered' /\ LiveStatus'
  BY <1>1, <1>3 DEF Unregistered, LiveStatus
<1> QED BY <1>4, <1>5, <1>8, <1>9 DEF IInv

\* The loop's steps but the read itself.
LEMMA LoopKeeps ==
  ASSUME IInv, Close \/ EpollWait \/ ProcessIn \/ RecvEnds \/ ProcessErr \/ GroupSweep \/ Pass
                 \/ PollState
  PROVE  IInv'
<1>0. /\ entry \in [last_status : SocketStatus, recv_tx : BOOLEAN, send_rx : BOOLEAN]
      /\ present \in BOOLEAN /\ closing \in BOOLEAN /\ latch \in BOOLEAN /\ has_connected \in BOOLEAN
  BY DEF IInv, TypeOK
<1>1. CASE Close
  <2>1. /\ Release /\ closing' = FALSE /\ phase' = phase
        /\ UNCHANGED <<kind, handle, received, chan, has_connected, batch, joins, sent>>
    BY <1>1 DEF Close, loop
  <2>2. phase' \in {"cmds", "events", "err", "sweep", "poll"} \cup InHandleRecv
    BY <2>1 DEF IInv, TypeOK
  <2> QED BY <2>1, <2>2, ReleaseKeeps
<1>2. CASE EpollWait
  <2>1. /\ UNCHANGED <<kind, handle, closing, received, chan, present, entry, member, joins, buf,
                       sent, latch>>
        /\ phase' = "events" /\ batch' = events /\ events' = {}
        /\ has_connected' = (present /\ entry.last_status = "Connected")
    BY <1>2 DEF EpollWait, app, bridge, link
  <2> QED BY <1>0, <2>1, EntryKeeps
<1>3. CASE ProcessIn \/ \E p \in {"recv_sweep", "poll", "cmds"} : Goto(p)
  <2>1. /\ UNCHANGED <<kind, handle, closing, received, chan, present, entry, has_connected,
                       member, joins, buf, sent, latch, events>>
        /\ phase' \in {"recv_event", "err", "recv_sweep", "poll", "cmds"} /\ batch' \subseteq batch
    BY <1>3 DEF ProcessIn, Goto, app, bridge, libsrt
  <2>2. phase' \in {"cmds", "events", "err", "sweep", "poll"} \cup InHandleRecv
    BY <2>1 DEF InHandleRecv
  <2> QED BY <1>0, <2>1, <2>2, EntryKeeps
<1>4. CASE RecvEnds
  <2>1. /\ UNCHANGED <<kind, handle, closing, received, chan, present, entry, has_connected, batch,
                       member, joins, buf, sent, events>>
        /\ phase' \in {"err", "poll"} /\ latch' \in {latch, FALSE}
    BY <1>4 DEF RecvEnds, app, bridge, link
  <2> QED BY <1>0, <2>1, EntryKeeps
<1>5. CASE ProcessErr
  <2>1. /\ UNCHANGED <<kind, handle, closing, received, chan, present, has_connected,
                       member, joins, buf, sent, latch, events>>
        /\ phase' = "sweep" /\ batch' = {}
        /\ \/ entry' = entry
           \/ present /\ entry' = update_status(entry, "Broken")
    BY <1>5 DEF ProcessErr, app, libsrt
  <2>2. "Broken" \in SocketStatus
    BY DEF SocketStatus
  <2>3. /\ entry' \in [last_status : SocketStatus, recv_tx : BOOLEAN, send_rx : BOOLEAN]
        /\ entry'.recv_tx => entry.recv_tx
        /\ entry' = entry \/ (present /\ (entry'.recv_tx => ~is_terminal_status(entry'.last_status)))
    <3>1. CASE entry' = entry
      BY <1>0, <3>1
    <3>2. CASE present /\ entry' = update_status(entry, "Broken")
      BY <1>0, <2>2, <3>2, UpdateStatusFields
    <3> QED BY <2>1, <3>1, <3>2
  <2> QED BY <1>0, <2>1, <2>3, EntryKeeps
<1>6. CASE PollState
  <2>1. /\ UNCHANGED <<kind, handle, closing, received, chan, has_connected, batch, joins, sent>>
        /\ phase' = "cmds"
        /\ \/ Release
           \/ /\ UNCHANGED <<present, member, buf, latch, events>>
              /\ entry' = entry \/ (present /\ entry' = update_status(entry, lib))
    BY <1>6 DEF PollState, app
  <2>2. CASE Release
    BY <1>0, <2>1, <2>2, ReleaseKeeps
  <2>3. CASE /\ UNCHANGED <<present, member, buf, latch, events>>
             /\ entry' = entry \/ (present /\ entry' = update_status(entry, lib))
    <3>1. /\ entry' \in [last_status : SocketStatus, recv_tx : BOOLEAN, send_rx : BOOLEAN]
          /\ entry'.recv_tx => entry.recv_tx
          /\ entry' = entry
                \/ (present /\ (entry'.recv_tx => ~is_terminal_status(entry'.last_status)))
      BY <1>0, <2>3, UpdateStatusFields, LibReads
    <3> QED BY <1>0, <2>1, <2>3, <3>1, EntryKeeps
  <2> QED BY <2>1, <2>2, <2>3
<1>7. CASE ProcessIn \/ GroupSweep \/ Pass
  BY <1>3, <1>7 DEF GroupSweep, Pass
<1> QED BY <1>1, <1>2, <1>4, <1>5, <1>6, <1>7

\* A read takes the oldest packet that is due, which is the one the stream
\* goes on with.
LEMMA RecvOneKeeps ==
  ASSUME IInv, RecvOne
  PROVE  IInv'
<1> DEFINE p == Min(Ready)
<1>0. /\ chan \in Seq(1..MaxPackets[kind]) /\ received \in Seq(1..MaxPackets[kind])
      /\ Len(chan) \in Nat /\ Len(received) \in Nat /\ sent \in 0..MaxPackets[kind]
      /\ MaxPackets[kind] \in Nat /\ latch \in BOOLEAN
      /\ buf \in [Members -> SUBSET (1..MaxPackets[kind])]
  BY RecvAssumption DEF IInv, TypeOK
<1>1. /\ Ready # {} /\ buf' = [m \in Members |-> buf[m] \ {p}]
      /\ latch' = (latch /\ Ready # {p})
      /\ chan' = IF Taking THEN Append(chan, p) ELSE chan
      /\ UNCHANGED <<kind, handle, closing, received, present, entry, phase, has_connected, batch,
                     member, joins, sent, events>>
  BY DEF RecvOne, Drained, app, bridge, loop, link, Taking
<1>2. p \in Ready /\ \A q \in Ready : p <= q
  BY <1>1, Oldest
<1> HIDE DEF p
<1>3. Ready' = Ready \ {p}
  <2>1. \A m \in Members : buf'[m] = buf[m] \ {p}
    BY <1>1
  <2>2. \A q : q \in Ready' <=> \E m \in Members : q \in buf'[m]
    BY DEF Ready
  <2>3. \A q : q \in Ready <=> \E m \in Members : q \in buf[m]
    BY DEF Ready
  <2>4. \A q : q \in Ready' <=> q \in Ready \ {p}
    BY <2>1, <2>2, <2>3
  <2> QED BY <2>4
<1>4. p \in 1..sent /\ p \in 1..MaxPackets[kind]
  BY <1>0, <1>2 DEF IInv, DueIsRun
<1>5. \A q \in 1..sent : q \in Ready <=> q >= p
  BY <1>0, <1>2, <1>4 DEF IInv, DueIsRun
<1>6. NoHandshake' /\ ErrIsReal'
  BY <1>1, LinksKeep
<1>7. Unregistered' /\ LiveStatus'
  BY <1>1, <1>6 DEF IInv, Unregistered, LiveStatus, Taking
<1>8. DueIsRun'
  <2> SUFFICES ASSUME NEW r \in Ready \ {p} PROVE r \in 1..sent /\ \A q \in r..sent : q \in Ready \ {p}
    BY <1>1, <1>3 DEF DueIsRun
  <2>1. r \in 1..sent /\ \A q \in r..sent : q \in Ready
    BY DEF IInv, DueIsRun
  <2>2. r > p
    BY <1>2, <1>4, <2>1
  <2> QED BY <1>0, <1>4, <2>1, <2>2
<1>9. buf' \in [Members -> SUBSET (1..MaxPackets[kind])] /\ latch' \in BOOLEAN
  BY <1>0, <1>1
<1>10. CASE ~Taking
  <2>1. chan' = chan /\ Stream' = Stream /\ ~Taking'
    BY <1>1, <1>10 DEF Stream, Taking
  <2>2. Consecutive' /\ FromFirst' /\ NotAhead' /\ Frontier'
    BY <1>1, <2>1 DEF IInv, Consecutive, FromFirst, NotAhead, Frontier
  <2>3. TypeOK'
    BY <1>1, <1>9, <2>1 DEF IInv, TypeOK
  <2> QED BY <1>6, <1>7, <1>8, <2>2, <2>3 DEF IInv
<1>11. CASE Taking
  <2>0. chan' = Append(chan, p)
    BY <1>1, <1>11
  <2>1. /\ chan' \in Seq(1..MaxPackets[kind]) /\ Len(chan') = Len(chan) + 1
        /\ \A i \in 1..Len(chan) : chan'[i] = chan[i]
        /\ chan'[Len(chan) + 1] = p
    BY <1>0, <1>4, <2>0, AppendProperties
  <2>2. /\ Stream \in Seq(1..MaxPackets[kind])
        /\ Len(Stream) = Len(received) + Len(chan)
        /\ \A i \in 1..Len(received) : Stream[i] = received[i]
        /\ \A i \in 1..Len(chan) : Stream[Len(received) + i] = chan[i]
    BY <1>0, StreamIs DEF Stream
  <2>3. /\ Len(Stream') = Len(received) + Len(chan')
        /\ \A i \in 1..Len(received) : Stream'[i] = received[i]
        /\ \A i \in 1..Len(chan') : Stream'[Len(received) + i] = chan'[i]
    BY <1>0, <1>1, <2>1, StreamIs DEF Stream
  <2> DEFINE n == Len(Stream)
  <2>4. n \in Nat /\ Len(Stream') = n + 1
    BY <1>0, <2>1, <2>2, <2>3
  <2>5. Stream'[n + 1] = p
    <3>1. Len(received) + (Len(chan) + 1) = n + 1 /\ Len(chan) + 1 \in 1..Len(chan')
      BY <1>0, <2>1, <2>2
    <3> QED BY <2>1, <2>3, <3>1
  <2>6. ASSUME NEW i \in 1..n PROVE Stream'[i] = Stream[i]
    <3>1. CASE i \in 1..Len(received)
      BY <2>2, <2>3, <3>1
    <3>2. CASE i \notin 1..Len(received)
      <4> DEFINE k == i - Len(received)
      <4>1. k \in 1..Len(chan) /\ k \in 1..Len(chan') /\ i = Len(received) + k
        BY <1>0, <2>1, <2>2, <3>2
      <4> HIDE DEF k
      <4> QED BY <2>1, <2>2, <2>3, <4>1
    <3> QED BY <3>1, <3>2
  <2>7. \A i \in 1..n : Stream[i] \in 1..MaxPackets[kind]
    BY <2>2, ElementOfSeq
  <2> HIDE DEF n
  <2>8. n > 0 => p = Stream[n] + 1 /\ Stream[n] = Stream[1] + (n - 1) /\ Stream[1] >= 1
    <3> SUFFICES ASSUME n > 0
                 PROVE  p = Stream[n] + 1 /\ Stream[n] = Stream[1] + (n - 1) /\ Stream[1] >= 1
      OBVIOUS
    <3>1. n \in 1..n /\ Stream[n] \in 1..MaxPackets[kind]
      BY <2>4, <2>7
    <3>2. \A q \in 1..sent : q \in Ready <=> q > Stream[n]
      BY <1>11 DEF IInv, Frontier, n
    <3>3. p > Stream[n]
      BY <1>2, <1>4, <3>2
    <3>4. Stream[n] + 1 \in 1..sent /\ Stream[n] + 1 > Stream[n]
      BY <1>0, <1>4, <3>1, <3>3
    <3>5. p <= Stream[n] + 1
      BY <1>2, <3>2, <3>4
    <3>6. Stream[n] = Stream[1] + (n - 1) /\ Stream[1] >= 1
      BY <3>1 DEF IInv, Consecutive, NotAhead, n
    <3> QED BY <1>4, <3>1, <3>3, <3>5, <3>6
  <2>9. n = 0 /\ kind \in {"caller", "group"} => p = 1
    <3> SUFFICES ASSUME n = 0, kind \in {"caller", "group"} PROVE p = 1
      OBVIOUS
    <3>1. 1 \in 1..sent
      BY <1>0, <1>4
    <3>2. 1 \in Ready
      BY <1>11, <3>1 DEF IInv, Frontier, n
    <3> QED BY <1>2, <1>4, <3>2
  <2>10. n > 0 => 1 \in 1..n /\ n \in 1..n /\ Stream'[1] = Stream[1] /\ Stream[1] \in 1..MaxPackets[kind]
    BY <2>4, <2>6, <2>7
  <2>11. \A i \in 1..(n + 1) : Stream'[i] = Stream'[1] + (i - 1)
    <3> SUFFICES ASSUME NEW i \in 1..(n + 1) PROVE Stream'[i] = Stream'[1] + (i - 1)
      OBVIOUS
    <3>1. CASE i = n + 1 /\ n = 0
      BY <1>4, <2>5, <3>1
    <3>2. CASE i = n + 1 /\ n > 0
      BY <1>0, <2>4, <2>5, <2>8, <2>10, <3>2
    <3>3. CASE i \in 1..n
      <4>1. Stream[i] = Stream[1] + (i - 1)
        BY <3>3 DEF IInv, Consecutive, n
      <4>2. n > 0
        BY <2>4, <3>3
      <4> QED BY <2>6, <2>10, <3>3, <4>1, <4>2
    <3> QED BY <2>4, <3>1, <3>2, <3>3
  <2>12. Consecutive'
    BY <2>4, <2>11 DEF Consecutive
  <2>13. FromFirst'
    BY <1>1, <2>4, <2>5, <2>9, <2>10 DEF IInv, FromFirst, n
  <2>14. Stream'[1] >= 1 /\ Stream'[n + 1] <= sent
    BY <1>0, <1>4, <2>4, <2>5, <2>8, <2>10
  <2>15. NotAhead'
    BY <1>1, <2>4, <2>14 DEF NotAhead
  <2>16. Frontier'
    <3>1. \A q \in 1..sent : q \in Ready \ {p} <=> q > p
      BY <1>0, <1>4, <1>5
    <3>2. Len(Stream') > 0
      BY <2>4
    <3> QED BY <1>1, <1>3, <2>4, <2>5, <3>1, <3>2 DEF Frontier
  <2>17. Len(chan') + Len(received) <= sent
    <3>1. n + 1 <= p
      BY <1>4, <2>4, <2>8, <2>10
    <3> QED BY <1>0, <1>4, <2>1, <2>2, <2>4, <3>1 DEF n
  <2>18. TypeOK'
    BY <1>1, <1>9, <2>1, <2>17 DEF IInv, TypeOK
  <2> QED BY <1>6, <1>7, <1>8, <2>12, <2>13, <2>15, <2>16, <2>18 DEF IInv
<1> QED BY <1>10, <1>11

\* A packet that comes due is the next after all that came.
LEMMA ArriveKeeps ==
  ASSUME IInv, Arrive
  PROVE  IInv'
<1>0. /\ MaxPackets[kind] \in Nat /\ sent \in 0..MaxPackets[kind]
      /\ buf \in [Members -> SUBSET (1..MaxPackets[kind])] /\ latch \in BOOLEAN
      /\ events \subseteq {"IN", "ERR"}
      /\ chan \in Seq(1..MaxPackets[kind]) /\ received \in Seq(1..MaxPackets[kind])
      /\ Len(chan) \in Nat /\ Len(received) \in Nat /\ Len(chan) + Len(received) <= sent
  BY RecvAssumption DEF IInv, TypeOK
<1>1. /\ sent < MaxPackets[kind] /\ sent' = sent + 1
      /\ UNCHANGED <<kind, handle, closing, received, chan, present, entry, phase, has_connected,
                     batch, member, joins>>
  BY DEF Arrive, app, bridge, loop
<1>2. PICK S \in (SUBSET Up) \ {{}} :
        buf' = [m \in Members |-> IF m \in S THEN buf[m] \cup {sent + 1} ELSE buf[m]]
  BY DEF Arrive
<1>3. PICK ev \in {{}, {"IN"}} : Edge(ev)
  BY DEF Arrive
<1>4. latch' \in BOOLEAN /\ events' \subseteq {"IN", "ERR"} /\ ("ERR" \in events' => "ERR" \in events)
  BY <1>0, <1>3 DEF Edge
<1>5. sent' \in 0..MaxPackets[kind] /\ sent + 1 \in 1..MaxPackets[kind]
  BY <1>0, <1>1
<1>6. buf' \in [Members -> SUBSET (1..MaxPackets[kind])]
  BY <1>0, <1>2, <1>5
<1>7. Ready' = Ready \cup {sent + 1}
  <2>0. S \in SUBSET Up /\ S # {}
    OBVIOUS
  <2>1. PICK m \in S : m \in Members
    BY <2>0 DEF Up
  <2>2. \A k \in Members : buf'[k] = IF k \in S THEN buf[k] \cup {sent + 1} ELSE buf[k]
    BY <1>2
  <2>3. \A q : q \in Ready' <=> \E k \in Members : q \in buf'[k]
    BY DEF Ready
  <2>4. \A q : q \in Ready <=> \E k \in Members : q \in buf[k]
    BY DEF Ready
  <2>5. \A q : q \in Ready' <=> q \in Ready \cup {sent + 1}
    <3>1. sent + 1 \in Ready'
      BY <2>1, <2>2, <2>3
    <3>2. \A q : q \in Ready => q \in Ready'
      <4>1. \A k \in Members : buf[k] \subseteq buf'[k]
        BY <2>2
      <4> QED BY <2>3, <2>4, <4>1
    <3>3. ASSUME NEW q, q \in Ready' PROVE q \in Ready \/ q = sent + 1
      <4>1. PICK k \in Members : q \in buf'[k]
        BY <2>3, <3>3
      <4>2. q \in buf[k] \/ q = sent + 1
        BY <2>2, <4>1
      <4> QED BY <2>4, <4>2
    <3> QED BY <3>1, <3>2, <3>3
  <2> QED BY <2>5
<1>8. TypeOK'
  BY <1>0, <1>1, <1>4, <1>5, <1>6 DEF IInv, TypeOK
<1>9. Stream' = Stream /\ (Taking' <=> Taking)
  BY <1>1 DEF Stream, Taking
<1>11. Unregistered' /\ NoHandshake' /\ ErrIsReal' /\ LiveStatus'
  BY <1>1, <1>4 DEF IInv, Unregistered, NoHandshake, ErrIsReal, LiveStatus
<1>12. DueIsRun'
  <2> SUFFICES ASSUME NEW p \in Ready \cup {sent + 1}
               PROVE  p \in 1..(sent + 1) /\ \A q \in p..(sent + 1) : q \in Ready \cup {sent + 1}
    BY <1>1, <1>7 DEF DueIsRun
  <2>1. CASE p \in Ready
    <3>1. p \in 1..sent /\ \A q \in p..sent : q \in Ready
      BY <2>1 DEF IInv, DueIsRun
    <3> QED BY <1>0, <3>1
  <2>2. CASE p = sent + 1
    BY <1>0, <2>2
  <2> QED BY <2>1, <2>2
<1>13. Consecutive' /\ FromFirst'
  BY <1>1, <1>9 DEF IInv, Consecutive, FromFirst
<1>14. Len(Stream) > 0 => Stream[Len(Stream)] \in 1..MaxPackets[kind] /\ Stream[Len(Stream)] <= sent
  <2>1. Stream \in Seq(1..MaxPackets[kind]) /\ Len(Stream) \in Nat
    BY <1>0, StreamIs DEF Stream
  <2>2. Len(Stream) > 0 => Len(Stream) \in 1..Len(Stream)
    BY <2>1
  <2> QED BY <2>1, <2>2, ElementOfSeq DEF IInv, NotAhead
<1>15. NotAhead'
  BY <1>0, <1>1, <1>9, <1>14 DEF IInv, NotAhead
<1>16. Frontier'
  <2> SUFFICES ASSUME Taking, NEW q \in 1..(sent + 1)
               PROVE  /\ Len(Stream) > 0 => (q \in Ready \cup {sent + 1} <=> q > Stream[Len(Stream)])
                      /\ Len(Stream) = 0 /\ kind \in {"caller", "group"} => q \in Ready \cup {sent + 1}
    BY <1>1, <1>7, <1>9 DEF Frontier
  <2>1. CASE q \in 1..sent
    <3>1. q # sent + 1
      BY <1>0, <2>1
    <3> QED BY <2>1, <3>1 DEF IInv, Frontier
  <2>2. CASE q = sent + 1
    BY <1>0, <1>14, <2>2
  <2> QED BY <1>0, <2>1, <2>2
<1> QED BY <1>8, <1>11, <1>12, <1>13, <1>15, <1>16 DEF IInv

\* A member's move, by what it leaves of the links.
LEMMA LinkMoveKeeps ==
  ASSUME IInv, UNCHANGED <<kind, handle, closing, received, chan, present, entry, phase,
                           has_connected, batch, buf, sent>>,
         member' \in [Members -> LinkState], joins' \in 0..MaxJoins,
         latch' \in BOOLEAN, events' \subseteq {"IN", "ERR"},
         NoHandshake', ErrIsReal'
  PROVE  IInv'
<1>1. TypeOK'
  BY DEF IInv, TypeOK
<1>2. Ready' = Ready /\ Stream' = Stream /\ (Taking' <=> Taking)
  BY DEF Ready, Stream, Taking
<1>3. DueIsRun' /\ Consecutive' /\ FromFirst' /\ NotAhead' /\ Frontier'
  BY <1>2, StreamKeeps
<1>4. Unregistered' /\ LiveStatus'
  BY DEF IInv, Unregistered, LiveStatus
<1> QED BY <1>1, <1>3, <1>4 DEF IInv

\* libsrt's members: handshaking, down and joining. Only a group's handshakes,
\* and a socket's only link is the one whose loss raises its ERR.
LEMMA MemberKeeps ==
  ASSUME IInv, NEW m \in Members,
         MemberMidway(m) \/ MemberUp(m) \/ MemberDown(m) \/ MemberJoins(m)
  PROVE  IInv'
<1>0. /\ member \in [Members -> LinkState] /\ latch \in BOOLEAN
      /\ events \subseteq {"IN", "ERR"} /\ joins \in 0..MaxJoins /\ MaxJoins \in Nat
  BY RecvAssumption DEF IInv, TypeOK
<1>1. ASSUME NEW from, NEW to \in LinkState, NEW ev \in {{}, {"IN", "ERR"}},
             MemberMove(m, from, to, ev),
             to = "down" \/ (from \in {"pending", "midway"} /\ ev = {}),
             ev # {} => to = "down" /\ (Up \subseteq {m} \/ kind = "mirror")
      PROVE  IInv'
  <2>1. /\ member[m] = from /\ member' = [member EXCEPT ![m] = to]
        /\ events' = events \cup (ev \ IF latch THEN {"IN"} ELSE {})
        /\ latch' = (latch \/ "IN" \in ev)
        /\ UNCHANGED <<kind, handle, closing, received, chan, present, entry, phase,
                       has_connected, batch, joins, buf, sent>>
    BY <1>1 DEF MemberMove, Edge, app, bridge, loop
  <2>2. /\ member' \in [Members -> LinkState]
        /\ member'[m] = to /\ \A k \in Members : k # m => member'[k] = member[k]
    BY <1>0, <2>1
  <2>3. events' \subseteq {"IN", "ERR"} /\ latch' \in BOOLEAN
    BY <1>0, <2>1
  <2>4. kind # "group" => to = "down" /\ \A k \in Members : member[k] \in {"up", "down"}
    BY <1>1, <2>1 DEF IInv, NoHandshake
  <2>5. NoHandshake'
    BY <2>1, <2>2, <2>4 DEF NoHandshake
  <2>6. ErrIsReal'
    <3> SUFFICES ASSUME kind \in {"caller", "accepted"}, "ERR" \in events' \cup batch,
                        NEW k \in Members
                 PROVE  member'[k] = "down"
      BY <2>1 DEF ErrIsReal
    <3>1. CASE "ERR" \in events \cup batch
      BY <2>2, <2>4, <3>1 DEF IInv, ErrIsReal
    <3>2. CASE "ERR" \notin events \cup batch
      <4>1. ev # {}
        BY <2>1, <3>2
      <4>2. \A j \in Members : j # m => member[j] # "up"
        BY <1>1, <4>1 DEF Up
      <4> QED BY <2>2, <2>4, <4>2
    <3> QED BY <3>1, <3>2
  <2> QED BY <1>0, <2>1, <2>2, <2>3, <2>5, <2>6, LinkMoveKeeps
<1>2. CASE MemberMidway(m)
  BY <1>1, <1>2 DEF MemberMidway, LinkState
<1>3. CASE MemberUp(m)
  BY <1>1, <1>3 DEF MemberUp, LinkState
<1>4. CASE MemberDown(m)
  <2>1. PICK from \in {"up", "pending", "midway"}, ev \in {{}, {"IN", "ERR"}} :
          MemberMove(m, from, "down", IF Up \subseteq {m} \/ kind = "mirror" THEN ev ELSE {})
    BY <1>4 DEF MemberDown
  <2> QED BY <1>1, <2>1 DEF LinkState
<1>6. CASE MemberJoins(m)
  <2>1. /\ kind \in {"group", "mirror"} /\ joins < MaxJoins /\ joins' = joins + 1
        /\ member' = [member EXCEPT ![m] = IF is_group THEN "pending" ELSE "up"]
        /\ \/ UNCHANGED <<latch, events>>
           \/ latch' = FALSE /\ events' = events \ {"IN"}
        /\ UNCHANGED <<kind, handle, closing, received, chan, present, entry, phase,
                       has_connected, batch, buf, sent>>
    BY <1>6 DEF MemberJoins, app, bridge, loop, is_group_id
  <2>2. /\ member' \in [Members -> LinkState]
        /\ kind # "group" => \A k \in Members : member'[k] \in {member[k], "up"}
    BY <1>0, <2>1 DEF is_group, LinkState
  <2>3. NoHandshake' /\ ErrIsReal'
    BY <2>1, <2>2 DEF IInv, NoHandshake, ErrIsReal
  <2>4. joins' \in 0..MaxJoins /\ latch' \in BOOLEAN /\ events' \subseteq {"IN", "ERR"}
    <3>1. joins' \in 0..MaxJoins
      BY <1>0, <2>1
    <3>2. latch' \in BOOLEAN
      BY <1>0, <2>1
    <3> QED BY <1>0, <2>1, <3>1, <3>2
  <2> QED BY <2>1, <2>2, <2>3, <2>4, LinkMoveKeeps
<1> QED BY <1>2, <1>3, <1>4, <1>6

-----------------------------------------------------------------------------
(* The theorems.                                                           *)

\* The first state: nothing sent and, on an accepted handle, not registered.
LEMMA InitKeeps ==
  Init => IInv
<1> SUFFICES ASSUME Init PROVE IInv
  OBVIOUS
<1>1. /\ chan = <<>> /\ received = <<>> /\ sent = 0 /\ Len(chan) = 0 /\ Len(received) = 0
      /\ chan \in Seq(1..MaxPackets[kind]) /\ received \in Seq(1..MaxPackets[kind])
  BY DEF Init
<1>2. Ready = {} /\ Len(Stream) = 0
  BY <1>1 DEF Init, Ready, Stream
<1>3. /\ member \in [Members -> LinkState]
      /\ buf \in [Members -> SUBSET (1..MaxPackets[kind])]
      /\ kind # "group" => member = [m \in Members |-> IF m = First THEN "up" ELSE "down"]
  BY DEF Init, is_group, LinkState
<1>4. present \in BOOLEAN /\ (present <=> handle = "open") /\ handle \in {"waiting", "open"}
      /\ (handle = "waiting" => kind \in {"accepted", "mirror"})
  BY DEF Init
<1>5. /\ entry \in [last_status : SocketStatus, recv_tx : BOOLEAN, send_rx : BOOLEAN]
      /\ entry.recv_tx <=> present
  BY <1>4 DEF Init, SocketStatus
<1>6. TypeOK
  <2>1. /\ kind \in Kinds /\ closing = FALSE /\ phase = "cmds" /\ has_connected = FALSE
        /\ batch = {} /\ joins = 0 /\ latch = FALSE /\ events \subseteq {"IN", "ERR"}
    BY DEF Init
  <2>2. joins \in 0..MaxJoins /\ sent \in 0..MaxPackets[kind] /\ Len(chan) + Len(received) <= sent
    BY <1>1, <2>1, RecvAssumption
  <2> QED BY <1>1, <1>3, <1>4, <1>5, <2>1, <2>2 DEF TypeOK
<1>7. NoHandshake
  BY <1>3 DEF NoHandshake
<1>9. kind # "group" => "ERR" \notin events \cup batch
  <2> SUFFICES ASSUME kind # "group" PROVE events = {} /\ batch = {}
    OBVIOUS
  <2>1. First \in Members
    <3>1. \E x \in Members : \A y \in Members : x <= y
      BY RecvAssumption, LeastOf
    <3> QED BY <3>1 DEF First, Min
  <2>2. First \in Up
    BY <1>3, <2>1 DEF Up
  <2> QED BY <2>2 DEF Init
<1>10. Unregistered /\ LiveStatus /\ ErrIsReal
  BY <1>1, <1>4, <1>5, <1>9 DEF Init, Unregistered, LiveStatus, ErrIsReal, is_terminal_status
<1>8. DueIsRun /\ Consecutive /\ FromFirst /\ NotAhead /\ Frontier
  BY <1>1, <1>2 DEF DueIsRun, Consecutive, FromFirst, NotAhead, Frontier
<1> QED BY <1>6, <1>7, <1>8, <1>10 DEF IInv

\* The receive path keeps the inductive invariant.
THEOREM Invariant ==
  Spec => []IInv
<1>1. Init => IInv
  BY InitKeeps
<1>2. IInv /\ [Next]_vars => IInv'
  <2> SUFFICES ASSUME IInv, [Next]_vars PROVE IInv'
    OBVIOUS
  <2>1. CASE App
    BY <2>1, AppKeeps
  <2>2. CASE io_thread_main
    BY <2>2, RegisterSocketKeeps, LoopKeeps, RecvOneKeeps DEF io_thread_main
  <2>3. CASE Libsrt
    BY <2>3, ArriveKeeps, MemberKeeps DEF Libsrt, Handshake
  <2>4. CASE UNCHANGED vars
    <3>1. UNCHANGED <<kind, handle, closing, chan, received, present, entry, phase, has_connected,
                      batch, member, joins, buf, sent, latch, events>>
      BY <2>4 DEF vars
    <3>2. /\ phase \in {"cmds", "events", "err", "sweep", "poll"} \cup InHandleRecv
          /\ has_connected \in BOOLEAN /\ latch \in BOOLEAN
          /\ entry \in [last_status : SocketStatus, recv_tx : BOOLEAN, send_rx : BOOLEAN]
      BY DEF IInv, TypeOK
    <3> QED BY <3>1, <3>2, EntryKeeps
  <2> QED BY <2>1, <2>2, <2>3, <2>4 DEF Next
<1> QED BY <1>1, <1>2, PTL DEF Spec

\* Every variable keeps its type, and the application's side never holds more
\* packets than came over the network, whatever the number of copies.
THEOREM TypeCorrect ==
  Spec => []TypeOK
<1>1. IInv => TypeOK
  BY DEF IInv
<1> QED BY <1>1, Invariant, PTL

\* What reaches the application has no hole and no repeat, for any handle, any
\* number of links, and any pace of the consumer.
THEOREM StreamHasNoHole ==
  Spec => []NoHole
<1>1. IInv => NoHole
  <2> SUFFICES ASSUME IInv PROVE NoHole
    OBVIOUS
  <2>1. Stream \in Seq(1..MaxPackets[kind]) /\ Len(Stream) \in Nat
    BY StreamIs DEF IInv, TypeOK, Stream
  <2>2. Stream # <<>> => Len(Stream) > 0
    BY <2>1, EmptySeq
  <2>3. ASSUME NEW i \in 1..(Len(Stream) - 1) PROVE Stream[i + 1] = Stream[i] + 1
    <3>1. i \in 1..Len(Stream) /\ i + 1 \in 1..Len(Stream) /\ 1 \in 1..Len(Stream)
      BY <2>1
    <3>2. Stream[i] = Stream[1] + (i - 1) /\ Stream[i + 1] = Stream[1] + ((i + 1) - 1)
      BY <3>1 DEF IInv, Consecutive
    <3>3. Stream[1] \in 1..MaxPackets[kind]
      BY <2>1, <3>1, ElementOfSeq
    <3> QED BY <3>1, <3>2, <3>3
  <2> QED BY <2>2, <2>3 DEF IInv, FromFirst, NoHole
<1> QED BY <1>1, Invariant, PTL

\* The entry after a step that drops the receive end.
LEMMA OnlyOutageDrops ==
  ASSUME IInv, Next, entry.recv_tx, ~entry'.recv_tx
  PROVE  closing \/ Outage \/ (kind = "mirror" /\ "ERR" \in batch)
<1>0. /\ entry \in [last_status : SocketStatus, recv_tx : BOOLEAN, send_rx : BOOLEAN]
      /\ kind \in KindOfHandle /\ "Connected" \in SocketStatus
      /\ ~is_terminal_status(entry.last_status)
  BY RecvAssumption DEF IInv, TypeOK, LiveStatus, SocketStatus
<1>1. RegisterSocket \/ Close \/ ProcessErr \/ PollState
  <2>1. entry' # entry
    OBVIOUS
  <2>2. App => entry' = entry
    BY DEF App, recv, close, Drop, bridge
  <2>3. Libsrt => entry' = entry
    BY DEF Libsrt, Handshake, Arrive, MemberMidway, MemberUp, MemberDown, MemberJoins, MemberMove,
           bridge
  <2>4. EpollWait \/ ProcessIn \/ RecvOne \/ RecvEnds \/ GroupSweep \/ Pass => entry' = entry
    BY DEF EpollWait, ProcessIn, RecvOne, RecvEnds, GroupSweep, Pass, Goto, bridge
  <2> QED BY <2>1, <2>2, <2>3, <2>4 DEF Next, io_thread_main
<1>2. CASE RegisterSocket
  <2> DEFINE e == [entry EXCEPT !.recv_tx = TRUE]
  <2>1. entry' = e \/ entry' = update_status(e, lib)
    BY <1>2 DEF RegisterSocket
  <2>2. e \in [last_status : SocketStatus, recv_tx : BOOLEAN, send_rx : BOOLEAN] /\ e.recv_tx
    BY <1>0
  <2> HIDE DEF e
  <2>3. is_terminal_status(lib)
    BY <2>1, <2>2, UpdateStatusFields, LibReads
  <2> QED BY <2>3, TerminalIsOutage
<1>3. CASE Close
  BY <1>3 DEF Close
<1>4. CASE ProcessErr
  <2>1. "ERR" \in batch /\ (is_group => group_err_is_real)
    BY <1>4 DEF ProcessErr
  <2>2. CASE kind = "group"
    BY <2>1, <2>2, TerminalIsOutage DEF is_group, group_err_is_real
  <2>3. CASE kind \in {"caller", "accepted"}
    <3>1. \A m \in Members : member[m] = "down"
      BY <2>1, <2>3 DEF IInv, ErrIsReal
    <3> QED BY <3>1 DEF Outage, Up
  <2> QED BY <1>0, <2>1, <2>2, <2>3 DEF KindOfHandle
<1>5. CASE PollState
  <2> DEFINE e == IF present /\ lib # entry.last_status THEN update_status(entry, lib) ELSE entry
  <2>1. entry' = e \/ is_terminal_status(e.last_status)
    BY <1>5 DEF PollState
  <2>2. e = entry \/ e = update_status(entry, lib)
    OBVIOUS
  <2> HIDE DEF e
  <2>3. is_terminal_status(lib)
    BY <1>0, <2>1, <2>2, UpdateStatusFields, LibReads
  <2> QED BY <2>3, TerminalIsOutage
<1> QED BY <1>1, <1>2, <1>3, <1>4, <1>5

\* Under an open handle only an outage ends recv(), whichever of the ERR, the
\* registration, the poll and the reaper reads it; but for a mirror group,
\* whose ERR is taken at its word.
THEOREM RecvEndKept ==
  Spec => OnlyOutageEndsRecv
<1>1. IInv /\ [Next]_vars =>
        [entry.recv_tx /\ ~entry'.recv_tx =>
           closing \/ Outage \/ (kind = "mirror" /\ "ERR" \in batch)]_vars
  BY OnlyOutageDrops
<1> QED BY <1>1, Invariant, PTL DEF Spec, OnlyOutageEndsRecv

=============================================================================
