------------------------------ MODULE RecvPath ------------------------------
(***************************************************************************)
(* The receive direction of one handle: what libsrt has ready is read by   *)
(* the srt-io thread (handle_recv, on an edge-triggered IN event or by the *)
(* timed group sweep, epoll_bridge.rs) into an unbounded channel, and taken*)
(* by recv() (socket.rs, group.rs). Four kinds of handle share the code:   *)
(* a caller's socket, an accepted socket, a caller's group and the mirror  *)
(* group a listener accepts. The last three differ in when they are        *)
(* registered and in how libsrt signals them.                              *)
(*                                                                         *)
(* libsrt is external: the member links, their buffers, and the readiness  *)
(* of a group, which only a group read clears, which a due packet may fail *)
(* to raise, and which a connect into the live group may clear unread.     *)
(***************************************************************************)
EXTENDS Integers, Sequences, FiniteSetsExt, SrtStatus

CONSTANTS Kinds,        \* the kinds of handle checked, of KindOfHandle
          Members,      \* a group's members, in the order libsrt lists them; a
                        \* socket is a group of its First
          MaxPackets,   \* bound on the packets the peer sends, by kind
          MaxJoins      \* bound on the members re-added to the live group

KindOfHandle == {"caller", "accepted", "group", "mirror"}

ASSUME RecvAssumption == /\ Kinds \subseteq KindOfHandle
                         /\ Members \subseteq Nat /\ Members # {}
                         /\ MaxPackets \in [KindOfHandle -> Nat] /\ MaxJoins \in Nat

VARIABLES
  kind,
  handle,      \* "waiting" in the accept channel, "open", "dropped"
  closing,     \* a Close command is queued
  chan,        \* the receive channel
  received,    \* what recv() returned, in order
  present,     \* the id is in the bridge's map
  entry,       \* its SocketState; send_rx is not used here
  phase,       \* "cmds", "events", "err", "sweep", "poll", or in handle_recv
  has_connected,
  batch,       \* events srt_epoll_uwait returned
  member,      \* libsrt's state of each member link
  joins,       \* members re-added so far
  buf,         \* packets due at each member and not yet read
  sent,        \* packets that came over the network
  latch,       \* read-readiness is set in the epoll
  events       \* edges raised and not yet returned: "IN", "ERR"

app == <<handle, closing, received>>
bridge == <<present, entry>>
loop == <<phase, has_connected, batch>>
link == <<member, joins, sent>>
libsrt == <<member, joins, buf, sent, latch, events>>
vars == <<kind, handle, closing, chan, received, present, entry, phase, has_connected,
          batch, member, joins, buf, sent, latch, events>>

LinkState == {"up", "pending", "midway", "down"}
is_group_id == kind \in {"group", "mirror"}
is_group == kind = "group"
First == Min(Members)
Ready == UNION {buf[m] : m \in Members}
Up == {m \in Members : member[m] = "up"}
InHandleRecv == {"recv_event", "recv_sweep"}

\* "midway" is listed Pending on a socket that reads BROKEN: in the instant
\* inside a successful handshake, or failed and not yet unlisted.
Handshaking(mem) == {m \in Members : mem[m] \in {"pending", "midway"}}

\* srt_getsockstate. Of a group: Connected while a member is up, else the
\* socket of the first listed Pending one, else Broken.
getsockstate(mem) ==
  IF \E m \in Members : mem[m] = "up" THEN "Connected"
  ELSE IF Handshaking(mem) # {} /\ mem[Min(Handshaking(mem))] = "pending"
    THEN "Connecting" ELSE "Broken"
lib == getsockstate(member)

\* A caller's group is handed over connected or still connecting, in which
\* case it has had its ERR at birth.
Init ==
  /\ kind \in Kinds
  /\ handle = IF kind \in {"accepted", "mirror"} THEN "waiting" ELSE "open"
  /\ present = (handle = "open")
  /\ entry = [last_status |-> IF present THEN "Connected" ELSE "Init",
              recv_tx |-> present, send_rx |-> FALSE]
  /\ closing = FALSE /\ chan = <<>> /\ received = <<>>
  /\ phase = "cmds" /\ has_connected = FALSE /\ batch = {}
  /\ member \in IF is_group THEN [Members -> {"pending", "up"}]
                ELSE {[m \in Members |-> IF m = First THEN "up" ELSE "down"]}
  /\ joins = 0 /\ sent = 0 /\ latch = FALSE
  /\ events = IF Up = {} THEN {"ERR"} ELSE {}
  /\ buf = [m \in Members |-> {}]

-----------------------------------------------------------------------------
(* Tokio side.                                                             *)

recv ==
  /\ handle = "open" /\ chan # <<>>
  /\ received' = Append(received, Head(chan))
  /\ chan' = Tail(chan)
  /\ UNCHANGED <<kind, handle, closing, bridge, loop, libsrt>>

close ==
  /\ handle = "open" /\ present /\ ~closing
  /\ closing' = TRUE
  /\ UNCHANGED <<kind, handle, received, chan, bridge, loop, libsrt>>

Drop ==
  /\ handle = "open" /\ handle' = "dropped"
  /\ closing' = TRUE
  /\ chan' = <<>>
  /\ UNCHANGED <<kind, received, bridge, loop, libsrt>>

-----------------------------------------------------------------------------
(* srt-io thread.                                                          *)

\* accept() takes the connection and its RegisterSocket comes through: until
\* then the id is in the epoll and not in the map. The state is read at once.
RegisterSocket ==
  /\ phase = "cmds" /\ handle = "waiting"
  /\ handle' = "open" /\ present' = TRUE
  /\ LET e == [entry EXCEPT !.recv_tx = TRUE]
     IN entry' = IF lib # e.last_status THEN update_status(e, lib) ELSE e
  /\ UNCHANGED <<kind, closing, received, chan, loop, libsrt>>

Release ==
  /\ present' = FALSE
  /\ entry' = [entry EXCEPT !.recv_tx = FALSE]
  /\ member' = [m \in Members |-> "down"]
  /\ buf' = [m \in Members |-> {}]
  /\ latch' = FALSE /\ events' = {}

Close ==
  /\ phase = "cmds" /\ closing
  /\ closing' = FALSE
  /\ Release
  /\ UNCHANGED <<kind, handle, received, chan, loop, joins, sent>>

\* Sockets beside this one may keep has_connected true, but a handle that is
\* not Connected is left out of the sweep anyway.
EpollWait ==
  /\ phase = "cmds" /\ ~closing
  /\ phase' = "events"
  /\ has_connected' = (present /\ entry.last_status = "Connected")
  /\ batch' = events /\ events' = {}
  /\ UNCHANGED <<kind, app, chan, bridge, link, buf, latch>>

Goto(p) == /\ phase' = p
           /\ UNCHANGED <<kind, app, chan, bridge, has_connected, batch, libsrt>>

\* handle_recv's first check: a group that is not Connected is not read, and
\* the readiness it declines stays set.
Readable == is_group_id => lib = "Connected"

ProcessIn == /\ phase = "events"
             /\ phase' = IF "IN" \in batch /\ Readable THEN "recv_event" ELSE "err"
             /\ batch' = batch \ {"IN"}
             /\ UNCHANGED <<kind, app, chan, bridge, has_connected, libsrt>>

\* A socket's SRTO_RCVDATA says empty, or a group read fails.
Drained == Ready = {} \/ (is_group_id /\ lib # "Connected")

\* Mutant of RecvOne: a bounded channel, and what does not fit is dropped.
RecvOne_Bounded ==
  LET p == Min(Ready)
  IN /\ phase \in InHandleRecv /\ ~Drained
     /\ buf' = [m \in Members |-> buf[m] \ {p}]
     /\ latch' = (latch /\ Ready # {p})
     /\ chan' = IF /\ present /\ entry.recv_tx /\ handle # "dropped"
                   /\ Len(chan) < 1
                  THEN Append(chan, p) ELSE chan
     /\ UNCHANGED <<kind, app, bridge, loop, link, events>>

\* Mutant of RecvOne: the members are read like sockets, not as a group.
RecvOne_PerMember ==
  /\ phase \in InHandleRecv /\ ~Drained
  /\ \E m \in Members :
       /\ buf[m] # {}
       /\ buf' = [buf EXCEPT ![m] = @ \ {Min(@)}]
       /\ chan' = IF present /\ entry.recv_tx /\ handle # "dropped"
                    THEN Append(chan, Min(buf[m])) ELSE chan
  /\ latch' = FALSE
  /\ UNCHANGED <<kind, app, bridge, loop, link, events>>

\* srt_recvmsg2 hands over the oldest packet and drops every copy of it; the
\* read that leaves nothing clears the readiness. A packet of an id without
\* an entry, or whose recv_tx or receiver is gone, is thrown away.
RecvOne ==
  LET p == Min(Ready)
  IN /\ phase \in InHandleRecv /\ ~Drained
     /\ buf' = [m \in Members |-> buf[m] \ {p}]
     /\ latch' = (latch /\ Ready # {p})
     /\ chan' = IF present /\ entry.recv_tx /\ handle # "dropped" THEN Append(chan, p) ELSE chan
     /\ UNCHANGED <<kind, app, bridge, loop, link, events>>

\* A group read that finds nothing clears the readiness; on a group that lost
\* its links meanwhile it may leave it set.
RecvEnds ==
  /\ phase \in InHandleRecv /\ Drained
  /\ phase' = IF phase = "recv_event" THEN "err" ELSE "poll"
  /\ latch' \in IF ~is_group_id \/ Ready # {} THEN {latch}
                ELSE IF lib = "Connected" THEN {FALSE} ELSE {FALSE, latch}
  /\ UNCHANGED <<kind, app, chan, bridge, has_connected, batch, link, buf, events>>

\* Mutant of group_err_is_real: every ERR is.
group_err_is_real_Always == TRUE

group_err_is_real == is_terminal_status(lib)

ProcessErr ==
  /\ phase = "err" /\ phase' = "sweep"
  /\ batch' = {}
  /\ entry' = IF present /\ "ERR" \in batch /\ (is_group => group_err_is_real)
                THEN update_status(entry, "Broken") ELSE entry
  /\ UNCHANGED <<kind, app, chan, present, has_connected, libsrt>>

\* Mutant of Swept: only the groups a listener accepted.
Swept_AcceptedOnly == kind = "mirror" /\ present /\ entry.recv_tx /\ entry.last_status = "Connected"

\* What the sweep reads. is_closed of the channel: the handle was dropped.
Swept == /\ present /\ is_group_id
         /\ entry.last_status = "Connected"
         /\ entry.recv_tx /\ handle = "open"

\* GROUP_RECV_SWEEP has elapsed, or not yet (Pass).
GroupSweep == /\ phase = "sweep" /\ has_connected
              /\ Goto(IF Swept /\ Readable THEN "recv_sweep" ELSE "poll")
Pass == \/ phase = "sweep" /\ Goto("poll")
        \/ phase = "poll" /\ Goto("cmds")

\* Mutant of PollState: leaves groups to their events.
PollState_NoGroups ==
  LET e == IF present /\ ~is_group /\ lib # entry.last_status
             THEN update_status(entry, lib) ELSE entry
  IN /\ phase = "poll" /\ phase' = "cmds"
     /\ entry' = e
     /\ UNCHANGED <<kind, app, chan, present, has_connected, batch, libsrt>>

\* The state poll and the reaper behind it, which skips caller groups.
PollState ==
  LET e == IF present /\ lib # entry.last_status THEN update_status(entry, lib) ELSE entry
      zombie == present /\ ~is_group /\ is_terminal_status(e.last_status)
  IN /\ phase = "poll" /\ phase' = "cmds"
     /\ IF zombie THEN Release
        ELSE entry' = e /\ UNCHANGED <<present, member, buf, latch, events>>
     /\ UNCHANGED <<kind, app, chan, has_connected, batch, joins, sent>>

-----------------------------------------------------------------------------
(* libsrt (external).                                                      *)

Edge(ev) == /\ events' = events \cup (ev \ IF latch THEN {"IN"} ELSE {})
            /\ latch' = (latch \/ "IN" \in ev)

\* The next packet comes due at some of the members that are up. A group may
\* miss the wake-up.
Arrive ==
  /\ sent < MaxPackets[kind] /\ Up # {}
  /\ sent' = sent + 1
  /\ \E S \in (SUBSET Up) \ {{}} :
       buf' = [m \in Members |-> IF m \in S THEN buf[m] \cup {sent + 1} ELSE buf[m]]
  /\ \E ev \in IF is_group_id THEN {{}, {"IN"}} ELSE {{"IN"}} : Edge(ev)
  /\ UNCHANGED <<kind, app, chan, bridge, loop, member, joins>>

MemberMove(m, from, to, ev) ==
  /\ member[m] = from
  /\ member' = [member EXCEPT ![m] = to]
  /\ Edge(ev)
  /\ UNCHANGED <<kind, app, chan, bridge, loop, joins, buf, sent>>

MemberMidway(m) == MemberMove(m, "pending", "midway", {})
MemberUp(m) == MemberMove(m, "midway", "up", {})
Handshake == \E m \in Members : MemberMidway(m) \/ MemberUp(m)

\* A link that goes down wakes the pollers, or not, when it was the last one
\* up; nothing is known of the ERR of a mirror group, which may come with a
\* link left. A broken member's packets stay readable.
MemberDown(m) ==
  \E from \in {"up", "pending", "midway"}, ev \in {{}, {"IN", "ERR"}} :
    MemberMove(m, from, "down", IF Up \subseteq {m} \/ kind = "mirror" THEN ev ELSE {})

\* A member joins the live group. On the caller's side it starts a handshake,
\* and srt_connect_group may clear a readiness nobody has read; a mirror group
\* gets it connected.
MemberJoins(m) ==
  /\ is_group_id /\ joins < MaxJoins /\ lib = "Connected" /\ member[m] = "down"
  /\ member' = [member EXCEPT ![m] = IF is_group THEN "pending" ELSE "up"]
  /\ joins' = joins + 1
  /\ \/ UNCHANGED <<latch, events>>
     \/ is_group /\ latch' = FALSE /\ events' = events \ {"IN"}
  /\ UNCHANGED <<kind, app, chan, bridge, loop, buf, sent>>

-----------------------------------------------------------------------------
App == recv \/ close \/ Drop

io_thread_main == \/ RegisterSocket \/ Close \/ EpollWait \/ ProcessIn \/ RecvOne
                  \/ RecvEnds \/ ProcessErr \/ GroupSweep \/ Pass \/ PollState

Libsrt == \/ Arrive
          \/ Handshake
          \/ \E m \in Members : MemberDown(m) \/ MemberJoins(m)

Next == App \/ io_thread_main \/ Libsrt

\* The srt-io thread runs on, and both timers run out again and again. An
\* application that never calls accept() or recv() is allowed, and nothing is
\* asked of the network but that a handshake ends.
Fairness == /\ WF_vars(io_thread_main)
            /\ SF_vars(GroupSweep) /\ SF_vars(PollState)
            /\ WF_vars(Handshake)

Spec == Init /\ [][Next]_vars /\ Fairness

-----------------------------------------------------------------------------
\* Type invariant: no more packets are on the application's side than came over
\* the network, although every one may come over each member.
TypeOK ==
  /\ kind \in Kinds /\ handle \in {"waiting", "open", "dropped"}
  /\ closing \in BOOLEAN /\ present \in BOOLEAN
  /\ chan \in Seq(1..MaxPackets[kind]) /\ received \in Seq(1..MaxPackets[kind])
  /\ Len(chan) + Len(received) <= sent
  /\ entry \in [last_status : SocketStatus, recv_tx : BOOLEAN, send_rx : BOOLEAN]
  /\ phase \in {"cmds", "events", "err", "sweep", "poll"} \cup InHandleRecv
  /\ has_connected \in BOOLEAN
  /\ batch \subseteq {"IN", "ERR"} /\ events \subseteq {"IN", "ERR"}
  /\ member \in [Members -> LinkState] /\ joins \in 0..MaxJoins
  /\ buf \in [Members -> SUBSET (1..MaxPackets[kind])] /\ sent \in 0..MaxPackets[kind]
  /\ latch \in BOOLEAN

Stream == received \o chan

\* What reaches the application has no hole and no repeat, whatever the
\* consumer's pace and whichever links the copies came over: from the first
\* packet on for a handle registered before it connected, and for an accepted
\* one after the packets read before RegisterSocket, which are thrown away.
NoHole == /\ \A i \in 1..(Len(Stream) - 1) : Stream[i + 1] = Stream[i] + 1
          /\ Stream # <<>> /\ kind \in {"caller", "group"} => Stream[1] = 1

\* What is due never waits for good while recv() has its channel: all of it is
\* read, although a readiness was never raised, was cleared unread or was
\* declined. (The permanent stall of a bonded receiver that handle_recv and
\* GROUP_RECV_SWEEP are written against; the peer's packets are bounded.)
DueGetsRead == Ready # {} /\ present /\ entry.recv_tx ~> Ready = {} \/ ~entry.recv_tx

\* A connection that ends comes to end recv(): the channel's sender is dropped
\* although a group is not read once it is down and its ERR may be missing.
RecvUnblocks == handle = "open" /\ (\A m \in Members : member[m] = "down") ~> ~entry.recv_tx

\* And only that ends it, but for a handle being closed: at the moment its
\* channel is dropped, no link is up, and none is coming up but one that a
\* group shows midway. An ERR that was raised when the last link broke, or at
\* birth, does not drop it once there is a link again. A mirror group's ERR is
\* the exception: it is taken at its word.
Outage == /\ Up = {}
          /\ \/ \A m \in Members : member[m] = "down"
             \/ is_group /\ \E m \in Members : member[m] = "midway"
OnlyOutageEndsRecv ==
  [][entry.recv_tx /\ ~entry'.recv_tx =>
       closing \/ Outage \/ (kind = "mirror" /\ "ERR" \in batch)]_vars

=============================================================================
