------------------------------ MODULE SendPath ------------------------------
(***************************************************************************)
(* The send direction of one handle, from send() on any number of Tokio    *)
(* tasks (socket.rs, group.rs) over the bounded channel and the backlog of *)
(* the srt-io thread (handle_send, epoll_bridge.rs) into libsrt, with what *)
(* ends it: a link that dies, an ERR, the state poll, the reaper, close()  *)
(* and Drop. The status watch and wait_for_state are part of it, as send() *)
(* reads the same watch. One handle is modelled; the other sockets of the  *)
(* srt-io thread only keep its loop on the active path, or do not.         *)
(* libsrt's send buffer and the link are the environment (external).       *)
(***************************************************************************)
EXTENDS Integers, Sequences, SequencesExt, SrtStatus

CONSTANTS MaxPackets,            \* bound on the send() calls
          MaxStalls,             \* bound on the times a group loses every link
          Oversized,             \* packets above the payload size: LargeMessage
          SEND_CHANNEL_CAPACITY,
          SendBuffer,            \* packets libsrt's send buffer holds
          STATE_POLL_INTERVAL

ASSUME SendAssumption == /\ MaxPackets \in Nat
                         /\ MaxStalls \in Nat
                         /\ Oversized \subseteq 1..MaxPackets
                         /\ SEND_CHANNEL_CAPACITY \in Nat \ {0}
                         /\ SendBuffer \in Nat \ {0}
                         /\ STATE_POLL_INTERVAL \in Nat \ {0}

VARIABLES
  kind,        \* "caller" and "accepted": an SrtSocket; "group": an SrtGroup
  handle,      \* "open", "dropped"
  next,        \* the packet the next send() carries
  waiting,     \* send() calls awaiting a permit of the channel, oldest first
  waiter,      \* the target wait_for_state waits for, "none" or "returned"
  channel,     \* the bounded mpsc channel
  closes,      \* Close commands queued for the srt-io thread
  present,     \* the id is in the bridge's map (status_tx lives as long)
  entry,       \* its SocketState; last_status is also the watch value
  backlog,     \* its send_backlog
  phase,       \* where the loop is: "cmds", "events", "err", "poll", "reap", or in
               \* handle_send: "write" on an event, "drain" behind the events
  batch,       \* srt_epoll_uwait returned an ERR
  active,      \* this iteration took the active path
  has_connected,
  state_poll_counter,
  lib,         \* libsrt's state of the socket or group
  room,        \* free packets of libsrt's send buffer
  err,         \* ERR is raised in the epoll and not yet returned
  stalls,      \* times the group stalled
  delivered    \* what libsrt took, in order

app == <<kind, handle, next, waiting, waiter, closes>>
loop == <<phase, batch, active, has_connected, state_poll_counter>>
libsrt == <<lib, room, err, stalls>>
vars == <<kind, handle, next, waiting, waiter, channel, closes, present, entry, backlog,
          phase, batch, active, has_connected, state_poll_counter, lib, room, err, stalls,
          delivered>>

Packet == 1..MaxPackets
Live == {"Connecting", "Connected"}
Queue == backlog \o channel
is_group == kind = "group"

\* The handle was just handed out. An accepted socket may have died before
\* RegisterSocket read its state; a group's members are still connecting.
Init ==
  /\ kind \in {"caller", "accepted", "group"}
  /\ handle = "open" /\ next = 1 /\ waiting = <<>> /\ waiter = "none"
  /\ channel = <<>> /\ backlog = <<>> /\ closes = 0 /\ present = TRUE
  /\ lib \in CASE kind = "group" -> {"Connecting"}
              [] kind = "accepted" -> {"Connected", "Broken"}
              [] OTHER -> {"Connected"}
  /\ entry = LET e == [last_status |-> "Init", recv_tx |-> TRUE, send_rx |-> TRUE]
             IN update_status(e, IF is_group THEN "Connected" ELSE lib)
  /\ phase = "cmds" /\ batch = FALSE /\ active = FALSE /\ has_connected = FALSE
  /\ state_poll_counter = 0
  /\ room = SendBuffer /\ err = FALSE /\ stalls = 0 /\ delivered = <<>>

-----------------------------------------------------------------------------
(* Tokio side.                                                             *)

status == entry.last_status

\* SrtSocket::send looks at the watch first; SrtGroup::send does not. A call
\* the pre-flight fails changes nothing. The call then queues for a permit.
send ==
  /\ handle = "open" /\ next <= MaxPackets
  /\ is_group \/ ~is_terminal_status(status)
  /\ waiting' = Append(waiting, next)
  /\ next' = next + 1
  /\ UNCHANGED <<kind, handle, waiter, channel, closes, present, entry, backlog, loop,
                 libsrt, delivered>>

\* The channel's permits go to the calls in the order they came; the tasks
\* that hold one are then polled in any order.
SendAccepted(i) ==
  /\ present /\ entry.send_rx
  /\ i \in 1..Len(waiting) /\ i <= SEND_CHANNEL_CAPACITY - Len(channel)
  /\ channel' = Append(channel, waiting[i])
  /\ waiting' = RemoveAt(waiting, i)
  /\ UNCHANGED <<kind, handle, next, waiter, closes, present, entry, backlog, loop, libsrt,
                 delivered>>

\* The call ends with ConnectionLost once the receiver is gone, or its future
\* is dropped.
SendEnds(i) ==
  /\ i \in 1..Len(waiting)
  /\ waiting' = RemoveAt(waiting, i)
  /\ UNCHANGED <<kind, handle, next, waiter, channel, closes, present, entry, backlog, loop,
                 libsrt, delivered>>
SendFails(i) == ~(present /\ entry.send_rx) /\ SendEnds(i)
CancelSend(i) == SendEnds(i)

\* SrtSocket only.
wait_for_state(target) ==
  /\ ~is_group /\ handle = "open" /\ waiter = "none"
  /\ waiter' = target
  /\ UNCHANGED <<kind, handle, next, waiting, channel, closes, present, entry, backlog, loop,
                 libsrt, delivered>>

\* Mutant of WaitReturns: a watch whose sender is gone is waited on for good.
WaitReturns_NoHangup ==
  /\ waiter \in SocketStatus
  /\ status \in {waiter, "Broken", "Closed"}
  /\ waiter' = "returned"
  /\ UNCHANGED <<kind, handle, next, waiting, channel, closes, present, entry, backlog, loop,
                 libsrt, delivered>>

\* The target, Broken, Closed, or a watch whose sender was dropped.
WaitReturns ==
  /\ waiter \in SocketStatus
  /\ status \in {waiter, "Broken", "Closed"} \/ ~present
  /\ waiter' = "returned"
  /\ UNCHANGED <<kind, handle, next, waiting, channel, closes, present, entry, backlog, loop,
                 libsrt, delivered>>

close ==
  /\ handle = "open" /\ closes = 0 /\ present
  /\ closes' = 1
  /\ UNCHANGED <<kind, handle, next, waiting, waiter, channel, present, entry, backlog, loop,
                 libsrt, delivered>>

\* No call borrows the handle when it is dropped; its sender of the channel
\* goes, which lets the srt-io thread finish what is queued.
Drop ==
  /\ handle = "open" /\ waiting = <<>> /\ waiter \notin SocketStatus
  /\ handle' = "dropped"
  /\ closes' = closes + 1
  /\ UNCHANGED <<kind, next, waiting, waiter, channel, present, entry, backlog, loop, libsrt,
                 delivered>>

-----------------------------------------------------------------------------
(* srt-io thread.                                                          *)

\* What close_and_release does to this entry: channel and backlog drop.
Release ==
  /\ present' = FALSE
  /\ channel' = <<>> /\ backlog' = <<>>
  /\ entry' = [entry EXCEPT !.recv_tx = FALSE, !.send_rx = FALSE]
  /\ lib' = "NonExist" /\ err' = FALSE
  /\ UNCHANGED <<kind, handle, next, waiting, waiter, room, stalls, delivered>>

\* update_status on this entry: a dropped receiver takes the channel with it.
SetStatus(st) ==
  /\ entry' = update_status(entry, st)
  /\ channel' = IF entry'.send_rx THEN channel ELSE <<>>

Close ==
  /\ phase = "cmds" /\ closes > 0
  /\ closes' = closes - 1
  /\ Release
  /\ UNCHANGED loop

\* The command channel is empty: classify, then srt_epoll_uwait. Sockets
\* beside this one may be connected or connecting, or not.
EpollWait ==
  /\ phase = "cmds" /\ closes = 0 /\ present
  /\ phase' = "events"
  /\ \E others \in {"idle", "Connecting", "Connected"} :
       /\ has_connected' = (status = "Connected" \/ others = "Connected")
       /\ active' = (status \in Live \/ others # "idle")
  /\ UNCHANGED <<app, batch, channel, present, entry, backlog, state_poll_counter, libsrt,
                 delivered>>

\* SRT_EPOLL_OUT, which only a caller's socket is subscribed to: the Connect
\* arm asks for SRT_EPOLL_CONNECT, which is the same flag. Any of its events
\* may carry it. The ERR that came along is handled behind the write.
ProcessOut ==
  /\ phase = "events" /\ kind = "caller"
  /\ phase' = "write"
  /\ batch' = err /\ err' = FALSE
  /\ UNCHANGED <<app, channel, present, entry, backlog, active, has_connected,
                 state_poll_counter, lib, room, stalls, delivered>>

\* A group's ERR counts only when its own status agrees.
ProcessErr ==
  /\ phase \in {"events", "err"}
  /\ err' = (phase = "err" /\ err) /\ batch' = FALSE
  /\ IF /\ batch \/ (phase = "events" /\ err)
        /\ is_group => is_terminal_status(lib)
       THEN SetStatus("Broken") ELSE UNCHANGED <<entry, channel>>
  /\ phase' = IF ~active THEN "reap" ELSE "drain"
  /\ UNCHANGED <<app, present, backlog, active, has_connected, state_poll_counter, lib,
                 room, stalls, delivered>>

\* handle_send is called on an event whatever the status, and behind the
\* events for what is Connected.
Drains == has_connected /\ entry.send_rx /\ status = "Connected"
Writing == phase = "write" \/ (phase = "drain" /\ Drains)
AfterWrite == IF phase = "write" THEN "err" ELSE "poll"

\* srt_sendmsg2 (external): an unconnected group has no link to write to and
\* would block, like a full buffer.
srt_sendmsg2(p) ==
  IF is_terminal_status(lib) THEN "ConnectionLost"
  ELSE IF p \in Oversized THEN "LargeMessage"
  ELSE IF lib = "Connecting" \/ room = 0 THEN "AsyncSend"
  ELSE "Ok"

\* What srt_sendmsg2 does with a packet it took.
Taken(p) == /\ delivered' = Append(delivered, p)
            /\ room' = room - 1
            /\ UNCHANGED <<app, batch, present, entry, active, has_connected,
                           state_poll_counter, lib, err, stalls>>
Kept == UNCHANGED <<app, batch, present, entry, active, has_connected, state_poll_counter,
                    libsrt, delivered>>

\* Mutant of SendBacklog: a packet that blocks again goes behind the channel's.
SendBacklog_Back ==
  /\ Writing /\ backlog # <<>>
  /\ LET p == Head(backlog)
         r == srt_sendmsg2(p)
     IN \/ /\ r = "Ok" /\ Taken(p)
           /\ backlog' = Tail(backlog) /\ UNCHANGED <<phase, channel>>
        \/ /\ r # "Ok" /\ Kept
           /\ phase' = AfterWrite
           /\ backlog' = Tail(backlog)
           /\ channel' = IF r = "AsyncSend" THEN Append(channel, p) ELSE channel

\* handle_send, one packet of the backlog. Only a would-block keeps it.
SendBacklog ==
  /\ Writing /\ backlog # <<>>
  /\ LET r == srt_sendmsg2(Head(backlog))
     IN \/ /\ r = "Ok" /\ Taken(Head(backlog))
           /\ backlog' = Tail(backlog) /\ UNCHANGED <<phase, channel>>
        \/ /\ r # "Ok" /\ Kept
           /\ phase' = AfterWrite /\ UNCHANGED channel
           /\ backlog' = IF r = "AsyncSend" THEN backlog ELSE Tail(backlog)

\* Mutant of SendChannel: goes on taking packets when one would block.
SendChannel_Greedy ==
  /\ Writing /\ entry.send_rx /\ channel # <<>>
  /\ channel' = Tail(channel)
  /\ LET r == srt_sendmsg2(Head(channel))
     IN \/ r = "Ok" /\ Taken(Head(channel)) /\ UNCHANGED <<phase, backlog>>
        \/ /\ r # "Ok" /\ Kept
           /\ phase' = IF r = "AsyncSend" THEN phase ELSE AfterWrite
           /\ backlog' = IF r = "AsyncSend" THEN Append(backlog, Head(channel)) ELSE backlog

\* handle_send, one packet of the channel, reached with the backlog empty.
SendChannel ==
  /\ Writing /\ backlog = <<>> /\ entry.send_rx /\ channel # <<>>
  /\ channel' = Tail(channel)
  /\ LET r == srt_sendmsg2(Head(channel))
     IN \/ r = "Ok" /\ Taken(Head(channel)) /\ UNCHANGED <<phase, backlog>>
        \/ /\ r # "Ok" /\ Kept
           /\ phase' = AfterWrite
           /\ backlog' = IF r = "AsyncSend" THEN <<Head(channel)>> ELSE <<>>

DrainEnds ==
  /\ phase \in {"write", "drain"} /\ (Writing => Queue = <<>>)
  /\ phase' = AfterWrite
  /\ UNCHANGED <<app, batch, channel, present, entry, backlog, active, has_connected,
                 state_poll_counter, libsrt, delivered>>

PollState ==
  LET due == state_poll_counter + 1 >= STATE_POLL_INTERVAL
      st == raw_state_to_status(lib)
  IN /\ phase = "poll"
     /\ state_poll_counter' = IF due THEN 0 ELSE state_poll_counter + 1
     /\ IF due /\ st # status THEN SetStatus(st) ELSE UNCHANGED <<entry, channel>>
     /\ phase' = IF due THEN "reap" ELSE "cmds"
     /\ UNCHANGED <<app, batch, present, backlog, active, has_connected, libsrt, delivered>>

\* The reaper skips groups. An accepted socket registered already dead keeps
\* its send_rx until here.
cleanup_zombies ==
  /\ phase = "reap"
  /\ phase' = "cmds"
  /\ IF /\ ~is_group /\ is_terminal_status(status)
        /\ ~entry.recv_tx \/ handle = "dropped"
       THEN Release
       ELSE UNCHANGED <<kind, handle, next, waiting, waiter, channel, present, entry, backlog,
                        libsrt, delivered>>
  /\ UNCHANGED <<closes, batch, active, has_connected, state_poll_counter>>

-----------------------------------------------------------------------------
(* libsrt's own threads (external): the link takes packets out of the send *)
(* buffer, dies with or without an ERR, and is collected; a group stalls   *)
(* while its members reconnect.                                            *)

LibMove(from, to, e) ==
  /\ present /\ lib \in from
  /\ lib' = to /\ err' = (err \/ e)
  /\ stalls' = IF to = "Connecting" THEN stalls + 1 ELSE stalls
  /\ UNCHANGED <<app, channel, present, entry, backlog, loop, room, delivered>>

LinkTakes ==
  /\ lib = "Connected" /\ room < SendBuffer
  /\ room' = room + 1
  /\ UNCHANGED <<app, channel, present, entry, backlog, loop, lib, err, stalls,
                 delivered>>
LinkBreaks == \E e \in BOOLEAN : LibMove(Live, "Broken", e)
Collected == LibMove({"Broken"}, "NonExist", FALSE)
GroupUp == is_group /\ LibMove({"Connecting"}, "Connected", FALSE)
GroupStalls == /\ is_group /\ stalls < MaxStalls
               /\ \E e \in BOOLEAN : LibMove({"Connected"}, "Connecting", e)

-----------------------------------------------------------------------------
Task == (\E i \in 1..Len(waiting) : SendAccepted(i) \/ SendFails(i)) \/ WaitReturns

App == \/ send \/ close \/ Drop
       \/ \E i \in 1..Len(waiting) : CancelSend(i)
       \/ \E target \in {"Connected", "Closed"} : wait_for_state(target)

io_thread_main == \/ Close \/ EpollWait \/ ProcessOut \/ ProcessErr \/ SendBacklog \/ SendChannel
                  \/ DrainEnds \/ PollState \/ cleanup_zombies

Libsrt == LinkTakes \/ LinkBreaks \/ Collected \/ GroupUp \/ GroupStalls

Next == Task \/ App \/ io_thread_main \/ Libsrt

\* The srt-io thread runs on and a woken task is polled. Of libsrt: a live
\* link empties its buffer or breaks (its peer-idle timer sees to that), and a
\* stalled group comes back or fails.
Fairness == /\ WF_vars(io_thread_main)
            /\ \A i \in 1..MaxPackets : WF_vars(i <= Len(waiting) /\ (SendAccepted(i) \/ SendFails(i)))
            /\ WF_vars(WaitReturns)
            /\ WF_vars(LinkTakes) /\ WF_vars(GroupUp)

Spec == Init /\ [][Next]_vars /\ Fairness

-----------------------------------------------------------------------------
\* Type invariant: the channel keeps within its capacity, and the backlog never
\* holds more than the one packet that would block.
TypeOK ==
  /\ kind \in {"caller", "accepted", "group"} /\ handle \in {"open", "dropped"} /\ next \in 1..(MaxPackets + 1)
  /\ waiting \in Seq(Packet) /\ waiter \in SocketStatus \cup {"none", "returned"}
  /\ channel \in Seq(Packet) /\ Len(channel) <= SEND_CHANNEL_CAPACITY
  /\ closes \in 0..2 /\ present \in BOOLEAN
  /\ entry \in [last_status : SocketStatus, recv_tx : BOOLEAN, send_rx : BOOLEAN]
  /\ backlog \in Seq(Packet) /\ Len(backlog) <= 1
  /\ phase \in {"cmds", "events", "write", "err", "drain", "poll", "reap"} /\ batch \in BOOLEAN
  /\ active \in BOOLEAN /\ has_connected \in BOOLEAN
  /\ state_poll_counter \in 0..(STATE_POLL_INTERVAL - 1)
  /\ lib \in Live \cup {"Broken", "NonExist"}
  /\ room \in 0..SendBuffer /\ err \in BOOLEAN /\ stalls \in 0..MaxStalls
  /\ delivered \in Seq(Packet)

\* The send direction is a lossy FIFO: whatever would-blocks, polls, errors
\* and closes happen between channel, backlog and libsrt, packets leave in the
\* order they were accepted, once, and one is dropped alone only when the link
\* is down or refuses it for its size.
SendQueue == INSTANCE Fifo WITH
               Unsendable <- Oversized,
               queue <- IF entry.send_rx THEN Queue ELSE <<>>,
               open <- entry.send_rx,
               up <- lib = "Connected"
IsFifo == SendQueue!Spec

\* A send() parked on a full channel comes back and what it had accepted does
\* not stay between channel and backlog: the queue drains, or the srt-io thread
\* notices that nothing will drain it and drops its end (bilbycast-edge #100:
\* the socket it only ever saw as NonExist).
InFlight(p) == \/ \E i \in 1..Len(waiting) : waiting[i] = p
               \/ entry.send_rx /\ \E i \in 1..Len(Queue) : Queue[i] = p
NothingStuck == \A p \in Packet : InFlight(p) ~> ~InFlight(p)

\* wait_for_state on a handle whose socket is gone returns, although the
\* bridge drops the watch's sender without a last status, and although a
\* NonExist it is shown ends no wait by itself.
WaitEnds == (waiter \in SocketStatus /\ is_terminal_status(lib)) ~> waiter = "returned"

=============================================================================
