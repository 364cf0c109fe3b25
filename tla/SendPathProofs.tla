--------------------------- MODULE SendPathProofs ---------------------------
(***************************************************************************)
(* Proofs about SendPath, for any number of packets, any channel capacity, *)
(* any send buffer and any poll interval.                                  *)
(***************************************************************************)
EXTENDS SendPath, SequenceTheorems, TLAPS

State == [last_status : SocketStatus, recv_tx : BOOLEAN, send_rx : BOOLEAN]

\* The inductive invariant: an open handle has sent at most one Close.
IInv == TypeOK /\ (handle = "open" => closes <= 1)

\* And of a socket: one that has an ERR, or lost its receiver, is down for good;
\* so what handle_send writes on an event, where it asks for no status, goes
\* nowhere once the receiver is gone.
SocketGone == /\ phase = "write" => ~is_group
              /\ ~is_group => /\ lib # "Connecting"
                              /\ err \/ batch \/ ~entry.send_rx => lib # "Connected"

\* Taking one call out of those that wait.
LEMMA RemoveAtType ==
  ASSUME NEW S, NEW s \in Seq(S), NEW i \in 1..Len(s)
  PROVE  RemoveAt(s, i) \in Seq(S)
<1>1. SubSeq(s, 1, i - 1) \in Seq(S)
  BY SubSeqProperties
<1>2. SubSeq(s, i + 1, Len(s)) \in Seq(S)
  BY SubSeqProperties
<1> QED BY <1>1, <1>2 DEF RemoveAt

\* What a status update leaves is again the state of a socket.
LEMMA UpdateStatusType ==
  ASSUME NEW e \in State, NEW st \in SocketStatus
  PROVE  /\ update_status(e, st) \in State
         /\ update_status(e, st).send_rx => e.send_rx
BY DEF update_status, State

\* Everything starts in its range.
LEMMA InitKeeps == Init => IInv
<1> SUFFICES ASSUME Init PROVE IInv
  OBVIOUS
<1> USE SendAssumption
<1>1. entry \in State
  <2> DEFINE e == [last_status |-> "Init", recv_tx |-> TRUE, send_rx |-> TRUE]
  <2>1. e \in State
    BY DEF State, SocketStatus
  <2>2. (IF is_group THEN "Connected" ELSE lib) \in SocketStatus
    BY DEF Init, SocketStatus
  <2>3. entry = update_status(e, IF is_group THEN "Connected" ELSE lib)
    BY DEF Init
  <2> HIDE DEF e
  <2> QED BY <2>1, <2>2, <2>3, UpdateStatusType
<1>2. /\ <<>> \in Seq(Packet) /\ Len(<<>>) = 0
  OBVIOUS
<1>3. /\ next \in 1..(MaxPackets + 1) /\ closes \in 0..2
      /\ state_poll_counter \in 0..(STATE_POLL_INTERVAL - 1)
      /\ room \in 0..SendBuffer /\ stalls \in 0..MaxStalls
  BY DEF Init
<1>4. lib \in Live \cup {"Broken", "NonExist"}
  BY DEF Init, Live
<1>5. /\ waiting \in Seq(Packet) /\ channel \in Seq(Packet) /\ backlog \in Seq(Packet)
      /\ delivered \in Seq(Packet) /\ Len(channel) <= SEND_CHANNEL_CAPACITY /\ Len(backlog) <= 1
  BY <1>2 DEF Init
<1> QED BY <1>1, <1>3, <1>4, <1>5 DEF Init, IInv, TypeOK, State

\* What the tasks of the application do.
LEMMA AppKeeps == IInv /\ (Task \/ App) => IInv'
<1> SUFFICES ASSUME IInv, Task \/ App PROVE IInv'
  OBVIOUS
<1> USE SendAssumption
<1>1. CASE send
  <2>1. next \in Packet /\ next + 1 \in 1..(MaxPackets + 1)
    BY <1>1 DEF send, IInv, TypeOK, Packet
  <2>2. waiting' \in Seq(Packet)
    BY <1>1, <2>1 DEF send, IInv, TypeOK
  <2> QED BY <1>1, <2>1, <2>2 DEF send, IInv, TypeOK, loop, libsrt
<1>2. ASSUME NEW i \in 1..Len(waiting), SendAccepted(i) PROVE IInv'
  <2>1. waiting \in Seq(Packet) /\ channel \in Seq(Packet) /\ waiting[i] \in Packet
    BY DEF IInv, TypeOK
  <2>2. waiting' \in Seq(Packet)
    BY <1>2, <2>1, RemoveAtType DEF SendAccepted
  <2>3. channel' \in Seq(Packet) /\ Len(channel') <= SEND_CHANNEL_CAPACITY
    BY <1>2, <2>1 DEF SendAccepted
  <2> QED BY <1>2, <2>2, <2>3 DEF SendAccepted, IInv, TypeOK, loop, libsrt
<1>3. ASSUME NEW i \in 1..Len(waiting), SendEnds(i) PROVE IInv'
  <2>1. waiting' \in Seq(Packet)
    BY <1>3, RemoveAtType DEF SendEnds, IInv, TypeOK
  <2> QED BY <1>3, <2>1 DEF SendEnds, IInv, TypeOK, loop, libsrt
<1>4. ASSUME NEW target \in {"Connected", "Closed"}, wait_for_state(target) PROVE IInv'
  BY <1>4 DEF wait_for_state, IInv, TypeOK, loop, libsrt, SocketStatus
<1>5. CASE WaitReturns
  BY <1>5 DEF WaitReturns, IInv, TypeOK, loop, libsrt
<1>6. CASE close \/ Drop
  <2>1. /\ UNCHANGED <<kind, next, waiting, waiter, channel, present, entry, backlog, loop,
                       libsrt, delivered>>
        /\ handle' \in {"open", "dropped"}
    BY <1>6 DEF close, Drop, IInv, TypeOK
  <2>2. closes' \in 0..2 /\ (handle' = "open" => closes' <= 1)
    BY <1>6 DEF close, Drop, IInv, TypeOK
  <2> QED BY <2>1, <2>2 DEF IInv, TypeOK, loop, libsrt
<1> QED BY <1>1, <1>2, <1>3, <1>4, <1>5, <1>6 DEF Task, App, SendFails, CancelSend

\* A status update of the entry: a dropped receiver takes the channel along.
LEMMA SetStatusType ==
  ASSUME IInv, NEW st \in SocketStatus, SetStatus(st)
  PROVE  /\ entry' \in State
         /\ channel' \in Seq(Packet) /\ Len(channel') <= SEND_CHANNEL_CAPACITY
         /\ entry'.send_rx => entry.send_rx /\ channel' = channel
<1>1. entry \in State /\ entry' = update_status(entry, st)
      /\ channel \in Seq(Packet) /\ Len(channel) <= SEND_CHANNEL_CAPACITY
      /\ channel' = IF entry'.send_rx THEN channel ELSE <<>>
  BY DEF SetStatus, IInv, TypeOK, State
<1>2. <<>> \in Seq(Packet) /\ Len(<<>>) <= SEND_CHANNEL_CAPACITY
  BY SendAssumption
<1> QED BY <1>1, <1>2, UpdateStatusType

\* What releasing the entry does to the types.
LEMMA ReleaseType ==
  ASSUME IInv, Release
  PROVE  /\ entry' \in State /\ ~entry'.send_rx
         /\ channel' \in Seq(Packet) /\ Len(channel') <= SEND_CHANNEL_CAPACITY
         /\ backlog' \in Seq(Packet) /\ Len(backlog') <= 1
<1>1. entry' \in State /\ ~entry'.send_rx
  BY DEF Release, IInv, TypeOK, State
<1>2. <<>> \in Seq(Packet) /\ Len(<<>>) = 0
  OBVIOUS
<1> QED BY <1>1, <1>2, SendAssumption DEF Release

\* What the srt-io thread does.
LEMMA ThreadKeeps == IInv /\ io_thread_main => IInv'
<1> SUFFICES ASSUME IInv, io_thread_main PROVE IInv'
  OBVIOUS
<1> USE SendAssumption
<1>1. CASE Close
  <2>1. closes' \in 0..2 /\ (handle' = "open" => closes' <= 1)
    BY <1>1 DEF Close, Release, IInv, TypeOK
  <2> QED BY <1>1, <2>1, ReleaseType DEF Close, Release, IInv, TypeOK, State, loop
<1>2. CASE EpollWait
  BY <1>2 DEF EpollWait, IInv, TypeOK, app, libsrt
<1>9. CASE ProcessOut
  BY <1>9 DEF ProcessOut, IInv, TypeOK, app
<1>3. CASE ProcessErr
  <2>1. entry' \in State /\ channel' \in Seq(Packet) /\ Len(channel') <= SEND_CHANNEL_CAPACITY
    BY <1>3, SetStatusType DEF ProcessErr, IInv, TypeOK, State, SocketStatus
  <2>2. err' \in BOOLEAN
    BY <1>3 DEF ProcessErr, IInv, TypeOK
  <2> QED BY <1>3, <2>1, <2>2 DEF ProcessErr, IInv, TypeOK, State, app
<1>4. CASE SendBacklog
  <2>1. /\ backlog \in Seq(Packet) /\ Head(backlog) \in Packet /\ Tail(backlog) \in Seq(Packet)
        /\ Len(Tail(backlog)) <= 1
    BY <1>4 DEF SendBacklog, IInv, TypeOK
  <2>2. backlog' \in Seq(Packet) /\ Len(backlog') <= 1
    BY <1>4, <2>1 DEF SendBacklog, IInv, TypeOK
  <2>3. CASE srt_sendmsg2(Head(backlog)) = "Ok" /\ Taken(Head(backlog)) /\ UNCHANGED <<phase, channel>>
    BY <2>1, <2>2, <2>3 DEF Taken, srt_sendmsg2, IInv, TypeOK, app
  <2>4. CASE Kept /\ phase' = AfterWrite /\ UNCHANGED channel
    BY <2>2, <2>4 DEF Kept, IInv, TypeOK, app, libsrt, AfterWrite
  <2> QED BY <1>4, <2>3, <2>4 DEF SendBacklog
<1>5. CASE SendChannel
  <2>1. /\ channel \in Seq(Packet) /\ Head(channel) \in Packet /\ Tail(channel) \in Seq(Packet)
        /\ Len(Tail(channel)) <= SEND_CHANNEL_CAPACITY
    BY <1>5 DEF SendChannel, IInv, TypeOK
  <2>2. /\ <<>> \in Seq(Packet) /\ Len(<<>>) <= 1
        /\ <<Head(channel)>> \in Seq(Packet) /\ Len(<<Head(channel)>>) <= 1
    BY <2>1
  <2>3. backlog' \in Seq(Packet) /\ Len(backlog') <= 1
    <3>1. backlog' \in {backlog, <<Head(channel)>>, <<>>}
      BY <1>5 DEF SendChannel
    <3> QED BY <2>2, <3>1 DEF IInv, TypeOK
  <2>4. CASE srt_sendmsg2(Head(channel)) = "Ok" /\ Taken(Head(channel)) /\ UNCHANGED phase
    BY <1>5, <2>1, <2>3, <2>4 DEF SendChannel, Taken, srt_sendmsg2, IInv, TypeOK, app
  <2>5. CASE Kept /\ phase' = AfterWrite
    BY <1>5, <2>1, <2>3, <2>5 DEF SendChannel, Kept, IInv, TypeOK, app, libsrt, AfterWrite
  <2> QED BY <1>5, <2>4, <2>5 DEF SendChannel
<1>6. CASE DrainEnds
  BY <1>6 DEF DrainEnds, IInv, TypeOK, app, libsrt, AfterWrite
<1>7. CASE PollState
  <2>1. raw_state_to_status(lib) \in SocketStatus
    BY DEF raw_state_to_status, SocketStatus
  <2>2. entry' \in State /\ channel' \in Seq(Packet) /\ Len(channel') <= SEND_CHANNEL_CAPACITY
    BY <1>7, <2>1, SetStatusType DEF PollState, IInv, TypeOK, State
  <2> QED BY <1>7, <2>2 DEF PollState, IInv, TypeOK, State, app, libsrt
<1>8. CASE cleanup_zombies
  <2>1. CASE Release
    BY <1>8, <2>1, ReleaseType DEF cleanup_zombies, Release, IInv, TypeOK, State
  <2>2. CASE UNCHANGED <<kind, handle, next, waiting, waiter, channel, present, entry, backlog,
                        libsrt, delivered>>
    BY <1>8, <2>2 DEF cleanup_zombies, IInv, TypeOK, libsrt
  <2> QED BY <1>8, <2>1, <2>2 DEF cleanup_zombies
<1> QED BY <1>1, <1>2, <1>3, <1>4, <1>5, <1>6, <1>7, <1>8, <1>9 DEF io_thread_main

\* What libsrt does.
LEMMA LibsrtKeeps == IInv /\ Libsrt => IInv'
<1> SUFFICES ASSUME IInv, Libsrt PROVE IInv'
  OBVIOUS
<1> USE SendAssumption
<1>1. CASE LinkTakes
  BY <1>1 DEF LinkTakes, IInv, TypeOK, app, loop
<1>2. ASSUME NEW from, NEW to \in Live \cup {"Broken", "NonExist"}, NEW e \in BOOLEAN,
             LibMove(from, to, e), to = "Connecting" => stalls < MaxStalls
      PROVE  IInv'
  BY <1>2 DEF LibMove, IInv, TypeOK, app, loop
<1>3. CASE LinkBreaks
  BY <1>2, <1>3 DEF LinkBreaks
<1>4. CASE Collected
  BY <1>2, <1>4 DEF Collected
<1>5. CASE GroupUp
  BY <1>2, <1>5 DEF GroupUp, Live
<1>6. CASE GroupStalls
  BY <1>2, <1>6 DEF GroupStalls, Live
<1> QED BY <1>1, <1>3, <1>4, <1>5, <1>6 DEF Libsrt

\* A status that drops the receiver is read from a socket that is down, and a
\* socket never comes up again.
LEMMA SocketStaysGone == IInv /\ SocketGone /\ [Next]_vars => SocketGone'
<1> SUFFICES ASSUME IInv, SocketGone, [Next]_vars PROVE SocketGone'
  OBVIOUS
<1>0. entry \in State /\ entry.send_rx \in BOOLEAN /\ err \in BOOLEAN /\ batch \in BOOLEAN
  BY DEF IInv, TypeOK, State
<1>1. ASSUME UNCHANGED <<kind, phase, batch, entry, lib, err>> PROVE SocketGone'
  BY <1>1 DEF SocketGone, is_group
<1>2. CASE Task \/ App \/ LinkTakes \/ UNCHANGED vars
  <2>1. UNCHANGED <<kind, phase, batch, entry, lib, err>>
    BY <1>2 DEF Task, App, send, SendAccepted, SendFails, CancelSend, SendEnds, wait_for_state,
                WaitReturns, close, Drop, LinkTakes, app, loop, libsrt, vars
  <2> QED BY <1>1, <2>1
<1>3. ASSUME Release, batch' = batch, phase' # "write" PROVE SocketGone'
  BY <1>3 DEF Release, SocketGone, is_group
<1>4. CASE Close
  <2>1. phase' = "cmds" /\ batch' = batch /\ Release
    BY <1>4 DEF Close, loop
  <2> QED BY <1>3, <2>1
<1>5. CASE EpollWait \/ DrainEnds
  <2>1. /\ UNCHANGED <<kind, batch, entry, lib, err>> /\ phase' # "write"
    BY <1>5 DEF EpollWait, DrainEnds, AfterWrite, app, libsrt
  <2> QED BY <2>1 DEF SocketGone, is_group
<1>6. CASE ProcessOut
  <2>1. /\ kind = "caller" /\ kind' = kind /\ entry' = entry /\ lib' = lib
        /\ batch' = err /\ ~err'
    BY <1>6 DEF ProcessOut, app
  <2> QED BY <2>1 DEF SocketGone, is_group
<1>7. ASSUME NEW st \in SocketStatus, SetStatus(st), ~is_group => lib # "Connected",
             lib' = lib, kind' = kind, phase' # "write", err' => err, batch' => batch
      PROVE  SocketGone'
  BY <1>7 DEF SocketGone, is_group
<1>8. ASSUME UNCHANGED <<kind, entry, lib>>, phase' # "write", err' => err, batch' => batch
      PROVE  SocketGone'
  BY <1>8 DEF SocketGone, is_group
<1>9. CASE ProcessErr
  <2>1. /\ kind' = kind /\ lib' = lib /\ phase' # "write" /\ (err' => err) /\ (batch' => batch)
        /\ \/ entry' = entry
           \/ (batch \/ err) /\ SetStatus("Broken")
    BY <1>9, <1>0 DEF ProcessErr, app
  <2>2. "Broken" \in SocketStatus
    BY DEF SocketStatus
  <2> QED BY <1>7, <1>8, <2>1, <2>2 DEF SocketGone
<1>10. CASE SendBacklog \/ SendChannel
  <2>1. /\ UNCHANGED <<kind, batch, entry, lib, err>>
        /\ phase' \in {phase, AfterWrite}
    BY <1>10 DEF SendBacklog, SendChannel, Taken, Kept, app, libsrt
  <2> QED BY <2>1 DEF SocketGone, is_group, AfterWrite
<1>11. CASE PollState
  <2>1. /\ UNCHANGED <<kind, batch, lib, err>> /\ phase' # "write"
        /\ entry' = entry \/ SetStatus(raw_state_to_status(lib))
    BY <1>11 DEF PollState, app, libsrt
  <2>2. raw_state_to_status(lib) \in SocketStatus
    BY DEF raw_state_to_status, SocketStatus
  <2>3. CASE lib = "Connected"
    <3>1. entry'.send_rx <=> entry.send_rx
      BY <1>0, <2>1, <2>3 DEF SetStatus, update_status, raw_state_to_status, SocketStatus,
                              is_terminal_status, State
    <3> QED BY <2>1, <3>1 DEF SocketGone, is_group
  <2>4. CASE lib # "Connected"
    BY <1>7, <1>8, <2>1, <2>2, <2>4
  <2> QED BY <2>3, <2>4
<1>12. CASE cleanup_zombies
  <2>1. phase' = "cmds" /\ batch' = batch /\ (Release \/ UNCHANGED <<kind, entry, lib, err>>)
    BY <1>12 DEF cleanup_zombies, libsrt
  <2> QED BY <1>3, <1>8, <2>1
<1>13. ASSUME NEW from, NEW to, NEW e, LibMove(from, to, e),
              ~is_group => to \notin Live
       PROVE  SocketGone'
  BY <1>13 DEF LibMove, SocketGone, is_group, app, loop, Live
<1>14. CASE LinkBreaks \/ Collected \/ GroupUp \/ GroupStalls
  BY <1>13, <1>14 DEF LinkBreaks, Collected, GroupUp, GroupStalls, Live
<1> QED BY <1>2, <1>4, <1>5, <1>6, <1>9, <1>10, <1>11, <1>12, <1>14
    DEF Next, io_thread_main, Libsrt

\* The invariant holds for ever.
THEOREM Invariant == Spec => [](IInv /\ SocketGone)
<1>1. IInv /\ UNCHANGED vars => IInv'
  BY DEF vars, IInv, TypeOK
<1>2. Init => SocketGone
  BY DEF Init, SocketGone, is_group, update_status, is_terminal_status
<1> QED BY <1>1, <1>2, InitKeeps, AppKeeps, ThreadKeeps, LibsrtKeeps, SocketStaysGone, PTL
    DEF Spec, Next

\* The type invariant: the channel keeps within its capacity, libsrt's buffer
\* is never overdrawn, and at most one packet is ever held back.
THEOREM TypeCorrect == Spec => []TypeOK
BY Invariant, PTL DEF IInv

-----------------------------------------------------------------------------
(* The refinement: channel and backlog together are the queue of Fifo.     *)

\* A step that touches neither the queue nor the link is a stutter.
LEMMA Stutters ==
  ASSUME UNCHANGED <<channel, backlog, entry, lib, delivered>>
  PROVE  UNCHANGED SendQueue!vars
BY DEF SendQueue!vars, Queue

\* The application only ever puts a packet at the end of an open queue.
LEMMA AppRefines == IInv /\ (Task \/ App) => [SendQueue!Next]_SendQueue!vars
<1> SUFFICES ASSUME IInv, Task \/ App PROVE [SendQueue!Next]_SendQueue!vars
  OBVIOUS
<1>1. ASSUME NEW i \in 1..Len(waiting), SendAccepted(i) PROVE SendQueue!Next
  <2>1. /\ channel \in Seq(Packet) /\ backlog \in Seq(Packet) /\ waiting[i] \in Packet
        /\ channel' = Append(channel, waiting[i])
        /\ UNCHANGED <<backlog, entry, lib, delivered>> /\ entry.send_rx
    BY <1>1 DEF SendAccepted, libsrt, IInv, TypeOK
  <2>2. Queue' = Append(Queue, waiting[i])
    BY <2>1 DEF Queue
  <2>3. SendQueue!Put(waiting[i])
    BY <2>1, <2>2 DEF SendQueue!Put
  <2> QED BY <2>1, <2>3 DEF SendQueue!Next
<1>2. CASE send \/ close \/ Drop \/ WaitReturns
  BY <1>2, Stutters DEF send, close, Drop, WaitReturns, libsrt
<1>3. ASSUME NEW i, SendEnds(i) PROVE UNCHANGED SendQueue!vars
  BY <1>3, Stutters DEF SendEnds, libsrt
<1>4. ASSUME NEW target, wait_for_state(target) PROVE UNCHANGED SendQueue!vars
  BY <1>4, Stutters DEF wait_for_state, libsrt
<1> QED BY <1>1, <1>2, <1>3, <1>4 DEF Task, App, SendFails, CancelSend

\* Dropping the receiver, whatever else happens to the link, shuts the queue.
LEMMA Shuts ==
  ASSUME ~entry'.send_rx, entry'.send_rx \in BOOLEAN, delivered' = delivered
  PROVE  SendQueue!Next
<1>1. SendQueue!Shut
  BY DEF SendQueue!Shut
<1> QED BY <1>1 DEF SendQueue!Next

\* A status update either shuts the queue or leaves it alone.
LEMMA SetStatusRefines ==
  ASSUME IInv, NEW st \in SocketStatus, SetStatus(st), UNCHANGED <<backlog, lib, delivered>>
  PROVE  [SendQueue!Next]_SendQueue!vars
<1>1. entry' \in State /\ entry \in State /\ (entry'.send_rx => entry.send_rx /\ channel' = channel)
  BY SetStatusType DEF IInv, TypeOK, State
<1>2. entry'.send_rx \in BOOLEAN /\ entry.send_rx \in BOOLEAN
  BY <1>1 DEF State
<1>3. CASE entry'.send_rx
  BY <1>1, <1>2, <1>3 DEF SendQueue!vars, Queue
<1>4. CASE ~entry'.send_rx
  BY <1>2, <1>4, Shuts
<1> QED BY <1>3, <1>4

\* The head of backlog and channel together.
LEMMA QueueHead ==
  ASSUME IInv
  PROVE  /\ backlog # <<>> => /\ Queue # <<>> /\ Head(Queue) = Head(backlog)
                              /\ Tail(Queue) = Tail(backlog) \o channel
         /\ backlog = <<>> => Queue = channel
         /\ channel # <<>> => <<Head(channel)>> \o Tail(channel) = channel
<1>1. channel \in Seq(Packet) /\ backlog \in Seq(Packet)
  BY DEF IInv, TypeOK
<1>2. ASSUME backlog # <<>>
      PROVE  /\ Queue # <<>> /\ Head(Queue) = Head(backlog)
             /\ Tail(Queue) = Tail(backlog) \o channel
  BY <1>1, <1>2 DEF Queue
<1>3. backlog = <<>> => Queue = channel
  BY <1>1 DEF Queue
<1>4. channel # <<>> => <<Head(channel)>> \o Tail(channel) = channel
  BY <1>1
<1> QED BY <1>2, <1>3, <1>4

\* What srt_sendmsg2 says of a packet is what Fifo asks of the link.
LEMMA Verdict ==
  ASSUME IInv, NEW p
  PROVE  /\ srt_sendmsg2(p) = "Ok" => lib = "Connected"
         /\ srt_sendmsg2(p) \notin {"Ok", "AsyncSend"} => lib # "Connected" \/ p \in Oversized
BY DEF srt_sendmsg2, is_terminal_status, IInv, TypeOK, Live

\* The srt-io thread takes packets off the head only, hands each to libsrt or
\* loses it for a reason, and otherwise shuts the queue or leaves it alone.
LEMMA ThreadRefines == IInv /\ SocketGone /\ io_thread_main => [SendQueue!Next]_SendQueue!vars
<1> SUFFICES ASSUME IInv, SocketGone, io_thread_main PROVE [SendQueue!Next]_SendQueue!vars
  OBVIOUS
<1>0. entry \in State /\ entry.send_rx \in BOOLEAN /\ channel \in Seq(Packet) /\ backlog \in Seq(Packet)
  BY DEF IInv, TypeOK, State
<1>1. ASSUME Release PROVE SendQueue!Next
  <2>1. ~entry'.send_rx /\ entry'.send_rx \in BOOLEAN /\ delivered' = delivered
    BY <1>1, ReleaseType DEF Release, State
  <2> QED BY <2>1, Shuts
<1>2. CASE EpollWait \/ ProcessOut \/ DrainEnds
  BY <1>2, Stutters DEF EpollWait, ProcessOut, DrainEnds, libsrt
<1>3. CASE ProcessErr
  <2>1. CASE SetStatus("Broken")
    BY <1>3, <2>1, SetStatusRefines DEF ProcessErr, SocketStatus
  <2>2. CASE UNCHANGED <<entry, channel>>
    BY <1>3, <2>2, Stutters DEF ProcessErr
  <2> QED BY <1>3, <2>1, <2>2 DEF ProcessErr
<1>4. CASE PollState
  <2>1. raw_state_to_status(lib) \in SocketStatus
    BY DEF raw_state_to_status, SocketStatus
  <2>2. CASE SetStatus(raw_state_to_status(lib))
    BY <1>4, <2>1, <2>2, SetStatusRefines DEF PollState, libsrt
  <2>3. CASE UNCHANGED <<entry, channel>>
    BY <1>4, <2>3, Stutters DEF PollState, libsrt
  <2> QED BY <1>4, <2>2, <2>3 DEF PollState
<1>5. CASE SendBacklog
  <2> DEFINE p == Head(backlog)
  <2>1. /\ backlog # <<>> /\ channel' = channel /\ entry' = entry /\ lib' = lib
        /\ \/ srt_sendmsg2(p) = "Ok" /\ delivered' = Append(delivered, p) /\ backlog' = Tail(backlog)
           \/ srt_sendmsg2(p) = "AsyncSend" /\ delivered' = delivered /\ backlog' = backlog
           \/ /\ srt_sendmsg2(p) \notin {"Ok", "AsyncSend"} /\ delivered' = delivered
              /\ backlog' = Tail(backlog)
    BY <1>5 DEF SendBacklog, Taken, Kept, libsrt
  <2>2. Queue # <<>> /\ Head(Queue) = p /\ Tail(Queue) = Tail(backlog) \o channel
    BY <2>1, QueueHead
  <2>6. CASE ~entry.send_rx
    <3>1. lib # "Connected"
      BY <1>5, <2>6 DEF SendBacklog, Writing, Drains, SocketGone
    <3>2. delivered' = delivered
      BY <2>1, <3>1, Verdict
    <3> QED BY <2>1, <2>6, <3>2 DEF SendQueue!vars
  <2>3. CASE entry.send_rx /\ srt_sendmsg2(p) = "Ok"
    <3>1. Queue' = Tail(Queue) /\ delivered' = Append(delivered, Head(Queue)) /\ lib = "Connected"
      BY <2>1, <2>2, <2>3, Verdict DEF Queue
    <3>2. SendQueue!Transmit
      BY <2>1, <2>2, <2>3, <3>1 DEF SendQueue!Transmit
    <3> QED BY <3>2 DEF SendQueue!Next
  <2>4. CASE srt_sendmsg2(p) = "AsyncSend"
    BY <2>1, <2>4, Stutters
  <2>5. CASE entry.send_rx /\ srt_sendmsg2(p) \notin {"Ok", "AsyncSend"}
    <3>1. Queue' = Tail(Queue) /\ (lib # "Connected" \/ Head(Queue) \in Oversized)
      BY <2>1, <2>2, <2>5, Verdict DEF Queue
    <3>2. SendQueue!Lose
      BY <2>1, <2>2, <2>5, <3>1 DEF SendQueue!Lose
    <3> QED BY <3>2 DEF SendQueue!Next
  <2> QED BY <2>3, <2>4, <2>5, <2>6
<1>6. CASE SendChannel
  <2> DEFINE p == Head(channel)
  <2>1. /\ entry.send_rx /\ backlog = <<>> /\ channel # <<>> /\ entry' = entry /\ lib' = lib
        /\ channel' = Tail(channel)
        /\ \/ srt_sendmsg2(p) = "Ok" /\ delivered' = Append(delivered, p) /\ backlog' = backlog
           \/ srt_sendmsg2(p) = "AsyncSend" /\ delivered' = delivered /\ backlog' = <<p>>
           \/ /\ srt_sendmsg2(p) \notin {"Ok", "AsyncSend"} /\ delivered' = delivered
              /\ backlog' = <<>>
    BY <1>6 DEF SendChannel, Taken, Kept, libsrt
  <2>2. Queue = channel /\ Tail(channel) \in Seq(Packet)
    BY <1>0, <2>1, QueueHead
  <2>3. CASE srt_sendmsg2(p) = "Ok"
    <3>1. Queue' = Tail(Queue) /\ lib = "Connected"
      BY <2>1, <2>2, <2>3, Verdict DEF Queue
    <3>2. SendQueue!Transmit
      BY <2>1, <2>2, <2>3, <3>1 DEF SendQueue!Transmit
    <3> QED BY <3>2 DEF SendQueue!Next
  <2>4. CASE srt_sendmsg2(p) = "AsyncSend"
    <3>1. Queue' = Queue
      BY <2>1, <2>2, <2>4, QueueHead DEF Queue
    <3> QED BY <2>1, <2>4, <3>1 DEF SendQueue!vars
  <2>5. CASE srt_sendmsg2(p) \notin {"Ok", "AsyncSend"}
    <3>1. Queue' = Tail(Queue) /\ (lib # "Connected" \/ Head(Queue) \in Oversized)
      BY <2>1, <2>2, <2>5, Verdict DEF Queue
    <3>2. SendQueue!Lose
      BY <2>1, <2>2, <2>5, <3>1 DEF SendQueue!Lose
    <3> QED BY <3>2 DEF SendQueue!Next
  <2> QED BY <2>3, <2>4, <2>5
<1>7. CASE Close
  BY <1>1, <1>7 DEF Close
<1>8. CASE cleanup_zombies
  BY <1>1, <1>8, Stutters DEF cleanup_zombies, libsrt
<1> QED BY <1>2, <1>3, <1>4, <1>5, <1>6, <1>7, <1>8 DEF io_thread_main

\* The link goes up and down without touching the queue.
LEMMA LibsrtRefines == Libsrt => [SendQueue!Next]_SendQueue!vars
<1>1. ASSUME NEW from, NEW to, NEW e, LibMove(from, to, e) PROVE SendQueue!Next
  <2>1. SendQueue!Link
    BY <1>1 DEF LibMove, SendQueue!Link, Queue
  <2> QED BY <2>1 DEF SendQueue!Next
<1>2. LinkTakes => UNCHANGED SendQueue!vars
  BY Stutters DEF LinkTakes
<1> QED BY <1>1, <1>2 DEF Libsrt, LinkBreaks, Collected, GroupUp, GroupStalls

\* The send direction implements the lossy FIFO, whatever the interleaving of
\* calls, would-blocks, stalls, errors, polls, closes and the reaper: packets
\* leave in the order they were accepted, once, and one is lost alone only
\* when the link is down or refuses it for its size.
THEOREM SendIsFifo == Spec => IsFifo
<1>1. Init => SendQueue!Init
  <2> SUFFICES ASSUME Init PROVE SendQueue!Init
    OBVIOUS
  <2>1. entry.send_rx \in BOOLEAN
    BY InitKeeps DEF IInv, TypeOK
  <2>2. Queue = <<>>
    BY DEF Init, Queue
  <2> QED BY <2>1, <2>2 DEF Init, SendQueue!Init
<1>2. UNCHANGED vars => UNCHANGED SendQueue!vars
  BY Stutters DEF vars
<1>3. IInv /\ SocketGone /\ [Next]_vars => [SendQueue!Next]_SendQueue!vars
  BY <1>2, AppRefines, ThreadRefines, LibsrtRefines DEF Next
<1> QED BY <1>1, <1>3, Invariant, PTL DEF Spec, IsFifo, SendQueue!Spec

=============================================================================
