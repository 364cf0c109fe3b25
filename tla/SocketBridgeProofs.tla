------------------------- MODULE SocketBridgeProofs -------------------------
(***************************************************************************)
(* Proofs about SocketBridge, for any set of sockets and any poll          *)
(* interval.                                                               *)
(***************************************************************************)
EXTENDS SocketBridge, TLAPS

\* What update_status returns is again the state of a socket.
LEMMA UpdateStatusType ==
  ASSUME NEW e \in SocketState, NEW st \in SocketStatus
  PROVE  update_status(e, st) \in SocketState
BY DEF update_status, SocketState

\* Whatever libsrt's state, what is read of it is a status.
LEMMA GetsockstateType == \A x : getsockstate(x) \in SocketStatus
BY DEF getsockstate, raw_state_to_status, SocketStatus

\* An answer delivered to some futures leaves a reply for each.
LEMMA DeliverType ==
  ASSUME TypeOK, NEW S, NEW a \in {"Ok", "Err"}, Deliver(S, a)
  PROVE  reply' \in [Sockets -> {"none", "Ok", "Err"}]
BY DEF TypeOK, Deliver

\* Taking a command off the channel.
LEMMA ReceivedType ==
  ASSUME TypeOK, NEW op, NEW s \in Sockets, Received(op, s)
  PROVE  cmds' \in Seq(Command)
BY DEF TypeOK, Received

\* Closing a set of sockets keeps every type.
LEMMA CloseType ==
  ASSUME TypeOK, NEW S, close_and_release(S)
  PROVE  /\ lib' \in [Sockets -> LibState]
         /\ subscribed' \in [Sockets -> SUBSET Event]
         /\ ready' \in [Sockets -> SUBSET Event]
         /\ sockets' \in SUBSET Sockets
         /\ entry' \in [Sockets -> SocketState]
<1>1. entry' \in [Sockets -> SocketState]
  BY DEF TypeOK, close_and_release, SocketState
<1> QED BY <1>1 DEF TypeOK, close_and_release, LibState, LibDead

\* A move of libsrt's, to a state the caller names.
LEMMA LibMoveType ==
  ASSUME TypeOK, NEW s \in Sockets, NEW from, NEW to \in LibState, NEW events,
         LibMove(s, from, to, events)
  PROVE  TypeOK'
BY DEF TypeOK, LibMove, tokio, loop

\* A step of the future that sends a command.
LEMMA AdvanceType ==
  ASSUME TypeOK, NEW s \in Sockets, NEW from, NEW to \in TaskState,
         NEW op \in {"CreateSocket", "RegisterSocket", "Bind", "Connect",
                     "GetAddr", "Close"},
         Advance(s, from, to, op)
  PROVE  TypeOK'
<1>1. Cmd(op, s) \in Command
  BY DEF Cmd, Command
<1>2. cmds' \in Seq(Command)
  BY <1>1 DEF TypeOK, Advance, send_command
<1> QED BY <1>2 DEF TypeOK, Advance, libsrt, loop

\* Every variable starts in its range.
LEMMA TypeInit == Init => TypeOK
<1> SUFFICES ASSUME Init PROVE TypeOK
  OBVIOUS
<1>1. 0 \in 0..(STATE_POLL_INTERVAL - 1)
  BY PollAssumption
<1>2. entry \in [Sockets -> SocketState]
  BY DEF Init, SocketState, SocketStatus
<1>3. cmds \in Seq(Command)
  BY DEF Init
<1>4. task \in [Sockets -> TaskState] /\ lib \in [Sockets -> LibState]
  BY DEF Init, TaskState, LibState
<1> QED BY <1>1, <1>2, <1>3, <1>4 DEF Init, TypeOK

\* Every step keeps every variable in its range.
LEMMA TypeStep == TypeOK /\ [Next]_vars => TypeOK'
<1> SUFFICES ASSUME TypeOK, [Next]_vars PROVE TypeOK'
  OBVIOUS
<1> USE PollAssumption
<1>1. ASSUME NEW s \in Sockets, Task(s) PROVE TypeOK'
  <2>1. CASE Created(s)
    BY <2>1, AdvanceType DEF Created, TypeOK, TaskState, Awaiting, Ended, libsrt, loop
  <2>2. CASE Registered(s) \/ Bound(s) \/ ConnectAnswered(s) \/ ConnectTimeout(s)
    BY <2>2, AdvanceType DEF Registered, Bound, ConnectAnswered, ConnectTimeout,
                             TaskState, Awaiting, Ended
  <2>3. CASE AddrsAnswered(s)
    BY <2>3 DEF AddrsAnswered, TypeOK, TaskState, libsrt, loop
  <2> QED BY <1>1, <2>1, <2>2, <2>3 DEF Task
<1>2. ASSUME NEW s \in Sockets, App(s) PROVE TypeOK'
  <2>1. CASE Cancel(s)
    BY <2>1 DEF Cancel, TypeOK, TaskState, Ended, libsrt, loop
  <2>2. CASE connect(s) \/ close(s) \/ Drop(s)
    BY <2>2, AdvanceType DEF connect, close, Drop, TaskState, Awaiting, Ended
  <2> QED BY <1>2, <2>1, <2>2 DEF App
<1>3. ASSUME NEW s \in Sockets, Libsrt(s) PROVE TypeOK'
  BY <1>3, LibMoveType DEF Libsrt, HandshakeMidway, HandshakeDone, HandshakeFails,
       LinkBreaks, GarbageCollect, LibState, LibAlive, LibDead
<1>4. ASSUME NEW s \in Sockets, process_command(s) PROVE TypeOK'
  <2>1. CASE CreateSocket(s)
    BY <2>1, ReceivedType, DeliverType
       DEF CreateSocket, Received, TypeOK, loop, LibState, LibAlive
  <2>2. CASE RegisterSocket(s)
    <3> DEFINE e == [entry[s] EXCEPT !.recv_tx = TRUE, !.send_rx = TRUE]
    <3>1. e \in SocketState
      BY DEF TypeOK, SocketState
    <3>2. entry' \in [Sockets -> SocketState]
      BY <2>2, <3>1, UpdateStatusType, GetsockstateType DEF RegisterSocket, TypeOK
    <3> QED BY <2>2, <3>2, ReceivedType
               DEF RegisterSocket, Received, TypeOK, libsrt, loop
  <2>3. CASE Bind(s)
    BY <2>3, ReceivedType, DeliverType
       DEF Bind, Received, TypeOK, loop, LibState, LibAlive
  <2>4. CASE ConnectRefused(s) \/ GetAddr(s)
    BY <2>4, ReceivedType, DeliverType
       DEF ConnectRefused, GetAddr, Received, TypeOK, libsrt, loop
  <2>5. ASSUME NEW x \in {"Connecting", "Midway", "Connected", "Broken"},
               ConnectStarted(s, x)
        PROVE  TypeOK'
    <3> DEFINE e == [entry[s] EXCEPT !.connect_reply = TRUE]
    <3>1. e \in SocketState
      BY DEF TypeOK, SocketState
    <3>2. entry' \in [Sockets -> SocketState]
      BY <2>5, <3>1, UpdateStatusType, GetsockstateType DEF ConnectStarted, TypeOK
    <3>3. reply' \in [Sockets -> {"none", "Ok", "Err"}]
      BY <2>5, DeliverType DEF ConnectStarted, TypeOK
    <3>4. /\ lib' \in [Sockets -> LibState]
          /\ subscribed' \in [Sockets -> SUBSET Event]
      BY <2>5 DEF ConnectStarted, TypeOK, LibState, LibAlive, LibDead, Event
    <3> QED BY <2>5, <3>2, <3>3, <3>4, ReceivedType
               DEF ConnectStarted, Received, TypeOK, loop
  <2>6. CASE Close(s)
    BY <2>6, ReceivedType, DeliverType, CloseType DEF Close, Received, TypeOK, loop
  <2> QED BY <1>4, <2>1, <2>2, <2>3, <2>4, <2>5, <2>6 DEF process_command, Connect
<1>5. CASE EpollWait
  BY <1>5 DEF EpollWait, TypeOK, tokio
<1>6. ASSUME NEW s \in Sockets, ProcessEvent(s) PROVE TypeOK'
  <2> DEFINE e == [entry[s] EXCEPT !.connect_reply = FALSE]
  <2>1. e \in SocketState /\ entry[s] \in SocketState
    BY DEF TypeOK, SocketState
  <2>2. \A st \in {"Connected", "Broken"} : update_status(e, st) \in SocketState
    BY <2>1, UpdateStatusType DEF SocketStatus
  <2>3. \A f \in SocketState : update_status(f, "Broken") \in SocketState
    BY UpdateStatusType DEF SocketStatus
  <2>4. entry' \in [Sockets -> SocketState]
    BY <1>6, <2>1, <2>2, <2>3 DEF ProcessEvent, TypeOK
  <2> QED BY <1>6, <2>4, DeliverType DEF ProcessEvent, TypeOK, libsrt
<1>7. CASE EndEvents
  BY <1>7 DEF EndEvents, TypeOK, tokio, libsrt
<1>8. ASSUME NEW s \in Sockets, PollState(s) PROVE TypeOK'
  <2> DEFINE e == [entry[s] EXCEPT !.connect_reply = FALSE]
  <2>1. e \in SocketState /\ entry[s] \in SocketState
    BY DEF TypeOK, SocketState
  <2>2. entry' \in [Sockets -> SocketState]
    BY <1>8, <2>1, UpdateStatusType, GetsockstateType DEF PollState, TypeOK
  <2> QED BY <1>8, <2>2, DeliverType DEF PollState, TypeOK, libsrt
<1>9. CASE cleanup_zombies
  BY <1>9, CloseType, DeliverType DEF cleanup_zombies, TypeOK
<1>10. CASE UNCHANGED vars
  BY <1>10 DEF TypeOK, vars
<1> QED BY <1>1, <1>2, <1>3, <1>4, <1>5, <1>6, <1>7, <1>8, <1>9, <1>10
           DEF Next, io_thread_main

\* The type invariant: every step of the future, the handle, the srt-io
\* thread and libsrt keeps every variable in its range; in particular the
\* poll counter never reaches the interval.
THEOREM TypeCorrect == Spec => []TypeOK
BY TypeInit, TypeStep, PTL DEF Spec

-----------------------------------------------------------------------------
(* The inductive invariant. What the command channel still holds for a     *)
(* socket agrees with where its future is: a command that wants an answer  *)
(* is on the channel at most once, and only while its future awaits it     *)
(* unanswered, or has given up on it; so is a connect reply the bridge     *)
(* holds, and never beside its own Connect command.                        *)

Asks == {"CreateSocket", "Bind", "Connect", "GetAddr"}
AwaitOf(op) == CASE op = "CreateSocket" -> "creating"
                 [] op = "Bind" -> "binding"
                 [] op = "Connect" -> "connecting"
                 [] OTHER -> "addrs"

OneAsk == \A i, j \in 1..Len(cmds) :
            cmds[i] = cmds[j] /\ cmds[i].op \in Asks => i = j

AskAwaited == \A s \in Sockets, op \in Asks :
                Queued(op, s) => \/ task[s] = "cancelled"
                                 \/ task[s] = "failed" /\ op = "Connect"
                                 \/ task[s] = AwaitOf(op) /\ reply[s] = "none"

ReplyAwaited == \A s \in Sockets : entry[s].connect_reply =>
                  /\ ~Queued("Connect", s)
                  /\ \/ task[s] \in {"cancelled", "failed"}
                     \/ task[s] = "connecting" /\ reply[s] = "none"

\* No libsrt socket before its creation has been answered.
Unborn == \A s \in Sockets :
            task[s] = "idle" \/ (task[s] = "creating" /\ reply[s] # "Ok") =>
              lib[s] = "None"

IInv == /\ TypeOK
        /\ OneAsk
        /\ AskAwaited
        /\ ReplyAwaited
        /\ Unborn
        /\ NoLeak
        /\ OkMeansConnected

\* Sending adds one command and keeps the others.
LEMMA SentQueued ==
  ASSUME TypeOK, NEW op, NEW s \in Sockets, send_command(op, s)
  PROVE  \A o, x : Queued(o, x)' <=> Queued(o, x) \/ (o = op /\ x = s)
<1>1. /\ Len(cmds') = Len(cmds) + 1
      /\ \A i \in 1..Len(cmds) : cmds'[i] = cmds[i]
      /\ cmds'[Len(cmds) + 1] = Cmd(op, s)
      /\ Len(cmds) \in Nat
  BY DEF TypeOK, send_command
<1>2. \A o, x : Cmd(o, x) = Cmd(op, s) <=> o = op /\ x = s
  BY DEF Cmd
<1> QED BY <1>1, <1>2 DEF Queued

\* Receiving takes off exactly the head.
LEMMA ReceivedQueued ==
  ASSUME TypeOK, NEW op, NEW s \in Sockets, Received(op, s)
  PROVE  /\ Queued(op, s)
         /\ \A o, x : Queued(o, x)' => Queued(o, x)
         /\ \A o, x : Queued(o, x) /\ ~(o = op /\ x = s) => Queued(o, x)'
         /\ OneAsk /\ op \in Asks => ~Queued(op, s)'
<1>1. /\ Len(cmds) \in Nat \ {0}
      /\ Len(cmds') = Len(cmds) - 1
      /\ \A i \in 1..Len(cmds') : cmds'[i] = cmds[i + 1]
      /\ cmds[1] = Cmd(op, s)
  BY DEF TypeOK, Received
<1>2. Queued(op, s)
  BY <1>1 DEF Queued
<1>3. \A o, x : Queued(o, x)' => Queued(o, x)
  BY <1>1 DEF Queued
<1>4. ASSUME NEW o, NEW x, Queued(o, x), ~(o = op /\ x = s)
      PROVE  Queued(o, x)'
  <2>1. PICK i \in 1..Len(cmds) : cmds[i] = Cmd(o, x)
    BY <1>4 DEF Queued
  <2>2. i # 1
    BY <1>1, <1>4, <2>1 DEF Cmd
  <2>3. i - 1 \in 1..Len(cmds') /\ cmds'[i - 1] = cmds[i]
    BY <1>1, <2>2
  <2> QED BY <2>1, <2>3 DEF Queued
<1>5. ASSUME OneAsk, op \in Asks, Queued(op, s)' PROVE FALSE
  <2>1. PICK i \in 1..Len(cmds') : cmds'[i] = Cmd(op, s)
    BY <1>5 DEF Queued
  <2>2. i + 1 \in 1..Len(cmds) /\ cmds[i + 1] = cmds[1] /\ cmds[1].op = op
    BY <1>1, <2>1 DEF Cmd
  <2> QED BY <1>1, <1>5, <2>2 DEF OneAsk
<1> QED BY <1>2, <1>3, <1>4, <1>5

\* Receiving keeps the questions apart; so does asking a new one.
LEMMA OneAskKept ==
  ASSUME TypeOK, OneAsk, NEW op, NEW s \in Sockets,
         \/ Received(op, s)
         \/ send_command(op, s) /\ (op \in Asks => ~Queued(op, s))
  PROVE  OneAsk'
<1>1. CASE Received(op, s)
  <2>1. /\ Len(cmds) \in Nat \ {0}
        /\ Len(cmds') = Len(cmds) - 1
        /\ \A i \in 1..Len(cmds') : cmds'[i] = cmds[i + 1]
    BY <1>1 DEF TypeOK, Received
  <2> QED BY <2>1 DEF OneAsk
<1>2. CASE send_command(op, s) /\ (op \in Asks => ~Queued(op, s))
  <2>1. /\ Len(cmds') = Len(cmds) + 1
        /\ \A i \in 1..Len(cmds) : cmds'[i] = cmds[i]
        /\ cmds'[Len(cmds) + 1] = Cmd(op, s)
        /\ Len(cmds) \in Nat
    BY <1>2 DEF TypeOK, send_command
  <2>2. \A i \in 1..Len(cmds) : cmds[i] = Cmd(op, s) => op \notin Asks
    BY <1>2 DEF Queued
  <2>3. Cmd(op, s).op = op
    BY DEF Cmd
  <2> QED BY <2>1, <2>2, <2>3 DEF OneAsk
<1> QED BY <1>1, <1>2

\* A step of a future that sends a command keeps the invariant, given what
\* every use of Advance satisfies: it leaves no question of its own behind,
\* it asks what it will await, and it ends only with a Close.
LEMMA AdvanceKeeps ==
  ASSUME IInv, NEW s \in Sockets, NEW from, NEW to \in TaskState \ {"idle", "cancelled"},
         NEW op \in {"CreateSocket", "RegisterSocket", "Bind", "Connect",
                     "GetAddr", "Close"},
         Advance(s, from, to, op),
         from \notin {"cancelled", "failed"},
         from \in {"creating", "binding", "addrs"} => reply[s] # "none",
         from = "connecting" /\ reply[s] = "none" => to = "failed",
         op \in Asks => to = AwaitOf(op),
         to = "creating" => from = "idle",
         to = "connecting" => op = "Connect",
         to \in {"failed", "dropped"} => op = "Close"
  PROVE  IInv'
<1> USE DEF IInv
<1>1. TypeOK'
  BY AdvanceType
<1>2. /\ task[s] = from /\ task' = [task EXCEPT ![s] = to]
      /\ reply' = [reply EXCEPT ![s] = "none"]
      /\ send_command(op, s)
      /\ lib' = lib /\ entry' = entry
  BY DEF Advance, libsrt
<1>3. \A o, x : Queued(o, x)' <=> Queued(o, x) \/ (o = op /\ x = s)
  BY <1>2, SentQueued
<1>4. \A o \in Asks : Queued(o, s) => o = "Connect" /\ to = "failed"
  BY <1>2 DEF AskAwaited, Asks, AwaitOf
<1>5. OneAsk'
  BY <1>2, <1>4, OneAskKept DEF Asks, AwaitOf
<1>6. AskAwaited'
  BY <1>2, <1>3, <1>4 DEF AskAwaited, TypeOK
<1>11. ReplyAwaited'
  <2>1. entry[s].connect_reply => to = "failed"
    BY <1>2 DEF ReplyAwaited
  <2> QED BY <1>2, <1>3, <2>1 DEF ReplyAwaited, TypeOK, Asks
<1>7. Unborn'
  BY <1>2 DEF Unborn, TypeOK
<1>8. NoLeak'
  BY <1>2, <1>3 DEF NoLeak, TypeOK
<1>10. OkMeansConnected'
  BY <1>2 DEF OkMeansConnected, TypeOK
<1> QED BY <1>1, <1>5, <1>6, <1>7, <1>8, <1>10, <1>11

\* The futures keep the invariant.
LEMMA TaskKeeps ==
  ASSUME IInv, TypeOK', NEW s \in Sockets, Task(s) \/ App(s)
  PROVE  IInv'
<1> USE DEF TaskState, Awaiting, Ended, Asks, AwaitOf
<1>1. CASE Created(s)
  <2>1. CASE reply[s] = "Ok" /\ Advance(s, "creating", "registered", "RegisterSocket")
    BY <2>1, AdvanceKeeps
  <2>2. CASE task[s] = "creating" /\ reply[s] = "Err" /\ task' = [task EXCEPT ![s] = "failed"]
             /\ UNCHANGED <<reply, cmds, libsrt, sockets, entry, loop>>
    <3>1. lib' = lib /\ entry' = entry /\ cmds' = cmds /\ reply' = reply /\ lib[s] = "None"
      BY <2>2 DEF libsrt, IInv, Unborn
    <3>2. \A o, x : Queued(o, x)' <=> Queued(o, x)
      BY <3>1 DEF Queued
    <3>3. OneAsk'
      BY <3>1 DEF IInv, OneAsk
    <3>4. AskAwaited' /\ ReplyAwaited' /\ Unborn'
      BY <2>2, <3>1, <3>2 DEF IInv, AskAwaited, ReplyAwaited, Unborn, TypeOK
    <3>5. NoLeak' /\ OkMeansConnected'
      BY <2>2, <3>1, <3>2 DEF IInv, NoLeak, OkMeansConnected, TypeOK, LibAlive
    <3> QED BY <3>3, <3>4, <3>5 DEF IInv
  <2> QED BY <1>1, <2>1, <2>2 DEF Created
<1>2. CASE Registered(s)
  BY <1>2, AdvanceKeeps DEF Registered
<1>3. CASE Bound(s)
  BY <1>3, AdvanceKeeps DEF Bound
<1>4. CASE ConnectAnswered(s)
  BY <1>4, AdvanceKeeps DEF ConnectAnswered
<1>5. CASE ConnectTimeout(s)
  BY <1>5, AdvanceKeeps DEF ConnectTimeout
<1>6. CASE connect(s)
  BY <1>6, AdvanceKeeps DEF connect
<1>7. CASE close(s)
  BY <1>7, AdvanceKeeps DEF close
<1>8. CASE Drop(s)
  BY <1>8, AdvanceKeeps DEF Drop
<1>9. CASE AddrsAnswered(s) \/ Cancel(s)
  <2>1. /\ lib' = lib /\ entry' = entry /\ cmds' = cmds /\ reply' = reply
        /\ task' \in {[task EXCEPT ![s] = "open"], [task EXCEPT ![s] = "cancelled"]}
        /\ \/ task[s] = "addrs" /\ reply[s] # "none"
           \/ task' = [task EXCEPT ![s] = "cancelled"]
    BY <1>9 DEF AddrsAnswered, Cancel, libsrt
  <2>2. \A o, x : Queued(o, x)' <=> Queued(o, x)
    BY <2>1 DEF Queued
  <2>3. OneAsk'
    BY <2>1 DEF IInv, OneAsk
  <2>4. AskAwaited' /\ ReplyAwaited' /\ Unborn'
    BY <2>1, <2>2 DEF IInv, AskAwaited, ReplyAwaited, Unborn, TypeOK
  <2>5. NoLeak' /\ OkMeansConnected'
    BY <2>1, <2>2 DEF IInv, NoLeak, OkMeansConnected, TypeOK
  <2> QED BY <2>3, <2>4, <2>5 DEF IInv
<1> QED BY <1>1, <1>2, <1>3, <1>4, <1>5, <1>6, <1>7, <1>8, <1>9 DEF Task, App

\* libsrt keeps the invariant: it brings no closed socket back, and undoes a
\* connection only by breaking it.
LEMMA LibKeeps ==
  ASSUME IInv, TypeOK', NEW s \in Sockets, Libsrt(s)
  PROVE  IInv'
<1>1. PICK from, to : /\ lib[s] \in from /\ lib' = [lib EXCEPT ![s] = to]
                      /\ task' = task /\ reply' = reply /\ cmds' = cmds /\ entry' = entry
                      /\ "None" \notin from
                      /\ to \in LibAlive => from \subseteq LibAlive
                      /\ to \in LibDead \/ from \cap ({"Connected"} \cup LibDead) = {}
  BY DEF Libsrt, LibMove, HandshakeMidway, HandshakeDone, HandshakeFails, LinkBreaks,
         GarbageCollect, LibAlive, LibDead, tokio
<1>2. \A o, x : Queued(o, x)' <=> Queued(o, x)
  BY <1>1 DEF Queued
<1>3. OneAsk'
  BY <1>1 DEF IInv, OneAsk
<1>4. AskAwaited' /\ ReplyAwaited' /\ Unborn'
  BY <1>1, <1>2 DEF IInv, AskAwaited, ReplyAwaited, Unborn, TypeOK
<1>5. NoLeak' /\ OkMeansConnected'
  BY <1>1, <1>2 DEF IInv, NoLeak, OkMeansConnected, TypeOK
<1> QED BY <1>3, <1>4, <1>5 DEF IInv

\* A status update never lets go of the connect reply.
LEMMA UpdateStatusReply ==
  ASSUME NEW e \in SocketState, NEW st
  PROVE  update_status(e, st).connect_reply = e.connect_reply
BY DEF update_status, SocketState

\* The srt-io thread keeps the invariant while it carries out a command.
LEMMA CommandKeeps ==
  ASSUME IInv, TypeOK', NEW s \in Sockets, process_command(s)
  PROVE  IInv'
<1>0. PICK op : Received(op, s)
  BY DEF process_command, CreateSocket, RegisterSocket, Bind, Connect, ConnectRefused,
         ConnectStarted, GetAddr, Close
<1>1. task' = task
  BY <1>0 DEF Received
<1>2. OneAsk'
  BY <1>0, OneAskKept DEF IInv
<1> DEFINE Took(o) ==
             /\ Queued(o, s)
             /\ \A p, x : Queued(p, x)' => Queued(p, x)
             /\ \A p, x : Queued(p, x) /\ ~(p = o /\ x = s) => Queued(p, x)'
             /\ o \in Asks => ~Queued(o, s)'
<1>3. ASSUME NEW o, Received(o, s) PROVE Took(o)
  BY <1>3, ReceivedQueued DEF IInv
<1> HIDE DEF Took
<1>4. CASE CreateSocket(s)
  <2>1. /\ Took("CreateSocket") /\ entry' = entry
        /\ \/ lib' = [lib EXCEPT ![s] = "Init"] /\ Deliver({s}, "Ok")
           \/ lib' = lib /\ Deliver({s}, "Err")
    BY <1>3, <1>4 DEF CreateSocket
  <2>2. task[s] = "cancelled" \/ (task[s] = "creating" /\ reply[s] = "none")
    BY <2>1 DEF Took, IInv, AskAwaited, Asks, AwaitOf
  <2>3. AskAwaited'
    BY <1>1, <2>1, <2>2 DEF Took, IInv, AskAwaited, Asks, AwaitOf, Deliver
  <2>4. ReplyAwaited' /\ Unborn'
    BY <1>1, <2>1, <2>2 DEF Took, IInv, ReplyAwaited, Unborn, Deliver, Awaiting, TypeOK
  <2>5. NoLeak' /\ OkMeansConnected'
    BY <1>1, <2>1, <2>2
       DEF Took, IInv, NoLeak, OkMeansConnected, Deliver, TypeOK
  <2> QED BY <1>2, <2>3, <2>4, <2>5 DEF IInv
<1>5. CASE RegisterSocket(s)
  <2>1. Took("RegisterSocket") /\ reply' = reply /\ lib' = lib
    BY <1>3, <1>5 DEF RegisterSocket, libsrt
  <2>2. \A x \in Sockets : entry'[x].connect_reply = entry[x].connect_reply
    <3> DEFINE e == [entry[s] EXCEPT !.recv_tx = TRUE, !.send_rx = TRUE]
    <3>0. entry[s] \in SocketState
      BY DEF IInv, TypeOK
    <3>1. e \in SocketState /\ e.connect_reply = entry[s].connect_reply
      BY <3>0 DEF SocketState
    <3>2. \A st : update_status(e, st).connect_reply = e.connect_reply
      BY <3>1, UpdateStatusReply
    <3> QED BY <1>5, <3>1, <3>2 DEF RegisterSocket, IInv, TypeOK
  <2>3. AskAwaited' /\ ReplyAwaited' /\ Unborn'
    BY <1>1, <2>1, <2>2 DEF Took, IInv, AskAwaited, ReplyAwaited, Unborn
  <2>4. NoLeak' /\ OkMeansConnected'
    BY <1>1, <2>1, <2>2 DEF Took, IInv, NoLeak, OkMeansConnected
  <2> QED BY <1>2, <2>3, <2>4 DEF IInv
<1>6. CASE Bind(s)
  <2>1. /\ Took("Bind") /\ entry' = entry
        /\ Deliver({s}, "Ok") \/ Deliver({s}, "Err")
        /\ lib' = lib \/ (lib[s] = "Init" /\ lib' = [lib EXCEPT ![s] = "Opened"])
    BY <1>3, <1>6 DEF Bind
  <2>2. task[s] = "cancelled" \/ (task[s] = "binding" /\ reply[s] = "none")
    BY <2>1 DEF Took, IInv, AskAwaited, Asks, AwaitOf
  <2>3. AskAwaited'
    BY <1>1, <2>1, <2>2 DEF Took, IInv, AskAwaited, Asks, AwaitOf, Deliver
  <2>4. ReplyAwaited' /\ Unborn'
    BY <1>1, <2>1, <2>2 DEF Took, IInv, ReplyAwaited, Unborn, Deliver, TypeOK
  <2>5. NoLeak' /\ OkMeansConnected'
    BY <1>1, <2>1, <2>2
       DEF Took, IInv, NoLeak, OkMeansConnected, Deliver, TypeOK, LibAlive
  <2> QED BY <1>2, <2>3, <2>4, <2>5 DEF IInv
<1>7. CASE GetAddr(s)
  <2>1. Took("GetAddr") /\ entry' = entry /\ lib' = lib /\ Deliver({s}, "Ok")
    BY <1>3, <1>7 DEF GetAddr, libsrt
  <2>2. task[s] = "cancelled" \/ (task[s] = "addrs" /\ reply[s] = "none")
    BY <2>1 DEF Took, IInv, AskAwaited, Asks, AwaitOf
  <2>3. AskAwaited'
    BY <1>1, <2>1, <2>2 DEF Took, IInv, AskAwaited, Asks, AwaitOf, Deliver
  <2>4. ReplyAwaited' /\ Unborn'
    BY <1>1, <2>1, <2>2 DEF Took, IInv, ReplyAwaited, Unborn, Deliver, TypeOK
  <2>5. NoLeak' /\ OkMeansConnected'
    BY <1>1, <2>1, <2>2
       DEF Took, IInv, NoLeak, OkMeansConnected, Deliver, TypeOK
  <2> QED BY <1>2, <2>3, <2>4, <2>5 DEF IInv
<1>8. CASE ConnectRefused(s)
  <2>1. Took("Connect") /\ entry' = entry /\ lib' = lib /\ Deliver({s}, "Err")
    BY <1>3, <1>8 DEF ConnectRefused, libsrt
  <2>2. \/ task[s] \in {"cancelled", "failed"}
        \/ task[s] = "connecting" /\ reply[s] = "none"
    BY <2>1 DEF Took, IInv, AskAwaited, Asks, AwaitOf
  <2>3. AskAwaited'
    BY <1>1, <2>1, <2>2 DEF Took, IInv, AskAwaited, Asks, AwaitOf, Deliver
  <2>4. ReplyAwaited' /\ Unborn'
    BY <1>1, <2>1, <2>2 DEF Took, IInv, ReplyAwaited, Unborn, Deliver, TypeOK
  <2>5. NoLeak' /\ OkMeansConnected'
    BY <1>1, <2>1, <2>2
       DEF Took, IInv, NoLeak, OkMeansConnected, Deliver, TypeOK, Awaiting
  <2> QED BY <1>2, <2>3, <2>4, <2>5 DEF IInv
<1>9. ASSUME NEW x \in {"Connecting", "Midway", "Connected", "Broken"}, ConnectStarted(s, x)
      PROVE  IInv'
  <2> DEFINE held == s \in sockets /\ x = "Connecting"
  <2>1. /\ Took("Connect") /\ lib[s] \in {"Init", "Opened"}
        /\ lib' = [lib EXCEPT ![s] = x]
    BY <1>3, <1>9 DEF ConnectStarted
  <2>2. \/ task[s] \in {"cancelled", "failed"}
        \/ task[s] = "connecting" /\ reply[s] = "none"
    BY <2>1 DEF Took, IInv, AskAwaited, Asks, AwaitOf
  <2>3. ~entry[s].connect_reply
    BY <2>1 DEF Took, IInv, ReplyAwaited
  <2>4. IF held THEN reply' = reply
        ELSE Deliver({s}, IF x = "Connected" THEN "Ok" ELSE "Err")
    BY <1>9 DEF ConnectStarted, getsockstate, raw_state_to_status, SocketStatus
  <2>5. \A y \in Sockets : entry'[y].connect_reply <=> (entry[y].connect_reply \/ (y = s /\ held))
    <3> DEFINE e == [entry[s] EXCEPT !.connect_reply = TRUE]
    <3>0. entry \in [Sockets -> SocketState] /\ entry[s] \in SocketState
      BY DEF IInv, TypeOK
    <3>1. e \in SocketState /\ e.connect_reply = TRUE
      BY <3>0 DEF SocketState
    <3>2. \A st : /\ update_status(e, st).connect_reply = TRUE
                  /\ update_status(entry[s], st).connect_reply = entry[s].connect_reply
      BY <3>0, <3>1, UpdateStatusReply
    <3>3. getsockstate(x) = IF x = "Midway" THEN "Broken" ELSE x
      BY DEF getsockstate, raw_state_to_status, SocketStatus
    <3>4. \A y \in Sockets \ {s} : entry'[y] = entry[y]
      BY <1>9, <3>0 DEF ConnectStarted
    <3>5. entry'[s] = IF held THEN update_status(e, "Connecting")
                      ELSE IF s \in sockets /\ x = "Connected"
                             THEN update_status(entry[s], "Connected") ELSE entry[s]
      BY <1>9, <3>0, <3>3 DEF ConnectStarted
    <3>6. entry'[s].connect_reply <=> held
      <4> HIDE DEF e
      <4> QED BY <2>3, <3>2, <3>5
    <3> QED BY <2>3, <3>4, <3>6
  <2>6. AskAwaited'
    BY <1>1, <2>1, <2>2, <2>4 DEF Took, IInv, AskAwaited, Asks, AwaitOf, Deliver
  <2>7. ReplyAwaited'
    BY <1>1, <2>1, <2>2, <2>3, <2>4, <2>5
       DEF Took, IInv, ReplyAwaited, Deliver, TypeOK, Asks
  <2>8. Unborn' /\ NoLeak'
    BY <1>1, <2>1, <2>2, <2>4 DEF Took, IInv, Unborn, NoLeak, Deliver, TypeOK, LibAlive
  <2>10. OkMeansConnected'
    BY <1>1, <2>1, <2>2, <2>4 DEF IInv, OkMeansConnected, Deliver, TypeOK, LibDead
  <2> QED BY <1>2, <2>6, <2>7, <2>8, <2>10 DEF IInv
<1>10. CASE Close(s)
  <2>1. /\ Took("Close") /\ close_and_release({s})
        /\ Deliver({x \in {s} : entry[x].connect_reply}, "Err")
    BY <1>3, <1>10 DEF Close
  <2>2. /\ lib' = [lib EXCEPT ![s] = IF @ \in {"None", "NonExist"} THEN @ ELSE "Closed"]
        /\ \A x \in Sockets \ {s} : entry'[x] = entry[x]
        /\ ~entry'[s].connect_reply
    BY <2>1 DEF close_and_release, IInv, TypeOK, SocketState
  <2>3. AskAwaited'
    BY <1>1, <2>1 DEF Took, IInv, AskAwaited, ReplyAwaited, Asks, AwaitOf, Deliver
  <2>4. ReplyAwaited'
    BY <1>1, <2>1, <2>2 DEF Took, IInv, ReplyAwaited, Deliver, TypeOK
  <2>5. Unborn'
    BY <1>1, <2>1, <2>2 DEF IInv, Unborn, ReplyAwaited, Deliver, TypeOK
  <2>6. NoLeak'
    BY <1>1, <2>1, <2>2 DEF Took, IInv, NoLeak, TypeOK, LibAlive
  <2>8. OkMeansConnected'
    BY <1>1, <2>1, <2>2 DEF IInv, OkMeansConnected, Deliver, TypeOK, LibDead
  <2> QED BY <1>2, <2>3, <2>4, <2>5, <2>6, <2>8 DEF IInv
<1> QED BY <1>4, <1>5, <1>6, <1>7, <1>8, <1>9, <1>10 DEF process_command, Connect

\* The rest of the loop only ever answers a future it lets go of: whichever
\* of the event, the poll and the reaper drops a held connect reply sends on
\* it first, and none of them touches a reply it does not hold.
LEMMA AnswersKeep ==
  ASSUME IInv, TypeOK', NEW S \in SUBSET Sockets, NEW a \in {"Ok", "Err"},
         task' = task, cmds' = cmds, Deliver(S, a),
         \A s \in S : entry[s].connect_reply,
         \A s \in Sockets : entry'[s].connect_reply <=>
                             (entry[s].connect_reply /\ s \notin S),
         \A s \in Sockets : lib'[s] = lib[s] \/ (lib[s] # "None" /\ lib'[s] = "Closed"),
         a = "Ok" => \A s \in S : lib'[s] = "Connected"
  PROVE  IInv'
<1>1. \A o, x : Queued(o, x)' <=> Queued(o, x)
  BY DEF Queued
<1>2. OneAsk'
  BY DEF IInv, OneAsk
<1>3. \A s \in S : \/ task[s] \in {"cancelled", "failed"}
                   \/ task[s] = "connecting"
  BY DEF IInv, ReplyAwaited
<1>4. \A s \in Sockets : s \notin S => reply'[s] = reply[s]
  BY DEF Deliver
<1>5. \A s \in S : ~Queued("Connect", s)
  BY DEF IInv, ReplyAwaited
<1>6. AskAwaited'
  BY <1>1, <1>3, <1>4, <1>5 DEF IInv, AskAwaited, Asks, AwaitOf
<1>7. ReplyAwaited'
  BY <1>1, <1>4 DEF IInv, ReplyAwaited
<1>8. Unborn'
  BY <1>3, <1>4 DEF IInv, Unborn
<1>9. NoLeak'
  BY <1>1 DEF IInv, NoLeak, LibAlive
<1>11. OkMeansConnected'
  <2>1. \A s \in S : task[s] = "connecting" => reply'[s] = a
    BY DEF Deliver, Awaiting
  <2> QED BY <1>4, <2>1 DEF IInv, OkMeansConnected, LibDead
<1> QED BY <1>2, <1>6, <1>7, <1>8, <1>9, <1>11 DEF IInv

\* The srt-io thread keeps the invariant outside its commands.
LEMMA LoopKeeps ==
  ASSUME IInv, TypeOK',
         \/ EpollWait \/ EndEvents \/ cleanup_zombies
         \/ \E s \in Sockets : ProcessEvent(s) \/ PollState(s)
  PROVE  IInv'
<1>0. entry \in [Sockets -> SocketState]
  BY DEF IInv, TypeOK
<1>1. CASE EpollWait \/ EndEvents
  <2>1. /\ task' = task /\ reply' = reply /\ cmds' = cmds /\ lib' = lib /\ entry' = entry
    BY <1>1 DEF EpollWait, EndEvents, tokio, libsrt
  <2>2. Deliver({}, "Err")
    BY <2>1 DEF Deliver, IInv, TypeOK
  <2> QED BY <2>1, <2>2, AnswersKeep
<1>2. CASE cleanup_zombies
  <2> DEFINE S == {s \in Zombies : entry[s].connect_reply}
  <2>1. /\ task' = task /\ cmds' = cmds /\ close_and_release(Zombies) /\ Deliver(S, "Err")
    BY <1>2 DEF cleanup_zombies
  <2>2. S \in SUBSET Sockets
    BY DEF Zombies, IInv, TypeOK
  <2>3. \A s \in Sockets : lib'[s] = lib[s] \/ (lib[s] # "None" /\ lib'[s] = "Closed")
    BY <2>1 DEF close_and_release
  <2>4. \A s \in Sockets : entry'[s].connect_reply <=> (entry[s].connect_reply /\ s \notin S)
    BY <1>0, <2>1 DEF close_and_release, SocketState
  <2> QED BY <2>1, <2>2, <2>3, <2>4, AnswersKeep
<1>3. ASSUME NEW s \in Sockets, ProcessEvent(s) PROVE IInv'
  <2> DEFINE took == s \in sockets /\ "CONNECT" \in batch[s] /\ entry[s].connect_reply
             up == getsockstate(lib[s]) = "Connected"
             cleared == [entry[s] EXCEPT !.connect_reply = FALSE]
             S == {x \in {s} : took}
  <2>1. /\ task' = task /\ cmds' = cmds /\ lib' = lib
        /\ Deliver(S, IF up THEN "Ok" ELSE "Err")
    BY <1>3 DEF ProcessEvent, libsrt
  <2>2. up => lib[s] = "Connected"
    BY DEF getsockstate, raw_state_to_status, SocketStatus
  <2>3. \A x \in Sockets \ {s} : entry'[x] = entry[x]
    BY <1>0, <1>3 DEF ProcessEvent
  <2>4. entry'[s].connect_reply <=> (entry[s].connect_reply /\ ~took)
    <3> DEFINE e == IF took THEN update_status(cleared, IF up THEN "Connected" ELSE "Broken")
                    ELSE entry[s]
    <3>1. entry[s] \in SocketState
      BY <1>0
    <3>2. cleared \in SocketState /\ ~cleared.connect_reply
      BY <3>1 DEF SocketState
    <3>3. e \in SocketState /\ (e.connect_reply <=> (entry[s].connect_reply /\ ~took))
      <4>1. CASE took
        <5>1. \A st \in {"Connected", "Broken"} :
                /\ update_status(cleared, st) \in SocketState
                /\ update_status(cleared, st).connect_reply = cleared.connect_reply
          BY <3>2, UpdateStatusType, UpdateStatusReply DEF SocketStatus
        <5> HIDE DEF cleared
        <5> QED BY <3>2, <4>1, <5>1
      <4>2. CASE ~took
        BY <3>1, <4>2
      <4> QED BY <4>1, <4>2
    <3>4. entry'[s] \in {e, update_status(e, "Broken")}
      BY <1>0, <1>3 DEF ProcessEvent
    <3>5. update_status(e, "Broken").connect_reply = e.connect_reply
      BY <3>3, UpdateStatusReply
    <3> HIDE DEF e, took
    <3> QED BY <3>3, <3>4, <3>5
  <2>5. \A x \in Sockets : entry'[x].connect_reply <=> (entry[x].connect_reply /\ x \notin S)
    BY <2>3, <2>4
  <2> QED BY <2>1, <2>2, <2>5, AnswersKeep
<1>4. ASSUME NEW s \in Sockets, PollState(s) PROVE IInv'
  <2> DEFINE st == getsockstate(lib[s])
             answers == st # entry[s].last_status /\ st \in {"Broken", "Closed"}
                        /\ entry[s].connect_reply
             cleared == [entry[s] EXCEPT !.connect_reply = FALSE]
             S == {x \in {s} : answers}
  <2>1. /\ task' = task /\ cmds' = cmds /\ lib' = lib /\ Deliver(S, "Err")
    BY <1>4 DEF PollState, libsrt
  <2>2. \A x \in Sockets \ {s} : entry'[x] = entry[x]
    BY <1>0, <1>4 DEF PollState
  <2>3. entry'[s].connect_reply <=> (entry[s].connect_reply /\ ~answers)
    <3>1. entry[s] \in SocketState
      BY <1>0
    <3>2. cleared \in SocketState /\ ~cleared.connect_reply
      BY <3>1 DEF SocketState
    <3>3. /\ update_status(cleared, st).connect_reply = cleared.connect_reply
          /\ update_status(entry[s], st).connect_reply = entry[s].connect_reply
      BY <3>1, <3>2, UpdateStatusReply
    <3>4. entry'[s] = IF answers THEN update_status(cleared, st)
                      ELSE IF st # entry[s].last_status THEN update_status(entry[s], st)
                      ELSE entry[s]
      BY <1>0, <1>4 DEF PollState
    <3> HIDE DEF cleared, st
    <3> QED BY <3>2, <3>3, <3>4
  <2>4. \A x \in Sockets : entry'[x].connect_reply <=> (entry[x].connect_reply /\ x \notin S)
    BY <2>2, <2>3
  <2> QED BY <2>1, <2>4, AnswersKeep
<1> QED BY <1>1, <1>2, <1>3, <1>4

\* The invariant holds for ever.
THEOREM Invariant == Spec => []IInv
<1>1. Init => IInv
  <2> SUFFICES ASSUME Init, TypeOK PROVE IInv
    BY TypeInit
  <2> QED BY DEF Init, IInv, OneAsk, AskAwaited, ReplyAwaited, Unborn, NoLeak,
                 OkMeansConnected, Queued, LibAlive
<1>2. IInv /\ [Next]_vars => IInv'
  <2> SUFFICES ASSUME IInv, [Next]_vars, TypeOK' PROVE IInv'
    BY TypeStep DEF IInv
  <2>1. ASSUME NEW s \in Sockets, Task(s) \/ App(s) PROVE IInv'
    BY <2>1, TaskKeeps
  <2>2. ASSUME NEW s \in Sockets, Libsrt(s) PROVE IInv'
    BY <2>2, LibKeeps
  <2>3. CASE io_thread_main
    BY <2>3, CommandKeeps, LoopKeeps DEF io_thread_main
  <2>4. CASE UNCHANGED vars
    BY <2>4 DEF vars, IInv, OneAsk, AskAwaited, ReplyAwaited, Unborn, NoLeak,
               OkMeansConnected, Queued
  <2> QED BY <2>1, <2>2, <2>3, <2>4 DEF Next
<1> QED BY <1>1, <1>2, PTL DEF Spec

\* No libsrt socket outlives both its future and its handle without a Close
\* on the way, a future dropped at an await excepted.
THEOREM SocketNeverLeaked == Spec => []NoLeak
BY Invariant, PTL DEF IInv

\* Connect never reports success before the handshake has finished.
THEOREM SuccessIsReal == Spec => []OkMeansConnected
BY Invariant, PTL DEF IInv

-----------------------------------------------------------------------------
(* The second inductive invariant, over the first: what the bridge's entry *)
(* of a socket says against what libsrt has. A socket is registered before *)
(* anything else is asked of it; an event tells the truth about the socket *)
(* it is raised on; and a terminal status is wrong only between the poll   *)
(* that read the Midway instant and the reaper right behind it.            *)

Fresh == {"None", "Init", "Opened"}

RegisterFirst == \A i, j \in 1..Len(cmds) :
                   cmds[i].op = "RegisterSocket" /\ cmds[j].id = cmds[i].id => i <= j

OnlyCreate == \A s \in Sockets : task[s] \in {"idle", "creating"} =>
                /\ s \notin sockets
                /\ \A i \in 1..Len(cmds) : cmds[i].id = s => cmds[i].op = "CreateSocket"
                /\ task[s] = "creating" /\ reply[s] = "Ok" => lib[s] = "Init"

NotClosing == \A s \in Sockets :
                task[s] \in Awaiting \cup {"idle", "registered", "open"} =>
                  ~Queued("Close", s)

EventsTrue == \A s \in Sockets :
                /\ ready[s] \cup batch[s] # {} => lib[s] \in {"Connected"} \cup LibDead
                /\ "ERR" \in ready[s] \cup batch[s] => lib[s] \in LibDead

Newborn == \A s \in Sockets :
             /\ Queued("CreateSocket", s) => lib[s] = "None"
             /\ Queued("RegisterSocket", s) => lib[s] = "Init" /\ s \notin sockets
             /\ lib[s] = "None" => s \notin sockets
             /\ lib[s] \in Fresh => ~entry[s].connect_reply
             /\ lib[s] \in Fresh /\ s \notin sockets => entry[s].last_status = "Init"
             /\ lib[s] \in Fresh /\ s \in sockets =>
                  /\ entry[s].recv_tx /\ entry[s].send_rx
                  /\ entry[s].last_status \in {"Init", "Opened"}

Tracked == \A s \in Sockets :
             lib[s] \in {"Init", "Opened"} /\ task[s] \notin {"creating", "cancelled"} =>
               s \in sockets \/ Queued("RegisterSocket", s)

HeldOpen == \A s \in Sockets : entry[s].connect_reply /\ lib[s] \in LibAlive =>
              /\ s \in sockets /\ entry[s].recv_tx /\ entry[s].send_rx
              /\ entry[s].last_status \in {"Connecting", "Connected"}

Succeeded == \A s \in Sockets :
  task[s] \in {"addrs", "open"} \/ (task[s] = "connecting" /\ reply[s] = "Ok") =>
    /\ lib[s] \in {"Connected"} \cup LibDead
    /\ lib[s] = "Connected" =>
         /\ s \in sockets
         /\ entry[s] = [last_status |-> "Connected", recv_tx |-> TRUE,
                        send_rx |-> TRUE, connect_reply |-> FALSE]

DeadNoted == \A s \in sockets : is_terminal_status(entry[s].last_status) =>
               \/ lib[s] \in LibDead
               \/ phase = "sweep" /\ s \notin todo /\ ~entry[s].recv_tx

PollsTracked == todo \subseteq sockets /\ (phase # "sweep" => todo = {})

CInv == /\ RegisterFirst
        /\ OnlyCreate
        /\ NotClosing
        /\ EventsTrue
        /\ Newborn
        /\ Tracked
        /\ HeldOpen
        /\ Succeeded
        /\ DeadNoted
        /\ PollsTracked

\* What a status update leaves in each field.
LEMMA UpdateStatusFields ==
  ASSUME NEW e \in SocketState, NEW st
  PROVE  /\ update_status(e, st).last_status = st
         /\ update_status(e, st).connect_reply = e.connect_reply
         /\ update_status(e, st).recv_tx <=> (e.recv_tx /\ ~is_terminal_status(st))
         /\ ~is_terminal_status(st) => (update_status(e, st).send_rx <=> e.send_rx)
BY DEF update_status, SocketState

\* Two states with the same fields are the same.
LEMMA SameState ==
  ASSUME NEW e \in SocketState,
         e.last_status = "Connected", e.recv_tx, e.send_rx, ~e.connect_reply
  PROVE  e = [last_status |-> "Connected", recv_tx |-> TRUE,
              send_rx |-> TRUE, connect_reply |-> FALSE]
BY DEF SocketState

\* A step of a future that sends a command keeps the second invariant too.
LEMMA AdvanceChannels ==
  ASSUME IInv, CInv, TypeOK', NEW s \in Sockets, NEW from,
         NEW to \in TaskState \ {"idle", "cancelled"},
         NEW op \in {"CreateSocket", "RegisterSocket", "Bind", "Connect",
                     "GetAddr", "Close"},
         Advance(s, from, to, op),
         from \in Awaiting \cup {"idle", "registered", "open", "closing"},
         from = "closing" => op = "Close",
         op = "CreateSocket" <=> from = "idle",
         op = "CreateSocket" <=> to = "creating",
         op = "RegisterSocket" => from = "creating",
         from = "creating" => op = "RegisterSocket" /\ reply[s] = "Ok",
         op = "Close" => to \in {"failed", "closing", "dropped"},
         to # "open",
         to = "addrs" => from = "connecting" /\ reply[s] = "Ok"
  PROVE  CInv'
<1> USE DEF CInv
<1>1. /\ task[s] = from /\ task' = [task EXCEPT ![s] = to]
      /\ reply' = [reply EXCEPT ![s] = "none"]
      /\ send_command(op, s)
      /\ lib' = lib /\ entry' = entry /\ sockets' = sockets /\ ready' = ready
      /\ batch' = batch /\ phase' = phase /\ todo' = todo
  BY DEF Advance, libsrt, loop
<1>2. \A o, x : Queued(o, x)' <=> Queued(o, x) \/ (o = op /\ x = s)
  BY <1>1, SentQueued DEF IInv
<1>3. /\ Len(cmds') = Len(cmds) + 1
      /\ \A i \in 1..Len(cmds) : cmds'[i] = cmds[i]
      /\ cmds'[Len(cmds) + 1].op = op /\ cmds'[Len(cmds) + 1].id = s
      /\ Len(cmds) \in Nat
  BY <1>1 DEF IInv, TypeOK, send_command, Cmd
<1>4. from = "creating" => \A i \in 1..Len(cmds) : cmds[i].id # s
  <2> SUFFICES ASSUME from = "creating", NEW i \in 1..Len(cmds), cmds[i].id = s
               PROVE  FALSE
    OBVIOUS
  <2>1. cmds[i] \in Command /\ cmds[i].op = "CreateSocket"
    BY <1>1 DEF OnlyCreate, IInv, TypeOK
  <2>2. cmds[i] = Cmd("CreateSocket", s)
    BY <2>1 DEF Command, Cmd
  <2> QED BY <1>1, <2>2 DEF IInv, AskAwaited, Queued, Asks, AwaitOf
<1>5. RegisterFirst'
  BY <1>3, <1>4 DEF RegisterFirst
<1>6. OnlyCreate'
  <2> SUFFICES ASSUME NEW x \in Sockets, task'[x] \in {"idle", "creating"},
                      NEW i \in 1..Len(cmds'), cmds'[i].id = x
               PROVE  cmds'[i].op = "CreateSocket"
    BY <1>1 DEF OnlyCreate, IInv, TypeOK
  <2>1. task[x] \in {"idle", "creating"} /\ (x = s => op = "CreateSocket")
    BY <1>1 DEF IInv, TypeOK
  <2>2. i \in 1..Len(cmds) \/ i = Len(cmds) + 1
    BY <1>3
  <2> QED BY <1>3, <2>1, <2>2 DEF OnlyCreate
<1>7. NotClosing'
  BY <1>1, <1>2 DEF NotClosing, IInv, TypeOK, TaskState, Awaiting, Ended
<1>8. EventsTrue' /\ HeldOpen' /\ DeadNoted' /\ PollsTracked'
  BY <1>1 DEF EventsTrue, HeldOpen, DeadNoted, PollsTracked
<1>9. Newborn'
  <2>1. from = "creating" => s \notin sockets /\ lib[s] = "Init"
    BY <1>1 DEF OnlyCreate
  <2> QED BY <1>1, <1>2, <2>1 DEF Newborn, IInv, Unborn
<1>10. Tracked'
  <2>1. from \notin {"idle", "cancelled"} \/ (from = "idle" /\ to = "creating")
    BY DEF Awaiting
  <2>2. from = "creating" => Queued("RegisterSocket", s)'
    BY <1>2
  <2> QED BY <1>1, <1>2, <2>1, <2>2 DEF Tracked, IInv, TypeOK
<1>11. Succeeded'
  BY <1>1 DEF Succeeded, IInv, TypeOK
<1> QED BY <1>5, <1>6, <1>7, <1>8, <1>9, <1>10, <1>11

\* The futures keep it.
LEMMA TaskChannels ==
  ASSUME IInv, CInv, TypeOK', NEW s \in Sockets, Task(s) \/ App(s)
  PROVE  CInv'
<1> USE DEF TaskState, Awaiting, Ended
<1>1. CASE Created(s)
  <2>1. CASE reply[s] = "Ok" /\ Advance(s, "creating", "registered", "RegisterSocket")
    BY <2>1, AdvanceChannels
  <2>2. CASE task[s] = "creating" /\ reply[s] = "Err" /\ task' = [task EXCEPT ![s] = "failed"]
             /\ UNCHANGED <<reply, cmds, libsrt, sockets, entry, loop>>
    <3>1. lib[s] = "None"
      BY <2>2 DEF IInv, Unborn
    <3> QED BY <2>2, <3>1
            DEF IInv, TypeOK, CInv, RegisterFirst, OnlyCreate, NotClosing, EventsTrue, Newborn,
                Tracked, HeldOpen, Succeeded, DeadNoted, PollsTracked, Queued, libsrt, loop
  <2> QED BY <1>1, <2>1, <2>2 DEF Created
<1>2. CASE Registered(s)
  BY <1>2, AdvanceChannels DEF Registered
<1>3. CASE Bound(s)
  BY <1>3, AdvanceChannels DEF Bound
<1>4. CASE ConnectAnswered(s)
  BY <1>4, AdvanceChannels DEF ConnectAnswered
<1>5. CASE ConnectTimeout(s)
  BY <1>5, AdvanceChannels DEF ConnectTimeout
<1>6. CASE connect(s)
  BY <1>6, AdvanceChannels DEF connect
<1>7. CASE close(s) \/ Drop(s)
  BY <1>7, AdvanceChannels DEF close, Drop
<1>8. CASE AddrsAnswered(s) \/ Cancel(s)
  <2>1. /\ UNCHANGED <<reply, cmds, libsrt, sockets, entry, loop>>
        /\ \/ task[s] = "addrs" /\ task' = [task EXCEPT ![s] = "open"]
           \/ task[s] \in Awaiting /\ task' = [task EXCEPT ![s] = "cancelled"]
    BY <1>8 DEF AddrsAnswered, Cancel
  <2>2. RegisterFirst' /\ EventsTrue' /\ Newborn' /\ HeldOpen' /\ DeadNoted' /\ PollsTracked'
    BY <2>1 DEF CInv, RegisterFirst, EventsTrue, Newborn, HeldOpen, DeadNoted, PollsTracked,
                Queued, libsrt, loop
  <2>3. OnlyCreate' /\ NotClosing'
    <3>1. \A x \in Sockets : \/ task'[x] = task[x]
                             \/ task[x] \in Awaiting /\ task'[x] \in {"open", "cancelled"}
      BY <2>1 DEF IInv, TypeOK
    <3>2. OnlyCreate'
      BY <2>1, <3>1 DEF CInv, OnlyCreate, libsrt
    <3>3. NotClosing'
      BY <2>1, <3>1 DEF CInv, NotClosing, Queued
    <3> QED BY <3>2, <3>3
  <2>4. Tracked'
    BY <2>1 DEF IInv, TypeOK, CInv, Tracked, Queued, libsrt
  <2>5. Succeeded'
    BY <2>1 DEF IInv, TypeOK, CInv, Succeeded, libsrt
  <2> QED BY <2>2, <2>3, <2>4, <2>5 DEF CInv
<1> QED BY <1>1, <1>2, <1>3, <1>4, <1>5, <1>6, <1>7, <1>8 DEF Task, App

\* A move of libsrt's keeps it when it raises CONNECT only with the connection
\* up and ERR only on a dead socket, and brings none back.
LEMMA LibMoveChannels ==
  ASSUME IInv, CInv, TypeOK', NEW s \in Sockets, NEW from, NEW to, NEW events,
         LibMove(s, from, to, events),
         from \cap Fresh = {}, to \notin Fresh, to \in LibAlive \cup LibDead,
         events = {} \/ to \in {"Connected"} \cup LibDead,
         "ERR" \in events => to \in LibDead,
         to \in LibAlive => from \subseteq {"Connecting", "Midway"}
  PROVE  CInv'
<1>1. /\ lib[s] \in from /\ lib' = [lib EXCEPT ![s] = to]
      /\ ready' = [ready EXCEPT ![s] = @ \cup (events \cap subscribed[s])]
      /\ UNCHANGED <<task, reply, cmds, sockets, entry, batch, phase, todo>>
  BY DEF LibMove, tokio, loop
<1>2. lib[s] \notin Fresh /\ lib'[s] = to /\ (to \in LibAlive => lib[s] \in {"Connecting", "Midway"})
  BY <1>1 DEF IInv, TypeOK
<1>3. \A x \in Sockets \ {s} : lib'[x] = lib[x] /\ ready'[x] = ready[x]
  BY <1>1 DEF IInv, TypeOK
<1>4. \A o, x : Queued(o, x)' <=> Queued(o, x)
  BY <1>1 DEF Queued
<1>5. EventsTrue'
  <2>1. ready[s] \cup batch[s] = {} \/ to \in LibDead
    BY <1>2 DEF CInv, EventsTrue, LibDead
  <2>2. ready'[s] \subseteq ready[s] \cup events /\ batch' = batch
    BY <1>1 DEF IInv, TypeOK
  <2>3. /\ ready'[s] \cup batch'[s] # {} => to \in {"Connected"} \cup LibDead
        /\ "ERR" \in ready'[s] \cup batch'[s] => to \in LibDead
    BY <2>1, <2>2
  <2> QED BY <1>1, <1>2, <1>3, <2>3 DEF CInv, EventsTrue
<1>6. RegisterFirst' /\ NotClosing' /\ PollsTracked'
  BY <1>1, <1>4 DEF CInv, RegisterFirst, NotClosing, PollsTracked
<1>7. OnlyCreate' /\ Newborn' /\ Tracked'
  BY <1>1, <1>2, <1>3, <1>4 DEF CInv, OnlyCreate, Newborn, Tracked, Fresh
<1>8. HeldOpen' /\ DeadNoted'
  BY <1>1, <1>2, <1>3 DEF CInv, HeldOpen, DeadNoted, LibAlive, LibDead, IInv, TypeOK
<1>9. Succeeded'
  BY <1>1, <1>2, <1>3 DEF CInv, Succeeded, LibDead, LibAlive
<1> QED BY <1>5, <1>6, <1>7, <1>8, <1>9 DEF CInv

\* Every move of libsrt's is one of these.
LEMMA LibChannels ==
  ASSUME IInv, CInv, TypeOK', NEW s \in Sockets, Libsrt(s)
  PROVE  CInv'
<1> USE DEF Fresh, LibAlive, LibDead
<1>1. CASE HandshakeMidway(s)
  BY <1>1, LibMoveChannels DEF HandshakeMidway
<1>2. CASE HandshakeDone(s)
  BY <1>2, LibMoveChannels DEF HandshakeDone
<1>3. CASE HandshakeFails(s)
  BY <1>3, LibMoveChannels DEF HandshakeFails
<1>4. CASE LinkBreaks(s)
  BY <1>4, LibMoveChannels DEF LinkBreaks
<1>5. CASE GarbageCollect(s)
  BY <1>5, LibMoveChannels DEF GarbageCollect
<1> QED BY <1>1, <1>2, <1>3, <1>4, <1>5 DEF Libsrt

\* Taking a command off the channel: what it says of the commands behind it.
LEMMA ReceivedChannels ==
  ASSUME IInv, CInv, NEW op, NEW s \in Sockets, Received(op, s)
  PROVE  /\ RegisterFirst' /\ NotClosing'
         /\ Queued("RegisterSocket", s) <=> op = "RegisterSocket"
         /\ ~Queued("RegisterSocket", s)'
         /\ task[s] \in {"idle", "creating"} => op = "CreateSocket"
         /\ \A x \in Sockets : task[x] \in {"idle", "creating"} =>
              \A i \in 1..Len(cmds') : cmds'[i].id = x => cmds'[i].op = "CreateSocket"
<1>1. /\ Len(cmds) \in Nat \ {0}
      /\ Len(cmds') = Len(cmds) - 1
      /\ \A i \in 1..Len(cmds') : i + 1 \in 1..Len(cmds) /\ cmds'[i] = cmds[i + 1]
      /\ 1 \in 1..Len(cmds) /\ cmds[1] = Cmd(op, s)
      /\ task' = task
  BY DEF IInv, TypeOK, Received
<1>2. cmds[1].op = op /\ cmds[1].id = s
  BY <1>1 DEF Cmd
<1>3. RegisterFirst'
  BY <1>1 DEF CInv, RegisterFirst
<1>4. NotClosing'
  BY <1>1, ReceivedQueued DEF CInv, IInv, NotClosing
<1>5. Queued("RegisterSocket", s) => op = "RegisterSocket"
  <2> SUFFICES ASSUME Queued("RegisterSocket", s) PROVE op = "RegisterSocket"
    OBVIOUS
  <2>1. PICK i \in 1..Len(cmds) : cmds[i].op = "RegisterSocket" /\ cmds[i].id = s
    BY DEF Queued, Cmd
  <2>2. i <= 1
    BY <1>1, <1>2, <2>1 DEF CInv, RegisterFirst
  <2> QED BY <1>1, <1>2, <2>1, <2>2
<1>6. op = "RegisterSocket" => Queued("RegisterSocket", s)
  BY ReceivedQueued DEF IInv
<1>7. ~Queued("RegisterSocket", s)'
  <2> SUFFICES ASSUME Queued("RegisterSocket", s)' PROVE FALSE
    OBVIOUS
  <2>1. PICK i \in 1..Len(cmds') : cmds'[i].op = "RegisterSocket" /\ cmds'[i].id = s
    BY DEF Queued, Cmd
  <2>2. i + 1 <= 1
    BY <1>1, <1>2, <2>1 DEF CInv, RegisterFirst
  <2> QED BY <2>1, <2>2
<1>8. task[s] \in {"idle", "creating"} => op = "CreateSocket"
  BY <1>1, <1>2 DEF CInv, OnlyCreate
<1>9. \A x \in Sockets : task[x] \in {"idle", "creating"} =>
        \A i \in 1..Len(cmds') : cmds'[i].id = x => cmds'[i].op = "CreateSocket"
  BY <1>1 DEF CInv, OnlyCreate
<1> QED BY <1>3, <1>4, <1>5, <1>6, <1>7, <1>8, <1>9

\* The commands keep it.
LEMMA CommandChannels ==
  ASSUME IInv, CInv, TypeOK', NEW s \in Sockets, process_command(s)
  PROVE  CInv'
<1> DEFINE Took(op) ==
             /\ RegisterFirst' /\ NotClosing'
             /\ Queued(op, s)
             /\ Queued("RegisterSocket", s) <=> op = "RegisterSocket"
             /\ ~Queued("RegisterSocket", s)'
             /\ op \in Asks => ~Queued(op, s)'
             /\ \A p, x : Queued(p, x)' => Queued(p, x)
             /\ \A p, x : Queued(p, x) /\ ~(p = op /\ x = s) => Queued(p, x)'
             /\ task[s] \in {"idle", "creating"} => op = "CreateSocket"
             /\ \A x \in Sockets : task[x] \in {"idle", "creating"} =>
                  \A i \in 1..Len(cmds') : cmds'[i].id = x => cmds'[i].op = "CreateSocket"
             /\ task' = task /\ batch' = batch /\ phase' = phase /\ todo' = todo
             /\ phase = "cmds"
<1>1. ASSUME NEW op, Received(op, s) PROVE Took(op)
  <2>1. task' = task /\ batch' = batch /\ phase' = phase /\ todo' = todo /\ phase = "cmds"
    BY <1>1 DEF Received, loop
  <2> QED BY <1>1, <2>1, ReceivedChannels, ReceivedQueued DEF IInv
<1> HIDE DEF Took
<1>0. /\ task \in [Sockets -> TaskState] /\ reply \in [Sockets -> {"none", "Ok", "Err"}]
      /\ lib \in [Sockets -> LibState] /\ entry \in [Sockets -> SocketState]
      /\ entry[s] \in SocketState
  BY DEF IInv, TypeOK
<1>2. CASE CreateSocket(s)
  <2>1. /\ Took("CreateSocket") /\ entry' = entry /\ sockets' = sockets /\ ready' = ready
        /\ \/ lib' = [lib EXCEPT ![s] = "Init"] /\ Deliver({s}, "Ok")
           \/ lib' = lib /\ Deliver({s}, "Err")
    BY <1>1, <1>2 DEF CreateSocket
  <2>2. /\ lib[s] = "None" /\ s \notin sockets /\ ~entry[s].connect_reply
        /\ entry[s].last_status = "Init"
        /\ task[s] \in {"creating", "cancelled"}
    BY <2>1 DEF Took, CInv, Newborn, Fresh, IInv, AskAwaited, Asks, AwaitOf
  <2>3. /\ \A x \in Sockets \ {s} : lib'[x] = lib[x] /\ reply'[x] = reply[x]
        /\ lib'[s] \in {"None", "Init"}
        /\ task[s] = "creating" /\ reply'[s] = "Ok" => lib'[s] = "Init"
    BY <1>0, <2>1, <2>2 DEF Deliver, Awaiting
  <2>4. OnlyCreate'
    BY <2>1, <2>2, <2>3 DEF Took, CInv, OnlyCreate
  <2>5. Newborn' /\ Tracked'
    BY <2>1, <2>2, <2>3 DEF Took, CInv, Newborn, Tracked, Fresh, Asks
  <2>6. EventsTrue' /\ HeldOpen' /\ DeadNoted' /\ PollsTracked'
    BY <2>1, <2>2, <2>3 DEF Took, CInv, EventsTrue, HeldOpen, DeadNoted, PollsTracked, LibDead,
                            IInv, TypeOK
  <2>7. Succeeded'
    BY <2>1, <2>2, <2>3 DEF Took, CInv, Succeeded
  <2> QED BY <2>1, <2>4, <2>5, <2>6, <2>7 DEF Took, CInv
<1>3. CASE RegisterSocket(s)
  <2> DEFINE e == [entry[s] EXCEPT !.recv_tx = TRUE, !.send_rx = TRUE]
  <2>1. /\ Took("RegisterSocket") /\ sockets' = sockets \cup {s} /\ reply' = reply
        /\ lib' = lib /\ ready' = ready
    BY <1>1, <1>3 DEF RegisterSocket, libsrt
  <2>2. lib[s] = "Init" /\ s \notin sockets /\ entry[s].last_status = "Init"
        /\ ~entry[s].connect_reply
    BY <2>1 DEF Took, CInv, Newborn, Fresh
  <2>3. getsockstate(lib[s]) = "Init"
    BY <2>2 DEF getsockstate, raw_state_to_status, SocketStatus
  <2>4. entry' = [entry EXCEPT ![s] = e]
    BY <1>3, <1>0, <2>2, <2>3 DEF RegisterSocket, SocketState
  <2>5. /\ entry'[s].recv_tx /\ entry'[s].send_rx /\ ~entry'[s].connect_reply
        /\ entry'[s].last_status = "Init"
        /\ \A x \in Sockets \ {s} : entry'[x] = entry[x]
    BY <1>0, <2>2, <2>4 DEF SocketState
  <2>6. task[s] \notin {"idle", "creating"}
    BY <2>1 DEF Took
  <2>7. OnlyCreate' /\ Newborn' /\ Tracked'
    BY <2>1, <2>2, <2>5, <2>6 DEF Took, CInv, OnlyCreate, Newborn, Tracked, Fresh
  <2>8. EventsTrue' /\ HeldOpen' /\ DeadNoted' /\ PollsTracked'
    BY <2>1, <2>2, <2>5 DEF Took, CInv, EventsTrue, HeldOpen, DeadNoted, PollsTracked,
                            is_terminal_status, IInv, TypeOK
  <2>9. Succeeded'
    BY <2>1, <2>2, <2>5 DEF Took, CInv, Succeeded, LibDead
  <2> QED BY <2>1, <2>7, <2>8, <2>9 DEF Took, CInv
<1>4. CASE Bind(s) \/ ConnectRefused(s) \/ GetAddr(s)
  <2>1. PICK op \in {"Bind", "Connect", "GetAddr"} :
          /\ Took(op) /\ entry' = entry /\ sockets' = sockets /\ ready' = ready
          /\ \/ lib' = lib /\ (op = "Connect" => Deliver({s}, "Err"))
             \/ lib[s] = "Init" /\ lib' = [lib EXCEPT ![s] = "Opened"] /\ op = "Bind"
          /\ Deliver({s}, "Ok") \/ Deliver({s}, "Err")
    BY <1>1, <1>4 DEF Bind, ConnectRefused, GetAddr, libsrt
  <2>2. /\ \A x \in Sockets \ {s} : lib'[x] = lib[x] /\ reply'[x] = reply[x]
        /\ lib'[s] = lib[s] \/ (lib[s] = "Init" /\ lib'[s] = "Opened")
    BY <1>0, <2>1 DEF Deliver
  <2>3. task[s] \notin {"idle", "creating"}
    BY <2>1 DEF Took
  <2>4. task[s] = "connecting" => reply'[s] # "Ok"
    BY <2>1 DEF Took, IInv, AskAwaited, Asks, AwaitOf, Deliver
  <2>5. task[s] \in {"addrs", "open"} => lib'[s] = lib[s]
    BY <2>2 DEF CInv, Succeeded, LibDead
  <2>6. OnlyCreate' /\ Newborn' /\ Tracked'
    BY <2>1, <2>2, <2>3 DEF Took, CInv, OnlyCreate, Newborn, Tracked, Fresh
  <2>7. EventsTrue' /\ HeldOpen' /\ DeadNoted' /\ PollsTracked'
    BY <2>1, <2>2 DEF Took, CInv, EventsTrue, HeldOpen, DeadNoted, PollsTracked, LibDead,
                      LibAlive, IInv, TypeOK
  <2>8. Succeeded'
    BY <2>1, <2>2, <2>4, <2>5 DEF Took, CInv, Succeeded
  <2> QED BY <2>1, <2>6, <2>7, <2>8 DEF Took, CInv
<1>5. ASSUME NEW x \in {"Connecting", "Midway", "Connected", "Broken"}, ConnectStarted(s, x)
      PROVE  CInv'
  <2> DEFINE held == s \in sockets /\ x = "Connecting"
             up == s \in sockets /\ x = "Connected"
             e == [entry[s] EXCEPT !.connect_reply = TRUE]
  <2>1. /\ Took("Connect") /\ lib[s] \in {"Init", "Opened"}
        /\ lib' = [lib EXCEPT ![s] = x] /\ sockets' = sockets /\ ready' = ready
    BY <1>1, <1>5 DEF ConnectStarted
  <2>2. getsockstate(x) = IF x = "Midway" THEN "Broken" ELSE x
    BY DEF getsockstate, raw_state_to_status, SocketStatus
  <2>3. /\ entry' = [entry EXCEPT ![s] = IF held THEN update_status(e, "Connecting")
                                         ELSE IF up THEN update_status(entry[s], "Connected")
                                         ELSE entry[s]]
        /\ IF held THEN reply' = reply
           ELSE Deliver({s}, IF x = "Connected" THEN "Ok" ELSE "Err")
    BY <1>5, <2>2 DEF ConnectStarted
  <2>4. e \in SocketState /\ e.connect_reply = TRUE /\ e.recv_tx = entry[s].recv_tx
        /\ e.send_rx = entry[s].send_rx
    BY <1>0 DEF SocketState
  <2>5. /\ ~entry[s].connect_reply
        /\ s \in sockets => /\ entry[s].recv_tx /\ entry[s].send_rx
                            /\ entry[s].last_status \in {"Init", "Opened"}
        /\ s \in sockets \/ task[s] \in {"creating", "cancelled"}
    BY <2>1 DEF Took, CInv, Newborn, Tracked, Fresh
  <2>6. \/ task[s] \in {"cancelled", "failed"}
        \/ task[s] = "connecting" /\ reply[s] = "none"
    BY <2>1 DEF Took, IInv, AskAwaited, Asks, AwaitOf
  <2>7. /\ held => /\ entry'[s].last_status = "Connecting" /\ entry'[s].connect_reply
                   /\ entry'[s].recv_tx /\ entry'[s].send_rx
        /\ up => entry'[s] = [last_status |-> "Connected", recv_tx |-> TRUE,
                              send_rx |-> TRUE, connect_reply |-> FALSE]
        /\ ~held /\ ~up => entry'[s] = entry[s]
        /\ \A y \in Sockets \ {s} : entry'[y] = entry[y]
    <3>1. /\ update_status(e, "Connecting").last_status = "Connecting"
          /\ update_status(e, "Connecting").connect_reply
          /\ s \in sockets => /\ update_status(e, "Connecting").recv_tx
                              /\ update_status(e, "Connecting").send_rx
      <4> HIDE DEF e
      <4> QED BY <2>4, <2>5, UpdateStatusFields DEF is_terminal_status
    <3>2. s \in sockets => update_status(entry[s], "Connected") =
            [last_status |-> "Connected", recv_tx |-> TRUE,
             send_rx |-> TRUE, connect_reply |-> FALSE]
      <4>1. update_status(entry[s], "Connected") \in SocketState
        BY <1>0, UpdateStatusType DEF SocketStatus
      <4> QED BY <1>0, <2>5, <4>1, UpdateStatusFields, SameState DEF is_terminal_status
    <3> HIDE DEF e
    <3> QED BY <1>0, <2>3, <3>1, <3>2
  <2>8. /\ \A y \in Sockets \ {s} : lib'[y] = lib[y] /\ reply'[y] = reply[y]
        /\ lib'[s] = x
        /\ task[s] = "connecting" /\ reply'[s] = "Ok" => up
    <3>1. \A y \in Sockets \ {s} : lib'[y] = lib[y] /\ reply'[y] = reply[y]
      BY <1>0, <2>1, <2>3 DEF Deliver
    <3>2. task[s] = "connecting" /\ reply'[s] = "Ok" => up
      BY <1>0, <2>3, <2>5, <2>6 DEF Deliver, Awaiting
    <3> QED BY <1>0, <2>1, <3>1, <3>2
  <2>9. ready[s] \cup batch[s] = {}
    BY <2>1 DEF CInv, EventsTrue, LibDead
  <2> HIDE DEF e
  <2>10. OnlyCreate' /\ Tracked'
    BY <2>1, <2>6, <2>8 DEF Took, CInv, OnlyCreate, Tracked
  <2>11. Newborn'
    <3>1. ~Queued("CreateSocket", s)'
      BY <2>1 DEF Took, CInv, Newborn
    <3> QED BY <2>1, <2>7, <2>8, <3>1 DEF Took, CInv, Newborn, Fresh
  <2>12. EventsTrue' /\ PollsTracked'
    BY <2>1, <2>8, <2>9 DEF Took, CInv, EventsTrue, PollsTracked
  <2>13. HeldOpen'
    BY <2>1, <2>5, <2>7, <2>8 DEF Took, CInv, HeldOpen
  <2>14. DeadNoted'
    BY <2>1, <2>5, <2>7, <2>8 DEF Took, CInv, DeadNoted, is_terminal_status, IInv, TypeOK
  <2>15. Succeeded'
    BY <2>1, <2>6, <2>7, <2>8 DEF Took, CInv, Succeeded
  <2> QED BY <2>1, <2>10, <2>11, <2>12, <2>13, <2>14, <2>15 DEF Took, CInv
<1>6. CASE Close(s)
  <2>1. /\ Took("Close") /\ close_and_release({s})
        /\ Deliver({x \in {s} : entry[x].connect_reply}, "Err")
    BY <1>1, <1>6 DEF Close
  <2>2. task[s] \in {"failed", "cancelled", "dropped", "closing"}
    BY <1>0, <2>1 DEF Took, CInv, NotClosing, TaskState, Awaiting, Ended
  <2>3. /\ \A x \in Sockets \ {s} : /\ lib'[x] = lib[x] /\ entry'[x] = entry[x]
                                    /\ reply'[x] = reply[x] /\ ready'[x] = ready[x]
        /\ ~entry'[s].connect_reply /\ ready'[s] = {} /\ s \notin sockets'
        /\ entry'[s].last_status = entry[s].last_status
        /\ sockets' = sockets \ {s}
        /\ (lib'[s] = lib[s] /\ lib[s] \in {"None", "NonExist"}) \/ lib'[s] = "Closed"
    BY <1>0, <2>1 DEF close_and_release, Deliver, SocketState
  <2>4. ~Queued("RegisterSocket", s)
    BY <2>1 DEF Took
  <2>5. lib[s] = "None" => lib'[s] = "None" /\ s \notin sockets /\ entry[s].last_status = "Init"
    BY <2>3, <2>1 DEF CInv, Newborn, Fresh, close_and_release
  <2>6. OnlyCreate' /\ Tracked'
    BY <2>1, <2>2, <2>3 DEF Took, CInv, OnlyCreate, Tracked
  <2>7. Newborn'
    <3>1. Queued("CreateSocket", s)' => lib'[s] = "None"
      BY <2>1, <2>5 DEF Took, CInv, Newborn
    <3> QED BY <2>1, <2>3, <2>4, <2>5, <3>1 DEF Took, CInv, Newborn, Fresh
  <2>8. EventsTrue'
    <3>1. ready'[s] \cup batch'[s] # {} => lib'[s] \in LibDead
      BY <2>1, <2>3 DEF Took, CInv, EventsTrue, LibDead
    <3> QED BY <2>1, <2>3, <3>1 DEF Took, CInv, EventsTrue
  <2>9. HeldOpen' /\ DeadNoted' /\ PollsTracked'
    BY <2>1, <2>3 DEF Took, CInv, HeldOpen, DeadNoted, PollsTracked, IInv, TypeOK
  <2>10. Succeeded'
    BY <2>1, <2>2, <2>3 DEF Took, CInv, Succeeded
  <2> QED BY <2>1, <2>6, <2>7, <2>8, <2>9, <2>10 DEF Took, CInv
<1> QED BY <1>2, <1>3, <1>4, <1>5, <1>6 DEF process_command, Connect

\* The rest of the loop keeps it: an event or a poll moves the status to what
\* libsrt has, and the reaper takes whatever the poll misread before the next
\* poll can read it again.
LEMMA LoopChannels ==
  ASSUME IInv, CInv, TypeOK',
         \/ EpollWait \/ EndEvents \/ cleanup_zombies
         \/ \E s \in Sockets : ProcessEvent(s) \/ PollState(s)
  PROVE  CInv'
<1>0. /\ task \in [Sockets -> TaskState] /\ reply \in [Sockets -> {"none", "Ok", "Err"}]
      /\ lib \in [Sockets -> LibState] /\ entry \in [Sockets -> SocketState]
      /\ sockets \subseteq Sockets
  BY DEF IInv, TypeOK
<1>1. task' = task /\ cmds' = cmds
  BY DEF EpollWait, EndEvents, cleanup_zombies, ProcessEvent, PollState, tokio
<1>2. /\ RegisterFirst' /\ NotClosing'
      /\ \A o, x : Queued(o, x)' <=> Queued(o, x)
  BY <1>1 DEF CInv, RegisterFirst, NotClosing, Queued
<1>3. CASE EpollWait
  <2>1. /\ UNCHANGED <<reply, lib, sockets, entry, todo>>
        /\ batch' = ready /\ phase = "cmds" /\ phase' = "events"
        /\ \A s \in Sockets : ready'[s] = {}
    BY <1>3 DEF EpollWait, tokio
  <2>2. EventsTrue'
    BY <2>1 DEF CInv, EventsTrue
  <2>3. OnlyCreate' /\ Newborn' /\ Tracked' /\ HeldOpen' /\ Succeeded'
    BY <1>1, <1>2, <2>1 DEF CInv, OnlyCreate, Newborn, Tracked, HeldOpen, Succeeded
  <2>4. DeadNoted' /\ PollsTracked'
    BY <2>1 DEF CInv, DeadNoted, PollsTracked
  <2> QED BY <1>2, <2>2, <2>3, <2>4 DEF CInv
<1>4. CASE EndEvents
  <2>1. /\ UNCHANGED <<reply, lib, sockets, entry, ready, batch>> /\ phase = "events"
        /\ \/ todo' = sockets /\ phase' = "sweep"
           \/ todo' = {} /\ phase' \in {"sweep", "cmds"}
    BY <1>4 DEF EndEvents, tokio, libsrt
  <2>2. OnlyCreate' /\ Newborn' /\ Tracked' /\ HeldOpen' /\ Succeeded' /\ EventsTrue'
    BY <1>1, <1>2, <2>1 DEF CInv, OnlyCreate, Newborn, Tracked, HeldOpen, Succeeded, EventsTrue
  <2>3. DeadNoted' /\ PollsTracked'
    BY <2>1 DEF CInv, DeadNoted, PollsTracked
  <2> QED BY <1>2, <2>2, <2>3 DEF CInv
<1>5. CASE cleanup_zombies
  <2>1. /\ close_and_release(Zombies) /\ UNCHANGED <<batch, todo>>
        /\ phase = "sweep" /\ phase' = "cmds" /\ todo = {}
        /\ Deliver({s \in Zombies : entry[s].connect_reply}, "Err")
    BY <1>5 DEF cleanup_zombies
  <2>2. \A s \in Sockets :
          \/ /\ s \notin Zombies
             /\ lib'[s] = lib[s] /\ entry'[s] = entry[s] /\ reply'[s] = reply[s]
             /\ ready'[s] = ready[s] /\ (s \in sockets' <=> s \in sockets)
          \/ /\ s \in Zombies /\ s \in sockets /\ s \notin sockets'
             /\ lib'[s] \in {"Closed", "NonExist"} \/ (lib[s] = "None" /\ lib'[s] = "None")
             /\ ready'[s] = {} /\ ~entry'[s].connect_reply
             /\ reply'[s] # "Ok" \/ reply'[s] = reply[s]
    BY <1>0, <2>1 DEF close_and_release, Deliver, Zombies, SocketState
  <2>3. sockets' \subseteq sockets
    BY <2>1 DEF close_and_release
  <2>4. \A s \in Zombies : lib'[s] \in LibDead /\ lib[s] \notin Fresh
    <3> SUFFICES ASSUME NEW s \in Zombies PROVE lib'[s] \in LibDead /\ lib[s] \notin Fresh
      OBVIOUS
    <3>1. s \in sockets /\ is_terminal_status(entry[s].last_status) /\ s \in Sockets
      BY <1>0 DEF Zombies
    <3>2. lib[s] \notin Fresh
      BY <3>1 DEF CInv, Newborn, Fresh, is_terminal_status
    <3> QED BY <2>2, <3>1, <3>2 DEF LibDead, Fresh
  <2>5. OnlyCreate' /\ Tracked'
    BY <1>1, <1>2, <2>2, <2>4 DEF CInv, OnlyCreate, Tracked, LibDead
  <2>6. Newborn'
    BY <1>2, <2>2, <2>4 DEF CInv, Newborn, Fresh, LibDead
  <2>7. EventsTrue'
    BY <2>1, <2>2, <2>4 DEF CInv, EventsTrue
  <2>8. HeldOpen' /\ PollsTracked'
    BY <2>1, <2>2 DEF CInv, HeldOpen, PollsTracked
  <2>9. Succeeded'
    BY <1>1, <2>2, <2>4 DEF CInv, Succeeded, LibDead
  <2>10. DeadNoted'
    <3>1. ASSUME NEW s \in sockets', is_terminal_status(entry'[s].last_status)
          PROVE  lib'[s] \in LibDead
      <4>1. s \in sockets /\ s \in Sockets /\ s \notin Zombies
        BY <1>0, <2>2, <2>3, <3>1
      <4>2. entry'[s] = entry[s] /\ lib'[s] = lib[s]
        BY <2>2, <4>1
      <4>3. entry[s].recv_tx
        BY <3>1, <4>1, <4>2 DEF Zombies
      <4> QED BY <3>1, <4>1, <4>2, <4>3 DEF CInv, DeadNoted
    <3> QED BY <3>1 DEF DeadNoted
  <2> QED BY <1>2, <2>5, <2>6, <2>7, <2>8, <2>9, <2>10 DEF CInv
<1>6. ASSUME NEW s \in Sockets, ProcessEvent(s) PROVE CInv'
  <2> DEFINE took == s \in sockets /\ "CONNECT" \in batch[s] /\ entry[s].connect_reply
             up == getsockstate(lib[s]) = "Connected"
             cleared == [entry[s] EXCEPT !.connect_reply = FALSE]
             e == IF took THEN update_status(cleared, IF up THEN "Connected" ELSE "Broken")
                  ELSE entry[s]
             err == s \in sockets /\ "ERR" \in batch[s]
  <2>1. /\ UNCHANGED <<lib, sockets, ready, phase, todo>> /\ phase = "events"
        /\ batch[s] # {} /\ batch'= [batch EXCEPT ![s] = {}]
        /\ Deliver({x \in {s} : took}, IF up THEN "Ok" ELSE "Err")
        /\ entry' = [entry EXCEPT ![s] = IF err THEN update_status(e, "Broken") ELSE e]
    BY <1>6 DEF ProcessEvent, libsrt
  <2>2. /\ up <=> lib[s] = "Connected"
        /\ lib[s] \in {"Connected"} \cup LibDead
        /\ err => lib[s] \in LibDead
    BY <2>1 DEF CInv, EventsTrue, getsockstate, raw_state_to_status, SocketStatus, LibDead
  <2>3. entry[s] \in SocketState /\ cleared \in SocketState
        /\ ~cleared.connect_reply /\ cleared.recv_tx = entry[s].recv_tx
        /\ cleared.send_rx = entry[s].send_rx
    BY <1>0 DEF SocketState
  <2>4. /\ \A x \in Sockets \ {s} : entry'[x] = entry[x] /\ reply'[x] = reply[x]
        /\ entry'[s] = IF err THEN update_status(e, "Broken") ELSE e
        /\ reply'[s] # reply[s] => took /\ reply'[s] = IF up THEN "Ok" ELSE "Err"
    BY <1>0, <2>1 DEF Deliver
  <2>5. /\ e \in SocketState
        /\ ~took => e = entry[s]
        /\ took => ~e.connect_reply
        /\ took /\ up => e = [last_status |-> "Connected", recv_tx |-> TRUE,
                              send_rx |-> TRUE, connect_reply |-> FALSE]
    <3> HIDE DEF cleared
    <3>1. \A st \in {"Connected", "Broken"} : /\ update_status(cleared, st) \in SocketState
                                              /\ ~update_status(cleared, st).connect_reply
      BY <2>3, UpdateStatusType, UpdateStatusFields DEF SocketStatus
    <3>2. took /\ up => entry[s].recv_tx /\ entry[s].send_rx
      BY <2>2 DEF CInv, HeldOpen, LibAlive
    <3>3. took /\ up => update_status(cleared, "Connected") =
                          [last_status |-> "Connected", recv_tx |-> TRUE,
                           send_rx |-> TRUE, connect_reply |-> FALSE]
      BY <2>3, <3>1, <3>2, UpdateStatusFields, SameState DEF is_terminal_status
    <3> HIDE DEF took, up
    <3> QED BY <2>3, <3>1, <3>3
  <2>6. err => entry'[s].last_status = "Broken" /\ (entry'[s].connect_reply <=> e.connect_reply)
    <3> HIDE DEF e
    <3> QED BY <2>4, <2>5, UpdateStatusFields
  <2> HIDE DEF e, cleared
  <2>7. lib[s] \notin Fresh
    BY <2>2 DEF Fresh, LibDead
  <2>8. ~(task[s] = "creating" /\ took) /\ (reply'[s] = "Ok" /\ reply[s] # "Ok" => took /\ up)
    BY <2>4 DEF IInv, ReplyAwaited
  <2>9. OnlyCreate' /\ Tracked'
    BY <1>1, <1>2, <2>1, <2>4, <2>8 DEF CInv, OnlyCreate, Tracked
  <2>10. Newborn'
    BY <1>2, <2>1, <2>4, <2>7 DEF CInv, Newborn
  <2>11. EventsTrue'
    <3>1. \A x \in Sockets : batch'[x] \subseteq batch[x]
      BY <2>1 DEF IInv, TypeOK
    <3> QED BY <2>1, <3>1 DEF CInv, EventsTrue
  <2>12. HeldOpen'
    <3>1. entry'[s].connect_reply /\ lib[s] \in LibAlive => entry'[s] = entry[s]
      BY <2>2, <2>4, <2>5 DEF LibAlive, LibDead
    <3> QED BY <2>1, <2>4, <3>1 DEF CInv, HeldOpen
  <2>13. DeadNoted'
    <3>1. is_terminal_status(entry'[s].last_status) => lib[s] \in LibDead \/ entry'[s] = entry[s]
      BY <2>2, <2>4, <2>5 DEF is_terminal_status
    <3> QED BY <1>0, <2>1, <2>4, <3>1 DEF CInv, DeadNoted
  <2>14. PollsTracked'
    BY <2>1 DEF CInv, PollsTracked
  <2>15. Succeeded'
    <3>1. ASSUME task[s] \in {"addrs", "open"} \/ (task[s] = "connecting" /\ reply'[s] = "Ok"),
                 lib[s] = "Connected"
          PROVE  s \in sockets /\ entry'[s] = [last_status |-> "Connected", recv_tx |-> TRUE,
                                     send_rx |-> TRUE, connect_reply |-> FALSE]
      <4>1. CASE took
        BY <2>2, <2>4, <2>5, <3>1, <4>1 DEF LibDead
      <4>2. CASE ~took
        BY <2>2, <2>4, <2>5, <2>8, <3>1, <4>2 DEF LibDead, CInv, Succeeded
      <4> QED BY <4>1, <4>2
    <3> QED BY <1>1, <2>1, <2>2, <2>4, <3>1 DEF CInv, Succeeded
  <2> QED BY <1>2, <2>9, <2>10, <2>11, <2>12, <2>13, <2>14, <2>15 DEF CInv
<1>7. ASSUME NEW s \in Sockets, PollState(s) PROVE CInv'
  <2> DEFINE st == getsockstate(lib[s])
             answers == st # entry[s].last_status /\ st \in {"Broken", "Closed"}
                        /\ entry[s].connect_reply
             cleared == [entry[s] EXCEPT !.connect_reply = FALSE]
             e == IF answers THEN cleared ELSE entry[s]
  <2>1. /\ UNCHANGED <<lib, sockets, ready, batch, phase>> /\ phase = "sweep"
        /\ s \in todo /\ todo' = todo \ {s}
        /\ Deliver({x \in {s} : answers}, "Err")
        /\ entry' = [entry EXCEPT ![s] = IF st # entry[s].last_status
                                           THEN update_status(e, st) ELSE entry[s]]
    BY <1>7 DEF PollState, libsrt
  <2>2. s \in sockets /\ lib[s] # "None"
    BY <2>1 DEF CInv, PollsTracked, Newborn
  <2>3. /\ st = IF lib[s] = "Midway" THEN "Broken" ELSE lib[s]
        /\ is_terminal_status(st) <=> lib[s] \in LibDead \cup {"Midway"}
    BY <1>0, <2>2 DEF getsockstate, raw_state_to_status, SocketStatus, LibState, LibAlive,
                      LibDead, is_terminal_status
  <2>4. /\ entry[s] \in SocketState /\ e \in SocketState
        /\ e.recv_tx = entry[s].recv_tx /\ e.send_rx = entry[s].send_rx
        /\ e.connect_reply => entry[s].connect_reply /\ ~answers
        /\ entry[s].connect_reply /\ ~answers => e.connect_reply
    BY <1>0 DEF SocketState
  <2>5. /\ \A x \in Sockets \ {s} : entry'[x] = entry[x] /\ reply'[x] = reply[x]
        /\ st = entry[s].last_status => entry'[s] = entry[s]
        /\ st # entry[s].last_status => entry'[s] = update_status(e, st)
        /\ reply'[s] # reply[s] => reply'[s] = "Err"
    BY <1>0, <2>1 DEF Deliver
  <2> HIDE DEF e, st
  <2>6. /\ entry'[s].last_status = st
        /\ entry'[s].connect_reply => entry[s].connect_reply /\ ~answers
        /\ ~is_terminal_status(st) => /\ entry'[s].recv_tx <=> entry[s].recv_tx
                                      /\ entry'[s].send_rx <=> entry[s].send_rx
        /\ is_terminal_status(st) /\ st # entry[s].last_status => ~entry'[s].recv_tx
    BY <2>4, <2>5, UpdateStatusFields
  <2>7. OnlyCreate' /\ Tracked'
    BY <1>1, <1>2, <2>1, <2>2, <2>5 DEF CInv, OnlyCreate, Tracked
  <2>8. Newborn'
    <3>1. lib[s] \in Fresh => ~is_terminal_status(st) /\ st \in {"Init", "Opened"}
      BY <2>2, <2>3 DEF Fresh, LibDead
    <3> QED BY <1>2, <2>1, <2>2, <2>5, <2>6, <3>1 DEF CInv, Newborn
  <2>9. EventsTrue' /\ PollsTracked'
    BY <2>1 DEF CInv, EventsTrue, PollsTracked
  <2>10. HeldOpen'
    <3>1. ASSUME entry'[s].connect_reply, lib[s] \in LibAlive
          PROVE  /\ entry'[s].recv_tx /\ entry'[s].send_rx
                 /\ entry'[s].last_status \in {"Connecting", "Connected"}
      <4>1. /\ entry[s].connect_reply /\ ~answers /\ entry[s].recv_tx /\ entry[s].send_rx
            /\ entry[s].last_status \in {"Connecting", "Connected"}
            /\ lib[s] \notin Fresh
        BY <2>6, <3>1 DEF CInv, HeldOpen, Newborn
      <4>2. st \in {"Connecting", "Connected"} /\ ~is_terminal_status(st)
        BY <2>3, <3>1, <4>1 DEF LibAlive, LibDead, Fresh, is_terminal_status
      <4> QED BY <2>6, <4>1, <4>2
    <3> QED BY <2>1, <2>2, <2>5, <3>1 DEF CInv, HeldOpen
  <2>11. DeadNoted'
    <3>1. ASSUME is_terminal_status(entry'[s].last_status), lib[s] \notin LibDead
          PROVE  ~entry'[s].recv_tx
      BY <2>1, <2>2, <2>6, <3>1 DEF CInv, DeadNoted
    <3> QED BY <1>0, <2>1, <2>5, <3>1 DEF CInv, DeadNoted
  <2>12. Succeeded'
    <3>1. ASSUME lib[s] = "Connected", entry[s].last_status = "Connected"
          PROVE  entry'[s] = entry[s]
      BY <2>3, <2>5, <3>1
    <3> QED BY <1>1, <2>1, <2>5, <3>1 DEF CInv, Succeeded
  <2> QED BY <1>2, <2>7, <2>8, <2>9, <2>10, <2>11, <2>12 DEF CInv
<1> QED BY <1>3, <1>4, <1>5, <1>6, <1>7

\* Both invariants hold for ever.
THEOREM ChannelInvariant == Spec => [](IInv /\ CInv)
<1>1. Init => CInv
  <2> SUFFICES ASSUME Init PROVE CInv
    OBVIOUS
  <2>1. RegisterFirst /\ OnlyCreate /\ NotClosing /\ EventsTrue /\ PollsTracked
    BY DEF Init, RegisterFirst, OnlyCreate, NotClosing, EventsTrue, PollsTracked, Queued
  <2>2. Newborn /\ Tracked /\ HeldOpen /\ Succeeded /\ DeadNoted
    BY DEF Init, Newborn, Tracked, HeldOpen, Succeeded, DeadNoted, Queued, LibAlive
  <2> QED BY <2>1, <2>2 DEF CInv
<1>2. IInv /\ CInv /\ [Next]_vars => CInv'
  <2> SUFFICES ASSUME IInv, CInv, [Next]_vars, TypeOK' PROVE CInv'
    BY TypeStep DEF IInv
  <2>1. ASSUME NEW s \in Sockets, Task(s) \/ App(s) PROVE CInv'
    BY <2>1, TaskChannels
  <2>2. ASSUME NEW s \in Sockets, Libsrt(s) PROVE CInv'
    BY <2>2, LibChannels
  <2>3. CASE io_thread_main
    BY <2>3, CommandChannels, LoopChannels DEF io_thread_main
  <2>4. CASE UNCHANGED vars
    BY <2>4 DEF vars, CInv, RegisterFirst, OnlyCreate, NotClosing, EventsTrue, Newborn,
                Tracked, HeldOpen, Succeeded, DeadNoted, PollsTracked, Queued
  <2> QED BY <2>1, <2>2, <2>3, <2>4 DEF Next
<1> QED BY <1>1, <1>2, Invariant, PTL DEF Spec

\* A connection libsrt still has up keeps both its channels, whatever events
\* and polls went by: nothing the bridge does to a caller socket unblocks the
\* recv() and send() of a healthy one.
THEOREM HealthyKept == Spec => []HealthyKeepsChannels
<1>1. CInv => HealthyKeepsChannels
  BY DEF CInv, Succeeded, HealthyKeepsChannels
<1> QED BY <1>1, ChannelInvariant, PTL

\* Of one step: only a command that finds the socket newborn, an event that
\* tells the truth and a poll write a live status, and none of them finds a
\* terminal one.
LEMMA StatusStays ==
  ASSUME IInv, CInv, [Next]_vars, NEW s \in Sockets,
         is_terminal_status(entry[s].last_status)
  PROVE  is_terminal_status(entry'[s].last_status)
<1>0. entry \in [Sockets -> SocketState] /\ entry[s] \in SocketState
  BY DEF IInv, TypeOK
<1>1. SUFFICES ASSUME entry'[s] # entry[s] PROVE is_terminal_status(entry'[s].last_status)
  OBVIOUS
<1>2. CASE UNCHANGED vars \/ EpollWait \/ EndEvents
           \/ \E x \in Sockets : Task(x) \/ App(x) \/ Libsrt(x)
  <2>1. entry' = entry
    BY <1>2 DEF vars, EpollWait, EndEvents, Task, App, Libsrt, Created, Registered, Bound,
         ConnectAnswered, ConnectTimeout, AddrsAnswered, connect, Cancel, close, Drop, Advance,
         HandshakeMidway, HandshakeDone, HandshakeFails, LinkBreaks, GarbageCollect, LibMove
  <2> QED BY <1>1, <2>1
<1>3. ASSUME NEW S, close_and_release(S) PROVE is_terminal_status(entry'[s].last_status)
  BY <1>0, <1>3 DEF close_and_release, SocketState
<1>4. ASSUME NEW x \in Sockets, RegisterSocket(x) PROVE FALSE
  <2>1. x = s /\ Received("RegisterSocket", s)
    BY <1>0, <1>1, <1>4 DEF RegisterSocket
  <2>2. Queued("RegisterSocket", s)
    BY <2>1, ReceivedQueued DEF IInv
  <2> QED BY <2>2 DEF CInv, Newborn, Fresh, is_terminal_status
<1>5. ASSUME NEW x \in Sockets, NEW y, ConnectStarted(x, y) PROVE FALSE
  <2>1. x = s /\ lib[s] \in {"Init", "Opened"}
    BY <1>0, <1>1, <1>5 DEF ConnectStarted
  <2> QED BY <2>1 DEF CInv, Newborn, Fresh, is_terminal_status
<1>6. ASSUME NEW x \in Sockets,
             CreateSocket(x) \/ Bind(x) \/ ConnectRefused(x) \/ GetAddr(x)
      PROVE  FALSE
  BY <1>1, <1>6 DEF CreateSocket, Bind, ConnectRefused, GetAddr
<1>7. ASSUME NEW x \in Sockets, ProcessEvent(x) PROVE is_terminal_status(entry'[s].last_status)
  <2> DEFINE took == s \in sockets /\ "CONNECT" \in batch[s] /\ entry[s].connect_reply
             up == getsockstate(lib[s]) = "Connected"
             cleared == [entry[s] EXCEPT !.connect_reply = FALSE]
             e == IF took THEN update_status(cleared, IF up THEN "Connected" ELSE "Broken")
                  ELSE entry[s]
             err == s \in sockets /\ "ERR" \in batch[s]
  <2>1. x = s
    BY <1>0, <1>1, <1>7 DEF ProcessEvent
  <2>2. phase = "events" /\ entry'[s] = IF err THEN update_status(e, "Broken") ELSE e
    BY <1>0, <1>7, <2>1 DEF ProcessEvent
  <2>3. took => ~up
    BY <2>2 DEF CInv, DeadNoted, getsockstate, raw_state_to_status, SocketStatus, LibDead
  <2>4. cleared \in SocketState
    BY <1>0 DEF SocketState
  <2>5. e \in SocketState /\ is_terminal_status(e.last_status)
    <3> HIDE DEF cleared
    <3>1. /\ update_status(cleared, "Broken") \in SocketState
          /\ update_status(cleared, "Broken").last_status = "Broken"
      BY <2>4, UpdateStatusType, UpdateStatusFields DEF SocketStatus
    <3> HIDE DEF took, up
    <3> QED BY <1>0, <2>3, <3>1 DEF is_terminal_status
  <2> HIDE DEF e
  <2>6. update_status(e, "Broken").last_status = "Broken"
    BY <2>5, UpdateStatusFields
  <2> QED BY <2>2, <2>5, <2>6 DEF is_terminal_status
<1>8. ASSUME NEW x \in Sockets, PollState(x) PROVE is_terminal_status(entry'[s].last_status)
  <2> DEFINE st == getsockstate(lib[s])
             cleared == [entry[s] EXCEPT !.connect_reply = FALSE]
  <2>1. x = s
    BY <1>0, <1>1, <1>8 DEF PollState
  <2>2. s \in todo /\ entry'[s] \in {update_status(cleared, st), update_status(entry[s], st)}
    BY <1>0, <1>1, <1>8, <2>1 DEF PollState
  <2>3. lib[s] \in LibDead
    BY <2>2 DEF CInv, DeadNoted, PollsTracked
  <2>4. is_terminal_status(st)
    BY <2>3 DEF getsockstate, raw_state_to_status, SocketStatus, LibDead, is_terminal_status
  <2>5. cleared \in SocketState
    BY <1>0 DEF SocketState
  <2> HIDE DEF cleared, st
  <2> QED BY <1>0, <2>2, <2>4, <2>5, UpdateStatusFields
<1> QED BY <1>2, <1>3, <1>4, <1>5, <1>6, <1>7, <1>8
        DEF Next, io_thread_main, process_command, Connect, Close, cleanup_zombies

\* A handle that has been told its socket is dead is never told otherwise.
THEOREM NeverRevived == Spec => NoRevival
<1>1. IInv /\ CInv /\ [Next]_vars =>
        [\A s \in Sockets : is_terminal_status(entry[s].last_status) =>
                              is_terminal_status(entry'[s].last_status)]_vars
  BY StatusStays
<1> QED BY <1>1, ChannelInvariant, PTL DEF Spec, NoRevival

=============================================================================
