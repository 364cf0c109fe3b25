--------------------------- MODULE ListenerProofs ---------------------------
(***************************************************************************)
(* Proofs about Listener, for any set of connections, any filter and any   *)
(* capacity of the accept channel.                                         *)
(***************************************************************************)
EXTENDS Listener, TLAPS

(* The inductive invariant. The questions of a bind future are on the      *)
(* command channel one at a time, behind the registration of the listener, *)
(* so a Listen always finds the slot its filter needs; and no hook is left *)
(* to run once close_and_release has started.                              *)

Ops == {"CreateSocket", "RegisterListener", "RegisterSocket", "Bind", "Listen",
        "GetAddr", "Close"}
Asks == {"CreateSocket", "Bind", "Listen", "GetAddr"}
AwaitOf(op) == CASE op = "CreateSocket" -> "creating"
                 [] op = "Bind" -> "binding"
                 [] op = "Listen" -> "listening"
                 [] OTHER -> "addr"

Ask(x) == x.id = L /\ x.op \in Asks

OneAsk == \A i, j \in 1..Len(cmds) : Ask(cmds[i]) /\ Ask(cmds[j]) => i = j

AskAwaited == \A op \in Asks :
                Queued(op, L) => \/ task = "cancelled"
                                 \/ task = AwaitOf(op) /\ reply = "none"

RegisterFirst == \A i, j \in 1..Len(cmds) :
                   cmds[i] = Cmd("RegisterListener", L) /\ cmds[j].id = L => i <= j

OnlyCreate == task \in {"idle", "creating"} =>
                \A op \in Ops \ {"CreateSocket"} : ~Queued(op, L)

Closing == Queued("Close", L) \/ releasing =>
             task \in {"closed", "dropping", "draining", "dropped"}

Armable == L \in sockets /\ (Filtered => slot = "held")

\* From the registration to the answer to Listen, the slot is there, or the
\* command that puts it there is ahead of all others.
Prepared == \/ task = "binding"
            \/ task = "listening" /\ reply = "none"
            \/ Queued("Bind", L) \/ Queued("Listen", L)
            => Queued("RegisterListener", L) \/ Armable

Guarded == /\ Filtered /\ lib = "Listening" => armed
           /\ armed => slot = "held"
           /\ releasing => ~armed /\ \A c \in Conns : conn[c] # "hook"

RxClosed == task \in {"draining", "dropped", "cancelled"} => rx_closed

\* Where a bind that fails can have come from.
NoPort == \/ task \in {"idle", "creating"}
          \/ task = "binding" /\ reply # "Ok"
          \/ task = "listening" /\ reply = "Err"
          \/ task = "failed"
          => lib \notin {"Opened", "Listening"}

IInv == /\ TypeOK
        /\ OneAsk
        /\ AskAwaited
        /\ RegisterFirst
        /\ OnlyCreate
        /\ Closing
        /\ Prepared
        /\ Guarded
        /\ RxClosed
        /\ NoPort
        /\ NoOrphan
        /\ FilterEnforced
        /\ HookReadsLiveSlot

\* Everything starts in its range.
LEMMA TypeInit == Init => TypeOK
<1> SUFFICES ASSUME Init PROVE TypeOK
  OBVIOUS
<1>1. chan \in Seq(Conns) /\ Len(chan) <= ACCEPT_CAPACITY /\ cmds \in Seq(Command)
  BY ListenerAssumption DEF Init
<1>2. task \in TaskState /\ sockets \subseteq Ids
  BY DEF Init, TaskState
<1> QED BY <1>1, <1>2 DEF Init, TypeOK

\* Sending appends: what was queued stays, and the rest is what was sent.
LEMMA Sends ==
  ASSUME TypeOK, NEW q \in Seq(Command), cmds' = cmds \o q
  PROVE  /\ cmds' \in Seq(Command)
         /\ \A o, x : Queued(o, x)' <=> Queued(o, x) \/ \E k \in 1..Len(q) : q[k] = Cmd(o, x)
<1>1. /\ Len(cmds) \in Nat /\ Len(q) \in Nat /\ Len(cmds') = Len(cmds) + Len(q)
      /\ \A i \in 1..Len(cmds) : cmds'[i] = cmds[i]
      /\ \A k \in 1..Len(q) : cmds'[Len(cmds) + k] = q[k]
      /\ cmds' \in Seq(Command)
  BY DEF TypeOK
<1>2. \A i \in 1..Len(cmds') : i \in 1..Len(cmds) \/ i - Len(cmds) \in 1..Len(q)
  BY <1>1
<1>3. ASSUME NEW o, NEW x, Queued(o, x)'
      PROVE  Queued(o, x) \/ \E k \in 1..Len(q) : q[k] = Cmd(o, x)
  <2>1. PICK i \in 1..Len(cmds') : cmds'[i] = Cmd(o, x)
    BY <1>3 DEF Queued
  <2>2. CASE i \in 1..Len(cmds)
    BY <1>1, <2>1, <2>2 DEF Queued
  <2>3. CASE i - Len(cmds) \in 1..Len(q)
    BY <1>1, <2>1, <2>3
  <2> QED BY <1>2, <2>2, <2>3
<1>4. ASSUME NEW o, NEW x, Queued(o, x) \/ \E k \in 1..Len(q) : q[k] = Cmd(o, x)
      PROVE  Queued(o, x)'
  <2>1. CASE Queued(o, x)
    <3>1. PICK i \in 1..Len(cmds) : cmds[i] = Cmd(o, x)
      BY <2>1 DEF Queued
    <3>2. i \in 1..Len(cmds') /\ cmds'[i] = Cmd(o, x)
      BY <1>1, <3>1
    <3> QED BY <3>2 DEF Queued
  <2>2. ASSUME NEW k \in 1..Len(q), q[k] = Cmd(o, x) PROVE Queued(o, x)'
    <3>1. Len(cmds) + k \in 1..Len(cmds') /\ cmds'[Len(cmds) + k] = Cmd(o, x)
      BY <1>1, <2>2
    <3> QED BY <3>1 DEF Queued
  <2> QED BY <1>4, <2>1, <2>2
<1> QED BY <1>1, <1>3, <1>4

\* Sending keeps the channel in order when it adds at most one question, to
\* none, and registers the listener ahead of everything else about it.
LEMMA SendsInOrder ==
  ASSUME TypeOK, OneAsk, RegisterFirst, NEW q \in Seq(Command), cmds' = cmds \o q,
         \A k, l \in 1..Len(q) : /\ Ask(q[k]) /\ Ask(q[l]) => k = l
                                 /\ q[k] = Cmd("RegisterListener", L) /\ q[l].id = L => k <= l,
         \A i \in 1..Len(cmds), k \in 1..Len(q) :
           /\ ~(Ask(cmds[i]) /\ Ask(q[k]))
           /\ ~(cmds[i].id = L /\ q[k] = Cmd("RegisterListener", L))
  PROVE  OneAsk' /\ RegisterFirst'
<1>1. /\ Len(cmds) \in Nat /\ Len(q) \in Nat /\ Len(cmds') = Len(cmds) + Len(q)
      /\ \A i \in 1..Len(cmds) : cmds'[i] = cmds[i]
      /\ \A k \in 1..Len(q) : cmds'[Len(cmds) + k] = q[k]
  BY DEF TypeOK
<1>2. \A i \in 1..Len(cmds') :
        \/ i \in 1..Len(cmds) /\ cmds'[i] = cmds[i]
        \/ i - Len(cmds) \in 1..Len(q) /\ cmds'[i] = q[i - Len(cmds)]
  BY <1>1
<1>3. OneAsk'
  <2> SUFFICES ASSUME NEW i \in 1..Len(cmds'), NEW j \in 1..Len(cmds'),
                      Ask(cmds'[i]), Ask(cmds'[j])
               PROVE  i = j
    BY DEF OneAsk, Ask
  <2> QED BY <1>1, <1>2 DEF OneAsk
<1>4. RegisterFirst'
  <2> SUFFICES ASSUME NEW i \in 1..Len(cmds'), NEW j \in 1..Len(cmds'),
                      cmds'[i] = Cmd("RegisterListener", L), cmds'[j].id = L
               PROVE  i <= j
    BY DEF RegisterFirst, Cmd
  <2>1. CASE i \in 1..Len(cmds) /\ cmds'[i] = cmds[i]
    <3>1. CASE j \in 1..Len(cmds) /\ cmds'[j] = cmds[j]
      BY <2>1, <3>1 DEF RegisterFirst
    <3>2. CASE j - Len(cmds) \in 1..Len(q)
      BY <1>1, <2>1, <3>2
    <3> QED BY <1>2, <3>1, <3>2
  <2>2. CASE i - Len(cmds) \in 1..Len(q) /\ cmds'[i] = q[i - Len(cmds)]
    <3>1. ~(j \in 1..Len(cmds) /\ cmds'[j] = cmds[j])
      BY <2>2
    <3>2. j - Len(cmds) \in 1..Len(q) /\ cmds'[j] = q[j - Len(cmds)]
      BY <1>2, <3>1
    <3>3. i - Len(cmds) <= j - Len(cmds)
      BY <2>2, <3>2
    <3> QED BY <1>1, <3>3
  <2> QED BY <1>2, <2>1, <2>2
<1> QED BY <1>3, <1>4

\* Receiving takes off exactly the head; nothing about the listener comes
\* before its registration, and one question is all there is.
LEMMA Receives ==
  ASSUME TypeOK, OneAsk, RegisterFirst, NEW op, NEW x \in Ids, Received(op, x)
  PROVE  /\ cmds' \in Seq(Command)
         /\ Queued(op, x)
         /\ \A o, y : Queued(o, y)' => Queued(o, y)
         /\ \A o, y : Queued(o, y) /\ ~(o = op /\ y = x) => Queued(o, y)'
         /\ OneAsk' /\ RegisterFirst'
         /\ x = L /\ op \in Asks => \A o \in Asks : ~Queued(o, L)'
         /\ x = L /\ op # "RegisterListener" => ~Queued("RegisterListener", L)
<1>1. /\ Len(cmds) \in Nat \ {0} /\ Len(cmds') = Len(cmds) - 1
      /\ \A i \in 1..Len(cmds') : cmds'[i] = cmds[i + 1]
      /\ cmds[1] = Cmd(op, x) /\ cmds' \in Seq(Command)
  BY DEF TypeOK, Received
<1>2. Queued(op, x) /\ \A o, y : Queued(o, y)' => Queued(o, y)
  BY <1>1 DEF Queued
<1>3. ASSUME NEW o, NEW y, Queued(o, y), ~(o = op /\ y = x) PROVE Queued(o, y)'
  <2>1. PICK i \in 1..Len(cmds) : cmds[i] = Cmd(o, y)
    BY <1>3 DEF Queued
  <2>2. i # 1
    BY <1>1, <1>3, <2>1 DEF Cmd
  <2>3. i - 1 \in 1..Len(cmds') /\ cmds'[i - 1] = cmds[i]
    BY <1>1, <2>2
  <2> QED BY <2>1, <2>3 DEF Queued
<1>4. OneAsk' /\ RegisterFirst'
  <2>1. \A i \in 1..Len(cmds') : i + 1 \in 1..Len(cmds)
    BY <1>1
  <2>2. OneAsk'
    BY <1>1, <2>1 DEF OneAsk, Ask
  <2>3. RegisterFirst'
    <3> SUFFICES ASSUME NEW i \in 1..Len(cmds'), NEW j \in 1..Len(cmds'),
                        cmds'[i] = Cmd("RegisterListener", L), cmds'[j].id = L
                 PROVE  i <= j
      BY DEF RegisterFirst, Cmd
    <3>1. i + 1 <= j + 1
      BY <1>1, <2>1 DEF RegisterFirst
    <3> QED BY <3>1
  <2> QED BY <2>2, <2>3
<1>5. ASSUME x = L, op \in Asks, NEW o \in Asks, Queued(o, L)' PROVE FALSE
  <2>1. PICK i \in 1..Len(cmds') : cmds'[i] = Cmd(o, L)
    BY <1>5 DEF Queued
  <2>2. i + 1 \in 1..Len(cmds) /\ Ask(cmds[i + 1]) /\ Ask(cmds[1]) /\ 1 \in 1..Len(cmds)
    BY <1>1, <1>5, <2>1 DEF Ask, Cmd
  <2> QED BY <2>2 DEF OneAsk
<1>6. ASSUME x = L, op # "RegisterListener", Queued("RegisterListener", L) PROVE FALSE
  <2>1. PICK i \in 1..Len(cmds) : cmds[i] = Cmd("RegisterListener", L)
    BY <1>6 DEF Queued
  <2>2. cmds[1].id = L /\ cmds[1].op = op /\ 1 \in 1..Len(cmds)
    BY <1>1, <1>6 DEF Cmd
  <2>3. i <= 1
    BY <2>1, <2>2 DEF RegisterFirst
  <2> QED BY <1>6, <2>1, <2>2, <2>3 DEF Cmd
<1> QED BY <1>1, <1>2, <1>3, <1>4, <1>5, <1>6

\* What is sent is made of commands.
LEMMA CmdType ==
  ASSUME NEW op \in Ops, NEW x \in Ids
  PROVE  Cmd(op, x) \in Command
BY DEF Cmd, Command, Ops

\* What is on the channel is a command, and is queued.
LEMMA InChannel ==
  ASSUME TypeOK, NEW i \in 1..Len(cmds)
  PROVE  cmds[i].op \in Ops /\ Queued(cmds[i].op, cmds[i].id)
<1>1. cmds[i] \in Command
  BY DEF TypeOK
<1>2. cmds[i].op \in Ops /\ cmds[i] = Cmd(cmds[i].op, cmds[i].id)
  BY <1>1 DEF Command, Cmd, Ops
<1> QED BY <1>2 DEF Queued

\* A step of the bind future, or of the listener, keeps every type.
LEMMA AdvanceType ==
  ASSUME TypeOK, NEW from, NEW to \in TaskState, NEW q \in Seq(Command),
         Advance(from, to, q)
  PROVE  TypeOK'
<1>1. cmds' \in Seq(Command)
  BY Sends DEF Advance
<1> QED BY <1>1 DEF Advance, TypeOK, libsrt

\* Every step keeps every variable in its range.
LEMMA TypeStep == TypeOK /\ OneAsk /\ RegisterFirst /\ [Next]_vars => TypeOK'
<1> SUFFICES ASSUME TypeOK, OneAsk, RegisterFirst, [Next]_vars PROVE TypeOK'
  OBVIOUS
<1>1. L \in Ids /\ Conns \subseteq Ids
  BY DEF Ids
<1>2. /\ <<>> \in Seq(Command)
      /\ \A op \in {"CreateSocket", "Listen", "GetAddr", "Close"} : <<Cmd(op, L)>> \in Seq(Command)
      /\ <<Cmd("RegisterListener", L), Cmd("RegisterSocket", L), Cmd("Bind", L)>> \in Seq(Command)
  BY <1>1, CmdType DEF Ops
<1>3. CASE BindTask
  <2> USE DEF TaskState, Awaiting
  <2>1. CASE Created
    BY <1>2, <2>1, AdvanceType DEF Created, Fails
  <2>2. CASE Bound
    BY <1>2, <2>2, AdvanceType DEF Bound, Fails
  <2>3. CASE Listened
    BY <1>2, <2>3, AdvanceType DEF Listened, Fails
  <2>4. CASE AddrAnswered
    BY <1>2, <2>4, AdvanceType DEF AddrAnswered
  <2> QED BY <1>3, <2>1, <2>2, <2>3, <2>4 DEF BindTask
<1>4. CASE bind \/ close \/ Drop
  BY <1>2, <1>4, AdvanceType DEF bind, close, Drop, TaskState, Awaiting
<1>5. CASE CancelBind \/ DropClosesChannel
  <2>1. chan' \in Seq(Conns) /\ Len(chan') <= ACCEPT_CAPACITY
    <3>1. chan' = <<>> \/ chan' = chan
      BY <1>5 DEF CancelBind, DropClosesChannel
    <3>2. <<>> \in Seq(Conns) /\ Len(<<>>) <= ACCEPT_CAPACITY
      BY ListenerAssumption
    <3>3. chan \in Seq(Conns) /\ Len(chan) <= ACCEPT_CAPACITY
      BY DEF TypeOK
    <3> QED BY <3>1, <3>2, <3>3
  <2> QED BY <1>5, <2>1 DEF CancelBind, DropClosesChannel, TypeOK, TaskState, libsrt
<1>6. CASE DropDrains
  <2>1. /\ \/ /\ chan # <<>> /\ chan' = Tail(chan) /\ task' = task
              /\ cmds' = Append(cmds, Cmd("Close", Head(chan)))
           \/ task' = "dropped" /\ chan' = chan /\ cmds' = cmds
        /\ UNCHANGED <<reply, sock, rx_closed, sockets, slot, releasing, lib, armed, conn>>
    BY <1>6 DEF DropDrains, libsrt
  <2>2. chan # <<>> => /\ Head(chan) \in Conns /\ Tail(chan) \in Seq(Conns)
                       /\ Len(Tail(chan)) <= ACCEPT_CAPACITY
    BY ListenerAssumption DEF TypeOK
  <2>3. chan # <<>> => Cmd("Close", Head(chan)) \in Command
    BY <1>1, <2>2, CmdType DEF Ops
  <2>4. cmds' \in Seq(Command)
    <3>1. cmds \in Seq(Command)
      BY DEF TypeOK
    <3> QED BY <2>1, <2>3, <3>1
  <2> QED BY <2>1, <2>2, <2>4 DEF TypeOK, TaskState
<1>7. CASE accept
  <2>1. /\ Head(chan) \in Conns /\ Tail(chan) \in Seq(Conns)
        /\ Len(Tail(chan)) <= ACCEPT_CAPACITY
    BY <1>7, ListenerAssumption DEF accept, TypeOK
  <2>2. <<Cmd("RegisterSocket", Head(chan)), Cmd("GetAddr", Head(chan))>> \in Seq(Command)
    BY <1>1, <2>1, CmdType DEF Ops
  <2>3. cmds' \in Seq(Command)
    BY <1>7, <2>2, Sends DEF accept
  <2> QED BY <1>7, <2>1, <2>3 DEF accept, TypeOK, libsrt
<1>8. ASSUME NEW c \in Conns, Claimed(c) \/ CancelAccept(c) \/ DropSocket(c) PROVE TypeOK'
  <2>1. Cmd("Close", c) \in Command
    BY <1>1, CmdType DEF Ops
  <2>2. cmds' \in Seq(Command)
    <3>1. cmds' = cmds \/ cmds' = Append(cmds, Cmd("Close", c))
      BY <1>8 DEF Claimed, CancelAccept, DropSocket
    <3>2. cmds \in Seq(Command)
      BY DEF TypeOK
    <3> QED BY <2>1, <3>1, <3>2
  <2> QED BY <1>8, <2>2 DEF Claimed, CancelAccept, DropSocket, TypeOK, libsrt
<1>9. CASE io_thread
  <2>1. ASSUME NEW op, NEW x \in Ids, Received(op, x) PROVE cmds' \in Seq(Command)
    BY <2>1, Receives
  <2>2. CASE CreateSocket \/ Bind
    BY <1>1, <2>1, <2>2 DEF CreateSocket, Bind, Deliver, TypeOK
  <2>3. CASE RegisterListener \/ RegisterSocket
    BY <1>1, <2>1, <2>3 DEF RegisterListener, RegisterSocket, TypeOK, tokio, libsrt
  <2>4. CASE Listen
    BY <1>1, <2>1, <2>4 DEF Listen, srt_close_listener, Deliver, TypeOK
  <2>5. CASE GetAddr
    BY <2>1, <2>5 DEF GetAddr, Deliver, TypeOK, Ids, libsrt
  <2>6. CASE CloseListener \/ ReleaseListener
    BY <1>1, <2>1, <2>6 DEF CloseListener, ReleaseListener, srt_close_listener, TypeOK, tokio, libsrt
  <2>7. CASE CloseConn
    BY <1>1, <2>1, <2>7 DEF CloseConn, TypeOK, tokio
  <2>8. ASSUME NEW c \in Conns, handle_accept(c) PROVE TypeOK'
    <3>1. chan' \in Seq(Conns) /\ Len(chan') <= ACCEPT_CAPACITY
      BY <2>8, ListenerAssumption DEF handle_accept, TypeOK
    <3> QED BY <2>8, <3>1 DEF handle_accept, TypeOK, tokio
  <2> QED BY <1>9, <2>2, <2>3, <2>4, <2>5, <2>6, <2>7, <2>8 DEF io_thread
<1>10. CASE Environment
  BY <1>10 DEF Environment, Handshake, listen_callback_trampoline, PeerCloses, ConnMove,
               TypeOK, tokio
<1>11. CASE UNCHANGED vars
  BY <1>11 DEF vars, TypeOK
<1> QED BY <1>3, <1>4, <1>5, <1>6, <1>7, <1>8, <1>9, <1>10, <1>11
        DEF Next, ListenerDrop, App

\* A step of the bind future or of the listener keeps the invariant, given
\* what every use of Advance satisfies.
LEMMA AdvanceKeeps ==
  ASSUME IInv, TypeOK', NEW from, NEW to \in TaskState, NEW q \in Seq(Command),
         Advance(from, to, q), OneAsk', RegisterFirst',
         from \notin {"cancelled", "draining", "dropped"},
         to \notin {"idle", "draining", "dropped", "cancelled"},
         from \in Awaiting => reply # "none",
         from \in {"closed", "dropping"} => to = "dropping",
         \A k \in 1..Len(q) : q[k].id = L,
         \A k \in 1..Len(q) : q[k].op \in Asks => to = AwaitOf(q[k].op),
         \A k \in 1..Len(q) : q[k].op = "Close" => to \in {"closed", "dropping"},
         to = "creating" => from = "idle" /\ \A k \in 1..Len(q) : q[k].op = "CreateSocket",
         to = "binding" => from = "creating" /\ Queued("RegisterListener", L)',
         to = "listening" => from = "binding",
         to = "failed" => reply = "Err" /\ from \in {"creating", "binding", "listening"}
  PROVE  IInv'
<1>1. /\ task = from /\ task' = to /\ reply' = "none" /\ cmds' = cmds \o q
      /\ UNCHANGED <<sock, chan, rx_closed, sockets, slot, releasing, lib, armed, conn>>
  BY DEF Advance, libsrt
<1>2. \A o, x : Queued(o, x)' <=> Queued(o, x) \/ \E k \in 1..Len(q) : q[k] = Cmd(o, x)
  BY <1>1, Sends DEF IInv
<1>3. \A o, x : Cmd(o, x).op = o /\ Cmd(o, x).id = x
  BY DEF Cmd
<1>4. \A o \in Asks : ~Queued(o, L)
  BY <1>1 DEF IInv, AskAwaited, Asks, AwaitOf, Awaiting
<1>5. AskAwaited'
  BY <1>1, <1>2, <1>3, <1>4 DEF AskAwaited
<1>6. OnlyCreate'
  BY <1>1, <1>2, <1>3 DEF IInv, OnlyCreate
<1>7. Closing'
  BY <1>1, <1>2, <1>3 DEF IInv, Closing
<1>8. Prepared'
  <2>1. Queued("Bind", L)' => to = "binding"
    BY <1>2, <1>3, <1>4 DEF Asks, AwaitOf
  <2>2. Queued("Listen", L)' => to = "listening"
    BY <1>2, <1>3, <1>4 DEF Asks, AwaitOf
  <2>3. Armable' <=> Armable
    BY <1>1 DEF Armable
  <2> QED BY <1>1, <1>2, <2>1, <2>2, <2>3 DEF IInv, Prepared
<1>9. Guarded' /\ FilterEnforced' /\ HookReadsLiveSlot'
  BY <1>1 DEF IInv, Guarded, FilterEnforced, HookReadsLiveSlot
<1>10. RxClosed' /\ NoPort'
  BY <1>1 DEF IInv, RxClosed, NoPort
<1>11. NoOrphan'
  BY <1>1, <1>2 DEF IInv, NoOrphan
<1> QED BY <1>5, <1>6, <1>7, <1>8, <1>9, <1>10, <1>11 DEF IInv

\* The bind future, and the listener's close and Drop, keep it.
LEMMA BindKeeps ==
  ASSUME IInv, TypeOK', BindTask \/ bind \/ close \/ Drop
  PROVE  IInv'
<1> USE DEF TaskState, Awaiting
<1>0. L \in Ids /\ \A o, x : Cmd(o, x).op = o /\ Cmd(o, x).id = x
  BY DEF Ids, Cmd
<1>1. ASSUME NEW from, NEW to, NEW op \in Ops \ {"RegisterListener"},
             Advance(from, to, <<Cmd(op, L)>>),
             from \in Awaiting => reply # "none", from # "cancelled"
      PROVE  <<Cmd(op, L)>> \in Seq(Command) /\ OneAsk' /\ RegisterFirst'
  <2> DEFINE q == <<Cmd(op, L)>>
  <2>1. q \in Seq(Command) /\ Len(q) = 1 /\ q[1] = Cmd(op, L)
    BY <1>0, CmdType
  <2>2. task = from /\ cmds' = cmds \o q
    BY <1>1 DEF Advance
  <2>3. Cmd(op, L) # Cmd("RegisterListener", L)
    BY <1>0, <1>1
  <2>4. \A o \in Asks : ~Queued(o, L)
    BY <1>1, <2>2 DEF IInv, AskAwaited, Asks, AwaitOf
  <2>5. \A i \in 1..Len(cmds) : ~Ask(cmds[i])
    BY <2>4, InChannel DEF Ask, IInv
  <2> HIDE DEF q
  <2>6. \A k \in 1..Len(q) : k = 1
    BY <2>1
  <2>7. OneAsk' /\ RegisterFirst'
    BY <2>1, <2>2, <2>3, <2>5, <2>6, SendsInOrder DEF IInv
  <2> QED BY <2>1, <2>7 DEF q
<1>2. ASSUME NEW from, NEW to \in {"failed", "up"}, Advance(from, to, <<>>),
             from \in Awaiting, reply # "none", to = "failed" => reply = "Err" /\ from # "addr"
      PROVE  IInv'
  <2> DEFINE q == <<>>
  <2>1. q \in Seq(Command) /\ Len(q) = 0
    OBVIOUS
  <2>2. cmds' = cmds \o q /\ Advance(from, to, q)
    BY <1>2 DEF Advance
  <2> HIDE DEF q
  <2>3. \A k \in 1..Len(q) : FALSE
    BY <2>1
  <2>4. OneAsk' /\ RegisterFirst'
    BY <2>1, <2>2, <2>3, SendsInOrder DEF IInv
  <2> QED BY <1>2, <2>1, <2>2, <2>3, <2>4, AdvanceKeeps
<1>3. ASSUME NEW from, NEW to \in TaskState, NEW op \in Ops \ {"RegisterListener"},
             Advance(from, to, <<Cmd(op, L)>>),
             \/ from = "idle" /\ to = "creating" /\ op = "CreateSocket"
             \/ from = "binding" /\ to = "listening" /\ op = "Listen" /\ reply # "none"
             \/ from = "listening" /\ to = "addr" /\ op = "GetAddr" /\ reply # "none"
             \/ from \in {"up", "closed"} /\ to = "dropping" /\ op = "Close"
             \/ from = "up" /\ to = "closed" /\ op = "Close"
      PROVE  IInv'
  <2> DEFINE q == <<Cmd(op, L)>>
  <2>1. q \in Seq(Command) /\ OneAsk' /\ RegisterFirst'
    BY <1>1, <1>3
  <2>2. Len(q) = 1 /\ q[1] = Cmd(op, L) /\ Advance(from, to, q)
    BY <1>3
  <2> HIDE DEF q
  <2>3. \A k \in 1..Len(q) : q[k].op = op /\ q[k].id = L
    BY <1>0, <2>2
  <2> QED BY <1>3, <2>1, <2>2, <2>3, AdvanceKeeps DEF Asks, AwaitOf
<1>4. CASE reply = "Ok" /\ Advance("creating", "binding", <<Cmd("RegisterListener", L),
                                        Cmd("RegisterSocket", L), Cmd("Bind", L)>>)
  <2> DEFINE q == <<Cmd("RegisterListener", L), Cmd("RegisterSocket", L), Cmd("Bind", L)>>
  <2>1. /\ q \in Seq(Command) /\ Len(q) = 3 /\ q[1] = Cmd("RegisterListener", L)
        /\ q[2] = Cmd("RegisterSocket", L) /\ q[3] = Cmd("Bind", L)
    BY <1>0, CmdType DEF Ops
  <2>2. task = "creating" /\ cmds' = cmds \o q /\ Advance("creating", "binding", q)
    BY <1>4 DEF Advance
  <2>3. \A o \in Ops : ~Queued(o, L)
    BY <1>4, <2>2 DEF IInv, AskAwaited, OnlyCreate, Asks, AwaitOf
  <2>4. \A i \in 1..Len(cmds) : cmds[i].id # L
    BY <2>3, InChannel DEF IInv
  <2> HIDE DEF q
  <2>5. \A k \in 1..Len(q) : /\ k \in {1, 2, 3} /\ q[k].id = L
                             /\ q[k].op \in {"RegisterListener", "RegisterSocket", "Bind"}
                             /\ q[k].op = "Bind" => k = 3
                             /\ q[k].op = "RegisterListener" => k = 1
    BY <1>0, <2>1
  <2>6. \A k \in 1..Len(q) : /\ Ask(q[k]) => k = 3
                             /\ q[k] = Cmd("RegisterListener", L) => k = 1
    BY <1>0, <2>5 DEF Ask, Asks
  <2>7. OneAsk' /\ RegisterFirst'
    <3>1. \A k, l \in 1..Len(q) :
            /\ Ask(q[k]) /\ Ask(q[l]) => k = l
            /\ q[k] = Cmd("RegisterListener", L) /\ q[l].id = L => k <= l
      BY <2>5, <2>6
    <3>2. \A i \in 1..Len(cmds), k \in 1..Len(q) :
            /\ ~(Ask(cmds[i]) /\ Ask(q[k]))
            /\ ~(cmds[i].id = L /\ q[k] = Cmd("RegisterListener", L))
      BY <2>4 DEF Ask
    <3> QED BY <2>1, <2>2, <3>1, <3>2, SendsInOrder DEF IInv
  <2>8. Queued("RegisterListener", L)'
    <3>1. 1 \in 1..Len(q)
      BY <2>1
    <3>2. \A o, x : (\E k \in 1..Len(q) : q[k] = Cmd(o, x)) => Queued(o, x)'
      BY <2>1, <2>2, Sends DEF IInv
    <3> QED BY <2>1, <3>1, <3>2
  <2> QED BY <1>4, <2>1, <2>2, <2>5, <2>7, <2>8, AdvanceKeeps DEF Asks, AwaitOf
<1> QED BY <1>2, <1>3, <1>4
        DEF BindTask, Created, Bound, Listened, AddrAnswered, Fails, bind, close, Drop, Ops

\* Commands about connections leave the listener's alone.
LEMMA OtherSends ==
  ASSUME TypeOK, OneAsk, RegisterFirst, NEW q \in Seq(Command), cmds' = cmds \o q,
         \A k \in 1..Len(q) : q[k].id # L
  PROVE  /\ OneAsk' /\ RegisterFirst'
         /\ \A o : Queued(o, L)' <=> Queued(o, L)
         /\ \A o, x : Queued(o, x) => Queued(o, x)'
<1>1. \A o, x : Queued(o, x)' <=> Queued(o, x) \/ \E k \in 1..Len(q) : q[k] = Cmd(o, x)
  BY Sends
<1>2. \A o, x : Cmd(o, x).id = x
  BY DEF Cmd
<1>3. OneAsk' /\ RegisterFirst'
  <2>1. \A k \in 1..Len(q) : ~Ask(q[k]) /\ q[k] # Cmd("RegisterListener", L)
    BY <1>2 DEF Ask
  <2> QED BY <2>1, SendsInOrder
<1> QED BY <1>1, <1>2, <1>3

\* What the application does with the listener's connections, and a Drop
\* under way, keep the invariant.
LEMMA AppKeeps ==
  ASSUME IInv, TypeOK',
         \/ CancelBind \/ accept \/ ListenerDrop
         \/ \E c \in Conns : Claimed(c) \/ CancelAccept(c) \/ DropSocket(c)
  PROVE  IInv'
<1>0. /\ UNCHANGED <<reply, sockets, slot, releasing, lib, armed, conn>>
      /\ sock \in [Conns -> {"none", "building", "answered", "open", "dropped"}]
      /\ chan \in Seq(Conns) /\ cmds \in Seq(Command)
  BY DEF CancelBind, accept, ListenerDrop, DropClosesChannel, DropDrains, Claimed,
         CancelAccept, DropSocket, libsrt, IInv, TypeOK
<1>1. Guarded' /\ FilterEnforced' /\ HookReadsLiveSlot' /\ (Armable' <=> Armable)
  BY <1>0 DEF IInv, Guarded, FilterEnforced, HookReadsLiveSlot, Armable
<1>2. ASSUME NEW c \in Conns
      PROVE  /\ Cmd("Close", c) \in Command /\ Cmd("RegisterSocket", c) \in Command
             /\ Cmd("GetAddr", c) \in Command /\ c # L
             /\ \A o : Cmd(o, c).id # L
  BY CmdType, ListenerAssumption DEF Ids, Ops, Cmd
<1>3. ASSUME OneAsk', RegisterFirst', \A o : Queued(o, L)' <=> Queued(o, L),
             \/ task' = task
             \/ task \in Awaiting /\ task' = "cancelled" /\ rx_closed'
             \/ task = "dropping" /\ task' = "draining" /\ rx_closed'
             \/ task = "draining" /\ task' = "dropped" /\ rx_closed' = rx_closed,
             rx_closed => rx_closed', NoOrphan'
      PROVE  IInv'
  <2>1. AskAwaited' /\ OnlyCreate' /\ Closing' /\ RxClosed' /\ NoPort'
    BY <1>0, <1>3 DEF IInv, AskAwaited, OnlyCreate, Closing, RxClosed, NoPort, AwaitOf, Awaiting, Asks
  <2>2. Prepared'
    BY <1>0, <1>1, <1>3 DEF IInv, Prepared
  <2> QED BY <1>1, <1>3, <2>1, <2>2 DEF IInv
<1>4. ASSUME NEW c \in Conns, cmds' = Append(cmds, Cmd("Close", c))
      PROVE  /\ OneAsk' /\ RegisterFirst' /\ \A o : Queued(o, L)' <=> Queued(o, L)
             /\ \A o, x : Queued(o, x) => Queued(o, x)'
             /\ Queued("Close", c)'
  <2> DEFINE q == <<Cmd("Close", c)>>
  <2>1. q \in Seq(Command) /\ Len(q) = 1 /\ q[1] = Cmd("Close", c)
    BY <1>2
  <2>2. cmds' = cmds \o q
    BY <1>0, <1>2, <1>4
  <2> HIDE DEF q
  <2>3. \A k \in 1..Len(q) : k = 1
    BY <2>1
  <2>4. 1 \in 1..Len(q)
    BY <2>1
  <2>5. \A o, x : Queued(o, x)' <=> Queued(o, x) \/ \E k \in 1..Len(q) : q[k] = Cmd(o, x)
    BY <2>1, <2>2, Sends DEF IInv
  <2> QED BY <1>2, <2>1, <2>2, <2>3, <2>4, <2>5, OtherSends DEF IInv
<1>5. ASSUME cmds' = cmds
      PROVE  /\ OneAsk' /\ RegisterFirst' /\ \A o, x : Queued(o, x)' <=> Queued(o, x)
  BY <1>5 DEF IInv, OneAsk, RegisterFirst, Queued
<1>6. CASE CancelBind
  <2>1. NoOrphan'
    BY <1>6 DEF CancelBind, NoOrphan
  <2> QED BY <1>3, <1>5, <1>6, <2>1 DEF CancelBind
<1>7. CASE accept
  <2> DEFINE h == Head(chan)
             q == <<Cmd("RegisterSocket", h), Cmd("GetAddr", h)>>
  <2>1. /\ h \in Conns /\ chan # <<>> /\ chan' = Tail(chan) /\ task' = task /\ rx_closed' = rx_closed
        /\ sock' = [sock EXCEPT ![h] = "building"] /\ cmds' = cmds \o q
    BY <1>0, <1>7 DEF accept
  <2>2. /\ q \in Seq(Command) /\ Len(q) = 2
        /\ q[1] = Cmd("RegisterSocket", h) /\ q[2] = Cmd("GetAddr", h)
    BY <1>2, <2>1
  <2>3. \A i \in 1..Len(chan) : chan[i] = h \/ \E k \in 1..Len(chan') : chan'[k] = chan[i]
    <3> SUFFICES ASSUME NEW i \in 1..Len(chan), i # 1
                 PROVE  \E k \in 1..Len(chan') : chan'[k] = chan[i]
      BY <1>0
    <3>1. i - 1 \in 1..Len(chan') /\ chan'[i - 1] = chan[i]
      BY <1>0, <2>1
    <3> QED BY <3>1
  <2> HIDE DEF q, h
  <2>4. \A k \in 1..Len(q) : q[k].id # L
    BY <1>2, <2>1, <2>2
  <2>5. /\ OneAsk' /\ RegisterFirst' /\ \A o : Queued(o, L)' <=> Queued(o, L)
        /\ \A o, x : Queued(o, x) => Queued(o, x)'
    BY <2>1, <2>2, <2>4, OtherSends DEF IInv
  <2>6. \A c \in Conns : sock'[c] = "building" \/ (c # h /\ sock'[c] = sock[c])
    BY <1>0, <2>1
  <2>7. NoOrphan'
    BY <1>0, <2>1, <2>3, <2>5, <2>6 DEF IInv, NoOrphan
  <2> QED BY <1>3, <2>1, <2>5, <2>7
<1>8. CASE DropClosesChannel
  <2>1. NoOrphan'
    BY <1>0, <1>5, <1>8 DEF DropClosesChannel, IInv, NoOrphan
  <2> QED BY <1>3, <1>5, <1>8, <2>1 DEF DropClosesChannel
<1>9. CASE DropDrains
  <2>0. task = "draining" /\ rx_closed' = rx_closed /\ sock' = sock
    BY <1>9 DEF DropDrains
  <2>1. CASE /\ chan # <<>> /\ chan' = Tail(chan) /\ task' = task
             /\ cmds' = Append(cmds, Cmd("Close", Head(chan)))
    <3>0. PICK h \in Conns : h = Head(chan)
      BY <1>0, <2>1
    <3>1. h \in Conns /\ cmds' = Append(cmds, Cmd("Close", h)) /\ task' = task
      BY <2>1, <3>0
    <3>2. \A i \in 1..Len(chan) : chan[i] = h \/ \E k \in 1..Len(chan') : chan'[k] = chan[i]
      <4> SUFFICES ASSUME NEW i \in 1..Len(chan), i # 1
                   PROVE  \E k \in 1..Len(chan') : chan'[k] = chan[i]
        BY <1>0, <2>1, <3>0
      <4>1. i - 1 \in 1..Len(chan') /\ chan'[i - 1] = chan[i]
        BY <1>0, <2>1
      <4> QED BY <4>1
    <3>3. /\ OneAsk' /\ RegisterFirst' /\ \A o : Queued(o, L)' <=> Queued(o, L)
          /\ \A o, x : Queued(o, x) => Queued(o, x)'
          /\ Queued("Close", h)'
      BY <1>4, <3>1
    <3>4. NoOrphan'
      BY <1>0, <2>0, <3>1, <3>2, <3>3 DEF IInv, NoOrphan
    <3> QED BY <1>3, <2>0, <3>1, <3>3, <3>4
  <2>2. CASE chan = <<>> /\ task' = "dropped" /\ UNCHANGED <<chan, cmds>>
    <3>1. \A k \in 1..Len(chan) : FALSE
      BY <2>2
    <3>2. NoOrphan'
      BY <1>0, <1>5, <2>0, <2>2, <3>1 DEF IInv, NoOrphan
    <3> QED BY <1>3, <1>5, <2>0, <2>2, <3>2
  <2> QED BY <1>9, <2>1, <2>2 DEF DropDrains
<1>10. ASSUME NEW c \in Conns, Claimed(c) PROVE IInv'
  <2>1. \A d \in Conns : sock'[d] = sock[d] \/ sock'[d] = "open"
    BY <1>0, <1>10 DEF Claimed
  <2>2. NoOrphan'
    BY <1>0, <1>5, <1>10, <2>1 DEF Claimed, IInv, NoOrphan
  <2> QED BY <1>3, <1>5, <1>10, <2>2 DEF Claimed
<1>11. ASSUME NEW c \in Conns, CancelAccept(c) \/ DropSocket(c) PROVE IInv'
  <2>1. /\ cmds' = Append(cmds, Cmd("Close", c)) /\ UNCHANGED <<task, chan, rx_closed>>
        /\ sock' = [sock EXCEPT ![c] = "dropped"]
    BY <1>11 DEF CancelAccept, DropSocket
  <2>2. \A d \in Conns \ {c} : sock'[d] = sock[d]
    BY <1>0, <2>1
  <2>3. NoOrphan'
    BY <1>0, <1>4, <2>1, <2>2 DEF IInv, NoOrphan
  <2> QED BY <1>3, <1>4, <2>1, <2>3
<1> QED BY <1>6, <1>7, <1>8, <1>9, <1>10, <1>11 DEF ListenerDrop

\* The srt-io thread keeps the invariant.
LEMMA ThreadKeeps ==
  ASSUME IInv, TypeOK', io_thread
  PROVE  IInv'
<1>0. /\ L \in Ids /\ Conns \subseteq Ids /\ L \notin Conns
      /\ sock \in [Conns -> {"none", "building", "answered", "open", "dropped"}]
      /\ conn \in [Conns -> {"none", "hook", "backlog", "open", "closed"}]
      /\ chan \in Seq(Conns)
  BY ListenerAssumption DEF Ids, IInv, TypeOK
<1> DEFINE Took(op, x) ==
      /\ Queued(op, x) /\ ~releasing
      /\ \A o, y : Queued(o, y)' => Queued(o, y)
      /\ \A o, y : Queued(o, y) /\ ~(o = op /\ y = x) => Queued(o, y)'
      /\ OneAsk' /\ RegisterFirst'
      /\ x = L /\ op \in Asks => \A o \in Asks : ~Queued(o, L)'
      /\ x = L /\ op # "RegisterListener" => ~Queued("RegisterListener", L)
<1>1. ASSUME NEW op, NEW x \in Ids, Received(op, x) PROVE Took(op, x)
  BY <1>1, Receives DEF IInv, Received
<1> HIDE DEF Took
<1>2. CASE CreateSocket
  <2>1. /\ Took("CreateSocket", L) /\ UNCHANGED <<task, sock, chan, rx_closed, sockets, slot, releasing, armed, conn>>
        /\ \/ lib' = "Init" /\ Deliver("Ok")
           \/ lib' = lib /\ Deliver("Err")
    BY <1>0, <1>1, <1>2 DEF CreateSocket
  <2>2. task = "cancelled" \/ task = "creating"
    BY <2>1 DEF Took, IInv, AskAwaited, Asks, AwaitOf
  <2>3. AskAwaited' /\ OnlyCreate' /\ Closing' /\ RxClosed' /\ NoPort'
    BY <2>1, <2>2 DEF Took, IInv, AskAwaited, OnlyCreate, Closing, RxClosed, NoPort, Asks
  <2>4. Prepared' /\ Guarded'
    BY <2>1, <2>2 DEF Took, IInv, Prepared, Guarded, Asks
  <2>5. NoOrphan' /\ FilterEnforced' /\ HookReadsLiveSlot'
    BY <1>0, <2>1 DEF Took, IInv, NoOrphan, FilterEnforced, HookReadsLiveSlot
  <2> QED BY <2>1, <2>3, <2>4, <2>5 DEF IInv, Took
<1>3. CASE RegisterListener \/ RegisterSocket
  <2>1. /\ UNCHANGED <<task, reply, sock, rx_closed, chan, releasing, lib, armed, conn>>
        /\ \/ Took("RegisterListener", L) /\ slot' = IF Filtered THEN "held" ELSE slot
           \/ slot' = slot /\ \E x \in Ids : Took("RegisterSocket", x)
        /\ sockets \subseteq sockets' /\ (RegisterListener => L \in sockets')
    BY <1>0, <1>1, <1>3 DEF RegisterListener, RegisterSocket, tokio, libsrt
  <2>2. AskAwaited' /\ OnlyCreate' /\ Closing' /\ RxClosed' /\ NoPort'
    BY <2>1 DEF Took, IInv, AskAwaited, OnlyCreate, Closing, RxClosed, NoPort
  <2>3. slot = "held" => slot' = "held"
    BY <2>1
  <2>4. Prepared'
    <3>1. Armable => Armable'
      BY <2>1, <2>3 DEF Armable
    <3>2. CASE RegisterListener
      <4>1. Armable'
        BY <1>0, <3>2 DEF RegisterListener, Armable
      <4> QED BY <4>1 DEF Prepared
    <3>3. CASE RegisterSocket
      <4>1. Queued("RegisterListener", L) => Queued("RegisterListener", L)'
        BY <1>1, <3>3 DEF RegisterSocket, Took
      <4>2. \A o : Queued(o, L)' => Queued(o, L)
        BY <2>1 DEF Took
      <4> QED BY <2>1, <3>1, <4>1, <4>2 DEF IInv, Prepared
    <3> QED BY <1>3, <3>2, <3>3
  <2>5. Guarded' /\ FilterEnforced' /\ HookReadsLiveSlot'
    BY <2>1, <2>3 DEF IInv, Guarded, FilterEnforced, HookReadsLiveSlot
  <2>6. NoOrphan'
    BY <2>1 DEF Took, IInv, NoOrphan
  <2>7. OneAsk' /\ RegisterFirst'
    BY <2>1 DEF Took
  <2> QED BY <2>2, <2>4, <2>5, <2>6, <2>7 DEF IInv
<1>4. CASE Bind
  <2>1. /\ Took("Bind", L) /\ UNCHANGED <<task, sock, chan, rx_closed, sockets, slot, releasing, armed, conn>>
        /\ \/ lib' = "Opened" /\ Deliver("Ok")
           \/ lib' = lib /\ Deliver("Err")
    BY <1>0, <1>1, <1>4 DEF Bind
  <2>2. task = "cancelled" \/ (task = "binding" /\ reply = "none")
    BY <2>1 DEF Took, IInv, AskAwaited, Asks, AwaitOf
  <2>3. AskAwaited' /\ OnlyCreate' /\ Closing' /\ RxClosed' /\ NoPort'
    BY <2>1, <2>2 DEF Took, IInv, AskAwaited, OnlyCreate, Closing, RxClosed, NoPort, Asks, Deliver,
                      Awaiting
  <2>4. Prepared'
    <3>1. Armable'
      BY <2>1 DEF Took, IInv, Prepared, Armable, Asks
    <3> QED BY <3>1 DEF Prepared
  <2>5. Guarded'
    BY <2>1 DEF IInv, Guarded
  <2>6. NoOrphan' /\ FilterEnforced' /\ HookReadsLiveSlot'
    BY <1>0, <2>1 DEF Took, IInv, NoOrphan, FilterEnforced, HookReadsLiveSlot
  <2> QED BY <2>1, <2>3, <2>4, <2>5, <2>6 DEF IInv, Took
<1>5. CASE Listen
  <2>1. Took("Listen", L) /\ UNCHANGED <<task, sock, chan, rx_closed, releasing>>
    BY <1>0, <1>1, <1>5 DEF Listen
  <2>2. task = "cancelled" \/ (task = "listening" /\ reply = "none")
    BY <2>1 DEF Took, IInv, AskAwaited, Asks, AwaitOf
  <2>3. Armable
    BY <2>1 DEF Took, IInv, Prepared
  <2>4. \A o \in Asks : ~Queued(o, L)'
    BY <2>1 DEF Took, Asks
  <2>5. CASE /\ lib' = "Listening" /\ armed' = (L \in sockets /\ slot = "held")
             /\ Deliver("Ok") /\ UNCHANGED <<sockets, slot, conn>>
    <3>1. AskAwaited' /\ OnlyCreate' /\ Closing' /\ RxClosed' /\ NoPort'
      BY <2>1, <2>2, <2>4, <2>5 DEF Took, IInv, AskAwaited, OnlyCreate, Closing, RxClosed, NoPort,
                               Deliver, Awaiting
    <3>2. Prepared'
      BY <2>3, <2>5 DEF Prepared, Armable
    <3>3. Guarded'
      BY <2>1, <2>3, <2>5 DEF IInv, Guarded, Armable, Took
    <3>4. NoOrphan' /\ FilterEnforced' /\ HookReadsLiveSlot'
      BY <1>0, <2>1, <2>5 DEF Took, IInv, NoOrphan, FilterEnforced, HookReadsLiveSlot
    <3> QED BY <2>1, <3>1, <3>2, <3>3, <3>4 DEF IInv, Took
  <2>6. CASE /\ srt_close_listener /\ sockets' = sockets \ {L}
             /\ slot' = IF slot = "held" THEN "freed" ELSE slot
             /\ Deliver("Err")
    <3>0. /\ lib' \notin {"Opened", "Listening"} /\ ~armed'
          /\ \A c \in Conns : /\ conn'[c] # "hook"
                              /\ conn'[c] \in {"backlog", "open"} => conn'[c] = conn[c]
      BY <2>6 DEF srt_close_listener
    <3>1. AskAwaited' /\ OnlyCreate' /\ Closing' /\ RxClosed' /\ NoPort'
      BY <2>1, <2>2, <2>4, <3>0 DEF Took, IInv, AskAwaited, OnlyCreate, Closing, RxClosed, NoPort
    <3>2. Prepared'
      BY <2>1, <2>2, <2>4, <2>6 DEF Prepared, Asks, Deliver, Awaiting
    <3>3. Guarded' /\ HookReadsLiveSlot'
      BY <2>1, <3>0 DEF Guarded, HookReadsLiveSlot, Took
    <3>4. NoOrphan' /\ FilterEnforced'
      BY <1>0, <2>1, <3>0 DEF Took, IInv, NoOrphan, FilterEnforced
    <3> QED BY <2>1, <3>1, <3>2, <3>3, <3>4 DEF IInv, Took
  <2> QED BY <1>5, <2>5, <2>6 DEF Listen
<1>6. CASE GetAddr
  <2>1. PICK x \in Ids :
          /\ Took("GetAddr", x) /\ UNCHANGED <<task, chan, rx_closed, sockets, slot, releasing, lib, armed, conn>>
          /\ \/ x = L /\ Deliver("Ok") /\ sock' = sock
             \/ /\ x # L /\ reply' = reply
                /\ sock' = [sock EXCEPT ![x] = IF @ = "building" THEN "answered" ELSE @]
    BY <1>0, <1>1, <1>6 DEF GetAddr, libsrt
  <2>2. reply' # reply => task = "addr" /\ \A o \in Asks : ~Queued(o, L)'
    BY <2>1 DEF Took, IInv, AskAwaited, Asks, AwaitOf, Deliver, Awaiting
  <2>3. AskAwaited' /\ OnlyCreate' /\ Closing' /\ RxClosed' /\ NoPort'
    BY <2>1, <2>2 DEF Took, IInv, AskAwaited, OnlyCreate, Closing, RxClosed, NoPort
  <2>4. Prepared'
    <3>1. /\ Queued("RegisterListener", L) => Queued("RegisterListener", L)'
          /\ \A o : Queued(o, L)' => Queued(o, L)
      BY <2>1 DEF Took
    <3> QED BY <2>1, <2>2, <3>1 DEF IInv, Prepared, Armable
  <2>5. Guarded' /\ FilterEnforced' /\ HookReadsLiveSlot'
    BY <2>1 DEF IInv, Guarded, FilterEnforced, HookReadsLiveSlot
  <2>6. NoOrphan'
    <3>1. \A c \in Conns : sock[c] \in {"building", "answered", "open"} =>
                             sock'[c] \in {"building", "answered", "open"}
      BY <1>0, <2>1
    <3> QED BY <2>1, <3>1 DEF Took, IInv, NoOrphan
  <2> QED BY <2>1, <2>3, <2>4, <2>5, <2>6 DEF IInv, Took
<1>7. CASE CloseListener
  <2>1. /\ Took("Close", L) /\ UNCHANGED <<task, reply, sock, chan, rx_closed, sockets, slot>>
        /\ releasing' /\ srt_close_listener
    BY <1>0, <1>1, <1>7 DEF CloseListener, tokio
  <2>2. /\ lib' \notin {"Opened", "Listening"} /\ ~armed'
        /\ \A c \in Conns : /\ conn'[c] # "hook"
                            /\ conn'[c] \in {"backlog", "open"} => conn'[c] = conn[c]
    BY <2>1 DEF srt_close_listener
  <2>3. AskAwaited' /\ OnlyCreate' /\ Closing' /\ RxClosed' /\ NoPort'
    BY <2>1, <2>2 DEF Took, IInv, AskAwaited, OnlyCreate, Closing, RxClosed, NoPort
  <2>4. Prepared'
    BY <2>1 DEF Took, IInv, Prepared, Armable
  <2>5. Guarded' /\ HookReadsLiveSlot'
    BY <2>2 DEF Guarded, HookReadsLiveSlot
  <2>6. NoOrphan' /\ FilterEnforced'
    BY <1>0, <2>1, <2>2 DEF Took, IInv, NoOrphan, FilterEnforced
  <2> QED BY <2>1, <2>3, <2>4, <2>5, <2>6 DEF IInv, Took
<1>8. CASE ReleaseListener
  <2>1. /\ UNCHANGED <<task, reply, sock, rx_closed, chan, cmds, lib, armed, conn>>
        /\ releasing /\ ~releasing'
    BY <1>8 DEF ReleaseListener, tokio, libsrt
  <2>2. /\ \A o, x : Queued(o, x)' <=> Queued(o, x)
        /\ OneAsk' /\ RegisterFirst'
    BY <2>1 DEF IInv, OneAsk, RegisterFirst, Queued
  <2>3. /\ task \in {"closed", "dropping", "draining", "dropped"}
        /\ \A o \in Asks : ~Queued(o, L)
    BY <2>1 DEF IInv, Closing, AskAwaited, Asks, AwaitOf
  <2>4. ~armed /\ \A c \in Conns : conn[c] # "hook"
    BY <2>1 DEF IInv, Guarded
  <2>5. AskAwaited' /\ OnlyCreate' /\ Closing' /\ RxClosed' /\ NoPort'
    BY <2>1, <2>2, <2>3 DEF IInv, AskAwaited, OnlyCreate, Closing, RxClosed, NoPort
  <2>6. Prepared'
    BY <2>1, <2>2, <2>3 DEF Prepared, Asks
  <2>7. Guarded' /\ HookReadsLiveSlot' /\ FilterEnforced'
    BY <2>1, <2>4 DEF IInv, Guarded, HookReadsLiveSlot, FilterEnforced
  <2>8. NoOrphan'
    BY <2>1, <2>2 DEF IInv, NoOrphan
  <2> QED BY <2>2, <2>5, <2>6, <2>7, <2>8 DEF IInv
<1>9. CASE CloseConn
  <2>1. PICK c \in Conns :
          /\ Took("Close", c) /\ c # L
          /\ sockets' = sockets \ {c}
          /\ conn' = [conn EXCEPT ![c] = IF @ = "open" THEN "closed" ELSE @]
    BY <1>0, <1>1, <1>9 DEF CloseConn
  <2>2. UNCHANGED <<task, reply, sock, rx_closed, chan, slot, releasing, lib, armed>>
    BY <1>9 DEF CloseConn, tokio
  <2>3. /\ \A d \in Conns : conn'[d] = conn[d] \/ conn'[d] = "closed"
        /\ conn'[c] # "open"
    BY <1>0, <2>1
  <2>4. \A o : Queued(o, L)' <=> Queued(o, L)
    BY <2>1 DEF Took
  <2>5. AskAwaited' /\ OnlyCreate' /\ Closing' /\ RxClosed' /\ NoPort'
    BY <2>2, <2>4 DEF IInv, AskAwaited, OnlyCreate, Closing, RxClosed, NoPort
  <2>6. Prepared'
    BY <2>1, <2>2, <2>4 DEF IInv, Prepared, Armable
  <2>7. Guarded' /\ FilterEnforced' /\ HookReadsLiveSlot'
    BY <2>2, <2>3 DEF IInv, Guarded, FilterEnforced, HookReadsLiveSlot
  <2>8. NoOrphan'
    BY <2>1, <2>2, <2>3 DEF Took, IInv, NoOrphan
  <2> QED BY <2>1, <2>5, <2>6, <2>7, <2>8 DEF IInv, Took
<1>10. ASSUME NEW c \in Conns, handle_accept(c) PROVE IInv'
  <2> DEFINE handed == ~rx_closed /\ Len(chan) < ACCEPT_CAPACITY
  <2>1. /\ UNCHANGED <<task, reply, sock, rx_closed, cmds, sockets, slot, releasing, lib, armed>>
        /\ conn[c] = "backlog"
        /\ chan' = IF handed THEN Append(chan, c) ELSE chan
        /\ conn' = [conn EXCEPT ![c] = IF handed THEN "open" ELSE "closed"]
    BY <1>10 DEF handle_accept, tokio
  <2>2. /\ \A o, x : Queued(o, x)' <=> Queued(o, x)
        /\ OneAsk' /\ RegisterFirst'
    BY <2>1 DEF IInv, OneAsk, RegisterFirst, Queued
  <2>3. AskAwaited' /\ OnlyCreate' /\ Closing' /\ RxClosed' /\ NoPort' /\ Prepared'
    BY <2>1, <2>2 DEF IInv, AskAwaited, OnlyCreate, Closing, RxClosed, NoPort, Prepared, Armable
  <2>4. /\ \A d \in Conns \ {c} : conn'[d] = conn[d]
        /\ conn'[c] \in {"open", "closed"} /\ (conn'[c] = "open" => handed)
    BY <1>0, <2>1
  <2>5. Guarded' /\ FilterEnforced' /\ HookReadsLiveSlot'
    BY <2>1, <2>4 DEF IInv, Guarded, FilterEnforced, HookReadsLiveSlot
  <2>6. \A k \in 1..Len(chan) : k \in 1..Len(chan') /\ chan'[k] = chan[k]
    BY <1>0, <2>1
  <2>7. handed => \E k \in 1..Len(chan') : chan'[k] = c
    <3> SUFFICES ASSUME handed PROVE \E k \in 1..Len(chan') : chan'[k] = c
      OBVIOUS
    <3>1. Len(chan) + 1 \in 1..Len(chan') /\ chan'[Len(chan) + 1] = c
      BY <1>0, <2>1
    <3> QED BY <3>1
  <2>8. handed => task # "dropped"
    BY DEF IInv, RxClosed
  <2> HIDE DEF handed
  <2>9. NoOrphan'
    BY <2>1, <2>2, <2>4, <2>6, <2>7, <2>8 DEF IInv, NoOrphan
  <2> QED BY <2>2, <2>3, <2>5, <2>9 DEF IInv
<1> QED BY <1>2, <1>3, <1>4, <1>5, <1>6, <1>7, <1>8, <1>9, <1>10 DEF io_thread

\* libsrt and the peers keep it: while a filter is set, a handshake reaches a
\* listening socket only through the hook.
LEMMA EnvironmentKeeps ==
  ASSUME IInv, TypeOK', Environment
  PROVE  IInv'
<1>1. /\ UNCHANGED <<task, reply, sock, rx_closed, chan, cmds, sockets, slot, releasing, lib, armed>>
      /\ conn \in [Conns -> {"none", "hook", "backlog", "open", "closed"}]
  BY DEF Environment, Handshake, listen_callback_trampoline, PeerCloses, ConnMove, tokio,
         IInv, TypeOK
<1>2. /\ \A o, x : Queued(o, x)' <=> Queued(o, x)
      /\ OneAsk' /\ RegisterFirst'
  BY <1>1 DEF IInv, OneAsk, RegisterFirst, Queued
<1>3. AskAwaited' /\ OnlyCreate' /\ Closing' /\ RxClosed' /\ NoPort' /\ Prepared'
  BY <1>1, <1>2 DEF IInv, AskAwaited, OnlyCreate, Closing, RxClosed, NoPort, Prepared, Armable
<1>4. \A c \in Conns : \/ conn'[c] = conn[c]
                       \/ conn'[c] = "hook" /\ armed
                       \/ conn'[c] = "backlog" /\ (Filtered => c \in Allowed)
                       \/ conn'[c] = "closed"
  <2>1. PICK c \in Conns : Handshake(c) \/ listen_callback_trampoline(c) \/ PeerCloses(c)
    BY DEF Environment
  <2>2. \A d \in Conns \ {c} : conn'[d] = conn[d]
    BY <1>1, <2>1 DEF Handshake, listen_callback_trampoline, PeerCloses, ConnMove
  <2>3. CASE Handshake(c)
    BY <1>1, <2>2, <2>3 DEF Handshake, ConnMove, IInv, Guarded
  <2>4. CASE listen_callback_trampoline(c)
    BY <1>1, <2>2, <2>4 DEF listen_callback_trampoline, ConnMove
  <2>5. CASE PeerCloses(c)
    BY <1>1, <2>2, <2>5 DEF PeerCloses, ConnMove
  <2> QED BY <2>1, <2>3, <2>4, <2>5
<1>5. Guarded' /\ HookReadsLiveSlot' /\ FilterEnforced'
  BY <1>1, <1>4 DEF IInv, Guarded, HookReadsLiveSlot, FilterEnforced
<1>6. NoOrphan'
  BY <1>1, <1>2, <1>4 DEF IInv, NoOrphan
<1> QED BY <1>2, <1>3, <1>5, <1>6 DEF IInv

\* The invariant holds for ever.
THEOREM Invariant == Spec => []IInv
<1>1. Init => IInv
  <2> SUFFICES ASSUME Init, TypeOK PROVE IInv
    BY TypeInit
  <2>1. OneAsk /\ AskAwaited /\ RegisterFirst /\ OnlyCreate /\ Closing /\ Prepared
    BY DEF Init, OneAsk, AskAwaited, RegisterFirst, OnlyCreate, Closing, Prepared, Queued
  <2>2. Guarded /\ RxClosed /\ NoPort /\ NoOrphan /\ FilterEnforced /\ HookReadsLiveSlot
    BY DEF Init, Guarded, RxClosed, NoPort, NoOrphan, FilterEnforced, HookReadsLiveSlot
  <2> QED BY <2>1, <2>2 DEF IInv
<1>2. IInv /\ [Next]_vars => IInv'
  <2> SUFFICES ASSUME IInv, [Next]_vars, TypeOK' PROVE IInv'
    BY TypeStep DEF IInv
  <2>1. CASE BindTask \/ bind \/ close \/ Drop
    BY <2>1, BindKeeps
  <2>2. CASE \/ CancelBind \/ accept \/ ListenerDrop
             \/ \E c \in Conns : Claimed(c) \/ CancelAccept(c) \/ DropSocket(c)
    BY <2>2, AppKeeps
  <2>3. CASE io_thread
    BY <2>3, ThreadKeeps
  <2>4. CASE Environment
    BY <2>4, EnvironmentKeeps
  <2>5. CASE UNCHANGED vars
    BY <2>5 DEF vars, IInv, OneAsk, AskAwaited, RegisterFirst, OnlyCreate, Closing, Prepared,
                Armable, Guarded, RxClosed, NoPort, NoOrphan, FilterEnforced, HookReadsLiveSlot,
                Queued
  <2> QED BY <2>1, <2>2, <2>3, <2>4, <2>5 DEF Next, App
<1> QED BY <1>1, <1>2, PTL DEF Spec

\* The type invariant; in particular the accept channel never holds more than
\* its capacity.
THEOREM TypeCorrect == Spec => []TypeOK
BY Invariant, PTL DEF IInv

\* Every accepted connection has somebody who will close it, through a full
\* channel, a listener dropped against accepts in progress and accept futures
\* dropped part-way.
THEOREM NeverOrphaned == Spec => []NoOrphan
BY Invariant, PTL DEF IInv

\* With a filter set, no connection it refuses gets past the handshake.
THEOREM NeverAnOpenDoor == Spec => []FilterEnforced
BY Invariant, PTL DEF IInv

\* The accept hook never runs on a freed slot.
THEOREM SlotOutlivesHook == Spec => []HookReadsLiveSlot
BY Invariant, PTL DEF IInv

\* A bind that failed holds no port.
THEOREM FailedBindFreesPort == Spec => []FailedHoldsNoPort
<1>1. IInv => FailedHoldsNoPort
  BY DEF IInv, NoPort, FailedHoldsNoPort
<1> QED BY <1>1, Invariant, PTL

=============================================================================
