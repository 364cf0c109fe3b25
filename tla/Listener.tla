------------------------------ MODULE Listener ------------------------------
(***************************************************************************)
(* A listener and the connections it accepts: SrtListenerBuilder::bind,     *)
(* SrtListener::accept, close and Drop, the Unclaimed guard (listener.rs),  *)
(* SrtSocket::from_accepted and Drop (socket.rs), and the srt-io thread's   *)
(* side: the listener commands, handle_accept, the access-control hook and  *)
(* close_and_release (epoll_bridge.rs). The hook runs on libsrt's receive   *)
(* thread, which with the peers is the environment (external).             *)
(* Channel operations of tokio are atomic steps.                           *)
(***************************************************************************)
EXTENDS Naturals, Sequences

CONSTANTS Conns,            \* incoming connections
          Allowed,          \* those on_accept accepts; it rejects or panics on others
          Filtered,         \* the builder was given an access control
          ACCEPT_CAPACITY,  \* of the accept channel
          L                 \* the listener's id

ASSUME ListenerAssumption == /\ Allowed \subseteq Conns
                             /\ Filtered \in BOOLEAN
                             /\ ACCEPT_CAPACITY \in Nat \ {0}
                             /\ L \notin Conns

VARIABLES
  task,        \* the bind future, then the SrtListener
  reply,       \* the oneshot bind awaits
  sock,        \* the Tokio owner of a connection: accept future, then handle
  chan,        \* the accept channel
  rx_closed,   \* its receiver was closed or dropped
  cmds,        \* the command channel
  sockets,     \* ids in the bridge's map
  slot,        \* the AccessControlSlot: "none", "held", "freed"
  releasing,   \* close_and_release has closed the listener, not yet dropped its state
  lib,         \* libsrt's state of the listening socket
  armed,       \* libsrt holds the accept hook
  conn         \* libsrt's state of a connection

tokio == <<task, reply, sock, rx_closed>>
libsrt == <<lib, armed, conn>>
vars == <<task, reply, sock, chan, rx_closed, cmds, sockets, slot, releasing,
          lib, armed, conn>>

Ids == Conns \cup {L}
Awaiting == {"creating", "binding", "listening", "addr"}
TaskState == Awaiting \cup {"idle", "up", "closed", "dropping", "draining",
                            "dropped", "failed", "cancelled"}
Command == [op : {"CreateSocket", "RegisterListener", "RegisterSocket", "Bind",
                  "Listen", "GetAddr", "Close"}, id : Ids]
Cmd(op, i) == [op |-> op, id |-> i]
Queued(op, i) == \E k \in 1..Len(cmds) : cmds[k] = Cmd(op, i)

Init == /\ task = "idle" /\ reply = "none"
        /\ sock = [c \in Conns |-> "none"]
        /\ chan = <<>> /\ rx_closed = FALSE
        /\ cmds = <<>> /\ sockets = {}
        /\ slot = "none" /\ releasing = FALSE
        /\ lib = "None" /\ armed = FALSE
        /\ conn = [c \in Conns |-> "none"]

-----------------------------------------------------------------------------
(* Tokio side: SrtListenerBuilder::bind.                                   *)

Advance(from, to, sent) ==
  /\ task = from
  /\ task' = to
  /\ reply' = "none"
  /\ cmds' = cmds \o sent
  /\ UNCHANGED <<sock, chan, rx_closed, sockets, slot, releasing, libsrt>>

bind == Advance("idle", "creating", <<Cmd("CreateSocket", L)>>)

\* The ? after an answer: the future ends, and sends nothing.
Fails(from) == reply = "Err" /\ Advance(from, "failed", <<>>)

Created == \/ /\ reply = "Ok"
              /\ Advance("creating", "binding", <<Cmd("RegisterListener", L),
                                                  Cmd("RegisterSocket", L),
                                                  Cmd("Bind", L)>>)
           \/ Fails("creating")

Bound == \/ reply = "Ok" /\ Advance("binding", "listening", <<Cmd("Listen", L)>>)
         \/ Fails("binding")

Listened == \/ reply = "Ok" /\ Advance("listening", "addr", <<Cmd("GetAddr", L)>>)
            \/ Fails("listening")

AddrAnswered == reply # "none" /\ Advance("addr", "up", <<>>)

\* The application drops the bind future at an await, and accept_rx with it.
CancelBind ==
  /\ task \in Awaiting
  /\ task' = "cancelled"
  /\ rx_closed' = TRUE /\ chan' = <<>>
  /\ UNCHANGED <<reply, sock, cmds, sockets, slot, releasing, libsrt>>

-----------------------------------------------------------------------------
(* Tokio side: SrtListener and the sockets accept hands out.               *)

\* accept() takes a connection and asks for its socket; it borrows the
\* listener mutably, so one at a time.
accept ==
  /\ task \in {"up", "closed"} /\ chan # <<>>
  /\ \A c \in Conns : sock[c] # "building"
  /\ chan' = Tail(chan)
  /\ sock' = [sock EXCEPT ![Head(chan)] = "building"]
  /\ cmds' = cmds \o <<Cmd("RegisterSocket", Head(chan)), Cmd("GetAddr", Head(chan))>>
  /\ UNCHANGED <<task, reply, rx_closed, sockets, slot, releasing, libsrt>>

\* The handle owns the connection from here: Unclaimed::claimed.
Claimed(c) ==
  /\ sock[c] = "answered"
  /\ sock' = [sock EXCEPT ![c] = "open"]
  /\ UNCHANGED <<task, reply, chan, rx_closed, cmds, sockets, slot, releasing, libsrt>>

\* Mutant of CancelAccept: no Unclaimed guard.
CancelAccept_NoGuard(c) ==
  /\ sock[c] \in {"building", "answered"}
  /\ sock' = [sock EXCEPT ![c] = "dropped"]
  /\ UNCHANGED <<task, reply, chan, rx_closed, cmds, sockets, slot, releasing, libsrt>>

\* The accept future is dropped part-way: Unclaimed's Drop.
CancelAccept(c) ==
  /\ sock[c] \in {"building", "answered"}
  /\ sock' = [sock EXCEPT ![c] = "dropped"]
  /\ cmds' = Append(cmds, Cmd("Close", c))
  /\ UNCHANGED <<task, reply, chan, rx_closed, sockets, slot, releasing, libsrt>>

DropSocket(c) ==
  /\ sock[c] = "open"
  /\ sock' = [sock EXCEPT ![c] = "dropped"]
  /\ cmds' = Append(cmds, Cmd("Close", c))
  /\ UNCHANGED <<task, reply, chan, rx_closed, sockets, slot, releasing, libsrt>>

close == Advance("up", "closed", <<Cmd("Close", L)>>)

\* Mutant of Drop: closes the channel only, the listener lives on.
Drop_NoClose ==
  /\ \A c \in Conns : sock[c] \notin {"building", "answered"}
  /\ Advance("up", "dropping", <<>>) \/ Advance("closed", "dropping", <<>>)

\* Drop for SrtListener, in its three moves; no accept borrows it by then.
Drop ==
  /\ \A c \in Conns : sock[c] \notin {"building", "answered"}
  /\ \/ Advance("up", "dropping", <<Cmd("Close", L)>>)
     \/ Advance("closed", "dropping", <<Cmd("Close", L)>>)

DropClosesChannel ==
  /\ task = "dropping"
  /\ task' = "draining"
  /\ rx_closed' = TRUE
  /\ UNCHANGED <<reply, sock, chan, cmds, sockets, slot, releasing, libsrt>>

\* One try_recv of the drain, or its end.
DropDrains ==
  /\ task = "draining"
  /\ \/ /\ chan # <<>>
        /\ chan' = Tail(chan)
        /\ cmds' = Append(cmds, Cmd("Close", Head(chan)))
        /\ task' = task
     \/ /\ chan = <<>>
        /\ task' = "dropped"
        /\ UNCHANGED <<chan, cmds>>
  /\ UNCHANGED <<reply, sock, rx_closed, sockets, slot, releasing, libsrt>>

-----------------------------------------------------------------------------
(* srt-io thread: process_command.                                         *)

Received(op, i) ==
  /\ ~releasing
  /\ cmds # <<>>
  /\ Head(cmds) = Cmd(op, i)
  /\ cmds' = Tail(cmds)

Deliver(answer) == reply' = IF task \in Awaiting THEN answer ELSE reply

CreateSocket ==
  /\ Received("CreateSocket", L)
  /\ \/ lib' = "Init" /\ Deliver("Ok")
     \/ lib' = lib /\ Deliver("Err")
  /\ UNCHANGED <<task, sock, chan, rx_closed, sockets, slot, releasing, armed, conn>>

RegisterListener ==
  /\ Received("RegisterListener", L)
  /\ sockets' = sockets \cup {L}
  /\ slot' = IF Filtered THEN "held" ELSE slot
  /\ UNCHANGED <<tokio, chan, releasing, libsrt>>

RegisterSocket ==
  /\ \E i \in Ids : Received("RegisterSocket", i) /\ sockets' = sockets \cup {i}
  /\ UNCHANGED <<tokio, chan, slot, releasing, libsrt>>

Bind ==
  /\ Received("Bind", L)
  /\ \/ lib' = "Opened" /\ Deliver("Ok")
     \/ lib' = lib /\ Deliver("Err")
  /\ UNCHANGED <<task, sock, chan, rx_closed, sockets, slot, releasing, armed, conn>>

\* srt_close of the listener: it waits for a running hook, and libsrt closes
\* the connections nobody accepted. The caller drops the state.
srt_close_listener ==
  /\ \A c \in Conns : conn[c] # "hook"
  /\ lib' = IF lib = "None" THEN lib ELSE "Closed"
  /\ armed' = FALSE
  /\ conn' = [c \in Conns |-> IF conn[c] = "backlog" THEN "closed" ELSE conn[c]]

\* Mutants of Listen: an unarmed hook is ignored; a failed listen keeps the
\* socket.
Listen_Open ==
  /\ Received("Listen", L)
  /\ lib' = "Listening" /\ armed' \in {FALSE, slot = "held"}
  /\ Deliver("Ok")
  /\ UNCHANGED <<task, sock, chan, rx_closed, sockets, slot, releasing, conn>>

Listen_Keep ==
  /\ Received("Listen", L)
  /\ \/ lib' = "Listening" /\ armed' = (slot = "held") /\ Deliver("Ok")
     \/ lib' = lib /\ armed' = armed /\ Deliver("Err")
  /\ UNCHANGED <<task, sock, chan, rx_closed, sockets, slot, releasing, conn>>

\* register_listen_callback first, then srt_listen; either failing releases
\* the socket before the answer, so nothing is left to close it.
Listen ==
  /\ Received("Listen", L)
  /\ \/ /\ lib' = "Listening"
        /\ armed' = (L \in sockets /\ slot = "held")
        /\ Deliver("Ok")
        /\ UNCHANGED <<sockets, slot, conn>>
     \/ /\ srt_close_listener
        /\ sockets' = sockets \ {L}
        /\ slot' = IF slot = "held" THEN "freed" ELSE slot
        /\ Deliver("Err")
  /\ UNCHANGED <<task, sock, chan, rx_closed, releasing>>

\* The getters, for the listener and for a connection being claimed.
GetAddr ==
  /\ \E i \in Ids :
       /\ Received("GetAddr", i)
       /\ IF i = L THEN Deliver("Ok") /\ UNCHANGED sock
          ELSE /\ sock' = [sock EXCEPT ![i] = IF @ = "building" THEN "answered" ELSE @]
               /\ UNCHANGED reply
  /\ UNCHANGED <<task, chan, rx_closed, sockets, slot, releasing, libsrt>>

\* Mutant of CloseListener: the state goes first, libsrt's socket second.
CloseListener_FreeFirst ==
  /\ Received("Close", L)
  /\ slot' = IF slot = "held" THEN "freed" ELSE slot
  /\ sockets' = sockets \ {L}
  /\ releasing' = FALSE
  /\ UNCHANGED <<tokio, chan, libsrt>>

\* Close of the listener, in the order close_and_release insists on: out of
\* libsrt, then (ReleaseListener) out of the map, which frees the slot.
CloseListener ==
  /\ Received("Close", L)
  /\ srt_close_listener
  /\ releasing' = TRUE
  /\ UNCHANGED <<tokio, chan, sockets, slot>>

ReleaseListener ==
  /\ releasing
  /\ releasing' = FALSE
  /\ sockets' = sockets \ {L}
  /\ slot' = IF slot = "held" THEN "freed" ELSE slot
  /\ UNCHANGED <<tokio, chan, cmds, libsrt>>

CloseConn ==
  /\ \E c \in Conns : /\ Received("Close", c)
                      /\ sockets' = sockets \ {c}
                      /\ conn' = [conn EXCEPT ![c] = IF @ = "open" THEN "closed" ELSE @]
  /\ UNCHANGED <<tokio, chan, slot, releasing, lib, armed>>

\* Mutant of handle_accept: room for one more than the channel has.
handle_accept_OffByOne(c) ==
  /\ ~releasing
  /\ L \in sockets /\ conn[c] = "backlog"
  /\ chan' = IF ~rx_closed /\ Len(chan) <= ACCEPT_CAPACITY THEN Append(chan, c) ELSE chan
  /\ conn' = [conn EXCEPT ![c] = "open"]
  /\ UNCHANGED <<tokio, cmds, sockets, slot, releasing, lib, armed>>

\* A listener IN event: srt_accept one connection and try_send it, or close
\* it when the channel is full or closed.
handle_accept(c) ==
  LET handed == ~rx_closed /\ Len(chan) < ACCEPT_CAPACITY
  IN /\ ~releasing
     /\ L \in sockets /\ conn[c] = "backlog"
     /\ chan' = IF handed THEN Append(chan, c) ELSE chan
     /\ conn' = [conn EXCEPT ![c] = IF handed THEN "open" ELSE "closed"]
     /\ UNCHANGED <<tokio, cmds, sockets, slot, releasing, lib, armed>>

-----------------------------------------------------------------------------
(* libsrt's receive thread and the peers (external).                       *)

ConnMove(c, from, to) ==
  /\ conn[c] \in from
  /\ conn' = [conn EXCEPT ![c] = to]
  /\ UNCHANGED <<tokio, chan, cmds, sockets, slot, releasing, lib, armed>>

Handshake(c) == /\ lib = "Listening"
                /\ ConnMove(c, {"none"}, IF armed THEN "hook" ELSE "backlog")

\* The trampoline reads the slot and decides; a panic is a rejection.
listen_callback_trampoline(c) ==
  ConnMove(c, {"hook"}, IF c \in Allowed THEN "backlog" ELSE "closed")

PeerCloses(c) == ConnMove(c, {"backlog", "open"}, "closed")

-----------------------------------------------------------------------------
BindTask == Created \/ Bound \/ Listened \/ AddrAnswered
ListenerDrop == DropClosesChannel \/ DropDrains
App == \/ bind \/ CancelBind \/ accept \/ close \/ Drop
       \/ \E c \in Conns : Claimed(c) \/ CancelAccept(c) \/ DropSocket(c)
io_thread == \/ CreateSocket \/ RegisterListener \/ RegisterSocket \/ Bind \/ Listen
             \/ GetAddr \/ CloseListener \/ ReleaseListener \/ CloseConn
             \/ \E c \in Conns : handle_accept(c)
Environment == \E c \in Conns : \/ Handshake(c) \/ listen_callback_trampoline(c)
                                \/ PeerCloses(c)

Next == BindTask \/ ListenerDrop \/ App \/ io_thread \/ Environment

\* The srt-io thread always runs on: commands come before events, so they
\* are never starved by accepts. A Drop runs to its end, a hook returns.
Fairness == /\ WF_vars(io_thread)
            /\ WF_vars(BindTask)
            /\ WF_vars(ListenerDrop)
            /\ \A c \in Conns : WF_vars(listen_callback_trampoline(c))

Spec == Init /\ [][Next]_vars /\ Fairness

-----------------------------------------------------------------------------
TypeOK == /\ task \in TaskState /\ reply \in {"none", "Ok", "Err"}
          /\ sock \in [Conns -> {"none", "building", "answered", "open", "dropped"}]
          /\ chan \in Seq(Conns) /\ Len(chan) <= ACCEPT_CAPACITY
          /\ rx_closed \in BOOLEAN
          /\ cmds \in Seq(Command)
          /\ sockets \subseteq Ids
          /\ slot \in {"none", "held", "freed"} /\ releasing \in BOOLEAN
          /\ lib \in {"None", "Init", "Opened", "Listening", "Closed"}
          /\ armed \in BOOLEAN
          /\ conn \in [Conns -> {"none", "hook", "backlog", "open", "closed"}]

\* An accepted connection always has an owner that will close it: it waits in
\* the accept channel of a listener that has not been drained, an accept
\* future or a handle has it, or its Close is on the way. Holds through a
\* full channel, a listener dropped against accepts in progress, and an
\* accept future dropped part-way; not for a bind future dropped at an await,
\* whose accept_rx is lost with whatever the listener had accepted.
NoOrphan ==
  \A c \in Conns : conn[c] = "open" =>
    \/ sock[c] \in {"building", "answered", "open"}
    \/ Queued("Close", c)
    \/ (\E k \in 1..Len(chan) : chan[k] = c) /\ task # "dropped"
    \/ task = "cancelled"

\* A configured filter is never an open door: no caller it does not accept
\* gets past the handshake, whatever of bind, arming and listen fails, and
\* whenever the handshake arrives.
FilterEnforced == Filtered => \A c \in Conns : conn[c] \in {"backlog", "open"} =>
                                                 c \in Allowed

\* The hook never reads a freed slot: while it runs, the AccessControlSlot
\* whose address libsrt holds is allocated.
HookReadsLiveSlot == \A c \in Conns : conn[c] = "hook" => slot = "held"

\* A bind that failed holds no port: the next bind of the same address is
\* not refused because of it.
FailedHoldsNoPort == task = "failed" => lib \notin {"Opened", "Listening"}

\* A bind that failed leaves no socket behind, in libsrt or in the map.
FailedLeavesNothing == task = "failed" => lib \in {"None", "Closed"} /\ L \notin sockets

\* Once a listener is dropped, what it accepted and nobody claimed is closed,
\* and the bridge forgets the listener.
DropClosesAll ==
  task = "dropped" ~> /\ L \notin sockets
                      /\ \A c \in Conns : conn[c] = "open" => sock[c] = "open"

=============================================================================
