---------------------------- MODULE SocketBridge ----------------------------
(***************************************************************************)
(* The life of caller sockets between three actors that share no lock:     *)
(*  - the Tokio side: a SrtSocketBuilder::connect future, then the         *)
(*    SrtSocket handle it returns (socket.rs);                             *)
(*  - the srt-io thread: one loop that drains the command channel, waits   *)
(*    on the epoll, polls states and reaps zombies (epoll_bridge.rs);      *)
(*  - libsrt (external), which moves a socket's state on its own threads.  *)
(* One member of Sockets is one connect call and the libsrt socket it      *)
(* creates. Payloads are left to the data path: readable and writable      *)
(* events change no state kept here.                                       *)
(***************************************************************************)
EXTENDS Naturals, Sequences, SrtStatus

CONSTANTS Sockets,              \* the connect calls, each with its socket
          STATE_POLL_INTERVAL   \* active iterations between two state polls

ASSUME PollAssumption == STATE_POLL_INTERVAL \in Nat \ {0}

VARIABLES
  task,         \* where the connect future, or the handle, of a socket is
  reply,        \* the oneshot that future awaits
  cmds,         \* the command channel to the srt-io thread
  lib,          \* libsrt's own state of the socket
  subscribed,   \* events the epoll watches for the socket
  ready,        \* edge-triggered events raised and not yet returned
  batch,        \* events srt_epoll_uwait returned and not yet processed
  sockets,      \* ids in the bridge's map
  entry,        \* SocketState of an id; last_status is also the watch value
  phase,        \* where the loop is: "cmds", "events", "sweep"
  active,       \* this iteration took the active path
  todo,         \* ids this iteration's state poll has not read yet
  state_poll_counter

tokio == <<task, reply>>
libsrt == <<lib, subscribed, ready>>
loop == <<batch, phase, active, todo, state_poll_counter>>
vars == <<task, reply, cmds, lib, subscribed, ready, batch, sockets, entry,
          phase, active, todo, state_poll_counter>>

Awaiting == {"creating", "binding", "connecting", "addrs"}
Ended == {"failed", "cancelled", "dropped"}
TaskState == Awaiting \cup Ended \cup {"idle", "registered", "open", "closing"}

\* "Midway" is the instant inside a successful handshake when libsrt reports
\* BROKEN (connect_group's comment); "None" is an id not created yet.
LibAlive == {"Init", "Opened", "Connecting", "Midway", "Connected"}
LibDead == {"Broken", "Closed", "NonExist"}
LibState == LibAlive \cup LibDead \cup {"None"}

Event == {"CONNECT", "ERR"}
Command == [op : {"CreateSocket", "RegisterSocket", "Bind", "Connect",
                  "GetAddr", "Close"},
            id : Sockets]
SocketState == [last_status : SocketStatus, recv_tx : BOOLEAN,
                send_rx : BOOLEAN, connect_reply : BOOLEAN]

Cmd(op, s) == [op |-> op, id |-> s]
Queued(op, s) == \E i \in 1..Len(cmds) : cmds[i] = Cmd(op, s)

Init ==
  /\ task = [s \in Sockets |-> "idle"]
  /\ reply = [s \in Sockets |-> "none"]
  /\ cmds = <<>>
  /\ lib = [s \in Sockets |-> "None"]
  /\ subscribed = [s \in Sockets |-> {}]
  /\ ready = [s \in Sockets |-> {}]
  /\ batch = [s \in Sockets |-> {}]
  /\ sockets = {}
  /\ entry = [s \in Sockets |-> [last_status |-> "Init", recv_tx |-> FALSE,
                                 send_rx |-> FALSE, connect_reply |-> FALSE]]
  /\ phase = "cmds"
  /\ active = FALSE
  /\ todo = {}
  /\ state_poll_counter = 0

-----------------------------------------------------------------------------
(* What every step is built from.                                          *)

send_command(op, s) == cmds' = Append(cmds, Cmd(op, s))

\* reply.send(answer): nobody listens once the future is gone.
Deliver(S, answer) ==
  reply' = [s \in Sockets |->
              IF s \in S /\ task[s] \in Awaiting THEN answer ELSE reply[s]]

\* srt_getsockstate through raw_state_to_status.
getsockstate(x) == raw_state_to_status(IF x = "Midway" THEN "Broken" ELSE x)

\* srt_epoll_remove_usock, srt_close, sockets.remove, for every id in S: the
\* state goes with the map entry, so both channels and a held reply drop.
close_and_release(S) ==
  /\ subscribed' = [s \in Sockets |-> IF s \in S THEN {} ELSE subscribed[s]]
  /\ ready' = [s \in Sockets |-> IF s \in S THEN {} ELSE ready[s]]
  /\ lib' = [s \in Sockets |-> IF s \in S /\ lib[s] \notin {"None", "NonExist"}
                                 THEN "Closed" ELSE lib[s]]
  /\ sockets' = sockets \ S
  /\ entry' = [s \in Sockets |->
                 IF s \in S THEN [entry[s] EXCEPT !.recv_tx = FALSE,
                                                  !.send_rx = FALSE,
                                                  !.connect_reply = FALSE]
                 ELSE entry[s]]

\* The Tokio end of recv_tx is dropped with the future or the handle.
is_closed(s) == task[s] \in Ended

-----------------------------------------------------------------------------
(* Tokio side: SrtSocketBuilder::connect and the handle.                   *)

\* The future moves from one await to its next, sending op on the way.
Advance(s, from, to, op) ==
  /\ task[s] = from
  /\ task' = [task EXCEPT ![s] = to]
  /\ reply' = [reply EXCEPT ![s] = "none"]
  /\ send_command(op, s)
  /\ UNCHANGED <<libsrt, sockets, entry, loop>>

connect(s) == Advance(s, "idle", "creating", "CreateSocket")

Created(s) ==
  \/ reply[s] = "Ok" /\ Advance(s, "creating", "registered", "RegisterSocket")
  \/ /\ task[s] = "creating" /\ reply[s] = "Err"
     /\ task' = [task EXCEPT ![s] = "failed"]
     /\ UNCHANGED <<reply, cmds, libsrt, sockets, entry, loop>>

\* With and without a bind address.
Registered(s) == \/ Advance(s, "registered", "binding", "Bind")
                 \/ Advance(s, "registered", "connecting", "Connect")

Bound(s) == \/ reply[s] = "Ok" /\ Advance(s, "binding", "connecting", "Connect")
            \/ reply[s] = "Err" /\ Advance(s, "binding", "failed", "Close")

ConnectAnswered(s) ==
  \/ reply[s] = "Ok" /\ Advance(s, "connecting", "addrs", "GetAddr")
  \/ reply[s] = "Err" /\ Advance(s, "connecting", "failed", "Close")

\* Mutants of ConnectTimeout: no deadline; a deadline that closes nothing.
ConnectTimeout_Never(s) == FALSE
ConnectTimeout_NoClose(s) ==
  /\ task[s] = "connecting" /\ reply[s] = "none"
  /\ task' = [task EXCEPT ![s] = "failed"]
  /\ UNCHANGED <<reply, cmds, libsrt, sockets, entry, loop>>

\* The hard deadline over conn_rx; the answer wins when both are there.
ConnectTimeout(s) == /\ reply[s] = "none"
                     /\ Advance(s, "connecting", "failed", "Close")

\* GetLocalAddr and GetPeerAddr, sent and awaited as one.
AddrsAnswered(s) ==
  /\ task[s] = "addrs" /\ reply[s] # "none"
  /\ task' = [task EXCEPT ![s] = "open"]
  /\ UNCHANGED <<reply, cmds, libsrt, sockets, entry, loop>>

\* The application drops the future at an await: nothing runs after it.
Cancel(s) ==
  /\ task[s] \in Awaiting
  /\ task' = [task EXCEPT ![s] = "cancelled"]
  /\ UNCHANGED <<reply, cmds, libsrt, sockets, entry, loop>>

close(s) == Advance(s, "open", "closing", "Close")

Drop(s) == \/ Advance(s, "open", "dropped", "Close")
           \/ Advance(s, "closing", "dropped", "Close")

-----------------------------------------------------------------------------
(* srt-io thread, commands: process_command.                               *)

\* Taken off the channel while draining it, or parked on it with no socket.
Received(op, s) ==
  /\ phase = "cmds"
  /\ cmds # <<>>
  /\ Head(cmds) = Cmd(op, s)
  /\ cmds' = Tail(cmds)
  /\ UNCHANGED <<task, loop>>

CreateSocket(s) ==
  /\ Received("CreateSocket", s)
  /\ \/ lib' = [lib EXCEPT ![s] = "Init"] /\ Deliver({s}, "Ok")
     \/ lib' = lib /\ Deliver({s}, "Err")
  /\ UNCHANGED <<subscribed, ready, sockets, entry>>

RegisterSocket(s) ==
  LET st == getsockstate(lib[s])
      e == [entry[s] EXCEPT !.recv_tx = TRUE, !.send_rx = TRUE]
  IN /\ Received("RegisterSocket", s)
     /\ sockets' = sockets \cup {s}
     /\ entry' = [entry EXCEPT ![s] = IF st # e.last_status
                                        THEN update_status(e, st) ELSE e]
     /\ UNCHANGED <<reply, libsrt>>

Bind(s) ==
  /\ Received("Bind", s)
  /\ \/ /\ lib[s] = "Init"
        /\ lib' = [lib EXCEPT ![s] = "Opened"]
        /\ Deliver({s}, "Ok")
     \/ lib' = lib /\ Deliver({s}, "Err")
  /\ UNCHANGED <<subscribed, ready, sockets, entry>>

\* srt_connect failed with anything but AsyncFail.
ConnectRefused(s) ==
  /\ Received("Connect", s)
  /\ Deliver({s}, "Err")
  /\ UNCHANGED <<libsrt, sockets, entry>>

\* Mutant of ConnectStarted: "handshake initiated" is reported as connected.
ConnectStarted_Early(s, x) ==
  /\ Received("Connect", s)
  /\ lib[s] \in {"Init", "Opened"}
  /\ lib' = [lib EXCEPT ![s] = x]
  /\ subscribed' = [subscribed EXCEPT ![s] = {"ERR"}]
  /\ entry' = [entry EXCEPT ![s] = update_status(@, "Connected")]
  /\ Deliver({s}, "Ok")
  /\ UNCHANGED <<ready, sockets>>

\* srt_connect started the handshake; the state read next decides. The reply
\* of an id no longer in the map is dropped with the command.
ConnectStarted(s, x) ==
  LET st == getsockstate(x)
      pending == st \in {"Connecting", "Opened", "Init"}
      e == IF pending THEN [entry[s] EXCEPT !.connect_reply = TRUE] ELSE entry[s]
  IN /\ Received("Connect", s)
     /\ lib[s] \in {"Init", "Opened"}
     /\ lib' = [lib EXCEPT ![s] = x]
     /\ subscribed' = [subscribed EXCEPT
                         ![s] = IF st = "Connected" THEN {"ERR"}
                                ELSE IF pending THEN Event ELSE @]
     /\ entry' = [entry EXCEPT
                    ![s] = IF s \in sockets /\ (pending \/ st = "Connected")
                             THEN update_status(e, st) ELSE @]
     /\ IF s \in sockets /\ pending THEN UNCHANGED reply
        ELSE Deliver({s}, IF st = "Connected" THEN "Ok" ELSE "Err")
     /\ UNCHANGED <<ready, sockets>>

Connect(s) ==
  \/ ConnectRefused(s)
  \/ \E x \in {"Connecting", "Midway", "Connected", "Broken"} : ConnectStarted(s, x)

GetAddr(s) == /\ Received("GetAddr", s)
              /\ Deliver({s}, "Ok")
              /\ UNCHANGED <<libsrt, sockets, entry>>

Close(s) ==
  /\ Received("Close", s)
  /\ close_and_release({s})
  /\ Deliver({x \in {s} : entry[x].connect_reply}, "Err")

-----------------------------------------------------------------------------
(* srt-io thread, the rest of the loop: io_thread_main.                    *)

\* The channel is empty: classify, then srt_epoll_uwait.
EpollWait ==
  /\ phase = "cmds" /\ cmds = <<>> /\ sockets # {}
  /\ active' = \E s \in sockets : entry[s].last_status \in {"Connected", "Connecting"}
  /\ batch' = ready
  /\ ready' = [s \in Sockets |-> {}]
  /\ phase' = "events"
  /\ UNCHANGED <<tokio, cmds, lib, subscribed, sockets, entry, todo, state_poll_counter>>

\* Mutant of ProcessEvent: the CONNECT arm answers, but the status is left to
\* the next poll.
ProcessEvent_NoStatus(s) ==
  LET took == s \in sockets /\ "CONNECT" \in batch[s] /\ entry[s].connect_reply
      up == getsockstate(lib[s]) = "Connected"
  IN /\ phase = "events" /\ batch[s] # {}
     /\ batch' = [batch EXCEPT ![s] = {}]
     /\ entry' = [entry EXCEPT ![s].connect_reply = @ /\ ~took]
     /\ Deliver({x \in {s} : took}, IF up THEN "Ok" ELSE "Err")
     /\ UNCHANGED <<task, cmds, libsrt, sockets, phase, active, todo,
                    state_poll_counter>>

\* process_epoll_events, one event: CONNECT, then ERR. An ERR does not take
\* the connect reply: the reaper answers it.
ProcessEvent(s) ==
  LET took == s \in sockets /\ "CONNECT" \in batch[s] /\ entry[s].connect_reply
      up == getsockstate(lib[s]) = "Connected"
      e == IF took THEN update_status([entry[s] EXCEPT !.connect_reply = FALSE],
                                      IF up THEN "Connected" ELSE "Broken")
           ELSE entry[s]
  IN /\ phase = "events" /\ batch[s] # {}
     /\ batch' = [batch EXCEPT ![s] = {}]
     /\ entry' = [entry EXCEPT ![s] = IF s \in sockets /\ "ERR" \in batch[s]
                                        THEN update_status(e, "Broken") ELSE e]
     /\ Deliver({x \in {s} : took}, IF up THEN "Ok" ELSE "Err")
     /\ UNCHANGED <<task, cmds, libsrt, sockets, phase, active, todo,
                    state_poll_counter>>

\* Mutant of EndEvents: polls one iteration late.
EndEvents_Late ==
  LET poll == active /\ state_poll_counter >= STATE_POLL_INTERVAL
  IN /\ phase = "events" /\ \A s \in Sockets : batch[s] = {}
     /\ state_poll_counter' = IF ~active THEN state_poll_counter
                              ELSE IF poll THEN 0 ELSE state_poll_counter + 1
     /\ todo' = IF poll THEN sockets ELSE {}
     /\ phase' = IF poll \/ ~active THEN "sweep" ELSE "cmds"
     /\ UNCHANGED <<tokio, cmds, libsrt, batch, sockets, entry, active>>

\* The idle path reaps every time; the active one polls and reaps every
\* STATE_POLL_INTERVAL iterations.
EndEvents ==
  LET poll == active /\ state_poll_counter + 1 >= STATE_POLL_INTERVAL
  IN /\ phase = "events" /\ \A s \in Sockets : batch[s] = {}
     /\ state_poll_counter' = IF ~active THEN state_poll_counter
                              ELSE IF poll THEN 0 ELSE state_poll_counter + 1
     /\ todo' = IF poll THEN sockets ELSE {}
     /\ phase' = IF poll \/ ~active THEN "sweep" ELSE "cmds"
     /\ UNCHANGED <<tokio, cmds, libsrt, batch, sockets, entry, active>>

\* The state poll, one socket: a NonExist reading leaves the connect reply
\* to the reaper.
PollState(s) ==
  LET st == getsockstate(lib[s])
      changed == st # entry[s].last_status
      answers == changed /\ st \in {"Broken", "Closed"} /\ entry[s].connect_reply
      e == IF answers THEN [entry[s] EXCEPT !.connect_reply = FALSE] ELSE entry[s]
  IN /\ phase = "sweep" /\ s \in todo
     /\ todo' = todo \ {s}
     /\ entry' = [entry EXCEPT ![s] = IF changed THEN update_status(e, st) ELSE @]
     /\ Deliver({x \in {s} : answers}, "Err")
     /\ UNCHANGED <<task, cmds, libsrt, batch, sockets, phase, active,
                    state_poll_counter>>

\* Mutant of Zombies: an entry whose recv_tx the bridge dropped is kept.
Zombies_HandleGone == {s \in sockets : /\ is_terminal_status(entry[s].last_status)
                                       /\ is_closed(s)}

Zombies == {s \in sockets : /\ is_terminal_status(entry[s].last_status)
                            /\ ~entry[s].recv_tx \/ is_closed(s)}

cleanup_zombies ==
  /\ phase = "sweep" /\ todo = {}
  /\ phase' = "cmds"
  /\ close_and_release(Zombies)
  /\ Deliver({s \in Zombies : entry[s].connect_reply}, "Err")
  /\ UNCHANGED <<task, cmds, batch, active, todo, state_poll_counter>>

-----------------------------------------------------------------------------
(* libsrt's own threads (external). An event is raised only where it is    *)
(* subscribed, and a failure may raise any subset of them, or none.        *)

LibMove(s, from, to, events) ==
  /\ lib[s] \in from
  /\ lib' = [lib EXCEPT ![s] = to]
  /\ ready' = [ready EXCEPT ![s] = @ \cup (events \cap subscribed[s])]
  /\ UNCHANGED <<tokio, cmds, subscribed, sockets, entry, loop>>

HandshakeMidway(s) == LibMove(s, {"Connecting"}, "Midway", {})
HandshakeDone(s) == LibMove(s, {"Midway"}, "Connected", {"CONNECT"})
HandshakeFails(s) == \E ev \in SUBSET Event :
                       LibMove(s, {"Connecting", "Midway"}, "Broken", ev)
LinkBreaks(s) == \E ev \in {{}, {"ERR"}} : LibMove(s, {"Connected"}, "Broken", ev)
GarbageCollect(s) == \/ LibMove(s, {"Broken"}, "Closed", {})
                     \/ LibMove(s, {"Closed"}, "NonExist", {})

-----------------------------------------------------------------------------
Task(s) == \/ Created(s) \/ Registered(s) \/ Bound(s) \/ ConnectAnswered(s)
           \/ ConnectTimeout(s) \/ AddrsAnswered(s)

App(s) == connect(s) \/ Cancel(s) \/ close(s) \/ Drop(s)

process_command(s) == \/ CreateSocket(s) \/ RegisterSocket(s) \/ Bind(s)
                      \/ Connect(s) \/ GetAddr(s) \/ Close(s)

io_thread_main == \/ \E s \in Sockets : process_command(s)
                  \/ EpollWait
                  \/ \E s \in Sockets : ProcessEvent(s)
                  \/ EndEvents
                  \/ \E s \in Sockets : PollState(s)
                  \/ cleanup_zombies

Libsrt(s) == \/ HandshakeMidway(s) \/ HandshakeDone(s) \/ HandshakeFails(s)
             \/ LinkBreaks(s) \/ GarbageCollect(s)

Next == \/ io_thread_main
        \/ \E s \in Sockets : Task(s) \/ App(s) \/ Libsrt(s)

\* The srt-io thread always runs on, and a woken future is polled. Nothing is
\* asked of libsrt, which may leave a handshake hanging for good, nor of the
\* application.
Fairness == WF_vars(io_thread_main) /\ \A s \in Sockets : WF_vars(Task(s))

Spec == Init /\ [][Next]_vars /\ Fairness

-----------------------------------------------------------------------------
TypeOK ==
  /\ task \in [Sockets -> TaskState]
  /\ reply \in [Sockets -> {"none", "Ok", "Err"}]
  /\ cmds \in Seq(Command)
  /\ lib \in [Sockets -> LibState]
  /\ subscribed \in [Sockets -> SUBSET Event]
  /\ ready \in [Sockets -> SUBSET Event]
  /\ batch \in [Sockets -> SUBSET Event]
  /\ sockets \in SUBSET Sockets
  /\ entry \in [Sockets -> SocketState]
  /\ phase \in {"cmds", "events", "sweep"}
  /\ active \in BOOLEAN
  /\ todo \in SUBSET Sockets
  /\ state_poll_counter \in 0..(STATE_POLL_INTERVAL - 1)

\* No libsrt socket is left behind: a live one has a future or a handle that
\* will close it, or its Close is on the way. A future dropped at an await is
\* the exception, as connect sends its Close only from the code after it.
NoLeak ==
  \A s \in Sockets : lib[s] \in LibAlive =>
                       task[s] \notin {"idle", "failed", "dropped"} \/ Queued("Close", s)

\* A healthy connection keeps its channels: while libsrt has the socket of a
\* connected caller up, and nobody asked to close it, the bridge has it
\* Connected with both channel ends, whatever events and polls went by.
HealthyKeepsChannels ==
  \A s \in Sockets : task[s] \in {"addrs", "open"} /\ lib[s] = "Connected" =>
    /\ s \in sockets
    /\ entry[s] = [last_status |-> "Connected", recv_tx |-> TRUE,
                   send_rx |-> TRUE, connect_reply |-> FALSE]

\* Connect reports success only for a handshake that finished, never for one
\* merely started (the comment in the Connect arm), nor in its Midway instant.
OkMeansConnected ==
  \A s \in Sockets : task[s] = "connecting" /\ reply[s] = "Ok" =>
                       lib[s] \in {"Connected"} \cup LibDead

\* A status once terminal never leads back to a live one: send()'s pre-flight
\* and wait_for_state give up on the first terminal status they see, so a
\* handle that has been told it is dead must stay dead.
NoRevival ==
  [][\A s \in Sockets : is_terminal_status(entry[s].last_status) =>
                          is_terminal_status(entry'[s].last_status)]_vars

\* Every connect call returns, even when libsrt hangs in its handshake.
ConnectReturns ==
  \A s \in Sockets : task[s] = "creating" ~> task[s] \in Ended \cup {"open"}

\* A handshake that died is answered and its socket released, whether an
\* event, the poll or only the reaper notices, and whether or not a future
\* still waits for it.
DeadHandshakeReleased ==
  \A s \in Sockets : entry[s].connect_reply /\ lib[s] \in LibDead ~>
                       s \notin sockets /\ task[s] # "connecting"

\* When the connection under an open handle dies, recv() and send() come to
\* be unblocked, even if the bridge only ever sees the socket as NonExist
\* (bilbycast-edge #100).
DeadSocketUnblocks ==
  \A s \in Sockets : task[s] = "open" /\ lib[s] \in LibDead ~>
                       ~entry[s].recv_tx /\ ~entry[s].send_rx

=============================================================================
