----------------------------- MODULE GroupLife ------------------------------
(***************************************************************************)
(* The life of a caller's group: SrtGroupBuilder::connect with its awaits, *)
(* SrtGroup::add_member, close and Drop (group.rs), and the srt-io thread's *)
(* side: CreateGroup, RegisterSocket, ConnectGroup, AddGroupMember, Close,  *)
(* the ERR arm with group_err_is_real and the state poll                   *)
(* (epoll_bridge.rs). A group has a status before it has members, an ERR   *)
(* at birth, and no reaper. Stranded members are left to MemberRepair.     *)
(*                                                                         *)
(* libsrt is external: the member links, the group's status derived from   *)
(* them, and ERR.                                                          *)
(***************************************************************************)
EXTENDS Naturals, Sequences, SrtStatus

CONSTANTS Bonds,     \* the endpoint lists connect() may be called with
          MAX_GROUP_MEMBER_WEIGHT,
          MaxAdds,   \* bound on the add_member calls
          Racing     \* the values `racing' starts with

ASSUME GroupAssumption == Racing \subseteq BOOLEAN /\ MaxAdds \in Nat

VARIABLES
  task,        \* the connect future, then the SrtGroup
  bond,        \* its endpoints, in the order libsrt lists them
  reply,       \* the oneshot connect awaits
  adds,        \* add_member calls made
  added,       \* the endpoints of the members added later, in their order
  racing,      \* whether the srt-io thread may read a member between two of
               \* libsrt's writes
  cmds,        \* the command channel
  present,     \* the group is in the bridge's map
  entry,       \* its SocketState
  phase,       \* "cmds", "events", "poll"
  batch,       \* srt_epoll_uwait returned an ERR on the group
  lib,         \* the group in libsrt: "None", "Exists", "Closed"
  mem,         \* libsrt: its members, in the order it lists them
  subscribed,  \* the group is in the epoll
  err          \* ERR raised and not yet returned

tokio == <<task, bond, racing, reply, adds>>
bridge == <<present, entry>>
loop == <<phase, batch>>
libsrt == <<lib, mem, added, subscribed, err>>
vars == <<task, bond, racing, reply, adds, cmds, present, entry, phase, batch, lib,
          mem, added, subscribed, err>>

\* One slot per endpoint of the bond, and behind them one per later member.
Endpoint == 1..Len(bond)
Slot == 1..(Len(bond) + MaxAdds)
endpoint_of(k) == IF k \in Endpoint THEN k ELSE added[k - Len(bond)]
Cmd(op) == <<op, 0>>

\* "Midway" and "Failed" are listed Pending on a socket that reads BROKEN: the
\* instant inside a successful handshake, and a failed one not yet unlisted.
MemberState == {"none", "Pending", "Midway", "Failed", "Up"}
Listed(m) == {i \in Slot : m[i] \in {"Pending", "Midway", "Failed"}}

\* srt_getsockstate of the group: Connected while a member is up, else the
\* socket of the first listed Pending one, else Broken, as with no members.
getStatus ==
  IF lib # "Exists" THEN "NonExist"
  ELSE IF \E i \in Slot : mem[i] = "Up" THEN "Connected"
  ELSE IF \E i \in Listed(mem) : mem[i] = "Pending" /\ \A j \in Listed(mem) : i <= j
    THEN "Connecting" ELSE "Broken"

Alive == \E i \in Slot : mem[i] \in {"Pending", "Midway", "Up"}

Init ==
  /\ task = "idle" /\ bond \in Bonds /\ racing \in Racing
  /\ reply = "none" /\ adds = 0 /\ cmds = <<>>
  /\ present = FALSE
  /\ entry = [last_status |-> "Init", recv_tx |-> FALSE, send_rx |-> FALSE]
  /\ phase = "cmds" /\ batch = FALSE
  /\ lib = "None" /\ mem = [i \in Slot |-> "none"] /\ added = <<>>
  /\ subscribed = FALSE /\ err = FALSE

-----------------------------------------------------------------------------
(* Tokio side.                                                             *)

check(ep) == /\ ep.local \in {"none", ep.family}
             /\ ep.weight <= MAX_GROUP_MEMBER_WEIGHT
             /\ ep.token >= 0

Advance(from, to, sent) ==
  /\ task = from /\ task' = to
  /\ reply' = "none"
  /\ cmds' = cmds \o sent
  /\ UNCHANGED <<bond, racing, adds, bridge, loop, libsrt>>

\* A bad endpoint, or none, is refused before any group exists.
connect == IF bond # <<>> /\ \A i \in Endpoint : check(bond[i])
             THEN Advance("idle", "creating", <<Cmd("CreateGroup")>>)
             ELSE Advance("idle", "failed", <<>>)

Created ==
  \/ /\ reply = "Ok"
     /\ Advance("creating", "connecting", <<Cmd("RegisterSocket"), Cmd("ConnectGroup")>>)
  \/ reply = "Err" /\ Advance("creating", "failed", <<>>)

\* Mutant of ConnectAnswered: a refused connect is returned with ?.
ConnectAnswered_NoClose ==
  \/ reply = "Ok" /\ Advance("connecting", "open", <<>>)
  \/ reply = "Err" /\ Advance("connecting", "failed", <<>>)

ConnectAnswered ==
  \/ reply = "Ok" /\ Advance("connecting", "open", <<>>)
  \/ reply = "Err" /\ Advance("connecting", "failed", <<Cmd("Close")>>)

Cancel == task \in {"creating", "connecting"} /\ Advance(task, "cancelled", <<>>)

\* The call's answer changes nothing here.
add_member(i) ==
  /\ task = "open" /\ adds < MaxAdds
  /\ adds' = adds + 1
  /\ cmds' = Append(cmds, <<"AddGroupMember", i>>)
  /\ UNCHANGED <<task, bond, racing, reply, bridge, loop, libsrt>>

close == Advance("open", "closing", <<Cmd("Close")>>)
Drop == task \in {"open", "closing"} /\ Advance(task, "dropped", <<Cmd("Close")>>)

-----------------------------------------------------------------------------
(* srt-io thread: process_command.                                         *)

Received(c) ==
  /\ phase = "cmds" /\ cmds # <<>>
  /\ Head(cmds) = c /\ cmds' = Tail(cmds)
  /\ UNCHANGED <<task, bond, racing, adds, loop>>

Deliver(answer) == reply' = IF task \in {"creating", "connecting"} THEN answer ELSE reply

CreateGroup ==
  /\ Received(Cmd("CreateGroup"))
  /\ \/ /\ lib' = "Exists" /\ present' = TRUE /\ Deliver("Ok")
     \/ /\ UNCHANGED <<lib, present>> /\ Deliver("Err")
  /\ UNCHANGED <<entry, mem, added, subscribed, err>>

RegisterSocket ==
  /\ Received(Cmd("RegisterSocket"))
  /\ entry' = [entry EXCEPT !.recv_tx = TRUE, !.send_rx = TRUE]
  /\ UNCHANGED <<reply, present, libsrt>>

\* srt_connect_group spawned no member.
ConnectRefused ==
  /\ Received(Cmd("ConnectGroup"))
  /\ Deliver("Err")
  /\ UNCHANGED <<bridge, libsrt>>

\* Some are spawned. A group joins the epoll with ERR up unless a member is
\* connected by then.
ConnectSpawned ==
  /\ Received(Cmd("ConnectGroup")) /\ lib = "Exists"
  /\ \E m \in [Slot -> {"none", "Pending", "Up"}] :
       /\ \E i \in Slot : m[i] # "none"
       /\ \A i \in Slot \ Endpoint : m[i] = "none"
       /\ mem' = m
       /\ err' = \A i \in Slot : m[i] # "Up"
  /\ subscribed' = TRUE
  /\ entry' = IF present THEN update_status(entry, "Connected") ELSE entry
  /\ Deliver("Ok")
  /\ UNCHANGED <<present, lib, added>>

\* A member carries the endpoint, and its socket does not read as dead.
member_in_flight(i) ==
  \E k \in Slot : mem[k] \in {"Pending", "Up"} /\ endpoint_of(k) = i

\* Refused unless the group is tracked, not seen broken and connected now; a
\* no-op while a member is seen in flight. libsrt may refuse it too.
AddGroupMember(i) ==
  /\ Received(<<"AddGroupMember", i>>)
  /\ \/ UNCHANGED <<mem, added>>
     \/ /\ present /\ ~is_terminal_status(entry.last_status)
        /\ getStatus = "Connected" /\ ~member_in_flight(i)
        /\ Len(added) < MaxAdds
        /\ added' = Append(added, i)
        /\ mem' = [mem EXCEPT ![Len(bond) + Len(added')] = "Pending"]
  /\ UNCHANGED <<reply, bridge, lib, subscribed, err>>

\* close_and_release. What never joined the epoll is not unsubscribed.
Close ==
  /\ Received(Cmd("Close"))
  /\ subscribed' = FALSE /\ err' = FALSE
  /\ lib' = "Closed" /\ mem' = [i \in Slot |-> "none"]
  /\ present' = FALSE
  /\ entry' = [entry EXCEPT !.recv_tx = FALSE, !.send_rx = FALSE]
  /\ UNCHANGED <<reply, added>>

-----------------------------------------------------------------------------
(* srt-io thread: the rest of the loop. cleanup_zombies skips groups.      *)

EpollWait ==
  /\ phase = "cmds" /\ cmds = <<>> /\ present
  /\ phase' = "events"
  /\ batch' = err /\ err' = FALSE
  /\ UNCHANGED <<tokio, cmds, bridge, lib, mem, added, subscribed>>

\* Mutant of group_err_is_real: as before the check was added.
group_err_is_real_Always == TRUE

group_err_is_real == is_terminal_status(raw_state_to_status(getStatus))

\* Mutant of ProcessErr: the event is left in the buffer.
ProcessErr_Stale ==
  /\ phase = "events" /\ phase' = "poll"
  /\ entry' = IF batch /\ group_err_is_real THEN update_status(entry, "Broken") ELSE entry
  /\ UNCHANGED <<tokio, cmds, present, batch, libsrt>>

ProcessErr ==
  /\ phase = "events" /\ phase' = "poll"
  /\ batch' = FALSE
  /\ entry' = IF batch /\ group_err_is_real THEN update_status(entry, "Broken") ELSE entry
  /\ UNCHANGED <<tokio, cmds, present, libsrt>>

\* Mutant of PollState: no group is polled.
PollState_NoGroups ==
  /\ phase = "poll" /\ phase' = "cmds"
  /\ UNCHANGED <<tokio, cmds, bridge, batch, libsrt>>

\* The poll is not due yet.
NoPoll == /\ phase = "poll" /\ phase' = "cmds"
          /\ UNCHANGED <<tokio, cmds, bridge, batch, libsrt>>

PollState ==
  LET st == raw_state_to_status(getStatus)
  IN /\ phase = "poll" /\ phase' = "cmds"
     /\ entry' = IF entry.last_status # "Init" /\ st # entry.last_status
                   THEN update_status(entry, st) ELSE entry
     /\ UNCHANGED <<tokio, cmds, present, batch, libsrt>>

-----------------------------------------------------------------------------
(* libsrt's own threads (external).                                        *)

MemberMove(i, from, to) ==
  /\ lib = "Exists" /\ mem[i] \in from
  /\ mem' = [mem EXCEPT ![i] = to]
  /\ err' \in {err, err \/ (subscribed /\ \A j \in Slot : mem'[j] # "Up")}
  /\ UNCHANGED <<tokio, cmds, bridge, loop, lib, added, subscribed>>

HandshakeMidway(i) == racing /\ MemberMove(i, {"Pending"}, "Midway")
HandshakeDone(i) == MemberMove(i, {IF racing THEN "Midway" ELSE "Pending"}, "Up")
HandshakeFails(i) == MemberMove(i, {"Pending"}, IF racing THEN "Failed" ELSE "none")
Unlisted(i) == racing /\ MemberMove(i, {"Failed"}, "none")
LinkBreaks(i) == MemberMove(i, {"Up"}, "none")

-----------------------------------------------------------------------------
App == \/ connect \/ Cancel \/ close \/ Drop
       \/ \E i \in Endpoint : add_member(i)
Task == Created \/ ConnectAnswered
io_thread_main ==
  \/ CreateGroup \/ RegisterSocket \/ ConnectRefused \/ ConnectSpawned \/ Close
  \/ \E i \in Endpoint : AddGroupMember(i)
  \/ EpollWait \/ ProcessErr \/ NoPoll \/ PollState
Libsrt(i) == \/ HandshakeMidway(i) \/ HandshakeDone(i) \/ HandshakeFails(i)
             \/ Unlisted(i) \/ LinkBreaks(i)

Next == App \/ Task \/ io_thread_main \/ \E i \in Slot : Libsrt(i)

\* The srt-io thread runs on, its poll comes round, and a woken future is
\* polled. Nothing is asked of libsrt or of the application.
Fairness == WF_vars(io_thread_main) /\ SF_vars(PollState) /\ WF_vars(Task)

Spec == Init /\ [][Next]_vars /\ Fairness

-----------------------------------------------------------------------------
\* Type invariant: an ERR taken from the epoll is gone by the end of the pass
\* that handled it.
TypeOK ==
  /\ task \in {"idle", "creating", "connecting", "open", "closing", "dropped", "failed",
               "cancelled"}
  /\ bond \in Bonds /\ racing \in BOOLEAN /\ reply \in {"none", "Ok", "Err"} /\ adds \in 0..MaxAdds
  /\ \A k \in 1..Len(cmds) : cmds[k] \in {Cmd("CreateGroup"), Cmd("RegisterSocket"),
                                          Cmd("ConnectGroup"), Cmd("Close")}
                                         \cup ({"AddGroupMember"} \X Endpoint)
  /\ present \in BOOLEAN
  /\ entry \in [last_status : SocketStatus, recv_tx : BOOLEAN, send_rx : BOOLEAN]
  /\ phase \in {"cmds", "events", "poll"}
  /\ batch \in IF phase = "events" THEN BOOLEAN ELSE {FALSE}
  /\ lib \in {"None", "Exists", "Closed"} /\ mem \in [Slot -> MemberState]
  /\ added \in Seq(Endpoint) /\ Len(added) <= MaxAdds
  /\ {subscribed, err} \subseteq BOOLEAN

\* No group is left in libsrt, where neither the reaper nor its own death
\* would ever release it: it has a future or a handle, or its Close is queued.
\* A future dropped at an await is the exception, as in SocketBridge.
NoGroupLeak ==
  lib = "Exists" => \/ task \in {"creating", "connecting", "open", "closing", "cancelled"}
                    \/ \E k \in 1..Len(cmds) : cmds[k] = Cmd("Close")

\* A group that has a link, or one still to come, keeps both channels through
\* the statuses it has before it has members, its ERR at birth and every ERR
\* and poll after that, as long as no member is read between two writes.
HealthyGroupKeepsChannels ==
  ~racing /\ task = "open" /\ Alive => entry.recv_tx /\ entry.send_rx

\* "A genuine all-links-down ERR agrees with it; one that does not is ignored"
\* (group_err_is_real): the same without that proviso.
OnlyRealErrDrops ==
  task = "open" /\ Alive => entry.recv_tx /\ entry.send_rx

\* When the last link of an open group is gone both its channels close, although
\* groups are never reaped and the ERR may be missing.
DeadGroupUnblocks == task = "open" /\ (\A i \in Slot : mem[i] = "none")
                       ~> ~entry.recv_tx /\ ~entry.send_rx

=============================================================================
