# A TLA+ verification of bilbycast-libsrt-rs

bilbycast-libsrt-rs wraps Haivision's libsrt for Tokio. Every libsrt call runs
on one OS thread, `srt-io`; Tokio tasks send it commands and get answers over
channels; libsrt runs its own threads underneath. There is no lock between the
three, so the correctness of the wrapper is a matter of what happens in which
order. That is what these modules model, what TLC checks on small instances
and what TLAPS proves for instances of any size.

## The system

| Part | State | Operations | Talks to |
|------|-------|------------|----------|
| `SrtSocketBuilder::connect`, `SrtSocket` (socket.rs) | the await it is at; handle; oneshots | connect (create, register, bind, connect with a deadline, addresses), send, recv, close, Drop | srt-io, by commands and oneshots |
| `SrtListenerBuilder::bind`, `SrtListener` (listener.rs) | accept channel; access control | bind, accept with its `Unclaimed` guard, close, Drop | srt-io |
| `SrtGroup` (group.rs) | group handle | connect, add_member, member_stats, close, Drop | srt-io |
| srt-io thread (epoll_bridge.rs) | map id -> `SocketState` (last status, channel ends, held connect reply, send backlog, watched members) | drain commands, wait for events, send drain, group receive sweep, stranded-member check, state poll, zombie reaping | all of the above, libsrt |
| libsrt (external) | socket states, epoll readiness, group members and their listing | handshakes, failures, garbage collection, the accept hook | srt-io's calls |
| srt-protocol | values only (`SrtConfig`, `StreamIdInfo`, `FecConfig`, statuses, errors) | parse, format, convert | the builders, access control, apply_config |
| stats_bridge.rs, apply_config, libsrt-sys | none | copies and option calls | libsrt |

What is hard: futures can be dropped at any await; a deadline races a late
answer; libsrt changes a socket between two readings of it, reports BROKEN for
an instant inside a successful handshake, may skip the states a poll looks
for, or may hang; connections arrive while their listener is being dropped;
the accept hook runs on another thread while its memory is released; and
libsrt can strand a bonded member at connect, which the bridge repairs by
replacing it without letting the peer see too few or too many members.

What makes each part correct:

* sockets: every connect returns, is told the truth, and leaves nothing open;
  a dead connection unblocks its users; a live one keeps its channels;
* listeners: every accepted connection has an owner or is closed; the filter
  is armed or the listener does not listen; the hook's memory outlives it;
* groups: none is leaked, as no reaper takes them; a live one keeps its
  channels although its status and its ERR mislead; no stranded member is
  forgotten; a repair never empties the peer, shows it no overlap beside
  another member, carries no endpoint twice, ends;
* data: what is sent leaves in order and once, and is lost only with the link
  or for its size; what is due is read although wake-ups go missing, without hole or repeat;
* values: a socket has the options its builder was told; a stream id and a
  filter string are read as what they mean.

## Modules

| Module | Models | Source |
|--------|--------|--------|
| `SrtStatus` | status values, `is_terminal_status`, `raw_state_to_status`, `update_status` | config.rs, epoll_bridge.rs |
| `SocketBridge` | caller sockets: the connect future, the srt-io loop, libsrt | socket.rs, epoll_bridge.rs |
| `Listener` | bind, accept, drop, the hook and accepted connections | listener.rs, epoll_bridge.rs |
| `GroupLife` | a caller's group from connect to its close | group.rs, epoll_bridge.rs |
| `MemberRepair` | a caller group's members and `check_stranded_members` | epoll_bridge.rs |
| `Fifo` | abstract: what the send direction promises | |
| `SendPath` | send, channel, backlog, `handle_send`, `wait_for_state`; implements `Fifo` | socket.rs, group.rs, epoll_bridge.rs |
| `RecvPath` | `handle_recv` on events and in the group sweep, recv | socket.rs, group.rs, epoll_bridge.rs |
| `MemberListing` | the two calls of `srt_group_data` in both of its readers | epoll_bridge.rs |
| `SocketOptions` | the three builders, `SrtConfig`, `apply_config`, the connect deadline | config.rs, socket.rs, listener.rs, group.rs, epoll_bridge.rs |
| `StreamId` | `StreamIdInfo::parse`, `to_stream_id` | access_control.rs |
| `FecConfig` | `FecConfig::parse`, `Display` | fec.rs |
| `MC*` | instances for TLC; `MCStandalone` composes the last four | |
| `SocketBridgeProofs`, `ListenerProofs`, `GroupLifeProofs`, `MemberRepairProofs`, `SendPathProofs`, `RecvPathProofs`, `MemberListingProofs`, `SocketOptionsProofs` | theorems about the module of that name | |

`SrtStatus` is shared by all that keep a `SocketState`. `SendPath`, `RecvPath`
and `GroupLife` each take one handle and the part of the srt-io loop that
touches it, because the rest of the loop reaches that handle only through what
they keep: its map entry, its libsrt state and the two loop flags
(`has_connected`, the active path), which the other sockets may set or not.

**SocketBridge.** `task[s]` is where a connect future is (one value per await),
then whether its handle is open, closing or dropped; `reply[s]` the oneshot it
awaits; `cmds` the unbounded command channel. `sockets` is the bridge's map and
`entry[s]` the `SocketState` fields that matter; a state's `last_status` is
also what the watch channel shows. `lib[s]` is libsrt's own state, `subscribed`
and `ready` the epoll. The loop of `io_thread_main` is the phases `cmds`
(park or drain; one action per command), `events` (`ProcessEvent`, one per
event of the batch), and `sweep` (`PollState` per socket, then
`cleanup_zombies`); between any two of these steps libsrt and the tasks move.
`Midway` is the instant of a successful handshake in which libsrt reports
BROKEN. A failing handshake may raise any subset of events, or none.
Left out: payload events (they change nothing kept here), the back-off after
a failing `srt_epoll_uwait`, the option calls of CreateSocket.

**Listener.** One listener, a set of callers. `conn[c]` is the caller's
connection (in the hook, in the backlog, open, closed); `sock[c]` its Tokio
owner: an accept future ("building", "answered"), then a handle. `Drop` takes
its three moves one at a time against the srt-io thread. `releasing` splits
`close_and_release` after `srt_close`, which waits for a running hook, so that
the freeing of the slot is a step of its own. tokio's channel operations are
atomic steps: a `try_send` that holds a permit across the receiver's close and
drain is inside tokio, and outside this model.

**GroupLife.** `task` is the connect future, then the `SrtGroup`; `bond` the
endpoints, checked before a group exists; `cmds` the commands of this group.
`mem` is libsrt's members in the order it lists them, one slot per endpoint
and one per member added later (`added`), and `getStatus` the group's status
as libsrt derives it: Connected with a link up, else the state of the *first*
pending member's socket, else Broken, as before it has members. A member that
is read between two of libsrt's writes is not in flight to
`member_in_flight`, which then adds a second for its endpoint. A group joins
the epoll with ERR up unless a member is connected by then. `racing`, chosen
in Init, says whether the srt-io thread may read a member between two of
libsrt's writes ("Midway", "Failed"). `close_and_release` skips the
unsubscription of what was never polled; that only spares a libsrt log line,
and the model unsubscribes always.

**MemberRepair.** `mem` is libsrt's side of every member: its socket, and its
row in the listing. What `srt_connect_group` may leave of a member is
`Outcomes`: connecting, up, or stranded in the shapes the source describes,
reported or, where it read BROKEN midway, reported failed and kept;
`connect_group` finds the kept one by listing the group before and after.
"Midway" is that instant of a successful handshake, which `getsockstate`
reads as BROKEN, "Written" the one in which the row is up before its socket. Time is counted in checks; an Instant is the number of checks until
it. A check is the steps `CheckSockets` (live states), `CheckRows` (listing),
one `Look` per watched member, `EndCheck`; `classify_watched`, `next_step`,
`repair_plan`, `weigh_others`, `plan_repair` are operators of the same names.
Three things say what the environment may do: the constant `Racing` (libsrt's
threads move during a check, and a socket and its row are seen out of step),
the variable `hangs`, chosen in Init from `Hangs` (a handshake outlives its
connect timeout), and `MaxAdds` (calls of add_member). A check may begin at
any of these moments. A handshake that has begun to write is done by its
connect timeout, and one whose row `srt_connect_group` overwrote has stored
its socket's state by the time the call returns. `misread` is a history
variable: a member was spawned while a handshake for its endpoint was read
midway, and so taken for dead. The group's status is polled between checks,
and may come back from a terminal one. An id is reused once nothing refers to
it. The tokens of a bond are distinct. The test hook
and the log-only fields are left out.

**SendPath.** `waiting` holds the send() calls that queue for a permit of the
bounded channel (`channel`), `backlog` is the entry's `send_backlog`, `room`
what libsrt's send buffer still takes, `delivered` what it took. `kind`,
chosen in Init, is a caller's socket, an accepted one or a caller's group:
the sockets look at the status before they send, the group can stall (no link
up, members reconnecting) and is not reaped. `handle_send` is one action per packet (`SendBacklog`,
`SendChannel`), so that tasks and libsrt move between two packets. The loop is
`cmds` (`Close`), `EpollWait` (the flags), `ProcessOut`, `ProcessErr`, the
drain, `PollState`, `cleanup_zombies`. `waiter` is a `wait_for_state` call.
Most of what is sent goes out in the drain of every iteration. No call asks for
SRT_EPOLL_OUT by that name (epoll_bridge.rs:575-577), but SRT_EPOLL_CONNECT is
the same flag, and the Connect arm subscribes a caller's socket to it
(891-897): on its events `handle_send` runs too (`ProcessOut`), whatever the
status, and before the ERR of the same event is handled. `SendQueue == INSTANCE Fifo WITH`
the queue mapped to `backlog \o channel` while the receiver lives, `open` to
the receiver and `up` to libsrt's state; `IsFifo == SendQueue!Spec`.

**RecvPath.** `kind`, chosen in Init, is one of the four handles that share
the code; a socket is a group of one member. `buf[m]` are the packets due at a
member; `latch` and `events` the epoll's readiness and its edges. For a group
a due packet may raise no edge, a re-added member may clear one unread, and
only a group read clears the latch. `handle_recv` is `ProcessIn` or
`GroupSweep`, `RecvOne` per packet, `RecvEnds`. Before `RegisterSocket` an
accepted id is in the epoll and not in the map, and what is read then is
thrown away: `NoHole` allows that at the stream's head and nowhere else. A
link of a caller's group is pending, then "midway", then up; `getsockstate`
is Connected with a link up, else the socket of the first listed link still
pending, BROKEN midway, else Broken. A link of a mirror group joins connected,
and the ERR of a mirror group may come with a link left.

**MemberListing.** `srt_group_data` fails on a buffer that is too small, so
`read_group_rows` and `get_group_member_stats` call it twice; `members` moves
in between. Only a mirror group (`mirror`) gains members while it is read.

**SocketOptions.** Any sequence of builder calls rewrites `config`; `Create`
is `apply_config` in the order of its `srt_setsockflag` calls, of which
SRTO_TRANSTYPE rewrites several options at once; `OptionsAfterMode` is the
chain of the others. Integers wrap at twice `SignBit`, the code's 2^31; the
run has 4096, as TLC's own integers are 32 bits wide. `mss` stands for the
options that `apply_config` skips at libsrt's default and that meet no other.

**StreamId, FecConfig.** Ids and filter strings are sequences of words, a
word a name or a key and a word, so that splitting at the first `=` or `:` is
kept and characters are not. Names have no white space at their ends, which
parse trims; a blank parameter of a filter is skipped. `parse` is compared with a declarative reading of the same
string, and with what `to_stream_id` or `Display` wrote. A plain id (no `#!::`)
with a comma in it is not written back as it was read; it is left out of the
round trip.

## Runs

| Run | Instance | Shows |
|-----|----------|-------|
| `socket_bridge` | 2 sockets, poll every 2nd iteration, symmetry | `NoLeak`, `HealthyKeepsChannels`, `OkMeansConnected`, `NoRevival` |
| `socket_bridge_live` | 1 socket | `ConnectReturns`, `DeadHandshakeReleased`, `DeadSocketUnblocks` |
| `listener` | 3 callers, 1 not allowed, accept channel of 1 | `NoOrphan`, `FilterEnforced`, `HookReadsLiveSlot`, `FailedHoldsNoPort`, `DropClosesAll` |
| `member_repair` | backup bond of 2, `Racing`, 1 repair, no linger | `NoForgotten`, `PeerKept`, the repair limit (`TypeOK`) |
| `member_repair_readd` | broadcast bond of 1, `Racing`, handshakes hang, 1 add | `OneCarrier`, `PeerKept` |
| `member_repair_live` | broadcast bond of 2, not `Racing`, handshakes hang or not | `StrandedResolved`; `NoOverlapBesideOther` where none hangs |
| `send` | socket of either side or group, 3 packets, one oversized, channel and buffer of 1, 1 stall | `IsFifo` (refinement), `NothingStuck`, `WaitEnds`, a backlog of at most one (`TypeOK`) |
| `recv` | all 4 kinds, 2 members, 3 packets (a caller's group 2), 1 join | `NoHole`, `OnlyOutageEndsRecv`, `DueGetsRead`, `RecvUnblocks` |
| `group_life` | bond of 3, and a bond with a weight too great; 1 add; racing or not | `NoGroupLeak`, `HealthyGroupKeepsChannels` (where not racing), `DeadGroupUnblocks` |
| `standalone` | the four parts without shared state, one at a time | `ConfigSurvivesMode`, `DeadlineAboveLibsrt`, `StreamIdMeaning`, `AcceptsOnlyGood`, `ListingIsRight` |
| `listener_bind_fails` | as `listener` | violated: `FailedLeavesNothing` |
| `group_err` | as `group_life`, racing, no adds | violated: `OnlyRealErrDrops` |

Bounds.

* Two sockets let one's events, polls and reaping fall between the steps of
  the other; sockets share only the loop and the command channel. The real
  poll interval is 100; 2 makes an iteration without and one with a poll.
* Three callers are one in the channel, one it has no room for and one the
  filter refuses.
* A bond of two is the smallest in which a member can wait for, or overlap
  beside, another; grace, linger, recheck and timeout are one or two checks,
  which keeps their order; without linger a superseded member goes at the
  next check. One endpoint is enough for `OneCarrier`, which compares the
  members of one, and leaves room for libsrt's threads, hanging handshakes, a
  repair and an add at once. `MaxId`, 3 or 4, limits the members alive at once: a
  spawn that finds no id is one that failed, which the code handles too. The live
  run takes one repair of the code's limit, so a replacement that is stranded
  again is closed.
* Three packets, a channel (`SEND_CHANNEL_CAPACITY`) and a libsrt buffer
  (`SendBuffer`) of one put one packet in libsrt, one in the backlog and one
  in the channel, so a would-block meets a later packet already queued;
  packet 2 is the oversized one, so it has neighbours on both sides. One stall
  (`MaxStalls`) takes a group down and back.
* In `recv`, two links make copies, gaps on one link filled by the other, and
  one link's loss; one join (`MaxJoins`) is one cleared readiness.
  A caller's group has by far the most states, and two packets are its bound.
* In `group_life` three members put one before and one behind the first
  pending one; an add meets a group before or after a break.
* In `standalone`, `MaxMembers` 4 with `Slots` 2 (the code's 8) makes listings
  that fit, that do not, and that shrink into fitting. Three builder calls
  (`MaxCalls`) are every order of the mode between two others. Three words
  (`MaxWords`) are a key given twice around another; three parameters
  (`MaxParams`) the same for filters. The durations are zero, small, and at
  and past both ends of the scaled integers.

Deadlock is not checked: with no socket the srt-io thread parks, and a
finished group, listener or stream stays so.

Fairness.

* The srt-io thread never blocks for ever while it has work (`uwait` has a
  timeout, every libsrt call is non-blocking): `WF` on its steps. The state
  poll and the group sweep run by a counter and a timer, which come round
  again and again: `SF` on `PollState` and `GroupSweep`.
* A Tokio task that can run is polled: `WF` on a future that has its answer or
  whose deadline has passed. A Drop runs to its end; an accept hook returns.
* `SendPath`: a live link empties libsrt's buffer (`LinkTakes`) and a stalled
  group comes back or fails (`GroupUp`); otherwise nothing would ever leave.
  `RecvPath`: a handshake ends (`Handshake`), up or not, as libsrt times it out.
  `MemberRepair`: a libsrt thread in the midst of its writes goes on to write
  the row (`HandshakeWrites`) and the socket's state (`HandshakeDone`); a
  handshake itself need not end.
* Nothing else is asked of libsrt, and nothing of the peers or of the
  application, which may stop calling accept(), recv() or send() for good.

What the violated runs say:

* `listener_bind_fails`. A bind whose Bind command fails is returned with `?`,
  and neither the socket nor its map entry is ever released (listener.rs:350);
  the comments on Listen and on the caller's connect say why it should be. The
  port is not held.
* `group_err`. "A genuine all-links-down ERR agrees with it; one that does not
  is ignored" (epoll_bridge.rs:734-735) does not hold in the instant of a
  successful handshake in which the first pending member's socket reads
  BROKEN. The ERR every group raises at birth, judged then, drops both
  channels for good while the group comes up. The state poll then reads the
  group Connected, and add_member accepts a group nobody can read or write,
  which epoll_bridge.rs:1792-1793 excludes.

Every property of a passing run has a mutant: a version of one definition with
a plausible bug (`..._NoGuard`, `..._NoClose`, ...), under which TLC finds the
property violated.

### Seen while modelling

These are behaviours of the modelled code that a reader may not expect. No
run is kept for them; a property names where each would bite.

* A replacement that is stranded in turn leaves its whole chain up, so that
  the peer lists three members of a bond of two for a while
  (epoll_bridge.rs:2079 says it must never; repair_plan, 2125).
* A break between the two readings of a check (epoll_bridge.rs:2404), a window
  of microseconds every 100 ms, gets a second member replaced beside an
  overlap; so do a handshake that outlives its timeout and an add_member
  during one. `NoOverlapBesideOther` excludes the three.
* add_member, or a repair, that reads a handshake in the instant in which its
  socket reads BROKEN (epoll_bridge.rs:1671-1674) takes the member for dead
  (member_in_flight, 1891-1899) and spawns another. Both may come up, be
  confirmed and no longer be watched: the endpoint is then carried twice for
  the life of the group, which 1785-1790 says add_group_member prevents. In
  `member_repair_readd`, TLC refutes `NeverCarriedTwice` without the
  condition `~misread` that `OneCarrier` gives it, with a single add.
* An ERR on a listener's mirror group is taken at its word, as a mirror group
  is not registered as a group (epoll_bridge.rs:707), where a caller group's
  is checked against its status. If libsrt raises one while a link is left,
  recv() ends early. `OnlyOutageEndsRecv` excepts it.
* An oversized packet is dropped after send() returned Ok. The comment there
  says the status will tell (epoll_bridge.rs:1267), but the link is healthy
  and its status never changes. `Fifo` has it as `Unsendable`.
* close() right after send() drops what is still queued, on a healthy link
  (socket.rs:217, "gracefully"). `Fifo!Shut` allows it.
* The reaper takes a dead socket although its handle is open: update_status
  has dropped the recv_tx whose absence it reads as "handle dropped"
  (epoll_bridge.rs:742-743, 757).
* member_stats() of a mirror group is empty when a link joins between the two
  calls (socket.rs:182-186 promises a non-empty one). `ListingIsRight` makes
  that exception and no other.
* A connect_timeout below a millisecond leaves libsrt at its 3 s while
  connect() waits 2 s (socket.rs:478, epoll_bridge.rs:1508-1511):
  `DeadlineAboveLibsrt` starts at a millisecond.
* latency(0) leaves libsrt's 120 ms and one past 31 bits is refused unseen
  (epoll_bridge.rs:1475-1477); `max_bw` -1 never reaches libsrt
  (epoll_bridge.rs:1532).

## Proofs

All theorems hold for every value of the constants that satisfies the
`ASSUME` of the module they are about; these ask for naturals, positive
where a capacity or an interval of zero would not be a program, and for
subsets of the sets named. No theorem assumes fairness or anything of libsrt
beyond its actions. All are checked by tlapm. Each is `Spec => []P` for an
invariant or `Spec => P` for an action property or a refinement, and rests on
an inductive invariant named conjunct by conjunct in its module (`IInv` and
theorem `Invariant`, where nothing else is said below).

| Module | Theorem | States |
|--------|---------|--------|
| `SocketBridgeProofs` | `TypeCorrect` | `TypeOK` |
| | `SocketNeverLeaked` | `NoLeak` |
| | `SuccessIsReal` | `OkMeansConnected` |
| | `HealthyKept` | `HealthyKeepsChannels` |
| | `NeverRevived` | `NoRevival` (action property) |
| `ListenerProofs` | `TypeCorrect` | `TypeOK` |
| | `NeverOrphaned` | `NoOrphan` |
| | `NeverAnOpenDoor` | `FilterEnforced` |
| | `SlotOutlivesHook` | `HookReadsLiveSlot` |
| | `FailedBindFreesPort` | `FailedHoldsNoPort` |
| `GroupLifeProofs` | `TypeCorrect` | `TypeOK` |
| | `GroupNeverLeaked` | `NoGroupLeak` |
| | `HealthyGroupKept` | `HealthyGroupKeepsChannels` |
| `MemberRepairProofs` | `TypeCorrect` | `TypeOK`, with the repair limit |
| | `NeverForgotten` | `NoForgotten` |
| | `NeverTwoCarriers` | `OneCarrier` (nothing misread: not carried twice) |
| | `NeverLastFromPeer` | `PeerKept` (action property) |
| `SendPathProofs` | `TypeCorrect` | `TypeOK`, with the backlog of one |
| | `SendIsFifo` | `IsFifo` (refinement of `Fifo`) |
| `RecvPathProofs` | `TypeCorrect` | `TypeOK` |
| | `StreamHasNoHole` | `NoHole` |
| | `RecvEndKept` | `OnlyOutageEndsRecv` (action property) |
| `MemberListingProofs` | `ListingTrue` | `ListingIsRight` (action property) |
| `SocketOptionsProofs` | `OptionsTypeCorrect` | `OptionsTypeOK`, a conjunct of the next |
| | `ConfigAlwaysSurvives` | `ConfigSurvivesMode` |
| | `DeadlineAlwaysAbove` | `DeadlineAboveLibsrt` |

**SocketBridge** (any set `Sockets`, any `STATE_POLL_INTERVAL >= 1`). None of
the properties is inductive. `OkMeansConnected` and `NoLeak` need that the
bridge's answer reaches the future that waits (`ReplyAwaited`, `AskAwaited`: an
answer or a queued question means its future is at that await, so no answer is
one to an earlier question), that a future asks one thing at a time
(`OneAsk`), and `Unborn`: before CreateSocket is answered the id exists
nowhere. `HealthyKeepsChannels` needs a second invariant on top
of the first, `CInv` (theorem `ChannelInvariant`): the registration is ahead
of every other command of its id (`RegisterFirst`, `OnlyCreate`), so the
channel ends are in the map before the handshake starts (`Newborn`,
`Tracked`); an event is never older than the state it tells of (`EventsTrue`);
a held connect reply keeps its entry from reading as dead (`HeldOpen`,
`DeadNoted`); and once connect has been answered Ok the entry is the full one
until libsrt's socket dies (`Succeeded`). `NoRevival` follows from `CInv`: a
status is terminal only on a dead socket, which no command or poll reads as
live, or on one that this sweep has polled in the instant of a handshake and
reaps at its end.

**Listener** (any connections, filter and capacity). `FilterEnforced` and
`HookReadsLiveSlot` rest on the order of commands: Listen always finds the
slot that RegisterListener put there (`RegisterFirst`, `Prepared`), a
filtering listener that listens is armed, an armed one has its slot, and no
hook is left once `close_and_release` has started (`Guarded`). `NoOrphan`
needs that a listener which can no longer take connections has closed its
channel (`RxClosed`, `Closing`), `FailedHoldsNoPort` where a failing bind can
have come from (`NoPort`).

**GroupLife** (any bonds, any number of adds). The group is registered ahead
of its connect and has had no event or status by then (`RegisterFirst`,
`Registered`, `Newborn`), so both channels are there when connect is answered;
from then on only a group without links reads as terminal, because the first
listed member decides and it is pending (`AliveReads`), unless a member is
read between two writes (`MembersRead` excludes that where not racing, and
`HealthyGroupKeepsChannels` asks for no more).

**MemberRepair** (any bond, backup or not, any grace, linger, recheck,
timeout, limit and number of adds; racing and hanging or not). A member is
stuck from the moment it is spawned, when its socket is already connected
(`StuckFromBirth`). A check reads sockets first and the listing after them
(`LiveRead`, `RowsRead`), so of a stuck member it sees a connected socket and
a row that is Pending, Broken or Running: it is never judged Gone, and
Confirmed only as Running in a broadcast group, where nothing but its end
changes that. `NoForgotten` is therefore strengthened to `NeedsKnown`, which
in a backup group, where a keepalive shows the send state again, holds of
members that are Running too. `OneWatch` (one watch per member, across
`watched` and the replacements of this check) keeps `swap_remove` and
`HandsTo` from losing a chain, and bounds `idx` by counting. That `w.repairs`
stays within the limit comes from `repair_plan` itself (`PlanRepair`).

The other two properties are about repair chains, a watched member with the
members it supersedes, and need a second invariant on top of the first, `CInv`
(theorem `ChainInvariant`). Its `Chains` say that chains are disjoint and each
of one endpoint (`OwnedApart`, `OneOwner`, `OwnToken`), that every handshake in
progress is in one (`ConnKnown`), that two handshakes of an endpoint are in the
same one (`OneConn`) and, if nothing was misread, that two members of an
endpoint in flight are (`OneFlight`, of which `OneCarrier` is a case);
`ConnOwned` and `OneSpawned` are what keeps these when chains are handed on. A
check acts on readings that its own steps and libsrt's make old: `Shapes` say
what remains true of them, namely that a socket read as dead is dead, or was
read midway and its watch has time left, that one read as connected does not
connect any more, and that a row that is missing or Broken is of a member that
does not connect. `Dated` is about the times: a watch is not given up before
its own handshake is done (`InTime`), nor before one of its endpoint outside
its chain that is being written (`Late`), so a member past its time is never
replaced beside such a handshake unnoticed. `PeerKept` follows: the last member leaves the peer
either with a dead chain or with the whole endpoint.

**SendPath** (any packets, capacities, stalls and poll interval). Every step
is shown to be a step of `Fifo` or a stutter, under the mapping of
`SendQueue`: the app's steps append or stutter, `SendBacklog` and `SendChannel`
take the head of `backlog \o channel` (`QueueHead`), whatever drops the
receiver is `Fifo!Shut` (`Shuts`), and the rest moves nothing. What
`handle_send` writes on an event, where it asks for no status, needs a second
invariant: a socket whose receiver is gone or that had an ERR is down for good
(`SocketGone`).

**RecvPath** (all four kinds, any members, packets and joins). What is due is
an unbroken run up to the last packet that came (`DueIsRun`); while the
channel takes packets that run begins where the stream ends (`Frontier`); so
the packet a read takes, the oldest due, is the next of the stream
(`Consecutive`, `FromFirst`). `OnlyOutageEndsRecv` goes through the steps that
can drop the channel: a poll or an ERR that reads a terminal status, which is
an outage by what libsrt's status is (`TerminalIsOutage`); the reaper, which
finds the channel there only at the poll that reads that status
(`LiveStatus`); and the ERR of a socket, which means that its link is gone
(`ErrIsReal`, with `NoHandshake`).

**MemberListing** (any members and first buffer). The group does not outgrow
the buffer that its first call asked for, unless it is a mirror group
(`SecondFits`), and the probe of `get_group_member_stats` has no buffer
(`ProbeIsEmpty`), without which the invariant is not inductive.

**SocketOptions** (any `SignBit` above the code's constants, any durations and
sizes, any number of calls). The invariant `OptInv` (theorem
`OptionsInvariant`) says of the builder's `SrtConfig` that its mode flags
follow its mode (`ModeFlags`), which is why `apply_config` may leave them to
SRTO_TRANSTYPE, and that its receive latency is the one asked for, wrapped
(`Asked`); and of a created socket that it is `apply_config` of a new one.
`AppliedConfig` then goes through the chain of option calls, and `Casts` says
what a cast can do: keep what fits, never grow, and turn a positive time into
none only from `SignBit` upwards, far above libsrt's 3 s. That is
`DeadlineAboveLibsrt`.

Only model-checked:

* liveness (`ConnectReturns`, `DeadHandshakeReleased`, `DeadSocketUnblocks`,
  `DropClosesAll`, `StrandedResolved`, `NothingStuck`, `WaitEnds`,
  `DueGetsRead`, `RecvUnblocks`, `DeadGroupUnblocks`): fairness is out of the
  prover's reach;
* `NoOverlapBesideOther`: it holds only of readings that are exact, which
  `member_repair_live` assumes (not `Racing`) and the code does not guarantee;
* `StreamIdMeaning`, `AcceptsOnlyGood`: what `StreamId` and `FecConfig`
  compute is defined by folds over sequences of any length, which needs
  induction over data.

## Not modelled

* The tables of error codes, reject reasons and key states (error.rs,
  config.rs): lookups with no state, whose correctness is the spelling of
  numbers.
* The copy of libsrt's counters into `SrtStats` (stats_bridge.rs, stats.rs),
  `bind_socket` and the conversion of addresses: field by field copies. That
  Bind may fail is in `SocketBridge` and `Listener`.
* libsrt-sys: generated bindings and a build script. libsrt is the
  environment of every module, modelled from how this code uses it.
* The thread's shutdown, which no code requests, and the back-off after a
  failing `srt_epoll_uwait`.
* A connect or bind future dropped at an await leaks its socket until it dies:
  modelled (`Cancel`, `CancelBind`) and exempted, as the code has no guard
  there. The receive channel has no bound, by design; `RecvPath` bounds what
  the peer sends.

## Plan

The system is modelled, and every safety property that a run checks is proved
for any instance, save the two of `StreamId` and `FecConfig` and
`NoOverlapBesideOther`. What would come next:

1. `StreamId` and `FecConfig`: what `parse` returns for strings of any length,
   with a prover that can do induction over sequences.
2. Liveness for any number of sockets and members, which needs the same of
   fairness.
3. The hazards that have no property: a bind future dropped at an await, and
   the packets that close() overtakes. Both wait for a decision of what the
   code should promise.
4. The endpoint carried twice after a handshake read midway: once
   `member_in_flight` tells such a member from a dead one, `OneCarrier` and
   `OneFlight` lose their condition.
