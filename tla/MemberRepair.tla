---------------------------- MODULE MemberRepair ----------------------------
(***************************************************************************)
(* The repair of group members that libsrt stranded at connect: a caller   *)
(* group, its watched members, and check_stranded_members, which reads     *)
(* each one's socket, then the group listing, and replaces those that      *)
(* stay stranded (epoll_bridge.rs). libsrt and the network are the         *)
(* environment (external); a member is up at its peer exactly while its    *)
(* socket is connected.                                                    *)
(*                                                                         *)
(* Time is counted in checks (STRANDED_CHECK): an Instant in the future is *)
(* the number of checks until it, 0 once it has come, None when unset.     *)
(* An id is used again only when nothing refers to it any more, the        *)
(* smallest first (ids are never compared).                                *)
(***************************************************************************)
EXTENDS Integers, Sequences, FiniteSets, SrtStatus

CONSTANTS
  MaxId,                  \* bound: members a group lists or the bridge knows
  Endpoints,              \* the bond, as the sequence of ConnectGroup: tokens
  Backup,                 \* a backup-mode group
  STRANDED_MEMBER_GRACE, MASKED_MEMBER_RECHECK, MAX_STRANDED_REPAIRS,
  CONNECT_TIMEOUT,        \* libsrt resolves a handshake within this
  HANDSHAKE_TTL_SLACK,
  LINGER,                 \* superseded_linger
  Racing,                 \* whether libsrt's threads run during a check, and
                          \* one is seen between two of its writes
  Hangs,                  \* the values `hangs' starts with
  MaxAdds                 \* bound: AddGroupMember calls of the application

ASSUME RepairAssumption ==
  /\ Endpoints \in Seq(STRING)
  /\ {Backup, Racing} \cup Hangs \subseteq BOOLEAN
  /\ {STRANDED_MEMBER_GRACE, MASKED_MEMBER_RECHECK, MAX_STRANDED_REPAIRS,
      CONNECT_TIMEOUT, LINGER, MaxAdds} \subseteq Nat
  /\ HANDSHAKE_TTL_SLACK \in Nat \ {0}
  /\ MaxId \in Nat /\ Len(Endpoints) \in 1..MaxId
  /\ \A i, j \in 1..Len(Endpoints) : Endpoints[i] = Endpoints[j] => i = j

VARIABLES
  mem,          \* libsrt: per id, its socket and its row in the group listing
  last_status,  \* the group's, in the bridge
  watched,      \* Vec<WatchedMember>
  adds,         \* AddGroupMember calls made
  hangs,        \* whether libsrt may leave a handshake unresolved past its
                \* connect timeout
  misread,      \* history: a member was spawned while a handshake for its
                \* endpoint was read in the instant in which it reads BROKEN
  phase,        \* of a check: "idle", "live" (sockets read), "look" (listing read)
  rows,         \* the listing this check read
  idx,          \* the member this check looks at
  spawned       \* replacements spawned in this check

vars == <<mem, last_status, watched, adds, hangs, misread, phase, rows, idx, spawned>>
check == <<phase, rows, idx, spawned>>

None == -1
Ids == 1..MaxId
Tokens == {Endpoints[i] : i \in 1..Len(Endpoints)}
Elements(s) == {s[i] : i \in 1..Len(s)}

\* libsrt's side of a member. "Midway": its handshake succeeds, and has ended
\* connecting before it counts as connected. "Written": it has written the row
\* and not yet the socket's own state. stuck: its send state was overwritten.
Member == [sock : {"NonExist", "Connecting", "Midway", "Written", "Connected"},
           member : MemberStatus \cup {"Unlisted"}, listed : SocketStatus,
           token : Tokens, stuck : BOOLEAN, ttl : 0..CONNECT_TIMEOUT]
WatchedMember == [id : Ids, live : SocketStatus,
                  not_before : 0..MASKED_MEMBER_RECHECK,
                  resolve_by : 0..(CONNECT_TIMEOUT + HANDSHAKE_TTL_SLACK),
                  stranded_since : None..STRANDED_MEMBER_GRACE,
                  repairs : 0..MAX_STRANDED_REPAIRS,
                  supersedes : SUBSET Ids, close_superseded_at : None..LINGER]

getsockstate(M, m) == CASE M[m].sock = "Midway" -> "Broken"
                        [] M[m].sock = "Written" -> "Connecting"
                        [] OTHER -> M[m].sock

\* srt_getsockstate of the group (getStatus): Connected while a member can be
\* used, else the socket of the first Pending one listed, else Broken.
GroupStates(M) ==
  LET pending == {m \in Ids : M[m].member = "Pending"}
  IN IF \E m \in Ids : M[m].member \in {"Idle", "Running"} THEN {"Connected"}
     ELSE IF pending = {} THEN {"Broken"}
     ELSE {IF M[m].sock = "NonExist" THEN "Broken" ELSE getsockstate(M, m) : m \in pending}

-----------------------------------------------------------------------------
(* libsrt calls (external).                                                *)

Gone(tok) == [sock |-> "NonExist", member |-> "Unlisted", listed |-> "NonExist",
              token |-> tok, stuck |-> FALSE, ttl |-> 0]

\* What one srt_connect_group leaves of a member, and whether it reports its
\* id. Reported: still connecting; up; or its handshake finished first and
\* groupConnect wrote Pending over it, as CONNECTED or as CONNECTING. Reported
\* failed, as it read BROKEN midway, and kept: the handshake's write came
\* second, came first, or is still to come.
Outcomes == {<<"Connecting", "Pending", "Connecting", FALSE, TRUE>>,
             <<"Connected", "Idle", "Connected", FALSE, TRUE>>,
             <<"Connected", "Pending", "Connected", TRUE, TRUE>>,
             <<"Connected", "Pending", "Connecting", TRUE, TRUE>>,
             <<"Connected", "Idle", "Connected", FALSE, FALSE>>,
             <<"Connected", "Broken", "Connected", TRUE, FALSE>>}
            \cup (IF Racing THEN {<<"Midway", "Broken", "Broken", FALSE, FALSE>>} ELSE {})

SpawnedAs(o, tok) == [sock |-> o[1], member |-> o[2], listed |-> o[3], token |-> tok,
                      stuck |-> o[4], ttl |-> CONNECT_TIMEOUT]

\* The member connect_group returns for new id m: the one reported, else the
\* one of that token which is listed now (M) and was not before the call.
connect_group(M, m, o, before) ==
  IF o[5] THEN m
  ELSE CHOOSE k \in Ids : /\ M[k].member # "Unlisted" /\ M[k].token = M[m].token
                          /\ before[k].member = "Unlisted"

\* Closing a member takes it out of its group at once.
close_members(M, S) == [m \in Ids |-> IF m \in S THEN Gone(M[m].token) ELSE M[m]]

\* The id of a new member: nothing refers to it, neither libsrt, nor a
\* listing, nor a watch.
NewIds(M, W) ==
  LET free == {m \in Ids : /\ M[m].sock = "NonExist"
                           /\ M[m].member = "Unlisted"
                           /\ rows[m].member = "Unlisted"
                           /\ \A w \in W : m # w.id /\ m \notin w.supersedes}
  IN {m \in free : \A n \in free : m <= n}

new_watched(m) ==
  [id |-> m, live |-> "Init", not_before |-> 0,
   resolve_by |-> CONNECT_TIMEOUT + HANDSHAKE_TTL_SLACK, stranded_since |-> None,
   repairs |-> 0, supersedes |-> {}, close_superseded_at |-> None]

-----------------------------------------------------------------------------
(* The judgement of one member.                                            *)

in_flight(member, live) ==
  member \in {"Pending", "Idle", "Running"} /\ ~is_terminal_status(live)

\* Candidates: libsrt's listing decides which one is found first.
member_in_flight(R, token, exclude) ==
  {m \in Ids \ exclude : mem[m].token = token /\ in_flight(R[m].member, getsockstate(mem, m))}

\* As classify_watched, with no member masked.
classify_watched_NoMask(live, row) ==
  CASE row.member = "Unlisted" -> "Gone"
    [] row.member = "Broken" -> IF live = "Connected" THEN "BrokenLive" ELSE "Gone"
    [] /\ row.member \notin {"Unlisted", "Broken"} /\ live = "Connected"
       /\ row.member = "Pending" \/ row.listed = "Connecting" -> "Stranded"
    [] OTHER -> IF row.listed = "Connected" /\ row.member \in {"Idle", "Running"}
                  THEN "Confirmed" ELSE "Handshaking"

classify_watched(live, row) ==
  CASE row.member = "Unlisted" -> "Gone"
    [] row.member = "Broken" -> IF live = "Connected" THEN "BrokenLive" ELSE "Gone"
    [] /\ row.member \notin {"Unlisted", "Broken"} /\ live = "Connected"
       /\ row.member = "Pending" \/ row.listed = "Connecting" -> "Stranded"
    [] OTHER -> IF row.listed = "Connected" /\ row.member \in {"Idle", "Running"}
                  THEN IF row.member = "Running" /\ Backup THEN "Masked" ELSE "Confirmed"
                ELSE "Handshaking"

\* next_step's decision, and stranded_since as it leaves it.
since_after(w, verdict) ==
  IF verdict \in {"Stranded", "BrokenLive"}
    THEN IF w.stranded_since = None THEN STRANDED_MEMBER_GRACE ELSE w.stranded_since
  ELSE IF verdict = "Gone" THEN w.stranded_since ELSE None

next_step(w, verdict) ==
  CASE verdict = "Gone" -> "Drop"
    [] verdict \in {"Stranded", "BrokenLive"} ->
         IF since_after(w, verdict) = 0 THEN "Repair" ELSE "Keep"
    [] verdict = "Confirmed" -> IF w.supersedes = {} THEN "Drop" ELSE "Keep"
    [] verdict = "Masked" -> IF w.supersedes = {} THEN "Recheck" ELSE "Keep"
    [] verdict = "Handshaking" -> IF w.resolve_by > 0 THEN "Keep"
                                  ELSE IF is_terminal_status(w.live) THEN "Abandon"
                                  ELSE "Repair"

-----------------------------------------------------------------------------
(* The plan for one that is to be replaced.                                *)

\* As repair_plan, one repair too many; breaking before making; and never
\* handing a member to a sibling.
repair_plan_OffByOne(repairs, sibling, others_at_peer, others_resolving) ==
  CASE sibling = "up" -> "JoinSibling"
    [] sibling = "none" /\ repairs > MAX_STRANDED_REPAIRS -> "CloseNow"
    [] sibling = "watched" /\ others_at_peer -> "JoinSibling"
    [] sibling = "none" /\ repairs <= MAX_STRANDED_REPAIRS /\ others_at_peer -> "CloseThenSpawn"
    [] OTHER -> IF others_resolving THEN "Wait"
                ELSE IF sibling = "watched" THEN "HandToSibling" ELSE "SpawnThenClose"

repair_plan_BreakFirst(repairs, sibling, others_at_peer, others_resolving) ==
  CASE sibling # "none" -> "JoinSibling"
    [] repairs >= MAX_STRANDED_REPAIRS -> "CloseNow"
    [] OTHER -> "CloseThenSpawn"

repair_plan_NoHandover(repairs, sibling, others_at_peer, others_resolving) ==
  CASE sibling # "none" -> "JoinSibling"
    [] sibling = "none" /\ repairs >= MAX_STRANDED_REPAIRS -> "CloseNow"
    [] sibling = "none" /\ repairs < MAX_STRANDED_REPAIRS /\ others_at_peer -> "CloseThenSpawn"
    [] OTHER -> IF others_resolving THEN "Wait" ELSE "SpawnThenClose"

\* sibling: "none", "watched" or "up" (in flight and no longer watched).
repair_plan(repairs, sibling, others_at_peer, others_resolving) ==
  CASE sibling = "up" -> "JoinSibling"
    [] sibling = "none" /\ repairs >= MAX_STRANDED_REPAIRS -> "CloseNow"
    [] sibling = "watched" /\ others_at_peer -> "JoinSibling"
    [] sibling = "none" /\ repairs < MAX_STRANDED_REPAIRS /\ others_at_peer -> "CloseThenSpawn"
    [] OTHER -> IF others_resolving THEN "Wait"
                ELSE IF sibling = "watched" THEN "HandToSibling" ELSE "SpawnThenClose"

\* As weigh_others, blind to members listed Broken; and waiting on each of them.
weigh_others_NoBroken(broken, up, broken_live, handshaking) ==
  [at_peer |-> up, resolving |-> handshaking]

weigh_others_Mutual(broken, up, broken_live, handshaking) ==
  [at_peer |-> up, resolving |-> handshaking \/ broken_live]

weigh_others(broken, up, broken_live, handshaking) ==
  [at_peer |-> up \/ (broken /\ broken_live),
   resolving |-> handshaking \/ (~broken /\ broken_live)]

at_peer(member, live) == member \notin {"Broken", "Unlisted"} /\ live = "Connected"

other_member_at_peer(exclude) ==
  \E m \in Ids \ exclude : at_peer(rows[m].member, getsockstate(mem, m))

other_member_broken_live(W, exclude) ==
  \E e \in W : /\ e.id \notin exclude
               /\ rows[e.id].member = "Broken" /\ getsockstate(mem, e.id) = "Connected"

other_member_handshaking(W, exclude) ==
  \E e \in W : /\ e.id \notin exclude
               /\ e.live # "Connected" /\ ~is_terminal_status(e.live)
               /\ e.resolve_by > 0

repair_chain(w) == w.supersedes \cup {w.id}

\* Whether a member of that token but those in exclude was read midway: its
\* socket is now, or was when R listed it Broken.
read_midway(R, token, exclude) ==
  \E m \in Ids \ exclude :
    /\ mem[m].token = token
    /\ \/ mem[m].sock = "Midway"
       \/ R[m].member = "Broken" /\ mem[m].member \notin {"Broken", "Unlisted"}

\* The siblings plan_repair can find: a replacement spawned in this check
\* first, else a listed member in flight.
siblings(w) ==
  LET now == {e.id : e \in {x \in Elements(spawned) : mem[x.id].token = mem[w.id].token}}
  IN IF now # {} THEN now ELSE member_in_flight(rows, mem[w.id].token, repair_chain(w))

plan_repair(w, broken, sib) ==
  LET W == Elements(watched) \cup Elements(spawned)
      chain == repair_chain(w)
      o == weigh_others(broken, other_member_at_peer(chain),
                        other_member_broken_live(W, chain),
                        other_member_handshaking(W, chain))
      sibling == IF sib = {} THEN "none"
                 ELSE IF \E e \in W : e.id \in sib THEN "watched" ELSE "up"
  IN repair_plan(w.repairs, sibling, o.at_peer, o.resolving)

-----------------------------------------------------------------------------
Init == /\ mem = [m \in Ids |-> Gone(Endpoints[1])]
        /\ last_status = "Init" /\ watched = <<>> /\ adds = 0
        /\ hangs \in Hangs /\ misread = FALSE
        /\ phase = "idle" /\ idx = 1 /\ spawned = <<>>
        /\ rows = [m \in Ids |-> [member |-> "Unlisted", listed |-> "NonExist"]]

\* ConnectGroup: some endpoint is spawned, else it is refused and the group
\* stays as it was. Those spawned are watched, in order.
ConnectGroup ==
  /\ last_status = "Init"
  /\ \E n \in 1..Len(Endpoints) :
     \E up \in [1..n -> 1..Len(Endpoints)], o \in [1..Len(Endpoints) -> Outcomes] :
       /\ \A i, j \in 1..n : i < j => up[i] < up[j]
       /\ mem' = [m \in Ids |-> IF m \in Elements(up) THEN SpawnedAs(o[m], Endpoints[m])
                               ELSE mem[m]]
       /\ watched' = [i \in 1..n |-> new_watched(connect_group(mem', up[i], o[up[i]], mem))]
  /\ last_status' = "Connected"
  /\ UNCHANGED <<adds, hangs, misread, check>>

\* As add_group_member, without its one-handshake-per-token rule.
add_group_member_Again(tok) ==
  /\ phase = "idle" /\ adds < MaxAdds
  /\ adds' = adds + 1
  /\ ~is_terminal_status(last_status) /\ "Connected" \in GroupStates(mem)
  /\ \E m \in NewIds(mem, Elements(watched)), o \in Outcomes :
       /\ mem' = [mem EXCEPT ![m] = SpawnedAs(o, tok)]
       /\ watched' = Append(watched, new_watched(connect_group(mem', m, o, mem)))
  /\ misread' = (misread \/ read_midway(mem, tok, {}))
  /\ UNCHANGED <<last_status, hangs, check>>

\* AddGroupMember: refused unless the group is tracked and connected, a no-op
\* while the token is in flight.
add_group_member(tok) ==
  /\ phase = "idle" /\ adds < MaxAdds
  /\ adds' = adds + 1
  /\ ~is_terminal_status(last_status) /\ "Connected" \in GroupStates(mem)
  /\ member_in_flight(mem, tok, {}) = {}
  /\ \E m \in NewIds(mem, Elements(watched)), o \in Outcomes :
       /\ mem' = [mem EXCEPT ![m] = SpawnedAs(o, tok)]
       /\ watched' = Append(watched, new_watched(connect_group(mem', m, o, mem)))
  /\ misread' = (misread \/ read_midway(mem, tok, {}))
  /\ UNCHANGED <<last_status, hangs, check>>

\* The state poll's reading of the group, which may lead back from a terminal one.
PollGroup ==
  /\ phase = "idle" /\ last_status \notin {"Init", "Closed"}
  /\ last_status' \in GroupStates(mem)
  /\ UNCHANGED <<mem, watched, adds, hangs, misread, check>>

\* The application closes the group: libsrt closes every member.
CloseGroup ==
  /\ phase = "idle" /\ last_status # "Closed"
  /\ last_status' = "Closed"
  /\ mem' = close_members(mem, Ids)
  /\ watched' = <<>>
  /\ UNCHANGED <<adds, hangs, misread, check>>

-----------------------------------------------------------------------------
(* check_stranded_members and check_group, one group.                      *)

Sooner(t) == IF t > 0 THEN t - 1 ELSE t

\* A check later: if the group is live and some member is due, the sockets are
\* read first ... (A handshake that has begun to write is done by its timeout.)
CheckSockets ==
  LET due == /\ ~is_terminal_status(last_status)
             /\ \E i \in 1..Len(watched) : watched[i].not_before <= 1
  IN
  /\ phase = "idle" /\ watched # <<>> /\ last_status \notin {"Init", "Closed"}
  /\ \A m \in Ids : mem[m].sock \in {"Connecting", "Midway", "Written"} =>
                      mem[m].ttl > 0 \/ (hangs /\ mem[m].sock = "Connecting")
  /\ watched' = [i \in 1..Len(watched) |->
                   [watched[i] EXCEPT !.live = IF due THEN getsockstate(mem, watched[i].id)
                                               ELSE @,
                                      !.not_before = Sooner(@),
                                      !.resolve_by = Sooner(@),
                                      !.stranded_since = Sooner(@),
                                      !.close_superseded_at = Sooner(@)]]
  /\ mem' = [m \in Ids |-> [mem[m] EXCEPT !.ttl = Sooner(@)]]
  /\ phase' = IF due THEN "live" ELSE "idle"
  /\ UNCHANGED <<last_status, adds, hangs, misread, rows, idx, spawned>>

\* ... then the listing.
CheckRows ==
  /\ phase = "live" /\ phase' = "look" /\ idx' = 1
  /\ rows' = [m \in Ids |-> [member |-> mem[m].member, listed |-> mem[m].listed]]
  /\ UNCHANGED <<mem, last_status, watched, adds, hangs, misread, spawned>>

\* Vec::swap_remove.
swap_remove(s, i) == [k \in 1..(Len(s) - 1) |-> IF k = i THEN s[Len(s)] ELSE s[k]]

\* The next look is at the member that takes w's place.
Leaves(closed) == /\ watched' = swap_remove(watched, idx)
                  /\ mem' = close_members(mem, closed)
                  /\ UNCHANGED <<misread, idx, spawned>>

\* repair_stranded: JoinSibling, CloseNow, and a sibling nobody watches.
ClosesChain(w) == Leaves(repair_chain(w))

HandsTo(w, other) ==
  LET Extend(s) == [k \in 1..Len(s) |->
                      IF s[k].id = other
                        THEN [s[k] EXCEPT !.supersedes = @ \cup repair_chain(w)] ELSE s[k]]
  IN /\ watched' = Extend(swap_remove(watched, idx))
     /\ spawned' = Extend(spawned)
     /\ UNCHANGED <<mem, misread, idx>>

\* CloseThenSpawn and SpawnThenClose: the replacement connects, or could not
\* be spawned, which closes the chain either way.
Respawns(w, close_first) ==
  LET chain == repair_chain(w)
      M == IF close_first THEN close_members(mem, chain) ELSE mem
      tok == mem[w.id].token
  IN /\ watched' = swap_remove(watched, idx)
     /\ \/ /\ mem' = close_members(mem, chain)
           /\ UNCHANGED <<misread, spawned>>
        \/ \E m \in NewIds(M, Elements(watched) \cup Elements(spawned)), o \in Outcomes :
             /\ mem' = [M EXCEPT ![m] = SpawnedAs(o, tok)]
             /\ misread' = (misread \/ read_midway(rows, tok, chain))
             /\ spawned' = Append(spawned,
                  [new_watched(connect_group(mem', m, o, M)) EXCEPT !.repairs = w.repairs + 1,
                                         !.supersedes = IF close_first THEN {} ELSE chain])
     /\ UNCHANGED idx

Stays(w) == /\ watched' = [watched EXCEPT ![idx] = w]
            /\ idx' = idx + 1
            /\ UNCHANGED <<mem, misread, spawned>>

repair_stranded(w, verdict) ==
  \E sib \in IF siblings(w) = {} THEN {{}} ELSE {{m} : m \in siblings(w)} :
    LET plan == plan_repair(w, verdict = "BrokenLive", sib)
    IN \/ plan = "Wait" /\ Stays(w)
       \/ plan \in {"JoinSibling", "CloseNow"} /\ ClosesChain(w)
       \/ plan = "HandToSibling" /\ \E other \in sib : HandsTo(w, other)
       \/ plan = "CloseThenSpawn" /\ Respawns(w, TRUE)
       \/ plan = "SpawnThenClose" /\ Respawns(w, FALSE)

\* One watched member. A member that is up first closes what it superseded,
\* once that has lingered.
Look ==
  LET w0 == watched[idx]
      verdict == classify_watched(w0.live, rows[w0.id])
      up == verdict \in {"Confirmed", "Masked"} /\ w0.supersedes # {}
      at == IF up /\ w0.close_superseded_at = None THEN LINGER ELSE w0.close_superseded_at
      due == up /\ at = 0
      w1 == [w0 EXCEPT !.close_superseded_at = at,
                       !.supersedes = IF due THEN {} ELSE @]
      w == [w1 EXCEPT !.stranded_since = since_after(w1, verdict)]
      step == next_step(w1, verdict)
      lingered == IF due THEN w0.supersedes ELSE {}
  IN /\ phase = "look" /\ idx <= Len(watched)
     /\ UNCHANGED <<last_status, adds, hangs, phase, rows>>
     /\ \/ w0.not_before > 0 /\ Stays(w0)
        \/ /\ w0.not_before = 0 /\ step \in {"Keep", "Recheck"}
           /\ watched' = [watched EXCEPT
                ![idx] = [w EXCEPT !.not_before = IF step = "Recheck" THEN MASKED_MEMBER_RECHECK
                                                  ELSE @]]
           /\ idx' = idx + 1
           /\ mem' = close_members(mem, lingered)
           /\ UNCHANGED <<misread, spawned>>
        \/ w0.not_before = 0 /\ step = "Drop" /\ Leaves(w1.supersedes \cup lingered)
        \/ w0.not_before = 0 /\ step = "Abandon" /\ Leaves(repair_chain(w))
        \/ w0.not_before = 0 /\ step = "Repair" /\ repair_stranded(w, verdict)

EndCheck ==
  /\ phase = "look" /\ idx > Len(watched)
  /\ watched' = watched \o spawned
  /\ spawned' = <<>> /\ phase' = "idle" /\ idx' = 1
  /\ rows' = [m \in Ids |-> [member |-> "Unlisted", listed |-> "NonExist"]]
  /\ last_status' = IF last_status = "Connecting" /\ "Connected" \in GroupStates(mem)
                      THEN "Connected" ELSE last_status
  /\ UNCHANGED <<mem, adds, hangs, misread>>

-----------------------------------------------------------------------------
(* libsrt's threads and the network (external).                            *)

MemberMove(m, new) == /\ Racing \/ phase = "idle"
                      /\ mem' = [mem EXCEPT ![m] = new]
                      /\ UNCHANGED <<last_status, watched, adds, hangs, misread, check>>

\* The handshake ends connecting, writes the row, then the socket's state.
HandshakeMidway(m) == /\ Racing /\ mem[m].sock = "Connecting" /\ mem[m].ttl > 0
                      /\ MemberMove(m, [mem[m] EXCEPT !.sock = "Midway"])
HandshakeWrites(m) ==
  /\ mem[m].sock = "Midway" \/ (mem[m].sock = "Connecting" /\ mem[m].ttl > 0)
  /\ MemberMove(m, [mem[m] EXCEPT !.sock = IF Racing THEN "Written" ELSE "Connected",
                                  !.member = "Idle", !.listed = "Connected"])
HandshakeDone(m) == /\ mem[m].sock = "Written"
                    /\ MemberMove(m, [mem[m] EXCEPT !.sock = "Connected"])

\* A handshake fails, or a link breaks: the socket first, then the row, which
\* lists it Broken and then no longer.
Broken(r) == [r EXCEPT !.member = "Broken", !.listed = "Broken"]
Breaks(m) == /\ mem[m].sock \in {"Connecting", "Midway", "Connected"}
             /\ LET dead == [mem[m] EXCEPT !.sock = "NonExist"]
                IN MemberMove(m, IF Racing THEN dead ELSE Broken(dead))
ListedBroken(m) == /\ mem[m].sock = "NonExist" /\ mem[m].member \notin {"Broken", "Unlisted"}
                   /\ MemberMove(m, Broken(mem[m]))
Unlisted(m) == /\ mem[m].sock = "NonExist" /\ mem[m].member = "Broken"
               /\ MemberMove(m, Gone(mem[m].token))

\* Data received lists a member Running; in a backup group a keepalive shows
\* its send state again.
DataArrives(m) == /\ mem[m].sock = "Connected" /\ mem[m].member \in {"Pending", "Idle"}
                  /\ MemberMove(m, [mem[m] EXCEPT !.member = "Running"])
Keepalive(m) == /\ Backup /\ mem[m].sock = "Connected" /\ mem[m].member = "Running"
                /\ MemberMove(m, [mem[m] EXCEPT !.member = IF mem[m].stuck THEN "Pending" ELSE "Idle"])

\* The next send of a group that sends closes a member listed Broken.
SendClosesBroken(m) == /\ mem[m].sock = "Connected" /\ mem[m].member = "Broken"
                       /\ MemberMove(m, Gone(mem[m].token))

-----------------------------------------------------------------------------
check_group == CheckSockets \/ CheckRows \/ Look \/ EndCheck
Bridge == check_group \/ PollGroup
App == ConnectGroup \/ (\E tok \in Tokens : add_group_member(tok)) \/ CloseGroup
Network == \E m \in Ids : \/ HandshakeMidway(m) \/ HandshakeWrites(m) \/ HandshakeDone(m) \/ Breaks(m)
                          \/ ListedBroken(m) \/ Unlisted(m) \/ DataArrives(m) \/ Keepalive(m)
                          \/ SendClosesBroken(m)

Next == Bridge \/ App \/ Network

\* The check runs for ever; the group's status is polled; a started write of
\* libsrt finishes. Handshakes may hang: only the bridge's deadline ends them.
Fairness == /\ WF_vars(check_group)
            /\ \A m \in Ids : /\ WF_vars(mem[m].sock = "Midway" /\ HandshakeWrites(m))
                             /\ WF_vars(HandshakeDone(m))

Spec == Init /\ [][Next]_vars /\ Fairness

-----------------------------------------------------------------------------
\* The members their peers list: a peer has accepted a member before its
\* handshake is done here.
AtPeer == {m \in Ids : mem[m].sock \in {"Midway", "Written", "Connected"}}

Known == UNION {repair_chain(w) : w \in Elements(watched) \cup Elements(spawned)}

\* Members libsrt will never send on, and does not show as receiving.
Stranded(m) == mem[m].sock = "Connected" /\ mem[m].stuck /\ mem[m].member # "Running"

TypeOK == /\ mem \in [Ids -> Member]
          /\ last_status \in {"Init", "Connected", "Connecting", "Broken", "Closed"}
          /\ Elements(watched) \cup Elements(spawned) \subseteq WatchedMember
          /\ adds \in 0..MaxAdds /\ {hangs, misread} \subseteq BOOLEAN
          /\ phase \in {"idle", "live", "look"} /\ idx \in 1..(MaxId + 1)
          /\ rows \in [Ids -> [member : MemberStatus \cup {"Unlisted"}, listed : SocketStatus]]

\* While a replacement and the member it replaces are both up at the peer, no
\* member of another endpoint is: the peer never counts one too many for it
\* (repair_plan). Handshakes that keep their timeout, an application that adds
\* nothing meanwhile and a libsrt that does not move during a check are needed.
NoOverlapBesideOther ==
  ~hangs /\ adds = 0 =>
    \A m, n \in AtPeer : m # n /\ mem[m].token = mem[n].token =>
      \A k \in AtPeer : mem[k].token = mem[m].token

\* No stranded member is out of sight: the bridge watches it, or watches the
\* member that will close it.
NoForgotten == \A m \in Ids : Stranded(m) => m \in Known

\* One handshake per endpoint (add_group_member): no endpoint is carried twice
\* for good. Of two members of one endpoint that libsrt sends on, one is about
\* to be closed.
NeverCarriedTwice ==
  LET carriers == {m \in Ids : in_flight(mem[m].member, getsockstate(mem, m)) /\ ~mem[m].stuck}
  IN \A m, n \in carriers : m # n /\ mem[m].token = mem[n].token =>
       \E w \in Elements(watched) \cup Elements(spawned) : m \in w.supersedes \/ n \in w.supersedes

\* So it is unless a member was spawned while a handshake for its endpoint
\* was read midway, as a dead member: then both may end up carrying it.
OneCarrier == ~misread => NeverCarriedTwice

\* A repair takes the last member from the peer only to give its endpoint up,
\* never while another member for that endpoint is up or connecting. (A
\* member that is dead takes what it superseded with it.)
PeerKept ==
  [][phase = "look" /\ watched' # watched /\ AtPeer # {} /\ AtPeer' = {} =>
       \/ mem[watched[idx].id].sock = "NonExist"
       \/ \A m \in AtPeer, n \in Ids : mem[n].token = mem[m].token => mem'[n].sock = "NonExist"]_vars

\* A stranded member does not stay one for ever while the group lives, although
\* members wait for each other and a handshake may hang. (Without hangs, which
\* only restricts this, time stands still until libsrt resolves a handshake.)
StrandedResolved ==
  \A m \in Ids : hangs /\ Stranded(m) ~> ~Stranded(m) \/ is_terminal_status(last_status)

=============================================================================
