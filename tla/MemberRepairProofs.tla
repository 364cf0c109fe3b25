------------------------- MODULE MemberRepairProofs -------------------------
(***************************************************************************)
(* Proofs about MemberRepair, for any bond and any of its times and        *)
(* limits, whatever libsrt does during a check.                            *)
(***************************************************************************)
EXTENDS MemberRepair, SequenceTheorems, FiniteSetTheorems, TLAPS

(* The inductive invariant. A member is stuck from the moment it is        *)
(* spawned, when its socket is connected already; so a check that reads    *)
(* the socket first and the listing after it sees a stuck member as        *)
(* connected and as Pending, Broken or Running, and never as one that is   *)
(* gone or up. What it may take for up is Running in a broadcast group,    *)
(* and there it stays Running.                                             *)

Stuck(m) == mem[m].sock = "Connected" /\ mem[m].stuck

\* Members that must not be out of sight: in a backup group also those that
\* show as receiving, since a keepalive ends that.
Needs(m) == Stuck(m) /\ (Backup \/ mem[m].member # "Running")

AreSequences == watched \in Seq(WatchedMember) /\ spawned \in Seq(WatchedMember)

Distinct(s) == \A i, j \in 1..Len(s) : s[i].id = s[j].id => i = j

\* The bridge has one watch per member.
OneWatch == /\ Distinct(watched) /\ Distinct(spawned)
            /\ \A i \in 1..Len(watched), j \in 1..Len(spawned) : watched[i].id # spawned[j].id

IdleState == /\ phase # "look" => spawned = <<>> /\ idx = 1
             /\ idx <= Len(watched) + 1
             /\ last_status = "Init" =>
                  /\ phase = "idle" /\ watched = <<>>
                  /\ \A m \in Ids : mem[m].sock = "NonExist" /\ mem[m].member = "Unlisted"

StuckFromBirth ==
  \A m \in Ids : mem[m].stuck =>
    /\ mem[m].sock \in {"Connected", "NonExist"}
    /\ mem[m].sock = "Connected" => mem[m].member \in {"Pending", "Broken", "Running"}

\* m is in the repair chain of a member of s.
InChains(m, s) == \E i \in 1..Len(s) : m = s[i].id \/ m \in s[i].supersedes

NeedsKnown == \A m \in Ids : Needs(m) => InChains(m, watched) \/ InChains(m, spawned)

LiveRead == phase # "idle" =>
              \A i \in 1..Len(watched) : Stuck(watched[i].id) => watched[i].live = "Connected"

RowsRead ==
  phase = "look" =>
    \A i \in 1..Len(watched) : Stuck(watched[i].id) =>
      /\ rows[watched[i].id].member \in {"Pending", "Broken", "Running"}
      /\ ~Backup /\ rows[watched[i].id].member = "Running" => mem[watched[i].id].member = "Running"

IInv == /\ TypeOK
        /\ AreSequences
        /\ OneWatch
        /\ IdleState
        /\ StuckFromBirth
        /\ NeedsKnown
        /\ LiveRead
        /\ RowsRead

-----------------------------------------------------------------------------
(* Sequences of watched members.                                           *)

\* Vec::swap_remove keeps every element but the i-th, once each.
LEMMA SwapRemove ==
  ASSUME NEW T, NEW s \in Seq(T), NEW i \in 1..Len(s)
  PROVE  /\ swap_remove(s, i) \in Seq(T)
         /\ Len(swap_remove(s, i)) = Len(s) - 1
         /\ \A k \in 1..(Len(s) - 1) : \E j \in 1..Len(s) :
              j # i /\ swap_remove(s, i)[k] = s[j]
         /\ \A j \in 1..Len(s) : j # i =>
              \E k \in 1..(Len(s) - 1) : swap_remove(s, i)[k] = s[j]
         /\ Distinct(s) => Distinct(swap_remove(s, i))
<1> DEFINE r == swap_remove(s, i)
<1>1. Len(s) \in Nat /\ Len(s) >= 1 /\ \A j \in 1..Len(s) : s[j] \in T
  BY ElementOfSeq
<1>2. \A k \in 1..(Len(s) - 1) : r[k] = IF k = i THEN s[Len(s)] ELSE s[k]
  BY <1>1 DEF swap_remove
<1>3. r \in Seq(T) /\ Len(r) = Len(s) - 1
  <2>1. r \in [1..(Len(s) - 1) -> T]
    BY <1>1 DEF swap_remove
  <2> QED BY <1>1, <2>1
<1> HIDE DEF r
<1>4. \A k \in 1..(Len(s) - 1) : \E j \in 1..Len(s) : j # i /\ r[k] = s[j]
  <2> TAKE k \in 1..(Len(s) - 1)
  <2>1. CASE k = i
    <3>1. Len(s) \in 1..Len(s) /\ Len(s) # i
      BY <1>1, <2>1
    <3> QED BY <1>2, <2>1, <3>1
  <2>2. CASE k # i
    <3>1. k \in 1..Len(s)
      BY <1>1
    <3> QED BY <1>2, <2>2, <3>1
  <2> QED BY <2>1, <2>2
<1>5. \A j \in 1..Len(s) : j # i => \E k \in 1..(Len(s) - 1) : r[k] = s[j]
  <2> SUFFICES ASSUME NEW j \in 1..Len(s), j # i
               PROVE  \E k \in 1..(Len(s) - 1) : r[k] = s[j]
    OBVIOUS
  <2>1. CASE j = Len(s)
    <3>1. i \in 1..(Len(s) - 1)
      BY <1>1, <2>1
    <3> QED BY <1>2, <2>1, <3>1
  <2>2. CASE j # Len(s)
    <3>1. j \in 1..(Len(s) - 1)
      BY <1>1, <2>2
    <3> QED BY <1>2, <3>1
  <2> QED BY <2>1, <2>2
<1>6. Distinct(s) => Distinct(r)
  <2> SUFFICES ASSUME Distinct(s), NEW k \in 1..(Len(s) - 1), NEW l \in 1..(Len(s) - 1),
                      r[k].id = r[l].id
               PROVE  k = l
    BY <1>3 DEF Distinct
  <2>1. k \in 1..Len(s) /\ l \in 1..Len(s) /\ Len(s) \in 1..Len(s) /\ k # Len(s) /\ l # Len(s)
    BY <1>1
  <2>2. \A p, q \in 1..Len(s) : s[p].id = s[q].id => p = q
    BY DEF Distinct
  <2>3. CASE k = i /\ l # i
    <3>1. s[Len(s)].id = s[l].id
      BY <1>2, <2>3
    <3> QED BY <2>1, <2>2, <3>1
  <2>4. CASE k # i /\ l = i
    <3>1. s[k].id = s[Len(s)].id
      BY <1>2, <2>4
    <3> QED BY <2>1, <2>2, <3>1
  <2>5. CASE k # i /\ l # i
    <3>1. s[k].id = s[l].id
      BY <1>2, <2>5
    <3> QED BY <2>1, <2>2, <3>1
  <2> QED BY <2>3, <2>4, <2>5
<1> QED BY <1>3, <1>4, <1>5, <1>6 DEF r

\* One watch per member: no more watches than members.
LEMMA WatchesFit ==
  ASSUME NEW s \in Seq(WatchedMember), Distinct(s)
  PROVE  Len(s) <= MaxId
<1> DEFINE f == [i \in 1..Len(s) |-> s[i].id]
<1>1. Len(s) \in Nat /\ MaxId \in Nat /\ \A i \in 1..Len(s) : s[i].id \in 1..MaxId
  <2>1. \A i \in 1..Len(s) : s[i] \in WatchedMember
    BY ElementOfSeq
  <2>2. \A w \in WatchedMember : w.id \in 1..MaxId
    BY DEF WatchedMember, Ids
  <2>3. MaxId \in Nat
    BY RepairAssumption
  <2> QED BY <2>1, <2>2, <2>3
<1>2. f \in Injection(1..Len(s), 1..MaxId)
  <2>1. f \in [1..Len(s) -> 1..MaxId]
    BY <1>1
  <2>2. \A a, b \in DOMAIN f : f[a] = f[b] => a = b
    BY DEF Distinct
  <2> QED BY <2>1, <2>2 DEF Injection, IsInjective
<1>3. IsFiniteSet(1..MaxId) /\ Cardinality(1..MaxId) = IF 1 > MaxId THEN 0 ELSE MaxId - 1 + 1
  BY <1>1, FS_Interval
<1>4. Cardinality(1..Len(s)) = IF 1 > Len(s) THEN 0 ELSE Len(s) - 1 + 1
  BY <1>1, FS_Interval
<1>5. Cardinality(1..Len(s)) <= Cardinality(1..MaxId)
  BY <1>2, <1>3, FS_Injection
<1> QED BY <1>1, <1>3, <1>4, <1>5

\* What is in the chains of a sequence grows with an appended member by that
\* member's chain.
LEMMA AppendChains ==
  ASSUME NEW s \in Seq(WatchedMember), NEW e \in WatchedMember
  PROVE  /\ Append(s, e) \in Seq(WatchedMember)
         /\ Len(Append(s, e)) = Len(s) + 1
         /\ \A i \in 1..Len(s) : Append(s, e)[i] = s[i]
         /\ Append(s, e)[Len(s) + 1] = e
         /\ \A m : InChains(m, s) => InChains(m, Append(s, e))
         /\ \A m : m = e.id \/ m \in e.supersedes => InChains(m, Append(s, e))
<1>1. Len(s) \in Nat
  OBVIOUS
<1>2. /\ Append(s, e) \in Seq(WatchedMember)
      /\ Len(Append(s, e)) = Len(s) + 1
      /\ \A i \in 1..Len(s) : Append(s, e)[i] = s[i]
      /\ Append(s, e)[Len(s) + 1] = e
  BY AppendProperties
<1> DEFINE a == Append(s, e)
<1>3. \A i \in 1..Len(s) : i \in 1..Len(a) /\ a[i] = s[i]
  BY <1>1, <1>2
<1>4. Len(s) + 1 \in 1..Len(a) /\ a[Len(s) + 1] = e
  BY <1>1, <1>2
<1> HIDE DEF a
<1>5. \A m : InChains(m, s) => InChains(m, a)
  BY <1>3 DEF InChains
<1>6. \A m : m = e.id \/ m \in e.supersedes => InChains(m, a)
  BY <1>4 DEF InChains
<1> QED BY <1>2, <1>5, <1>6 DEF a

\* A member of no watch appended: still one watch per member.
LEMMA AppendDistinct ==
  ASSUME NEW s \in Seq(WatchedMember), NEW e \in WatchedMember, Distinct(s),
         \A i \in 1..Len(s) : s[i].id # e.id
  PROVE  Distinct(Append(s, e))
<1> DEFINE a == Append(s, e)
<1>1. /\ Len(s) \in Nat /\ Len(a) = Len(s) + 1
      /\ \A i \in 1..Len(s) : a[i] = s[i]
      /\ a[Len(s) + 1] = e
  BY AppendChains
<1> HIDE DEF a
<1>2. SUFFICES ASSUME NEW i \in 1..(Len(s) + 1), NEW j \in 1..(Len(s) + 1), a[i].id = a[j].id
               PROVE  i = j
  BY <1>1 DEF Distinct, a
<1>3. CASE i \in 1..Len(s) /\ j \in 1..Len(s)
  BY <1>1, <1>2, <1>3 DEF Distinct
<1>4. CASE i = Len(s) + 1 /\ j \in 1..Len(s)
  BY <1>1, <1>2, <1>4
<1>5. CASE i \in 1..Len(s) /\ j = Len(s) + 1
  BY <1>1, <1>2, <1>5
<1>6. CASE i = Len(s) + 1 /\ j = Len(s) + 1
  BY <1>6
<1> QED BY <1>1, <1>3, <1>4, <1>5, <1>6

-----------------------------------------------------------------------------
(* Members of libsrt.                                                      *)

\* The constants.
LEMMA Times ==
  /\ MaxId \in Nat /\ Backup \in BOOLEAN /\ Racing \in BOOLEAN
  /\ STRANDED_MEMBER_GRACE \in Nat /\ MASKED_MEMBER_RECHECK \in Nat
  /\ MAX_STRANDED_REPAIRS \in Nat /\ CONNECT_TIMEOUT \in Nat
  /\ HANDSHAKE_TTL_SLACK \in Nat /\ LINGER \in Nat /\ MaxAdds \in Nat
  /\ Len(Endpoints) \in 1..MaxId
  /\ \A i \in 1..Len(Endpoints) : i \in Ids /\ Endpoints[i] \in Tokens
<1>1. Len(Endpoints) \in 1..MaxId /\ MaxId \in Nat
  BY RepairAssumption
<1>2. \A i \in 1..Len(Endpoints) : i \in Ids /\ Endpoints[i] \in Tokens
  BY <1>1 DEF Ids, Tokens
<1> QED BY <1>1, <1>2, RepairAssumption

\* A member that is gone.
LEMMA GoneType ==
  ASSUME NEW tok \in Tokens
  PROVE  /\ Gone(tok) \in Member
         /\ Gone(tok).sock = "NonExist" /\ Gone(tok).member = "Unlisted"
         /\ ~Gone(tok).stuck /\ Gone(tok).token = tok
BY Times DEF Gone, Member, SocketStatus

\* A member just spawned is stuck only when it is connected.
LEMMA SpawnedType ==
  ASSUME NEW o \in Outcomes, NEW tok \in Tokens
  PROVE  /\ SpawnedAs(o, tok) \in Member
         /\ SpawnedAs(o, tok).member # "Unlisted" /\ SpawnedAs(o, tok).token = tok
         /\ SpawnedAs(o, tok).stuck =>
              /\ SpawnedAs(o, tok).sock = "Connected"
              /\ SpawnedAs(o, tok).member \in {"Pending", "Broken"}
<1>1. /\ o[1] \in {"Connecting", "Midway", "Connected"}
      /\ o[2] \in {"Pending", "Idle", "Broken"} /\ o[3] \in {"Connecting", "Connected", "Broken"}
      /\ o[4] \in BOOLEAN
      /\ o[4] => o[1] = "Connected" /\ o[2] \in {"Pending", "Broken"}
  <2>1. CASE o = <<"Connecting", "Pending", "Connecting", FALSE, TRUE>>
    BY <2>1
  <2>2. CASE o = <<"Connected", "Idle", "Connected", FALSE, TRUE>>
    BY <2>2
  <2>7. CASE o = <<"Connected", "Idle", "Connected", FALSE, FALSE>>
    BY <2>7
  <2>3. CASE o = <<"Connected", "Pending", "Connected", TRUE, TRUE>>
    BY <2>3
  <2>4. CASE o = <<"Connected", "Pending", "Connecting", TRUE, TRUE>>
    BY <2>4
  <2>5. CASE o = <<"Connected", "Broken", "Connected", TRUE, FALSE>>
    BY <2>5
  <2>6. CASE o = <<"Midway", "Broken", "Broken", FALSE, FALSE>>
    BY <2>6
  <2> QED BY <2>1, <2>2, <2>3, <2>4, <2>5, <2>6, <2>7 DEF Outcomes
<1> QED BY <1>1, Times DEF SpawnedAs, Member, SocketStatus, MemberStatus

\* The member connect_group claims is the new one, reported or not: no other of
\* its endpoint was listed since.
LEMMA ConnectGroupIs ==
  ASSUME NEW M, NEW before, NEW m \in Ids, NEW o,
         M[m].member # "Unlisted", before[m].member = "Unlisted",
         \A k \in Ids : k # m => \/ M[k].member = "Unlisted" \/ M[k].token # M[m].token
                                 \/ before[k].member # "Unlisted"
  PROVE  connect_group(M, m, o, before) = m
<1> DEFINE Claimed(k) == /\ M[k].member # "Unlisted" /\ M[k].token = M[m].token
                         /\ before[k].member = "Unlisted"
<1>1. \A k \in Ids : Claimed(k) <=> k = m
  OBVIOUS
<1>2. (CHOOSE k \in Ids : Claimed(k)) = m
  BY <1>1
<1> QED BY <1>2 DEF connect_group

\* Of the members of a new group, whose endpoints differ, that is so.
LEMMA ConnectManyIs ==
  ASSUME NEW M, NEW before, NEW S, S \subseteq Ids, NEW m \in S, NEW o,
         \A k \in Ids : before[k].member = "Unlisted",
         \A k \in S : M[k].member # "Unlisted",
         \A k \in Ids : k \notin S => M[k].member = "Unlisted",
         \A k \in S : M[k].token = M[m].token => k = m
  PROVE  connect_group(M, m, o, before) = m
<1> DEFINE Claimed(k) == /\ M[k].member # "Unlisted" /\ M[k].token = M[m].token
                         /\ before[k].member = "Unlisted"
<1>1. m \in Ids /\ \A k \in Ids : Claimed(k) <=> k = m
  OBVIOUS
<1>2. (CHOOSE k \in Ids : Claimed(k)) = m
  BY <1>1
<1> QED BY <1>2 DEF connect_group

\* Of one member spawned beside those of M, that is so.
LEMMA ConnectOneIs ==
  ASSUME NEW M \in [Ids -> Member], NEW m \in Ids, NEW o \in Outcomes, NEW tok \in Tokens,
         M[m].member = "Unlisted"
  PROVE  connect_group([M EXCEPT ![m] = SpawnedAs(o, tok)], m, o, M) = m
<1> DEFINE N == [M EXCEPT ![m] = SpawnedAs(o, tok)]
<1>1. N[m].member # "Unlisted"
  BY SpawnedType
<1>2. \A k \in Ids : k # m => N[k] = M[k]
  OBVIOUS
<1> HIDE DEF N
<1>3. \A k \in Ids : k # m => N[k].member = "Unlisted" \/ M[k].member # "Unlisted"
  BY <1>2
<1>4. connect_group(N, m, o, M) = m
  BY <1>1, <1>3, ConnectGroupIs
<1> QED BY <1>4 DEF N

\* Closing members takes them away and leaves the others.
LEMMA CloseMembers ==
  ASSUME NEW M \in [Ids -> Member], NEW S
  PROVE  /\ close_members(M, S) \in [Ids -> Member]
         /\ \A m \in Ids : m \notin S => close_members(M, S)[m] = M[m]
         /\ \A m \in Ids : m \in S => /\ close_members(M, S)[m].sock = "NonExist"
                                      /\ close_members(M, S)[m].member = "Unlisted"
                                      /\ ~close_members(M, S)[m].stuck
<1>1. \A m \in Ids : M[m].token \in Tokens
  BY DEF Member
<1>2. \A m \in Ids : /\ Gone(M[m].token) \in Member
                     /\ Gone(M[m].token).sock = "NonExist"
                     /\ Gone(M[m].token).member = "Unlisted"
                     /\ ~Gone(M[m].token).stuck
  BY <1>1, GoneType
<1>3. \A m \in Ids : close_members(M, S)[m] = IF m \in S THEN Gone(M[m].token) ELSE M[m]
  BY DEF close_members
<1>4. close_members(M, S) \in [Ids -> Member]
  BY <1>2 DEF close_members
<1> QED BY <1>2, <1>3, <1>4

\* A member watched from now on.
LEMMA NewWatchedType ==
  ASSUME NEW m \in Ids
  PROVE  /\ new_watched(m) \in WatchedMember
         /\ new_watched(m).id = m /\ new_watched(m).supersedes = {}
<1>1. /\ "Init" \in SocketStatus /\ 0 \in 0..MASKED_MEMBER_RECHECK
      /\ CONNECT_TIMEOUT + HANDSHAKE_TTL_SLACK \in 0..(CONNECT_TIMEOUT + HANDSHAKE_TTL_SLACK)
      /\ -1 \in (-1)..STRANDED_MEMBER_GRACE /\ 0 \in 0..MAX_STRANDED_REPAIRS
      /\ -1 \in (-1)..LINGER
  BY Times DEF SocketStatus
<1> QED BY <1>1 DEF new_watched, WatchedMember, None

\* Its id is nobody's.
LEMMA NewIdIsFresh ==
  ASSUME NEW M, NEW W, NEW m \in NewIds(M, W)
  PROVE  /\ m \in Ids /\ M[m].sock = "NonExist" /\ M[m].member = "Unlisted"
         /\ \A w \in W : w.id # m
BY DEF NewIds

-----------------------------------------------------------------------------
(* libsrt and the network.                                                 *)

\* The fields of a watched member.
LEMMA WatchedFields ==
  ASSUME IInv
  PROVE  /\ Len(watched) \in Nat /\ Len(spawned) \in Nat
         /\ \A i \in 1..Len(watched) : watched[i] \in WatchedMember /\ watched[i].id \in Ids
         /\ \A i \in 1..Len(spawned) : spawned[i] \in WatchedMember /\ spawned[i].id \in Ids
<1>1. \A i \in 1..Len(watched) : watched[i] \in WatchedMember
  BY ElementOfSeq DEF IInv, AreSequences
<1>2. \A i \in 1..Len(spawned) : spawned[i] \in WatchedMember
  BY ElementOfSeq DEF IInv, AreSequences
<1>3. \A w \in WatchedMember : w.id \in Ids
  BY DEF WatchedMember
<1>4. Len(watched) \in Nat /\ Len(spawned) \in Nat
  BY DEF IInv, AreSequences
<1> QED BY <1>1, <1>2, <1>3, <1>4

\* A move that makes no member stuck, and of a stuck one that is Running in a
\* broadcast group leaves that.
LEMMA MoveKeeps ==
  ASSUME IInv, NEW m \in Ids, NEW new \in Member, MemberMove(m, new),
         mem[m].sock # "NonExist" \/ mem[m].member # "Unlisted",
         new.stuck => /\ new.sock \in {"Connected", "NonExist"}
                      /\ new.sock = "Connected" => new.member \in {"Pending", "Broken", "Running"},
         new.stuck /\ new.sock = "Connected" => Stuck(m),
         new.stuck /\ new.sock = "Connected" /\ ~Backup /\ mem[m].member = "Running"
           => new.member = "Running"
  PROVE  IInv'
<1>1. /\ mem' \in [Ids -> Member] /\ mem'[m] = new
      /\ \A n \in Ids : n # m => mem'[n] = mem[n]
      /\ UNCHANGED <<last_status, watched, adds, hangs, misread, phase, rows, idx, spawned>>
  BY DEF IInv, TypeOK, MemberMove, check
<1>2. TypeOK' /\ AreSequences' /\ OneWatch'
  BY <1>1 DEF IInv, TypeOK, AreSequences, OneWatch, Distinct
<1>3. \A n \in Ids : Stuck(n)' => Stuck(n)
  BY <1>1 DEF Stuck
<1>4. \A n \in Ids : Stuck(n)' /\ ~Backup /\ mem[n].member = "Running" => mem'[n].member = "Running"
  BY <1>1 DEF Stuck
<1>5. IdleState'
  <2>1. last_status # "Init"
    BY DEF IInv, IdleState
  <2> QED BY <1>1, <2>1 DEF IInv, IdleState
<1>6. StuckFromBirth'
  BY <1>1 DEF IInv, StuckFromBirth
<1>7. NeedsKnown'
  <2>1. \A n \in Ids : Needs(n)' => Needs(n)
    BY <1>3, <1>4 DEF Needs
  <2> QED BY <1>1, <2>1 DEF IInv, NeedsKnown, InChains
<1>8. \A i \in 1..Len(watched) : watched[i].id \in Ids
  BY WatchedFields
<1>9. LiveRead'
  BY <1>1, <1>3, <1>8 DEF IInv, LiveRead
<1>10. RowsRead'
  BY <1>1, <1>3, <1>4, <1>8 DEF IInv, RowsRead
<1> QED BY <1>2, <1>5, <1>6, <1>7, <1>9, <1>10 DEF IInv

\* libsrt's threads keep the invariant: only a stuck member is stuck after them.
LEMMA NetworkKeeps ==
  ASSUME IInv, Network
  PROVE  IInv'
<1> PICK m \in Ids : \/ HandshakeMidway(m) \/ HandshakeWrites(m) \/ HandshakeDone(m) \/ Breaks(m)
                     \/ ListedBroken(m) \/ Unlisted(m) \/ DataArrives(m) \/ Keepalive(m)
                     \/ SendClosesBroken(m)
  BY DEF Network
<1>1. /\ mem[m] \in Member /\ mem[m].token \in Tokens /\ mem[m].stuck \in BOOLEAN
      /\ mem[m].stuck => /\ mem[m].sock \in {"Connected", "NonExist"}
                         /\ mem[m].sock = "Connected" => mem[m].member \in {"Pending", "Broken", "Running"}
  BY DEF IInv, TypeOK, Member, StuckFromBirth
<1>2. Gone(mem[m].token) \in Member /\ ~Gone(mem[m].token).stuck
  BY <1>1, GoneType
<1>3. CASE HandshakeWrites(m)
  <2> DEFINE new == [mem[m] EXCEPT !.sock = IF Racing THEN "Written" ELSE "Connected",
                                   !.member = "Idle", !.listed = "Connected"]
  <2>1. new \in Member /\ new.stuck = mem[m].stuck
    BY <1>1 DEF Member, MemberStatus, SocketStatus
  <2>2. MemberMove(m, new) /\ mem[m].sock \in {"Connecting", "Midway"}
    BY <1>3 DEF HandshakeWrites
  <2>3. ~new.stuck
    BY <1>1, <2>1, <2>2
  <2> HIDE DEF new
  <2> QED BY <2>1, <2>2, <2>3, MoveKeeps
<1>4. CASE HandshakeDone(m)
  <2> DEFINE new == [mem[m] EXCEPT !.sock = "Connected"]
  <2>1. new \in Member /\ new.stuck = mem[m].stuck
    BY <1>1 DEF Member
  <2>2. MemberMove(m, new) /\ mem[m].sock = "Written"
    BY <1>4 DEF HandshakeDone
  <2>3. ~new.stuck
    BY <1>1, <2>1, <2>2
  <2> HIDE DEF new
  <2> QED BY <2>1, <2>2, <2>3, MoveKeeps
<1>5. CASE Breaks(m)
  <2> DEFINE dead == [mem[m] EXCEPT !.sock = "NonExist"]
             new == IF Racing THEN dead ELSE Broken(dead)
  <2>1. dead \in Member /\ dead.sock = "NonExist"
    BY <1>1 DEF Member
  <2>2. Broken(dead) \in Member /\ Broken(dead).sock = "NonExist"
    BY <2>1 DEF Broken, Member, MemberStatus, SocketStatus
  <2>3. new \in Member /\ new.sock = "NonExist"
    BY <2>1, <2>2
  <2>4. MemberMove(m, new) /\ mem[m].sock # "NonExist"
    BY <1>5 DEF Breaks
  <2> HIDE DEF new
  <2> QED BY <2>3, <2>4, MoveKeeps
<1>6. CASE ListedBroken(m)
  <2> DEFINE new == Broken(mem[m])
  <2>1. new \in Member /\ new.sock = mem[m].sock
    BY <1>1 DEF Broken, Member, MemberStatus, SocketStatus
  <2>2. MemberMove(m, new) /\ mem[m].sock = "NonExist" /\ mem[m].member # "Unlisted"
    BY <1>6 DEF ListedBroken
  <2> HIDE DEF new
  <2> QED BY <2>1, <2>2, MoveKeeps
<1>7. CASE Unlisted(m) \/ SendClosesBroken(m)
  <2>1. MemberMove(m, Gone(mem[m].token)) /\ mem[m].member = "Broken"
    BY <1>7 DEF Unlisted, SendClosesBroken
  <2> QED BY <1>2, <2>1, MoveKeeps
<1>8. CASE DataArrives(m)
  <2> DEFINE new == [mem[m] EXCEPT !.member = "Running"]
  <2>1. /\ new \in Member /\ new.stuck = mem[m].stuck /\ new.sock = mem[m].sock
        /\ new.member = "Running"
    BY <1>1 DEF Member, MemberStatus
  <2>2. MemberMove(m, new) /\ mem[m].sock = "Connected"
    BY <1>8 DEF DataArrives
  <2> HIDE DEF new
  <2> QED BY <2>1, <2>2, MoveKeeps DEF Stuck
<1>9. CASE Keepalive(m)
  <2> DEFINE new == [mem[m] EXCEPT !.member = IF mem[m].stuck THEN "Pending" ELSE "Idle"]
  <2>1. /\ new \in Member /\ new.stuck = mem[m].stuck /\ new.sock = mem[m].sock
        /\ mem[m].stuck => new.member = "Pending"
    BY <1>1 DEF Member, MemberStatus
  <2>2. MemberMove(m, new) /\ mem[m].sock = "Connected" /\ Backup
    BY <1>9 DEF Keepalive
  <2> HIDE DEF new
  <2> QED BY <2>1, <2>2, MoveKeeps DEF Stuck
<1>10. CASE HandshakeMidway(m)
  <2> DEFINE new == [mem[m] EXCEPT !.sock = "Midway"]
  <2>1. new \in Member /\ new.stuck = mem[m].stuck
    BY <1>1 DEF Member
  <2>2. MemberMove(m, new) /\ mem[m].sock = "Connecting"
    BY <1>10 DEF HandshakeMidway
  <2>3. ~new.stuck
    BY <1>1, <2>1, <2>2
  <2> HIDE DEF new
  <2> QED BY <2>1, <2>2, <2>3, MoveKeeps
<1> QED BY <1>3, <1>4, <1>5, <1>6, <1>7, <1>8, <1>9, <1>10

-----------------------------------------------------------------------------
(* The application, the poll, and the beginning and the end of a check.    *)

\* The elements of a typed sequence.
LEMMA ElementsType ==
  ASSUME NEW s \in Seq(WatchedMember), NEW t \in Seq(WatchedMember)
  PROVE  Elements(s) \cup Elements(t) \subseteq WatchedMember
<1>1. \A i \in 1..Len(s) : s[i] \in WatchedMember
  BY ElementOfSeq
<1>2. \A i \in 1..Len(t) : t[i] \in WatchedMember
  BY ElementOfSeq
<1> QED BY <1>1, <1>2 DEF Elements

\* Initially nothing is watched and nothing is stuck.
LEMMA InitHolds ==
  ASSUME Init
  PROVE  IInv
<1>1. 1 \in 1..Len(Endpoints) /\ Endpoints[1] \in Tokens
  BY Times
<1>2. /\ mem \in [Ids -> Member]
      /\ \A m \in Ids : mem[m].sock = "NonExist" /\ mem[m].member = "Unlisted" /\ ~mem[m].stuck
  BY <1>1, GoneType DEF Init
<1>3. rows \in [Ids -> [member : MemberStatus \cup {"Unlisted"}, listed : SocketStatus]]
  BY DEF Init, SocketStatus
<1>4. AreSequences /\ Len(watched) = 0 /\ Len(spawned) = 0
  BY EmptySeq DEF Init, AreSequences
<1>5. TypeOK
  <2>1. Elements(watched) \cup Elements(spawned) \subseteq WatchedMember
    BY <1>4, ElementsType DEF AreSequences
  <2>2. 1 \in 1..(MaxId + 1) /\ 0 \in 0..MaxAdds
    BY Times
  <2>3. hangs \in BOOLEAN /\ misread = FALSE
    BY RepairAssumption DEF Init
  <2>4. {hangs, misread} \subseteq BOOLEAN
    BY <2>3
  <2> QED BY <1>2, <1>3, <2>1, <2>2, <2>4 DEF Init, TypeOK
<1>6. OneWatch
  BY <1>4 DEF OneWatch, Distinct
<1>7. IdleState
  BY <1>2, <1>4 DEF Init, IdleState
<1>8. StuckFromBirth /\ NeedsKnown /\ LiveRead /\ RowsRead
  BY <1>2 DEF Init, StuckFromBirth, NeedsKnown, Needs, Stuck, LiveRead, RowsRead
<1> QED BY <1>4, <1>5, <1>6, <1>7, <1>8 DEF IInv

\* The group's status as the poll may read it.
LEMMA GroupStatesType ==
  ASSUME IInv
  PROVE  GroupStates(mem) \subseteq {"Connected", "Connecting", "Broken"}
<1>1. \A m \in Ids : mem[m].sock \in {"NonExist", "Connecting", "Midway", "Written", "Connected"}
  BY DEF IInv, TypeOK, Member
<1> QED BY <1>1 DEF GroupStates, getsockstate

\* The poll changes only the group's status.
LEMMA PollKeeps ==
  ASSUME IInv, PollGroup
  PROVE  IInv'
<1>1. /\ UNCHANGED <<mem, watched, adds, hangs, misread, phase, rows, idx, spawned>>
      /\ last_status' \in {"Connected", "Connecting", "Broken"}
  BY GroupStatesType DEF PollGroup, check
<1>2. TypeOK' /\ AreSequences' /\ OneWatch'
  BY <1>1 DEF IInv, TypeOK, AreSequences, OneWatch, Distinct
<1>3. IdleState' /\ StuckFromBirth'
  BY <1>1 DEF IInv, IdleState, StuckFromBirth
<1>4. NeedsKnown'
  BY <1>1 DEF IInv, NeedsKnown, Needs, Stuck, InChains
<1>5. LiveRead' /\ RowsRead'
  BY <1>1 DEF IInv, LiveRead, RowsRead, Stuck
<1> QED BY <1>2, <1>3, <1>4, <1>5 DEF IInv

\* A closed group has no member.
LEMMA CloseGroupKeeps ==
  ASSUME IInv, CloseGroup
  PROVE  IInv'
<1>1. /\ UNCHANGED <<adds, hangs, misread, phase, rows, idx, spawned>>
      /\ phase = "idle" /\ last_status' = "Closed" /\ watched' = <<>>
      /\ spawned = <<>> /\ idx = 1
  BY DEF CloseGroup, check, IInv, IdleState
<1>2. /\ mem' \in [Ids -> Member]
      /\ \A m \in Ids : mem'[m].sock = "NonExist" /\ ~mem'[m].stuck
  <2>1. mem \in [Ids -> Member] /\ mem' = close_members(mem, Ids)
    BY DEF CloseGroup, IInv, TypeOK
  <2>2. /\ close_members(mem, Ids) \in [Ids -> Member]
        /\ \A m \in Ids : /\ close_members(mem, Ids)[m].sock = "NonExist"
                           /\ ~close_members(mem, Ids)[m].stuck
    BY <2>1, CloseMembers
  <2> QED BY <2>1, <2>2
<1>3. AreSequences' /\ Len(watched') = 0 /\ Len(spawned') = 0
  BY <1>1, EmptySeq DEF AreSequences
<1>4. TypeOK'
  <2>1. Elements(watched') \cup Elements(spawned') \subseteq WatchedMember
    BY <1>3, ElementsType DEF AreSequences
  <2> QED BY <1>1, <1>2, <2>1 DEF IInv, TypeOK
<1>5. OneWatch'
  BY <1>3 DEF OneWatch, Distinct
<1>6. IdleState'
  BY <1>1, <1>3 DEF IdleState
<1>7. StuckFromBirth' /\ NeedsKnown' /\ LiveRead' /\ RowsRead'
  BY <1>1, <1>2 DEF StuckFromBirth, NeedsKnown, Needs, Stuck, LiveRead, RowsRead
<1> QED BY <1>3, <1>4, <1>5, <1>6, <1>7 DEF IInv

\* ConnectGroup watches every endpoint it spawns.
LEMMA ConnectKeeps ==
  ASSUME IInv, ConnectGroup
  PROVE  IInv'
<1> PICK n \in 1..Len(Endpoints) :
     \E up \in [1..n -> 1..Len(Endpoints)], o \in [1..Len(Endpoints) -> Outcomes] :
       /\ \A i, j \in 1..n : i < j => up[i] < up[j]
       /\ mem' = [m \in Ids |-> IF m \in Elements(up) THEN SpawnedAs(o[m], Endpoints[m])
                               ELSE mem[m]]
       /\ watched' = [i \in 1..n |-> new_watched(connect_group(mem', up[i], o[up[i]], mem))]
  BY DEF ConnectGroup
<1> PICK up \in [1..n -> 1..Len(Endpoints)], o \in [1..Len(Endpoints) -> Outcomes] :
       /\ \A i, j \in 1..n : i < j => up[i] < up[j]
       /\ mem' = [m \in Ids |-> IF m \in Elements(up) THEN SpawnedAs(o[m], Endpoints[m])
                               ELSE mem[m]]
       /\ watched' = [i \in 1..n |-> new_watched(connect_group(mem', up[i], o[up[i]], mem))]
  OBVIOUS
<1>1. /\ UNCHANGED <<adds, hangs, misread, phase, rows, idx, spawned>>
      /\ last_status = "Init" /\ last_status' = "Connected"
      /\ phase = "idle" /\ spawned = <<>> /\ idx = 1
      /\ \A m \in Ids : mem[m].sock = "NonExist" /\ mem[m].member = "Unlisted"
  BY DEF ConnectGroup, check, IInv, IdleState
<1>2. /\ n \in Nat /\ n >= 1 /\ Len(up) = n
      /\ \A i \in 1..n : up[i] \in 1..Len(Endpoints) /\ up[i] \in Ids
  BY Times
<1>3. \A m : m \in Elements(up) <=> \E i \in 1..n : m = up[i]
  BY <1>2 DEF Elements
<1>4. \A m \in Elements(up) : /\ m \in Ids /\ m \in 1..Len(Endpoints)
                              /\ SpawnedAs(o[m], Endpoints[m]) \in Member
                              /\ SpawnedAs(o[m], Endpoints[m]).member # "Unlisted"
                              /\ SpawnedAs(o[m], Endpoints[m]).token = Endpoints[m]
                              /\ SpawnedAs(o[m], Endpoints[m]).stuck =>
                                   /\ SpawnedAs(o[m], Endpoints[m]).sock = "Connected"
                                   /\ SpawnedAs(o[m], Endpoints[m]).member \in {"Pending", "Broken"}
  BY <1>2, <1>3, Times, SpawnedType
<1>5. /\ \A m \in Ids : m \in Elements(up) => mem'[m] = SpawnedAs(o[m], Endpoints[m])
      /\ \A m \in Ids : m \notin Elements(up) => mem'[m] = mem[m]
  OBVIOUS
<1>6. mem' \in [Ids -> Member]
  BY <1>4 DEF IInv, TypeOK
<1> DEFINE w(i) == new_watched(connect_group(mem', up[i], o[up[i]], mem))
<1>b. watched' = [i \in 1..n |-> w(i)]
  OBVIOUS
<1> HIDE DEF w
<1>7. /\ \A i \in 1..n : /\ watched'[i] \in WatchedMember /\ watched'[i].id = up[i]
                         /\ watched'[i].supersedes = {}
      /\ watched' \in Seq(WatchedMember) /\ Len(watched') = n
  <2>1. \A i \in 1..n : watched'[i] = new_watched(up[i])
    <3> TAKE i \in 1..n
    <3>1. up[i] \in Elements(up) /\ up[i] \in Ids
      BY <1>2, <1>3
    <3>2. /\ Elements(up) \subseteq Ids
          /\ \A k \in Ids : mem[k].member = "Unlisted"
          /\ \A k \in Elements(up) : mem'[k].member # "Unlisted" /\ mem'[k].token = Endpoints[k]
          /\ \A k \in Ids : k \notin Elements(up) => mem'[k].member = "Unlisted"
      BY <1>1, <1>4, <1>5
    <3>3. \A k \in Elements(up) : mem'[k].token = mem'[up[i]].token => k = up[i]
      <4> SUFFICES ASSUME NEW k \in Elements(up), Endpoints[k] = Endpoints[up[i]]
                   PROVE  k = up[i]
        BY <3>1, <3>2
      <4>1. k \in 1..Len(Endpoints) /\ up[i] \in 1..Len(Endpoints)
        BY <1>4, <3>1
      <4> QED BY <4>1, RepairAssumption
    <3>4. w(i) = new_watched(up[i])
      <4>1. connect_group(mem', up[i], o[up[i]], mem) = up[i]
        BY ONLY <3>1, <3>2, <3>3, ConnectManyIs
      <4> QED BY <4>1 DEF w
    <3> QED BY <1>b, <3>4
  <2>2. \A i \in 1..n : /\ watched'[i] \in WatchedMember /\ watched'[i].id = up[i]
                        /\ watched'[i].supersedes = {}
    BY ONLY <1>2, <2>1, NewWatchedType
  <2>3. watched' \in [1..n -> WatchedMember]
    BY <1>b, <2>2
  <2> QED BY ONLY <1>2, <2>2, <2>3
<1>8. AreSequences' /\ Len(spawned') = 0
  BY <1>1, <1>7, EmptySeq DEF AreSequences
<1>9. TypeOK'
  <2>1. Elements(watched') \cup Elements(spawned') \subseteq WatchedMember
    BY <1>8, ElementsType DEF AreSequences
  <2> QED BY <1>1, <1>6, <2>1 DEF IInv, TypeOK
<1>10. OneWatch'
  <2>1. \A i, j \in 1..n : up[i] = up[j] => i = j
    <3> SUFFICES ASSUME NEW i \in 1..n, NEW j \in 1..n, up[i] = up[j]
                 PROVE  ~(i < j) /\ ~(j < i)
      BY <1>2
    <3>1. up[i] \in Nat /\ up[j] \in Nat
      BY <1>2, Times
    <3>2. i \in Nat /\ j \in Nat
      BY <1>2
    <3>3. \A k, l \in 1..n : k < l => up[k] < up[l]
      OBVIOUS
    <3> QED BY ONLY <3>1, <3>2, <3>3, i \in 1..n, j \in 1..n, up[i] = up[j]
  <2> QED BY ONLY <1>7, <1>8, <2>1 DEF OneWatch, Distinct
<1>11. IdleState'
  BY <1>1, <1>2, <1>7 DEF IdleState
<1>12. StuckFromBirth'
  BY <1>1, <1>4, <1>5 DEF IInv, StuckFromBirth
<1>13. NeedsKnown'
  <2> SUFFICES ASSUME NEW m \in Ids, Needs(m)'
               PROVE  InChains(m, watched')
    BY DEF NeedsKnown
  <2>1. m \in Elements(up)
    BY <1>1, <1>5 DEF Needs, Stuck
  <2>2. PICK i \in 1..n : m = up[i]
    BY <1>3, <2>1
  <2> QED BY <1>7, <2>2 DEF InChains
<1>14. LiveRead' /\ RowsRead'
  BY <1>1 DEF LiveRead, RowsRead
<1> QED BY <1>8, <1>9, <1>10, <1>11, <1>12, <1>13, <1>14 DEF IInv

\* A member added is watched from the start.
LEMMA AddKeeps ==
  ASSUME IInv, NEW tok \in Tokens, add_group_member(tok)
  PROVE  IInv'
<1> PICK m \in NewIds(mem, Elements(watched)), o \in Outcomes :
       /\ mem' = [mem EXCEPT ![m] = SpawnedAs(o, tok)]
       /\ watched' = Append(watched, new_watched(connect_group(mem', m, o, mem)))
  BY DEF add_group_member
<1>a. watched' = Append(watched, new_watched(m))
  <2>1. mem \in [Ids -> Member] /\ m \in Ids /\ mem[m].member = "Unlisted"
    BY NewIdIsFresh DEF IInv, TypeOK
  <2>2. connect_group([mem EXCEPT ![m] = SpawnedAs(o, tok)], m, o, mem) = m
    BY ONLY <2>1, ConnectOneIs, o \in Outcomes, tok \in Tokens
  <2> QED BY <2>2
<1>1. /\ UNCHANGED <<last_status, hangs, phase, rows, idx, spawned>>
      /\ misread' = (misread \/ read_midway(mem, tok, {}))
      /\ adds' = adds + 1 /\ adds < MaxAdds
      /\ phase = "idle" /\ spawned = <<>> /\ idx = 1
      /\ "Connected" \in GroupStates(mem)
  BY DEF add_group_member, check, IInv, IdleState
<1>2. m \in Ids /\ \A i \in 1..Len(watched) : watched[i].id # m
  BY NewIdIsFresh DEF Elements
<1>3. /\ new_watched(m) \in WatchedMember /\ new_watched(m).id = m
      /\ watched \in Seq(WatchedMember) /\ Distinct(watched) /\ Len(watched) \in Nat
  BY <1>2, NewWatchedType DEF IInv, AreSequences, OneWatch
<1>4. /\ watched' \in Seq(WatchedMember) /\ Len(watched') = Len(watched) + 1
      /\ \A n : InChains(n, watched) => InChains(n, watched')
      /\ InChains(m, watched')
  BY ONLY <1>a, <1>3, AppendChains
<1>5. /\ SpawnedAs(o, tok) \in Member
      /\ SpawnedAs(o, tok).stuck => /\ SpawnedAs(o, tok).sock = "Connected"
                                    /\ SpawnedAs(o, tok).member \in {"Pending", "Broken"}
  BY SpawnedType
<1>6. /\ mem' \in [Ids -> Member] /\ mem'[m] = SpawnedAs(o, tok)
      /\ \A n \in Ids : n # m => mem'[n] = mem[n]
  BY <1>2, <1>5 DEF IInv, TypeOK
<1>7. AreSequences' /\ Len(spawned') = 0
  BY <1>1, <1>4, EmptySeq DEF AreSequences
<1>8. TypeOK'
  <2>1. Elements(watched') \cup Elements(spawned') \subseteq WatchedMember
    BY <1>7, ElementsType DEF AreSequences
  <2>2. adds' \in 0..MaxAdds
    BY <1>1, Times DEF IInv, TypeOK
  <2>3. misread' \in BOOLEAN
    BY <1>1 DEF IInv, TypeOK, read_midway
  <2> QED BY <1>1, <1>6, <2>1, <2>2, <2>3 DEF IInv, TypeOK
<1>9. OneWatch'
  <2>1. Distinct(watched')
    BY <1>a, <1>2, <1>3, AppendDistinct
  <2> QED BY ONLY <1>7, <2>1 DEF OneWatch, Distinct
<1>10. IdleState'
  <2>1. last_status # "Init"
    <3> SUFFICES ASSUME last_status = "Init"
                 PROVE  FALSE
      OBVIOUS
    <3>1. \A n \in Ids : mem[n].member = "Unlisted"
      BY DEF IInv, IdleState
    <3> QED BY <1>1, <3>1 DEF GroupStates
  <2> QED BY <1>1, <1>3, <1>4, <2>1 DEF IdleState
<1>11. StuckFromBirth'
  BY <1>5, <1>6 DEF IInv, StuckFromBirth
<1>12. NeedsKnown'
  <2>1. \A n \in Ids : n # m /\ Needs(n)' => Needs(n)
    BY <1>6 DEF Needs, Stuck
  <2>2. \A n : InChains(n, spawned) => InChains(n, spawned')
    BY <1>1
  <2> QED BY <1>4, <2>1, <2>2 DEF IInv, NeedsKnown
<1>13. LiveRead' /\ RowsRead'
  BY <1>1 DEF LiveRead, RowsRead
<1> QED BY <1>7, <1>8, <1>9, <1>10, <1>11, <1>12, <1>13 DEF IInv

\* An Instant comes nearer.
LEMMA SoonerType ==
  ASSUME NEW b \in Nat
  PROVE  /\ \A t \in 0..b : Sooner(t) \in 0..b
         /\ \A t \in None..b : Sooner(t) \in None..b
BY DEF Sooner, None

\* The sockets are read, and every Instant comes nearer.
LEMMA CheckSocketsReads ==
  ASSUME IInv, CheckSockets
  PROVE  /\ UNCHANGED <<last_status, adds, hangs, misread, rows, idx, spawned>>
         /\ phase = "idle" /\ spawned = <<>> /\ idx = 1 /\ last_status # "Init"
         /\ phase' \in {"live", "idle"}
         /\ mem' \in [Ids -> Member]
         /\ \A m \in Ids : /\ mem'[m].sock = mem[m].sock /\ mem'[m].member = mem[m].member
                           /\ mem'[m].stuck = mem[m].stuck /\ mem'[m].token = mem[m].token
                           /\ mem'[m].ttl = Sooner(mem[m].ttl)
         /\ watched' \in Seq(WatchedMember) /\ Len(watched') = Len(watched) /\ Len(watched) \in Nat
         /\ \A i \in 1..Len(watched) :
              /\ watched'[i].id = watched[i].id
              /\ watched'[i].supersedes = watched[i].supersedes
              /\ watched'[i].resolve_by = Sooner(watched[i].resolve_by)
              /\ phase' = "live" => watched'[i].live = getsockstate(mem, watched[i].id)
<1> DEFINE due == /\ ~is_terminal_status(last_status)
                  /\ \E i \in 1..Len(watched) : watched[i].not_before <= 1
           newer(i) == [watched[i] EXCEPT !.live = IF due THEN getsockstate(mem, watched[i].id)
                                                   ELSE @,
                                          !.not_before = Sooner(@),
                                          !.resolve_by = Sooner(@),
                                          !.stranded_since = Sooner(@),
                                          !.close_superseded_at = Sooner(@)]
<1>1. /\ UNCHANGED <<last_status, adds, hangs, misread, rows, idx, spawned>>
      /\ phase = "idle" /\ spawned = <<>> /\ idx = 1 /\ last_status # "Init"
      /\ phase' \in {"live", "idle"} /\ (phase' = "live" => due)
  BY DEF CheckSockets, IInv, IdleState
<1>2. /\ watched' = [i \in 1..Len(watched) |-> newer(i)]
      /\ mem' = [m \in Ids |-> [mem[m] EXCEPT !.ttl = Sooner(@)]]
  BY DEF CheckSockets
<1> HIDE DEF due
<1>3. \A m \in Ids : /\ mem[m] \in Member /\ mem[m].ttl \in 0..CONNECT_TIMEOUT
                     /\ getsockstate(mem, m) \in SocketStatus
  BY DEF IInv, TypeOK, Member, getsockstate, SocketStatus
<1>4. \A m \in Ids : /\ mem'[m] \in Member /\ mem'[m].sock = mem[m].sock
                     /\ mem'[m].member = mem[m].member /\ mem'[m].stuck = mem[m].stuck
                     /\ mem'[m].token = mem[m].token /\ mem'[m].ttl = Sooner(mem[m].ttl)
  <2> TAKE m \in Ids
  <2>1. Sooner(mem[m].ttl) \in 0..CONNECT_TIMEOUT
    BY <1>3, SoonerType, Times
  <2>2. mem'[m] = [mem[m] EXCEPT !.ttl = Sooner(mem[m].ttl)]
    BY <1>2, <1>3 DEF Member
  <2> QED BY <1>3, <2>1, <2>2 DEF Member
<1>5. mem' \in [Ids -> Member]
  BY <1>2, <1>4
<1>6. \A i \in 1..Len(watched) :
        /\ newer(i) \in WatchedMember /\ newer(i).id = watched[i].id
        /\ newer(i).supersedes = watched[i].supersedes
        /\ newer(i).resolve_by = Sooner(watched[i].resolve_by)
        /\ newer(i).live = IF due THEN getsockstate(mem, watched[i].id) ELSE watched[i].live
  <2> TAKE i \in 1..Len(watched)
  <2>1. watched[i] \in WatchedMember /\ watched[i].id \in Ids
    BY WatchedFields
  <2> DEFINE live == IF due THEN getsockstate(mem, watched[i].id) ELSE watched[i].live
  <2>2. /\ live \in SocketStatus
        /\ watched[i].not_before \in 0..MASKED_MEMBER_RECHECK
        /\ watched[i].resolve_by \in 0..(CONNECT_TIMEOUT + HANDSHAKE_TTL_SLACK)
        /\ watched[i].stranded_since \in None..STRANDED_MEMBER_GRACE
        /\ watched[i].close_superseded_at \in None..LINGER
    BY <1>3, <2>1 DEF WatchedMember
  <2>3. CONNECT_TIMEOUT + HANDSHAKE_TTL_SLACK \in Nat
    BY Times
  <2>4. /\ Sooner(watched[i].not_before) \in 0..MASKED_MEMBER_RECHECK
        /\ Sooner(watched[i].resolve_by) \in 0..(CONNECT_TIMEOUT + HANDSHAKE_TTL_SLACK)
        /\ Sooner(watched[i].stranded_since) \in None..STRANDED_MEMBER_GRACE
        /\ Sooner(watched[i].close_superseded_at) \in None..LINGER
    BY <2>2, <2>3, SoonerType, Times
  <2> HIDE DEF live
  <2>5. newer(i) = [watched[i] EXCEPT !.live = live,
                                      !.not_before = Sooner(watched[i].not_before),
                                      !.resolve_by = Sooner(watched[i].resolve_by),
                                      !.stranded_since = Sooner(watched[i].stranded_since),
                                      !.close_superseded_at = Sooner(watched[i].close_superseded_at)]
    BY <2>1 DEF live, WatchedMember
  <2> HIDE DEF newer
  <2>6. /\ newer(i) \in WatchedMember /\ newer(i).id = watched[i].id
        /\ newer(i).supersedes = watched[i].supersedes /\ newer(i).live = live
        /\ newer(i).resolve_by = Sooner(watched[i].resolve_by)
    BY <2>1, <2>2, <2>4, <2>5 DEF WatchedMember
  <2> QED BY <2>6 DEF live
<1> HIDE DEF newer
<1>7. /\ watched' \in Seq(WatchedMember) /\ Len(watched') = Len(watched) /\ Len(watched) \in Nat
      /\ \A i \in 1..Len(watched) : watched'[i] = newer(i)
  <2>1. watched' \in [1..Len(watched) -> WatchedMember]
    BY <1>2, <1>6
  <2> QED BY <1>2, <2>1, WatchedFields
<1> QED BY <1>1, <1>4, <1>5, <1>6, <1>7

\* A stuck member reads Connected.
LEMMA CheckSocketsKeeps ==
  ASSUME IInv, CheckSockets
  PROVE  IInv'
<1>1. /\ UNCHANGED <<last_status, adds, hangs, misread, rows, idx, spawned>>
      /\ phase = "idle" /\ spawned = <<>> /\ idx = 1 /\ last_status # "Init"
      /\ phase' \in {"live", "idle"}
      /\ mem' \in [Ids -> Member]
  BY CheckSocketsReads
<1>2. \A m \in Ids : /\ mem'[m].sock = mem[m].sock /\ mem'[m].member = mem[m].member
                     /\ mem'[m].stuck = mem[m].stuck
  BY CheckSocketsReads
<1>3. /\ watched' \in Seq(WatchedMember) /\ Len(watched') = Len(watched) /\ Len(watched) \in Nat
      /\ \A i \in 1..Len(watched) :
           /\ watched'[i].id = watched[i].id
           /\ watched'[i].supersedes = watched[i].supersedes
           /\ phase' = "live" => watched'[i].live = getsockstate(mem, watched[i].id)
  BY CheckSocketsReads
<1>4. AreSequences' /\ Len(spawned') = 0
  BY <1>1, <1>3, EmptySeq DEF AreSequences
<1>5. TypeOK'
  <2>1. Elements(watched') \cup Elements(spawned') \subseteq WatchedMember
    BY <1>4, ElementsType DEF AreSequences
  <2> QED BY <1>1, <2>1 DEF IInv, TypeOK
<1>6. OneWatch'
  BY <1>3, <1>4 DEF IInv, OneWatch, Distinct
<1>7. IdleState'
  BY <1>1, <1>3 DEF IdleState
<1>8. StuckFromBirth'
  BY <1>2 DEF IInv, StuckFromBirth
<1>9. NeedsKnown'
  <2>1. \A m \in Ids : Needs(m)' => Needs(m)
    BY <1>2 DEF Needs, Stuck
  <2>2. \A m : InChains(m, watched) => InChains(m, watched')
    BY <1>3 DEF InChains
  <2> QED BY <1>1, <2>1, <2>2 DEF IInv, NeedsKnown
<1>10. LiveRead'
  <2> SUFFICES ASSUME phase' # "idle", NEW i \in 1..Len(watched), Stuck(watched[i].id)'
               PROVE  watched'[i].live = "Connected"
    BY <1>3 DEF LiveRead
  <2>1. watched'[i].id = watched[i].id /\ watched[i].id \in Ids
    BY <1>3, WatchedFields
  <2>2. Stuck(watched[i].id)
    BY <1>2, <2>1 DEF Stuck
  <2>3. getsockstate(mem, watched[i].id) = "Connected"
    BY <2>2 DEF Stuck, getsockstate
  <2> QED BY <1>1, <1>3, <2>3
<1>11. RowsRead'
  BY <1>1 DEF RowsRead
<1> QED BY <1>4, <1>5, <1>6, <1>7, <1>8, <1>9, <1>10, <1>11 DEF IInv

\* The listing is read, after the sockets: a stuck member is not listed as up.
LEMMA CheckRowsKeeps ==
  ASSUME IInv, CheckRows
  PROVE  IInv'
<1>1. /\ UNCHANGED <<mem, last_status, watched, adds, hangs, misread, spawned>>
      /\ phase = "live" /\ phase' = "look" /\ idx' = 1 /\ spawned = <<>> /\ last_status # "Init"
      /\ rows' = [m \in Ids |-> [member |-> mem[m].member, listed |-> mem[m].listed]]
  BY DEF CheckRows, IInv, IdleState
<1>2. /\ rows' \in [Ids -> [member : MemberStatus \cup {"Unlisted"}, listed : SocketStatus]]
      /\ \A m \in Ids : rows'[m].member = mem[m].member
  BY <1>1 DEF IInv, TypeOK, Member
<1>3. TypeOK'
  <2>1. 1 \in 1..(MaxId + 1)
    BY Times
  <2> QED BY <1>1, <1>2, <2>1 DEF IInv, TypeOK
<1>4. AreSequences' /\ OneWatch' /\ StuckFromBirth' /\ NeedsKnown'
  BY <1>1 DEF IInv, AreSequences, OneWatch, Distinct, StuckFromBirth, NeedsKnown, Needs, Stuck,
              InChains
<1>5. IdleState'
  <2>1. 1 <= Len(watched) + 1
    BY WatchedFields
  <2> QED BY <1>1, <2>1 DEF IdleState
<1>6. LiveRead'
  BY <1>1 DEF IInv, LiveRead, Stuck
<1>7. RowsRead'
  BY <1>1, <1>2, WatchedFields DEF IInv, RowsRead, Stuck, StuckFromBirth
<1> QED BY <1>3, <1>4, <1>5, <1>6, <1>7 DEF IInv

\* The replacements are watched from now on, and nothing else changes.
LEMMA EndCheckKeeps ==
  ASSUME IInv, EndCheck
  PROVE  IInv'
<1>1. /\ UNCHANGED <<mem, adds, hangs, misread>>
      /\ watched' = watched \o spawned /\ spawned' = <<>> /\ phase' = "idle" /\ idx' = 1
      /\ rows' = [m \in Ids |-> [member |-> "Unlisted", listed |-> "NonExist"]]
      /\ last_status' \in {last_status, "Connected"} /\ phase = "look"
  BY DEF EndCheck
<1>2. /\ watched' \in Seq(WatchedMember) /\ Len(watched') = Len(watched) + Len(spawned)
      /\ \A i \in 1..Len(watched) + Len(spawned) :
           watched'[i] = IF i <= Len(watched) THEN watched[i] ELSE spawned[i - Len(watched)]
      /\ Len(watched) \in Nat /\ Len(spawned) \in Nat
  <2>1. watched \in Seq(WatchedMember) /\ spawned \in Seq(WatchedMember)
    BY DEF IInv, AreSequences
  <2> QED BY <1>1, <2>1, ConcatProperties, WatchedFields
<1>3. AreSequences' /\ Len(spawned') = 0
  BY <1>1, <1>2, EmptySeq DEF AreSequences
<1>4. rows' \in [Ids -> [member : MemberStatus \cup {"Unlisted"}, listed : SocketStatus]]
  BY <1>1 DEF SocketStatus
<1>5. TypeOK'
  <2>1. Elements(watched') \cup Elements(spawned') \subseteq WatchedMember
    BY <1>3, ElementsType DEF AreSequences
  <2>2. 1 \in 1..(MaxId + 1)
    BY Times
  <2> QED BY <1>1, <1>4, <2>1, <2>2 DEF IInv, TypeOK
<1>6. OneWatch'
  <2>1. Distinct(watched')
    <3> SUFFICES ASSUME NEW i \in 1..(Len(watched) + Len(spawned)),
                        NEW j \in 1..(Len(watched) + Len(spawned)),
                        watched'[i].id = watched'[j].id
                 PROVE  i = j
      BY <1>2 DEF Distinct
    <3>1. CASE i <= Len(watched) /\ j <= Len(watched)
      BY <1>2, <3>1 DEF IInv, OneWatch, Distinct
    <3>2. CASE i > Len(watched) /\ j > Len(watched)
      <4>1. i - Len(watched) \in 1..Len(spawned) /\ j - Len(watched) \in 1..Len(spawned)
        BY <1>2, <3>2
      <4>2. spawned[i - Len(watched)].id = spawned[j - Len(watched)].id
        BY <1>2, <3>2
      <4>3. i - Len(watched) = j - Len(watched)
        BY <4>1, <4>2 DEF IInv, OneWatch, Distinct
      <4> QED BY <1>2, <4>3
    <3>3. CASE i <= Len(watched) /\ j > Len(watched)
      <4>1. i \in 1..Len(watched) /\ j - Len(watched) \in 1..Len(spawned)
        BY <1>2, <3>3
      <4> QED BY <1>2, <3>3, <4>1 DEF IInv, OneWatch
    <3>4. CASE i > Len(watched) /\ j <= Len(watched)
      <4>1. j \in 1..Len(watched) /\ i - Len(watched) \in 1..Len(spawned)
        BY <1>2, <3>4
      <4> QED BY <1>2, <3>4, <4>1 DEF IInv, OneWatch
    <3> QED BY <1>2, <3>1, <3>2, <3>3, <3>4
  <2> QED BY <1>3, <2>1 DEF OneWatch, Distinct
<1>7. IdleState' /\ StuckFromBirth'
  BY <1>1, <1>2 DEF IInv, IdleState, StuckFromBirth
<1>8. NeedsKnown'
  <2>1. \A m : InChains(m, watched) => InChains(m, watched')
    BY <1>2 DEF InChains
  <2>2. \A m : InChains(m, spawned) => InChains(m, watched')
    <3> SUFFICES ASSUME NEW m, NEW i \in 1..Len(spawned),
                        m = spawned[i].id \/ m \in spawned[i].supersedes
                 PROVE  InChains(m, watched')
      BY DEF InChains
    <3>1. /\ i + Len(watched) \in 1..(Len(watched) + Len(spawned))
          /\ ~(i + Len(watched) <= Len(watched)) /\ (i + Len(watched)) - Len(watched) = i
      BY <1>2
    <3>2. watched'[i + Len(watched)] = spawned[i]
      BY <1>2, <3>1
    <3> QED BY <1>2, <3>1, <3>2 DEF InChains
  <2> QED BY <1>1, <2>1, <2>2 DEF IInv, NeedsKnown, Needs, Stuck
<1>9. LiveRead' /\ RowsRead'
  BY <1>1 DEF LiveRead, RowsRead
<1> QED BY <1>3, <1>5, <1>6, <1>7, <1>8, <1>9 DEF IInv

-----------------------------------------------------------------------------
(* One watched member looked at.                                           *)

\* Two watches of one member that know the same of it; one just begun.
SameWatch(e, f) == e.id = f.id /\ e.live = f.live /\ e.resolve_by = f.resolve_by
IsNew(e) == e.live = "Init" /\ e.resolve_by = CONNECT_TIMEOUT + HANDSHAKE_TTL_SLACK

\* What a look leaves: a member is as it was, or not stuck, or new and not
\* among those the check still has to look at.
LooksOn ==
  /\ mem' \in [Ids -> Member] /\ AreSequences' /\ OneWatch'
  /\ idx' \in Nat \ {0} /\ idx' <= Len(watched') + 1
  /\ \A k \in 1..Len(watched') : \E j \in 1..Len(watched) : SameWatch(watched'[k], watched[j])
  /\ \A k \in 1..Len(spawned') :
       IsNew(spawned'[k]) \/ \E j \in 1..Len(spawned) : SameWatch(spawned'[k], spawned[j])
  /\ \A m \in Ids : \/ mem'[m] = mem[m]
                    \/ ~mem'[m].stuck
                    \/ /\ \A j \in 1..Len(watched) : watched[j].id # m
                       /\ mem'[m].sock = "Connected" /\ mem'[m].member \in {"Pending", "Broken"}
  /\ NeedsKnown'

\* Such a look keeps the invariant.
LEMMA LooksOnKeeps ==
  ASSUME IInv, phase = "look", UNCHANGED <<last_status, adds, hangs, phase, rows>>,
         misread' \in BOOLEAN, LooksOn
  PROVE  IInv'
<1>1. Len(watched') \in Nat /\ Len(watched') <= MaxId
  BY WatchesFit DEF LooksOn, AreSequences, OneWatch
<1>2. TypeOK'
  <2>1. Elements(watched') \cup Elements(spawned') \subseteq WatchedMember
    BY ElementsType DEF LooksOn, AreSequences
  <2>2. idx' \in 1..(MaxId + 1)
    BY <1>1, Times DEF LooksOn
  <2> QED BY <2>1, <2>2 DEF IInv, TypeOK, LooksOn
<1>3. IdleState'
  BY DEF IInv, IdleState, LooksOn
<1>4. StuckFromBirth'
  BY DEF IInv, StuckFromBirth, LooksOn
<1>5. \A k \in 1..Len(watched') : \E j \in 1..Len(watched) :
        /\ watched'[k].id = watched[j].id /\ watched'[k].live = watched[j].live
        /\ watched[j].id \in Ids
        /\ Stuck(watched[k].id)' => Stuck(watched[j].id) /\ mem'[watched[j].id] = mem[watched[j].id]
  <2> TAKE k \in 1..Len(watched')
  <2>1. PICK j \in 1..Len(watched) :
          watched'[k].id = watched[j].id /\ watched'[k].live = watched[j].live
    BY DEF LooksOn, SameWatch
  <2>2. watched[j].id \in Ids
    BY WatchedFields
  <2>3. mem'[watched[j].id] = mem[watched[j].id] \/ ~mem'[watched[j].id].stuck
    BY <2>2 DEF LooksOn
  <2> QED BY <2>1, <2>2, <2>3 DEF Stuck
<1>6. LiveRead'
  BY <1>5 DEF IInv, LiveRead
<1>7. RowsRead'
  BY <1>5 DEF IInv, RowsRead
<1> QED BY <1>2, <1>3, <1>4, <1>6, <1>7 DEF IInv, LooksOn

\* Members closed are not stuck any more; the others are as they were.
LEMMA ClosedStuck ==
  ASSUME IInv, NEW C, mem' = close_members(mem, C)
  PROVE  /\ mem' \in [Ids -> Member]
         /\ \A m \in Ids : mem'[m] = mem[m] \/ ~mem'[m].stuck
         /\ \A m \in Ids : Needs(m)' => Needs(m) /\ m \notin C
<1>1. mem \in [Ids -> Member]
  BY DEF IInv, TypeOK
<1>2. /\ mem' \in [Ids -> Member]
      /\ \A m \in Ids : m \notin C => mem'[m] = mem[m]
      /\ \A m \in Ids : m \in C => mem'[m].sock = "NonExist" /\ ~mem'[m].stuck
  BY <1>1, CloseMembers
<1> QED BY <1>2 DEF Needs, Stuck

\* The other members stay watched.
LEMMA OthersStay ==
  ASSUME IInv, idx \in 1..Len(watched)
  PROVE  /\ swap_remove(watched, idx) \in Seq(WatchedMember)
         /\ Len(swap_remove(watched, idx)) = Len(watched) - 1
         /\ Distinct(swap_remove(watched, idx))
         /\ \A k \in 1..(Len(watched) - 1) : \E j \in 1..Len(watched) :
              j # idx /\ swap_remove(watched, idx)[k] = watched[j]
         /\ \A j \in 1..Len(watched) : j # idx =>
              \E k \in 1..(Len(watched) - 1) : swap_remove(watched, idx)[k] = watched[j]
         /\ \A m : InChains(m, watched) => \/ m = watched[idx].id \/ m \in watched[idx].supersedes
                                           \/ InChains(m, swap_remove(watched, idx))
<1>1. watched \in Seq(WatchedMember) /\ Distinct(watched)
  BY DEF IInv, AreSequences, OneWatch
<1>2. /\ swap_remove(watched, idx) \in Seq(WatchedMember)
      /\ Len(swap_remove(watched, idx)) = Len(watched) - 1
      /\ Distinct(swap_remove(watched, idx))
      /\ \A k \in 1..(Len(watched) - 1) : \E j \in 1..Len(watched) :
           j # idx /\ swap_remove(watched, idx)[k] = watched[j]
      /\ \A j \in 1..Len(watched) : j # idx =>
           \E k \in 1..(Len(watched) - 1) : swap_remove(watched, idx)[k] = watched[j]
  BY <1>1, SwapRemove
<1> DEFINE r == swap_remove(watched, idx)
<1>3. ASSUME NEW m, InChains(m, watched), m # watched[idx].id, m \notin watched[idx].supersedes
      PROVE  InChains(m, r)
  <2>1. PICK j \in 1..Len(watched) : m = watched[j].id \/ m \in watched[j].supersedes
    BY <1>3 DEF InChains
  <2>2. j # idx
    BY <1>3, <2>1
  <2>3. PICK k \in 1..(Len(watched) - 1) : r[k] = watched[j]
    BY <1>2, <2>2
  <2> QED BY <1>2, <2>1, <2>3 DEF InChains
<1> QED BY <1>2, <1>3

\* A member leaves the watch: everything in its chain that must not be out of
\* sight is closed.
LEMMA LeavesKeeps ==
  ASSUME IInv, idx \in 1..Len(watched), NEW C, Leaves(C),
         \A m \in Ids : Needs(m) /\ (m = watched[idx].id \/ m \in watched[idx].supersedes) => m \in C
  PROVE  LooksOn
<1>1. /\ watched' = swap_remove(watched, idx) /\ mem' = close_members(mem, C)
      /\ idx' = idx /\ spawned' = spawned
  BY DEF Leaves
<1>2. /\ mem' \in [Ids -> Member]
      /\ \A m \in Ids : mem'[m] = mem[m] \/ ~mem'[m].stuck
      /\ \A m \in Ids : Needs(m)' => Needs(m) /\ m \notin C
  BY <1>1, ClosedStuck
<1>3. /\ watched' \in Seq(WatchedMember) /\ Len(watched') = Len(watched) - 1 /\ Distinct(watched')
      /\ \A k \in 1..(Len(watched) - 1) : \E j \in 1..Len(watched) : watched'[k] = watched[j]
      /\ \A m : InChains(m, watched) => \/ m = watched[idx].id \/ m \in watched[idx].supersedes
                                        \/ InChains(m, watched')
  BY <1>1, OthersStay
<1>4. AreSequences' /\ OneWatch'
  BY <1>1, <1>3 DEF IInv, AreSequences, OneWatch, Distinct
<1>5. idx' \in Nat \ {0} /\ idx' <= Len(watched') + 1
  BY <1>1, <1>3, WatchedFields
<1>6. NeedsKnown'
  BY <1>1, <1>2, <1>3 DEF IInv, NeedsKnown
<1> QED BY <1>1, <1>2, <1>3, <1>4, <1>5, <1>6 DEF LooksOn, SameWatch

\* A member stays watched: what it no longer supersedes is closed.
LEMMA StaysKeeps ==
  ASSUME IInv, idx \in 1..Len(watched), NEW w \in WatchedMember, NEW C,
         SameWatch(w, watched[idx]),
         watched' = [watched EXCEPT ![idx] = w], idx' = idx + 1,
         mem' = close_members(mem, C), spawned' = spawned,
         \A m \in watched[idx].supersedes : m \in w.supersedes \/ m \in C
  PROVE  LooksOn
<1>1. /\ mem' \in [Ids -> Member]
      /\ \A m \in Ids : mem'[m] = mem[m] \/ ~mem'[m].stuck
      /\ \A m \in Ids : Needs(m)' => Needs(m) /\ m \notin C
  BY ClosedStuck
<1>2. /\ watched' \in Seq(WatchedMember) /\ Len(watched') = Len(watched)
      /\ \A j \in 1..Len(watched) : watched'[j] = IF j = idx THEN w ELSE watched[j]
  <2>1. watched \in Seq(WatchedMember)
    BY DEF IInv, AreSequences
  <2> QED BY <2>1, ExceptSeq
<1>3. \A j \in 1..Len(watched) : SameWatch(watched'[j], watched[j])
  BY <1>2 DEF SameWatch
<1>4. AreSequences' /\ OneWatch'
  BY <1>2, <1>3 DEF IInv, AreSequences, OneWatch, Distinct, SameWatch
<1>5. idx' \in Nat \ {0} /\ idx' <= Len(watched') + 1
  BY <1>2, WatchedFields
<1>6. NeedsKnown'
  <2>1. ASSUME NEW m, InChains(m, watched), m \notin C
        PROVE  InChains(m, watched')
    <3>1. PICK j \in 1..Len(watched) : m = watched[j].id \/ m \in watched[j].supersedes
      BY <2>1 DEF InChains
    <3>2. m = watched'[j].id \/ m \in watched'[j].supersedes
      BY <1>2, <2>1, <3>1 DEF SameWatch
    <3> QED BY <1>2, <3>2 DEF InChains
  <2> QED BY <1>1, <2>1 DEF IInv, NeedsKnown
<1>7. \A j \in 1..Len(spawned') : SameWatch(spawned'[j], spawned[j])
  BY DEF SameWatch
<1> QED BY <1>1, <1>2, <1>3, <1>4, <1>5, <1>6, <1>7 DEF LooksOn

\* A sequence in which the watch of one member takes over a chain.
Extended(s, other, C) ==
  [k \in 1..Len(s) |-> IF s[k].id = other THEN [s[k] EXCEPT !.supersedes = @ \cup C] ELSE s[k]]

\* It loses nothing, and has that chain if it has that member.
LEMMA ExtendedKeeps ==
  ASSUME NEW s \in Seq(WatchedMember), NEW other, NEW C \in SUBSET Ids
  PROVE  /\ Extended(s, other, C) \in Seq(WatchedMember)
         /\ Len(Extended(s, other, C)) = Len(s)
         /\ \A k \in 1..Len(s) : SameWatch(Extended(s, other, C)[k], s[k])
         /\ \A m : InChains(m, s) => InChains(m, Extended(s, other, C))
         /\ (\E k \in 1..Len(s) : s[k].id = other) =>
              \A m \in C : InChains(m, Extended(s, other, C))
<1> DEFINE x == Extended(s, other, C)
<1>1. Len(s) \in Nat /\ \A k \in 1..Len(s) : s[k] \in WatchedMember
  BY ElementOfSeq
<1>2. \A k \in 1..Len(s) :
        x[k] = IF s[k].id = other THEN [s[k] EXCEPT !.supersedes = @ \cup C] ELSE s[k]
  BY DEF Extended
<1>3. \A k \in 1..Len(s) : /\ x[k] \in WatchedMember /\ SameWatch(x[k], s[k])
                           /\ s[k].supersedes \subseteq x[k].supersedes
                           /\ s[k].id = other => C \subseteq x[k].supersedes
  <2> TAKE k \in 1..Len(s)
  <2>1. s[k] \in WatchedMember /\ s[k].supersedes \in SUBSET Ids
    BY <1>1 DEF WatchedMember
  <2>2. CASE s[k].id = other
    <3>1. x[k] = [s[k] EXCEPT !.supersedes = s[k].supersedes \cup C]
      BY <1>2, <2>1, <2>2 DEF WatchedMember
    <3> HIDE DEF x
    <3>2. s[k].supersedes \cup C \in SUBSET Ids
      BY <2>1
    <3>3. x[k].supersedes = s[k].supersedes \cup C
      BY <2>1, <3>1 DEF WatchedMember
    <3>4. x[k] \in WatchedMember /\ SameWatch(x[k], s[k])
      BY <2>1, <3>1, <3>2 DEF WatchedMember, SameWatch
    <3> QED BY <3>3, <3>4
  <2>3. CASE s[k].id # other
    <3>1. x[k] = s[k]
      BY <1>2, <2>3
    <3> HIDE DEF x
    <3> QED BY <2>1, <2>3, <3>1 DEF SameWatch
  <2> QED BY <2>2, <2>3
<1>4. x \in Seq(WatchedMember) /\ Len(x) = Len(s)
  <2>1. x = [k \in 1..Len(s) |-> x[k]]
    BY DEF Extended
  <2> HIDE DEF x
  <2>2. x \in [1..Len(s) -> WatchedMember]
    BY <1>3, <2>1
  <2> QED BY <1>1, <2>2
<1> HIDE DEF x
<1>5. \A m : InChains(m, s) => InChains(m, x)
  BY <1>3, <1>4 DEF InChains, SameWatch
<1>6. (\E k \in 1..Len(s) : s[k].id = other) => \A m \in C : InChains(m, x)
  BY <1>3, <1>4 DEF InChains
<1> QED BY <1>3, <1>4, <1>5, <1>6 DEF x

\* A member handed to a sibling that is watched: its chain is the sibling's.
LEMMA HandsKeeps ==
  ASSUME IInv, idx \in 1..Len(watched), NEW w \in WatchedMember, NEW other,
         w.id = watched[idx].id, w.supersedes = watched[idx].supersedes,
         other # w.id,
         \E e \in Elements(watched) \cup Elements(spawned) : e.id = other,
         HandsTo(w, other)
  PROVE  LooksOn
<1> DEFINE r == swap_remove(watched, idx)
           C == repair_chain(w)
<1>1. /\ watched' = Extended(r, other, C) /\ spawned' = Extended(spawned, other, C)
      /\ mem' = mem /\ idx' = idx
  BY DEF HandsTo, Extended
<1>2. C \in SUBSET Ids
  BY DEF repair_chain, WatchedMember
<1>3. \A m : m \in C <=> m = watched[idx].id \/ m \in watched[idx].supersedes
  BY DEF repair_chain
<1> HIDE DEF C
<1>4. /\ r \in Seq(WatchedMember) /\ Len(r) = Len(watched) - 1 /\ Distinct(r)
      /\ \A k \in 1..(Len(watched) - 1) : \E j \in 1..Len(watched) : r[k] = watched[j]
      /\ \A j \in 1..Len(watched) : j # idx => \E k \in 1..(Len(watched) - 1) : r[k] = watched[j]
      /\ \A m : InChains(m, watched) => \/ m = watched[idx].id \/ m \in watched[idx].supersedes
                                        \/ InChains(m, r)
  BY OthersStay
<1> HIDE DEF r
<1>5. /\ watched' \in Seq(WatchedMember) /\ Len(watched') = Len(r)
      /\ \A k \in 1..Len(r) : SameWatch(watched'[k], r[k])
      /\ \A m : InChains(m, r) => InChains(m, watched')
      /\ (\E k \in 1..Len(r) : r[k].id = other) => \A m \in C : InChains(m, watched')
  <2> DEFINE x == Extended(r, other, C)
  <2>1. /\ x \in Seq(WatchedMember) /\ Len(x) = Len(r)
        /\ \A k \in 1..Len(r) : SameWatch(x[k], r[k])
        /\ \A m : InChains(m, r) => InChains(m, x)
        /\ (\E k \in 1..Len(r) : r[k].id = other) => \A m \in C : InChains(m, x)
    <3>1. r \in Seq(WatchedMember)
      BY <1>4
    <3> QED BY <1>2, <3>1, ExtendedKeeps
  <2>2. watched' = x
    BY <1>1
  <2> HIDE DEF x
  <2> QED BY <2>1, <2>2
<1>6. spawned \in Seq(WatchedMember)
  BY DEF IInv, AreSequences
<1>7. /\ spawned' \in Seq(WatchedMember) /\ Len(spawned') = Len(spawned)
      /\ \A k \in 1..Len(spawned) : SameWatch(spawned'[k], spawned[k])
      /\ \A m : InChains(m, spawned) => InChains(m, spawned')
      /\ (\E k \in 1..Len(spawned) : spawned[k].id = other) => \A m \in C : InChains(m, spawned')
  BY <1>1, <1>2, <1>6, ExtendedKeeps
<1>8. \A m \in C : InChains(m, watched') \/ InChains(m, spawned')
  <2>1. CASE \E j \in 1..Len(watched) : watched[j].id = other
    <3>1. PICK j \in 1..Len(watched) : watched[j].id = other
      BY <2>1
    <3>2. PICK k \in 1..(Len(watched) - 1) : r[k] = watched[j]
      BY <1>4, <3>1
    <3> QED BY <1>4, <1>5, <3>1, <3>2
  <2>2. CASE \E k \in 1..Len(spawned) : spawned[k].id = other
    BY <1>7, <2>2
  <2> QED BY <2>1, <2>2 DEF Elements
<1>9. AreSequences' /\ OneWatch'
  <2>1. Distinct(watched') /\ Distinct(spawned')
    BY <1>4, <1>5, <1>7 DEF IInv, OneWatch, Distinct, SameWatch
  <2>2. ASSUME NEW i \in 1..Len(watched'), NEW j \in 1..Len(spawned')
        PROVE  watched'[i].id # spawned'[j].id
    <3>1. PICK k \in 1..Len(watched) : r[i] = watched[k]
      BY <1>4, <1>5
    <3> QED BY <1>5, <1>7, <3>1 DEF IInv, OneWatch, SameWatch
  <2> QED BY <1>5, <1>7, <2>1, <2>2 DEF AreSequences, OneWatch
<1>10. idx' \in Nat \ {0} /\ idx' <= Len(watched') + 1
  BY <1>1, <1>4, <1>5, WatchedFields
<1>11. NeedsKnown'
  <2>1. \A m \in Ids : Needs(m)' => Needs(m)
    BY <1>1 DEF Needs, Stuck
  <2> QED BY <1>3, <1>4, <1>5, <1>7, <1>8, <2>1 DEF IInv, NeedsKnown
<1>12. mem' \in [Ids -> Member]
  BY <1>1 DEF IInv, TypeOK
<1>13. \A k \in 1..Len(watched') : \E j \in 1..Len(watched) : SameWatch(watched'[k], watched[j])
  <2> TAKE k \in 1..Len(watched')
  <2>1. k \in 1..Len(r) /\ k \in 1..(Len(watched) - 1)
    BY <1>4, <1>5
  <2>2. PICK j \in 1..Len(watched) : r[k] = watched[j]
    BY <1>4, <2>1
  <2> QED BY <1>5, <2>1, <2>2
<1> QED BY <1>1, <1>7, <1>9, <1>10, <1>11, <1>12, <1>13 DEF LooksOn

\* A replacement is spawned in w's place: it takes over w's chain, or that was
\* closed first.
LEMMA RespawnsKeeps ==
  ASSUME IInv, idx \in 1..Len(watched), NEW w \in WatchedMember, NEW close_first \in BOOLEAN,
         w.id = watched[idx].id, w.supersedes = watched[idx].supersedes,
         w.repairs < MAX_STRANDED_REPAIRS,
         Respawns(w, close_first)
  PROVE  LooksOn
<1> DEFINE C == repair_chain(w)
           M == IF close_first THEN close_members(mem, C) ELSE mem
           tok == mem[w.id].token
<1>1. C \in SUBSET Ids /\ w.id \in Ids
  BY DEF repair_chain, WatchedMember
<1>2. \A m : m \in C <=> m = watched[idx].id \/ m \in watched[idx].supersedes
  BY DEF repair_chain
<1>3. CASE mem' = close_members(mem, C) /\ UNCHANGED <<misread, spawned>>
  <2>1. Leaves(C)
    BY <1>3 DEF Respawns, Leaves
  <2> HIDE DEF C
  <2> QED BY <1>2, <2>1, LeavesKeeps
<1>4. CASE \E m \in NewIds(M, Elements(watched) \cup Elements(spawned)), o \in Outcomes :
             /\ mem' = [M EXCEPT ![m] = SpawnedAs(o, tok)]
             /\ spawned' = Append(spawned,
                  [new_watched(connect_group(mem', m, o, M)) EXCEPT !.repairs = w.repairs + 1,
                                         !.supersedes = IF close_first THEN {} ELSE C])
  <2> PICK m \in NewIds(M, Elements(watched) \cup Elements(spawned)), o \in Outcomes :
             /\ mem' = [M EXCEPT ![m] = SpawnedAs(o, tok)]
             /\ spawned' = Append(spawned,
                  [new_watched(connect_group(mem', m, o, M)) EXCEPT !.repairs = w.repairs + 1,
                                         !.supersedes = IF close_first THEN {} ELSE C])
    BY <1>4
  <2> DEFINE r == swap_remove(watched, idx)
             e == [new_watched(m) EXCEPT !.repairs = w.repairs + 1,
                                         !.supersedes = IF close_first THEN {} ELSE C]
  <2>0. tok \in Tokens /\ M \in [Ids -> Member]
    <3>1. tok \in Tokens /\ mem \in [Ids -> Member]
      BY <1>1 DEF IInv, TypeOK, Member
    <3> HIDE DEF C
    <3> QED BY <3>1, CloseMembers
  <2>1. watched' = r /\ spawned' = Append(spawned, e) /\ idx' = idx
    <3>1. connect_group(mem', m, o, M) = m
      <4> HIDE DEF M, C, tok
      <4>1. m \in Ids /\ M[m].member = "Unlisted"
        BY NewIdIsFresh
      <4> QED BY <2>0, <4>1, ConnectOneIs
    <3>2. watched' = r /\ idx' = idx
      BY DEF Respawns
    <3> HIDE DEF M, C, tok, r
    <3> QED BY <3>1, <3>2
  <2>2. /\ m \in Ids /\ \A i \in 1..Len(watched) : watched[i].id # m
        /\ \A i \in 1..Len(spawned) : spawned[i].id # m
    BY NewIdIsFresh DEF Elements
  <2> HIDE DEF C
  <2>3. e \in WatchedMember /\ e.id = m /\ (~close_first => e.supersedes = C) /\ IsNew(e)
    <3>1. /\ new_watched(m) \in WatchedMember /\ new_watched(m).id = m
          /\ IsNew(new_watched(m))
      BY <2>2, NewWatchedType DEF new_watched, IsNew
    <3>2. w.repairs + 1 \in 0..MAX_STRANDED_REPAIRS
      BY Times DEF WatchedMember
    <3>3. (IF close_first THEN {} ELSE C) \in SUBSET Ids
      BY <1>1
    <3> QED BY <3>1, <3>2, <3>3 DEF WatchedMember, IsNew
  <2> HIDE DEF e
  <2>4. /\ r \in Seq(WatchedMember) /\ Len(r) = Len(watched) - 1 /\ Distinct(r)
        /\ \A k \in 1..(Len(watched) - 1) : \E j \in 1..Len(watched) : r[k] = watched[j]
        /\ \A n : InChains(n, watched) => \/ n = watched[idx].id \/ n \in watched[idx].supersedes
                                          \/ InChains(n, r)
    BY OthersStay
  <2> HIDE DEF r
  <2>5. spawned \in Seq(WatchedMember) /\ Distinct(spawned) /\ Len(spawned) \in Nat
    BY DEF IInv, AreSequences, OneWatch
  <2>6. /\ spawned' \in Seq(WatchedMember) /\ Len(spawned') = Len(spawned) + 1
        /\ \A i \in 1..Len(spawned) : spawned'[i] = spawned[i]
        /\ spawned'[Len(spawned) + 1] = e
        /\ \A n : InChains(n, spawned) => InChains(n, spawned')
        /\ \A n : n = e.id \/ n \in e.supersedes => InChains(n, spawned')
    BY <2>1, <2>3, <2>5, AppendChains
  <2>7. Distinct(spawned')
    BY <2>1, <2>2, <2>3, <2>5, AppendDistinct
  <2>8. AreSequences' /\ OneWatch'
    <3>1. ASSUME NEW i \in 1..Len(watched'), NEW j \in 1..Len(spawned')
          PROVE  watched'[i].id # spawned'[j].id
      <4>1. PICK k \in 1..Len(watched) : watched'[i] = watched[k]
        BY <2>1, <2>4
      <4>2. CASE j \in 1..Len(spawned)
        BY <2>6, <4>1, <4>2 DEF IInv, OneWatch
      <4>3. CASE j = Len(spawned) + 1
        BY <2>2, <2>3, <2>6, <4>1, <4>3
      <4> QED BY <2>5, <2>6, <4>2, <4>3
    <3> QED BY <2>1, <2>4, <2>6, <2>7, <3>1 DEF AreSequences, OneWatch
  <2>9. tok \in Tokens /\ mem \in [Ids -> Member]
    BY <1>1 DEF IInv, TypeOK, Member
  <2>10. /\ M \in [Ids -> Member]
         /\ \A n \in Ids : M[n] = mem[n] \/ (M[n].sock = "NonExist" /\ ~M[n].stuck)
         /\ close_first => \A n \in C : n \in Ids => M[n].sock = "NonExist"
    BY <2>9, CloseMembers
  <2> HIDE DEF M, tok
  <2>11. /\ SpawnedAs(o, tok) \in Member
         /\ SpawnedAs(o, tok).stuck => /\ SpawnedAs(o, tok).sock = "Connected"
                                       /\ SpawnedAs(o, tok).member \in {"Pending", "Broken"}
    BY <2>9, SpawnedType
  <2>12. /\ mem' \in [Ids -> Member] /\ mem'[m] = SpawnedAs(o, tok)
         /\ \A n \in Ids : n # m => mem'[n] = M[n]
    BY <2>2, <2>10, <2>11
  <2>13. \A n \in Ids : \/ mem'[n] = mem[n]
                        \/ ~mem'[n].stuck
                        \/ /\ \A j \in 1..Len(watched) : watched[j].id # n
                           /\ mem'[n].sock = "Connected" /\ mem'[n].member \in {"Pending", "Broken"}
    BY <2>2, <2>10, <2>11, <2>12
  <2>14. NeedsKnown'
    <3> SUFFICES ASSUME NEW n \in Ids, Needs(n)', n # m
                 PROVE  InChains(n, watched') \/ InChains(n, spawned')
      BY <2>3, <2>6 DEF NeedsKnown
    <3>1. mem'[n] = M[n] /\ M[n] = mem[n] /\ M[n].sock = "Connected"
      BY <2>10, <2>12 DEF Needs, Stuck
    <3>2. Needs(n)
      BY <3>1 DEF Needs, Stuck
    <3>3. InChains(n, watched) \/ InChains(n, spawned)
      BY <3>2 DEF IInv, NeedsKnown
    <3>4. CASE n \in C
      <4>1. ~close_first
        BY <2>10, <3>1, <3>4
      <4> QED BY <2>3, <2>6, <3>4, <4>1
    <3>5. CASE n \notin C
      BY <1>2, <2>1, <2>4, <2>6, <3>3, <3>5
    <3> QED BY <3>4, <3>5
  <2>15. idx' \in Nat \ {0} /\ idx' <= Len(watched') + 1
    BY <2>1, <2>4, WatchedFields
  <2>16. \A k \in 1..Len(watched') : \E j \in 1..Len(watched) : SameWatch(watched'[k], watched[j])
    BY <2>1, <2>4 DEF SameWatch
  <2>17. \A k \in 1..Len(spawned') :
           IsNew(spawned'[k]) \/ \E j \in 1..Len(spawned) : SameWatch(spawned'[k], spawned[j])
    <3> TAKE k \in 1..Len(spawned')
    <3>1. k \in 1..Len(spawned) \/ k = Len(spawned) + 1
      BY <2>5, <2>6
    <3> QED BY <2>3, <2>6, <3>1 DEF SameWatch
  <2> QED BY <2>8, <2>12, <2>13, <2>14, <2>15, <2>16, <2>17 DEF LooksOn
<1> QED BY <1>3, <1>4 DEF Respawns

\* A member is gone for the check only when it is not listed, or listed Broken
\* and not seen connected; it is confirmed only when it is listed as up, and in
\* a backup group not as receiving.
LEMMA Verdicts ==
  ASSUME NEW live, NEW row, row.member \in MemberStatus \cup {"Unlisted"}
  PROVE  /\ classify_watched(live, row) \in
              {"Gone", "BrokenLive", "Stranded", "Confirmed", "Masked", "Handshaking"}
         /\ classify_watched(live, row) = "Gone" =>
              row.member = "Unlisted" \/ (row.member = "Broken" /\ live # "Connected")
         /\ classify_watched(live, row) = "Confirmed" =>
              row.member = "Idle" \/ (row.member = "Running" /\ ~Backup)
<1>1. CASE row.member = "Unlisted"
  BY <1>1 DEF classify_watched
<1>2. CASE row.member = "Broken"
  BY <1>2 DEF classify_watched
<1>3. CASE row.member \in {"Pending", "Idle", "Running"}
  <2> DEFINE strands == live = "Connected" /\ (row.member = "Pending" \/ row.listed = "Connecting")
             up == row.listed = "Connected" /\ row.member \in {"Idle", "Running"}
  <2>1. CASE strands
    <3>1. classify_watched(live, row) = "Stranded"
      BY <1>3, <2>1 DEF classify_watched
    <3> QED BY <3>1
  <2>2. CASE ~strands
    <3>1. classify_watched(live, row) =
            IF up THEN IF row.member = "Running" /\ Backup THEN "Masked" ELSE "Confirmed"
            ELSE "Handshaking"
      BY <1>3, <2>2 DEF classify_watched
    <3> QED BY <3>1
  <2> QED BY <2>1, <2>2
<1> QED BY <1>1, <1>2, <1>3 DEF MemberStatus

\* What follows from a verdict, and when a member began to be stranded.
LEMMA NextSteps ==
  ASSUME NEW w \in WatchedMember,
         NEW v \in {"Gone", "BrokenLive", "Stranded", "Confirmed", "Masked", "Handshaking"}
  PROVE  /\ next_step(w, v) = "Drop" => v \in {"Gone", "Confirmed"}
         /\ next_step(w, v) \in {"Abandon", "Repair"} => v \notin {"Gone", "Confirmed", "Masked"}
         /\ since_after(w, v) \in None..STRANDED_MEMBER_GRACE
<1>1. /\ w.stranded_since \in None..STRANDED_MEMBER_GRACE
      /\ STRANDED_MEMBER_GRACE \in None..STRANDED_MEMBER_GRACE
      /\ None \in None..STRANDED_MEMBER_GRACE
  BY Times DEF WatchedMember, None
<1>2. since_after(w, v) \in None..STRANDED_MEMBER_GRACE
  BY <1>1 DEF since_after
<1>3. CASE v = "Gone"
  BY <1>2, <1>3 DEF next_step
<1>4. CASE v \in {"BrokenLive", "Stranded"}
  BY <1>2, <1>4 DEF next_step
<1>5. CASE v \in {"Confirmed", "Masked"}
  BY <1>2, <1>5 DEF next_step
<1>6. CASE v = "Handshaking"
  BY <1>2, <1>6 DEF next_step
<1> QED BY <1>3, <1>4, <1>5, <1>6

\* A replacement is spawned only within the limit, and a member handed only to
\* a sibling that is watched.
LEMMA PlanRepair ==
  ASSUME NEW w \in WatchedMember, NEW broken, NEW sib
  PROVE  /\ plan_repair(w, broken, sib) \in {"CloseThenSpawn", "SpawnThenClose"} =>
              w.repairs < MAX_STRANDED_REPAIRS
         /\ plan_repair(w, broken, sib) = "HandToSibling" =>
              \E e \in Elements(watched) \cup Elements(spawned) : e.id \in sib
<1> DEFINE W == Elements(watched) \cup Elements(spawned)
           o == weigh_others(broken, other_member_at_peer(repair_chain(w)),
                             other_member_broken_live(W, repair_chain(w)),
                             other_member_handshaking(W, repair_chain(w)))
           a == o.at_peer
           b == o.resolving
           sibling == IF sib = {} THEN "none"
                      ELSE IF \E e \in W : e.id \in sib THEN "watched" ELSE "up"
<1>1. w.repairs \in Nat /\ MAX_STRANDED_REPAIRS \in Nat
  BY Times DEF WatchedMember
<1>2. plan_repair(w, broken, sib) = repair_plan(w.repairs, sibling, a, b)
  BY DEF plan_repair
<1>3. /\ sibling \in {"none", "watched", "up"}
      /\ sibling = "watched" => \E e \in W : e.id \in sib
  OBVIOUS
<1> HIDE DEF a, b, sibling
<1>4. CASE sibling = "up"
  BY <1>2, <1>4 DEF repair_plan
<1>5. CASE sibling = "none"
  <2>1. CASE w.repairs >= MAX_STRANDED_REPAIRS
    <3>1. repair_plan(w.repairs, sibling, a, b) = "CloseNow"
      BY <1>1, <1>5, <2>1 DEF repair_plan
    <3> QED BY <1>2, <3>1
  <2>2. CASE w.repairs < MAX_STRANDED_REPAIRS
    <3>1. repair_plan(w.repairs, sibling, a, b) # "HandToSibling"
      BY <1>1, <1>5, <2>2 DEF repair_plan
    <3> QED BY <1>2, <2>2, <3>1
  <2> QED BY <1>1, <2>1, <2>2
<1>6. CASE sibling = "watched"
  <2>1. repair_plan(w.repairs, sibling, a, b) \in {"JoinSibling", "Wait", "HandToSibling"}
    BY <1>6 DEF repair_plan
  <2> QED BY <1>2, <1>3, <1>6, <2>1
<1> QED BY <1>3, <1>4, <1>5, <1>6

\* A sibling is another member.
LEMMA SiblingIsOther ==
  ASSUME IInv, idx \in 1..Len(watched), NEW w, w.id = watched[idx].id, NEW m \in siblings(w)
  PROVE  m # w.id
<1> DEFINE now == {e.id : e \in {x \in Elements(spawned) : mem[x.id].token = mem[w.id].token}}
<1>1. CASE m \in now
  <2>1. PICK i \in 1..Len(spawned) : m = spawned[i].id
    BY <1>1 DEF Elements
  <2> QED BY <2>1 DEF IInv, OneWatch
<1>2. CASE m \in member_in_flight(rows, mem[w.id].token, repair_chain(w))
  BY <1>2 DEF member_in_flight, repair_chain
<1> QED BY <1>1, <1>2 DEF siblings

\* Closing nothing changes nothing.
LEMMA CloseNone ==
  ASSUME IInv
  PROVE  close_members(mem, {}) = mem
BY DEF IInv, TypeOK, close_members

\* Whatever the plan, a chain stays in sight or is closed.
LEMMA RepairKeeps ==
  ASSUME IInv, idx \in 1..Len(watched), NEW w \in WatchedMember, NEW verdict,
         SameWatch(w, watched[idx]), w.supersedes = watched[idx].supersedes,
         repair_stranded(w, verdict)
  PROVE  LooksOn
<1>0. w.id = watched[idx].id
  BY DEF SameWatch
<1> PICK sib \in IF siblings(w) = {} THEN {{}} ELSE {{m} : m \in siblings(w)} :
      \/ plan_repair(w, verdict = "BrokenLive", sib) = "Wait" /\ Stays(w)
      \/ plan_repair(w, verdict = "BrokenLive", sib) \in {"JoinSibling", "CloseNow"} /\ ClosesChain(w)
      \/ plan_repair(w, verdict = "BrokenLive", sib) = "HandToSibling" /\ \E other \in sib : HandsTo(w, other)
      \/ plan_repair(w, verdict = "BrokenLive", sib) = "CloseThenSpawn" /\ Respawns(w, TRUE)
      \/ plan_repair(w, verdict = "BrokenLive", sib) = "SpawnThenClose" /\ Respawns(w, FALSE)
  BY DEF repair_stranded
<1> DEFINE plan == plan_repair(w, verdict = "BrokenLive", sib)
<1>1. /\ plan \in {"CloseThenSpawn", "SpawnThenClose"} => w.repairs < MAX_STRANDED_REPAIRS
      /\ plan = "HandToSibling" => \E e \in Elements(watched) \cup Elements(spawned) : e.id \in sib
  BY PlanRepair
<1> HIDE DEF plan
<1>2. CASE Stays(w)
  <2>1. /\ watched' = [watched EXCEPT ![idx] = w] /\ idx' = idx + 1 /\ spawned' = spawned
        /\ mem' = close_members(mem, {})
    BY <1>2, CloseNone DEF Stays
  <2> QED BY <2>1, StaysKeeps
<1>3. CASE ClosesChain(w)
  <2>1. Leaves(repair_chain(w))
    BY <1>3 DEF ClosesChain
  <2>2. \A m : m \in repair_chain(w) <=> m = watched[idx].id \/ m \in watched[idx].supersedes
    BY <1>0 DEF repair_chain
  <2> QED BY <2>1, <2>2, LeavesKeeps
<1>4. CASE plan = "HandToSibling" /\ \E other \in sib : HandsTo(w, other)
  <2>1. PICK other \in sib : HandsTo(w, other)
    BY <1>4
  <2>2. sib = {other} /\ other \in siblings(w)
    BY <2>1
  <2>3. other # w.id
    BY <1>0, <2>2, SiblingIsOther
  <2>4. \E e \in Elements(watched) \cup Elements(spawned) : e.id = other
    BY <1>1, <1>4, <2>2
  <2> QED BY <1>0, <2>1, <2>3, <2>4, HandsKeeps
<1>5. CASE plan = "CloseThenSpawn" /\ Respawns(w, TRUE)
  BY <1>0, <1>1, <1>5, RespawnsKeeps
<1>6. CASE plan = "SpawnThenClose" /\ Respawns(w, FALSE)
  BY <1>0, <1>1, <1>6, RespawnsKeeps
<1> QED BY <1>2, <1>3, <1>4, <1>5, <1>6 DEF plan

\* What a look learns of the handshakes it may have read midway.
LEMMA LookMisreads ==
  ASSUME IInv, Look
  PROVE  misread' \in BOOLEAN /\ (misread => misread')
<1>2. \/ misread' = misread
      \/ \E w, verdict : repair_stranded(w, verdict)
  BY DEF Look, Stays, Leaves
<1>3. ASSUME NEW w, NEW verdict, repair_stranded(w, verdict)
      PROVE  misread' = misread \/ \E c : Respawns(w, c)
  BY <1>3 DEF repair_stranded, Stays, ClosesChain, Leaves, HandsTo
<1>4. ASSUME NEW w, NEW c, Respawns(w, c)
      PROVE  misread' = misread
             \/ misread' = (misread \/ read_midway(rows, mem[w.id].token, repair_chain(w)))
  BY <1>4 DEF Respawns
<1>5. \/ misread' = misread
      \/ \E w : misread' = (misread \/ read_midway(rows, mem[w.id].token, repair_chain(w)))
  BY <1>2, <1>3, <1>4
<1>6. misread \in BOOLEAN
  BY DEF IInv, TypeOK
<1>7. \A w : read_midway(rows, mem[w.id].token, repair_chain(w)) \in BOOLEAN
  BY DEF read_midway
<1> QED BY <1>5, <1>6, <1>7

\* One look at a watched member.
LEMMA LookKeeps ==
  ASSUME IInv, Look
  PROVE  LooksOn /\ IInv'
<1> DEFINE w0 == watched[idx]
           verdict == classify_watched(w0.live, rows[w0.id])
           up == verdict \in {"Confirmed", "Masked"} /\ w0.supersedes # {}
           at == IF up /\ w0.close_superseded_at = None THEN LINGER ELSE w0.close_superseded_at
           due == up /\ at = 0
           w1 == [w0 EXCEPT !.close_superseded_at = at,
                            !.supersedes = IF due THEN {} ELSE @]
           w == [w1 EXCEPT !.stranded_since = since_after(w1, verdict)]
           step == next_step(w1, verdict)
           lingered == IF due THEN w0.supersedes ELSE {}
           wk == [w EXCEPT !.not_before = IF step = "Recheck" THEN MASKED_MEMBER_RECHECK ELSE @]
<1>1. /\ phase = "look" /\ idx \in 1..Len(watched)
      /\ UNCHANGED <<last_status, adds, hangs, phase, rows>>
  <2>1. phase = "look" /\ idx <= Len(watched) /\ UNCHANGED <<last_status, adds, hangs, phase, rows>>
    BY DEF Look
  <2>2. idx \in Nat \ {0} /\ Len(watched) \in Nat
    BY WatchedFields, Times DEF IInv, TypeOK
  <2> QED BY <2>1, <2>2
<1>2. \/ Stays(w0)
      \/ /\ watched' = [watched EXCEPT ![idx] = wk] /\ idx' = idx + 1
         /\ mem' = close_members(mem, lingered) /\ spawned' = spawned
      \/ step = "Drop" /\ Leaves(w1.supersedes \cup lingered)
      \/ step = "Abandon" /\ Leaves(repair_chain(w))
      \/ step = "Repair" /\ repair_stranded(w, verdict)
  BY DEF Look
<1>3. w0 \in WatchedMember /\ w0.id \in Ids
  BY <1>1, WatchedFields
<1>4. rows[w0.id].member \in MemberStatus \cup {"Unlisted"}
  BY <1>3 DEF IInv, TypeOK
<1>5. /\ verdict \in {"Gone", "BrokenLive", "Stranded", "Confirmed", "Masked", "Handshaking"}
      /\ verdict = "Gone" => \/ rows[w0.id].member = "Unlisted"
                             \/ (rows[w0.id].member = "Broken" /\ w0.live # "Connected")
      /\ verdict = "Confirmed" => \/ rows[w0.id].member = "Idle"
                                  \/ (rows[w0.id].member = "Running" /\ ~Backup)
  BY <1>4, Verdicts
<1>6. Needs(w0.id) => verdict \notin {"Gone", "Confirmed"}
  <2>1. Stuck(w0.id) => /\ w0.live = "Connected"
                        /\ rows[w0.id].member \in {"Pending", "Broken", "Running"}
                        /\ ~Backup /\ rows[w0.id].member = "Running" => mem[w0.id].member = "Running"
    BY <1>1 DEF IInv, LiveRead, RowsRead
  <2> HIDE DEF verdict, w0
  <2> QED BY <1>5, <2>1 DEF Needs
<1> HIDE DEF w0, verdict
<1>7. /\ at \in None..LINGER /\ w0.supersedes \in SUBSET Ids
      /\ due => verdict \in {"Confirmed", "Masked"}
  BY <1>3, Times DEF WatchedMember, None
<1> HIDE DEF at, due
<1>8. /\ w1 \in WatchedMember /\ SameWatch(w1, w0)
      /\ w1.supersedes = IF due THEN {} ELSE w0.supersedes
  <2>1. w1 = [w0 EXCEPT !.close_superseded_at = at,
                        !.supersedes = IF due THEN {} ELSE w0.supersedes]
    BY <1>3 DEF WatchedMember
  <2>2. (IF due THEN {} ELSE w0.supersedes) \in SUBSET Ids
    BY <1>7
  <2> HIDE DEF w1
  <2> QED BY <1>3, <1>7, <2>1, <2>2 DEF WatchedMember, SameWatch
<1> HIDE DEF w1
<1>9. /\ step = "Drop" => verdict \in {"Gone", "Confirmed"}
      /\ step \in {"Abandon", "Repair"} => verdict \notin {"Gone", "Confirmed", "Masked"}
      /\ since_after(w1, verdict) \in None..STRANDED_MEMBER_GRACE
  BY <1>5, <1>8, NextSteps
<1>10. /\ w \in WatchedMember /\ SameWatch(w, w0)
       /\ w.supersedes = w1.supersedes
  BY <1>8, <1>9 DEF WatchedMember, SameWatch
<1> HIDE DEF w, step
<1>11. /\ wk \in WatchedMember /\ SameWatch(wk, w0)
       /\ wk.supersedes = w1.supersedes
  <2> DEFINE nb == IF step = "Recheck" THEN MASKED_MEMBER_RECHECK ELSE w.not_before
  <2>1. nb \in 0..MASKED_MEMBER_RECHECK
    BY <1>10, Times DEF WatchedMember
  <2>2. wk = [w EXCEPT !.not_before = nb]
    BY <1>10 DEF WatchedMember
  <2> HIDE DEF wk, nb
  <2> QED BY <1>10, <2>1, <2>2 DEF WatchedMember, SameWatch
<1> HIDE DEF wk
<1>12. \A m \in w0.supersedes : m \in w1.supersedes \/ m \in lingered
  BY <1>8
<1>13. CASE Stays(w0)
  <2>1. /\ watched' = [watched EXCEPT ![idx] = w0] /\ idx' = idx + 1 /\ spawned' = spawned
        /\ mem' = close_members(mem, {})
    BY <1>13, CloseNone DEF Stays
  <2>2. LooksOn
    BY <1>1, <1>3, <2>1, StaysKeeps DEF w0, SameWatch
  <2> QED BY <1>1, <2>2, LookMisreads, LooksOnKeeps
<1>14. CASE /\ watched' = [watched EXCEPT ![idx] = wk] /\ idx' = idx + 1
            /\ mem' = close_members(mem, lingered) /\ spawned' = spawned
  <2>1. LooksOn
    <3> HIDE DEF lingered
    <3> QED BY <1>1, <1>11, <1>12, <1>14, StaysKeeps DEF w0
  <2> QED BY <1>1, <2>1, LookMisreads, LooksOnKeeps
<1>15. CASE step = "Drop" /\ Leaves(w1.supersedes \cup lingered)
  <2>1. \A m \in Ids : Needs(m) /\ (m = w0.id \/ m \in w0.supersedes)
                         => m \in w1.supersedes \cup lingered
    BY <1>6, <1>9, <1>12, <1>15
  <2>2. LooksOn
    <3> HIDE DEF lingered
    <3> QED BY <1>1, <1>15, <2>1, LeavesKeeps DEF w0
  <2> QED BY <1>1, <2>2, LookMisreads, LooksOnKeeps
<1>16. CASE step = "Abandon" /\ Leaves(repair_chain(w))
  <2>1. ~due
    BY <1>7, <1>9, <1>16
  <2>2. \A m : m \in repair_chain(w) <=> m = w0.id \/ m \in w0.supersedes
    BY <1>8, <1>10, <2>1 DEF repair_chain, SameWatch
  <2>3. LooksOn
    BY <1>1, <1>16, <2>2, LeavesKeeps DEF w0
  <2> QED BY <1>1, <2>3, LookMisreads, LooksOnKeeps
<1>17. CASE step = "Repair" /\ repair_stranded(w, verdict)
  <2>1. ~due
    BY <1>7, <1>9, <1>17
  <2>2. w.supersedes = w0.supersedes
    BY <1>8, <1>10, <2>1
  <2>3. LooksOn
    BY <1>1, <1>10, <1>17, <2>2, RepairKeeps DEF w0
  <2> QED BY <1>1, <2>3, LookMisreads, LooksOnKeeps
<1> QED BY <1>2, <1>13, <1>14, <1>15, <1>16, <1>17

-----------------------------------------------------------------------------
\* The inductive invariant.
THEOREM Invariant == Spec => []IInv
<1>1. Init => IInv
  BY InitHolds
<1>2. IInv /\ [Next]_vars => IInv'
  <2> SUFFICES ASSUME IInv, [Next]_vars
               PROVE  IInv'
    OBVIOUS
  <2>1. CASE UNCHANGED vars
    <3>1. UNCHANGED <<mem, last_status, watched, adds, hangs, misread, phase, rows, idx, spawned>>
      BY <2>1 DEF vars
    <3>2. TypeOK' /\ AreSequences' /\ OneWatch'
      BY <3>1 DEF IInv, TypeOK, AreSequences, OneWatch, Distinct
    <3>3. IdleState' /\ StuckFromBirth'
      BY <3>1 DEF IInv, IdleState, StuckFromBirth
    <3>4. NeedsKnown'
      BY <3>1 DEF IInv, NeedsKnown, Needs, Stuck, InChains
    <3>5. LiveRead' /\ RowsRead'
      BY <3>1 DEF IInv, LiveRead, RowsRead, Stuck
    <3> QED BY <3>2, <3>3, <3>4, <3>5 DEF IInv
  <2>2. CASE check_group
    BY <2>2, CheckSocketsKeeps, CheckRowsKeeps, LookKeeps, EndCheckKeeps DEF check_group
  <2>3. CASE PollGroup
    BY <2>3, PollKeeps
  <2>4. CASE ConnectGroup
    BY <2>4, ConnectKeeps
  <2>5. CASE \E tok \in Tokens : add_group_member(tok)
    BY <2>5, AddKeeps
  <2>6. CASE CloseGroup
    BY <2>6, CloseGroupKeeps
  <2>7. CASE Network
    BY <2>7, NetworkKeeps
  <2> QED BY <2>1, <2>2, <2>3, <2>4, <2>5, <2>6, <2>7 DEF Next, Bridge, App
<1> QED BY <1>1, <1>2, PTL DEF Spec

\* Type correctness, which holds the repair limit and the time bounds: a
\* member is replaced at most MAX_STRANDED_REPAIRS times, every Instant stays
\* within its grace, and a check looks at no member past the last.
THEOREM TypeCorrect == Spec => []TypeOK
<1>1. IInv => TypeOK
  BY DEF IInv
<1> QED BY <1>1, Invariant, PTL

\* No stranded member is ever out of the bridge's sight, however libsrt's
\* writes fall between the readings of a check.
THEOREM NeverForgotten == Spec => []NoForgotten
<1>1. IInv => NoForgotten
  <2> SUFFICES ASSUME IInv, NEW m \in Ids, Stranded(m)
               PROVE  m \in Known
    BY DEF NoForgotten
  <2>1. Needs(m)
    BY DEF Stranded, Needs, Stuck
  <2>2. InChains(m, watched) \/ InChains(m, spawned)
    BY <2>1 DEF IInv, NeedsKnown
  <2>3. \E w \in Elements(watched) \cup Elements(spawned) : m = w.id \/ m \in w.supersedes
    BY <2>2 DEF InChains, Elements
  <2> QED BY <2>3 DEF Known, repair_chain
<1> QED BY <1>1, Invariant, PTL

-----------------------------------------------------------------------------
(* Repair chains: a watched member with those it is to close once it is    *)
(* up. The second invariant says that chains are disjoint, each of one     *)
(* endpoint, and hold every member that still connects; that, unless a     *)
(* handshake was misread, all members of an endpoint in flight are in one  *)
(* chain; what the readings of a check still say of the members while it   *)
(* changes them; and that a member which is not waited for any longer is   *)
(* no younger than one whose handshake is being written.                   *)

Watches == Elements(watched) \cup Elements(spawned)

\* i is watched; it is to close m once it is up; m is in its chain; it is
\* given up when t is over.
Watch(i) == \E e \in Watches : e.id = i
Owns(i, m) == \E e \in Watches : e.id = i /\ m \in e.supersedes
InChain(i, m) == Watch(i) /\ (m = i \/ Owns(i, m))
Expires(i, t) == \E e \in Watches : e.id = i /\ e.resolve_by = t

\* What libsrt still has of a member: in flight is also one listed Broken whose
\* handshake goes on.
Alive(m) == mem[m].sock # "NonExist"
Flying(m) == Alive(m) /\ (mem[m].member \in {"Pending", "Idle", "Running"} \/ mem[m].sock = "Midway")
Conn(m) == mem[m].sock = "Connecting"
Resolving(m) == mem[m].sock \in {"Midway", "Written"}
Spawned(m) == \E j \in 1..Len(spawned) : spawned[j].id = m

MemShape == \A m \in Ids :
  /\ mem[m].member = "Unlisted" => ~Alive(m)
  /\ Conn(m) => mem[m].member = "Pending"

\* What the listing of this check still says of the members.
RowsShape == phase = "look" => \A m \in Ids :
  /\ Spawned(m) => rows[m].member = "Unlisted"
  /\ Alive(m) /\ ~Spawned(m) => rows[m].member # "Unlisted"
  /\ Conn(m) /\ ~Spawned(m) => rows[m].member = "Pending"

\* What the reading of the sockets still says of the members: a member that
\* was read midway has time left.
LiveShape == phase # "idle" => \A i \in 1..Len(watched) :
  /\ is_terminal_status(watched[i].live) => ~Alive(watched[i].id) \/ watched[i].resolve_by > 0
  /\ watched[i].live = "Connected" => mem[watched[i].id].sock \in {"Connected", "NonExist"}

\* A member to be closed is watched no more, has one owner, and is of its
\* owner's endpoint.
OwnedApart == \A i, m \in Ids : Owns(i, m) => ~Watch(m)
OneOwner == \A i, j, m \in Ids : Owns(i, m) /\ Owns(j, m) => i = j
OwnToken == \A i, m \in Ids : Owns(i, m) => mem[m].token = mem[i].token

\* The bridge sees every handshake through.
ConnKnown == \A m \in Ids : Conn(m) => \E i \in Ids : InChain(i, m)

\* Two members of an endpoint that connect, or that are in flight when nothing
\* was misread: one replaces the other.
Together(m, n) == \E i \in Ids : InChain(i, m) /\ InChain(i, n)
OneConn == \A m, n \in Ids :
  m # n /\ Conn(m) /\ Conn(n) /\ mem[m].token = mem[n].token => Together(m, n)
OneFlight == ~misread => \A m, n \in Ids :
  m # n /\ Flying(m) /\ Flying(n) /\ mem[m].token = mem[n].token => Together(m, n)

\* While a member that is to be closed still connects, no other watched member
\* of its endpoint is alive but its owner.
ConnOwned ==
  \A i, j, m \in Ids : /\ Owns(i, m) /\ Conn(m) /\ Watch(j) /\ i # j
                       /\ mem[m].token = mem[j].token
    => ~Alive(j)

\* A check spawns one replacement for an endpoint.
OneSpawned == \A m, n \in Ids : Spawned(m) /\ Spawned(n) /\ mem[m].token = mem[n].token => m = n

\* A watched member is not given up before its handshake, or one of the same
\* endpoint outside its chain that began later, is done.
InTime == \A i \in Ids, t \in Nat :
  Expires(i, t) /\ (Resolving(i) \/ (Conn(i) /\ mem[i].ttl > 0)) => t > mem[i].ttl
Late == \A i, j \in Ids, t \in Nat :
  Expires(i, t) /\ Conn(i) /\ Resolving(j) /\ mem[j].token = mem[i].token /\ ~InChain(i, j)
    => t > mem[j].ttl

Chains == /\ OwnedApart /\ OneOwner /\ OwnToken /\ ConnKnown /\ OneConn /\ OneFlight
          /\ ConnOwned /\ OneSpawned
Shapes == MemShape /\ RowsShape /\ LiveShape
Dated == InTime /\ Late
CInv == Shapes /\ Chains /\ Dated

-----------------------------------------------------------------------------
(* The steps, seen from the chains.                                        *)

\* Watches are of members, one each.
LEMMA WatchesType ==
  ASSUME IInv
  PROVE  /\ Watches \subseteq WatchedMember
         /\ \A e \in Watches : e.id \in Ids /\ e.supersedes \subseteq Ids
         /\ \A e, f \in Watches : e.id = f.id => e = f
         /\ \A i : Watch(i) => i \in Ids
         /\ \A i, m : Owns(i, m) => i \in Ids /\ m \in Ids /\ Watch(i)
         /\ \A i : Spawned(i) => Watch(i)
         /\ \A i, t : Expires(i, t) => t \in Nat /\ Watch(i)
<1>1. Watches \subseteq WatchedMember
  BY DEF Watches, IInv, TypeOK
<1>2. \A e \in WatchedMember : e.id \in Ids /\ e.supersedes \subseteq Ids
  BY DEF WatchedMember
<1>3. ASSUME NEW e \in Watches, NEW f \in Watches, e.id = f.id
      PROVE  e = f
  <2>1. CASE e \in Elements(watched) /\ f \in Elements(watched)
    BY <1>3, <2>1 DEF Elements, IInv, OneWatch, Distinct
  <2>2. CASE e \in Elements(spawned) /\ f \in Elements(spawned)
    BY <1>3, <2>2 DEF Elements, IInv, OneWatch, Distinct
  <2>3. CASE e \in Elements(watched) /\ f \in Elements(spawned)
    BY <1>3, <2>3 DEF Elements, IInv, OneWatch
  <2>4. CASE e \in Elements(spawned) /\ f \in Elements(watched)
    BY <1>3, <2>4 DEF Elements, IInv, OneWatch
  <2> QED BY <2>1, <2>2, <2>3, <2>4 DEF Watches
<1>4. \A i : Watch(i) => i \in Ids
  BY <1>1, <1>2 DEF Watch
<1>5. \A i, m : Owns(i, m) => i \in Ids /\ m \in Ids /\ Watch(i)
  BY <1>1, <1>2 DEF Owns, Watch
<1>6. \A i : Spawned(i) => Watch(i)
  BY DEF Spawned, Watch, Watches, Elements
<1>7. \A i, t : Expires(i, t) => t \in Nat /\ Watch(i)
  <2>1. \A e \in WatchedMember : e.resolve_by \in Nat
    BY Times DEF WatchedMember
  <2> QED BY <1>1, <2>1 DEF Expires, Watch
<1> QED BY <1>1, <1>2, <1>3, <1>4, <1>5, <1>6, <1>7

\* The watch that a check looks at.
Rest == Watches \ {watched[idx]}

\* The others.
LEMMA RestIs ==
  ASSUME IInv, idx \in 1..Len(watched)
  PROVE  /\ watched[idx] \in Watches /\ Watch(watched[idx].id)
         /\ ~Spawned(watched[idx].id)
         /\ \A m : Owns(watched[idx].id, m) <=> m \in watched[idx].supersedes
         /\ \A m : InChain(watched[idx].id, m) <=> m = watched[idx].id \/ m \in watched[idx].supersedes
         /\ \A i : (\E e \in Rest : e.id = i) <=> Watch(i) /\ i # watched[idx].id
         /\ \A i, m : (\E e \in Rest : e.id = i /\ m \in e.supersedes)
                        <=> Owns(i, m) /\ i # watched[idx].id
         /\ \A i, t : (\E e \in Rest : e.id = i /\ e.resolve_by = t) => Expires(i, t)
         /\ Rest = Elements(swap_remove(watched, idx)) \cup Elements(spawned)
<1> DEFINE x == watched[idx]
<1>1. x \in Watches
  BY DEF Watches, Elements
<1>2. \A e \in Watches : e.id = x.id => e = x
  BY <1>1, WatchesType
<1>3. ~Spawned(x.id)
  BY DEF Spawned, IInv, OneWatch
<1>4. \A j \in 1..Len(watched) : watched[j] = x => j = idx
  BY DEF IInv, OneWatch, Distinct
<1>5. Watches \ {x} = Elements(swap_remove(watched, idx)) \cup Elements(spawned)
  <2> DEFINE r == swap_remove(watched, idx)
  <2>1. /\ Len(r) = Len(watched) - 1 /\ Len(watched) \in Nat
        /\ \A k \in 1..(Len(watched) - 1) : \E j \in 1..Len(watched) :
               j # idx /\ r[k] = watched[j]
        /\ \A j \in 1..Len(watched) : j # idx => \E k \in 1..(Len(watched) - 1) : r[k] = watched[j]
    BY OthersStay, WatchedFields
  <2> HIDE DEF r
  <2>2. \A e : e \in Elements(r) <=> \E j \in 1..Len(watched) : j # idx /\ e = watched[j]
    <3>1. \A e : e \in Elements(r) <=> \E k \in 1..(Len(watched) - 1) : e = r[k]
      BY <2>1 DEF Elements
    <3>2. ASSUME NEW e, e \in Elements(r)
          PROVE  \E j \in 1..Len(watched) : j # idx /\ e = watched[j]
      <4>1. PICK k \in 1..(Len(watched) - 1) : e = r[k]
        BY <3>1, <3>2
      <4>2. PICK j \in 1..Len(watched) : j # idx /\ r[k] = watched[j]
        BY <2>1
      <4> QED BY <4>1, <4>2
    <3>3. ASSUME NEW j \in 1..Len(watched), j # idx
          PROVE  watched[j] \in Elements(r)
      <4>1. PICK k \in 1..(Len(watched) - 1) : r[k] = watched[j]
        BY <2>1, <3>3
      <4> QED BY <3>1, <4>1
    <3> QED BY <3>2, <3>3
  <2>3. \A e : e \in Elements(watched) /\ e # x => e \in Elements(r)
    BY <2>2 DEF Elements
  <2>4. \A e : e \in Elements(r) => e \in Elements(watched) /\ e # x
    BY <2>2, <1>4 DEF Elements
  <2>5. x \notin Elements(spawned)
    BY <1>3 DEF Elements, Spawned
  <2> QED BY <2>3, <2>4, <2>5 DEF Watches, r
<1> HIDE DEF x
<1>6. \A i : (\E e \in Watches \ {x} : e.id = i) <=> Watch(i) /\ i # x.id
  BY <1>1, <1>2 DEF Watch
<1>7. \A i, m : (\E e \in Watches \ {x} : e.id = i /\ m \in e.supersedes) <=> Owns(i, m) /\ i # x.id
  BY <1>1, <1>2 DEF Owns
<1>8. Watch(x.id) /\ \A m : Owns(x.id, m) <=> m \in x.supersedes
  BY <1>1, <1>2 DEF Watch, Owns
<1>9. \A m : InChain(x.id, m) <=> m = x.id \/ m \in x.supersedes
  BY <1>8 DEF InChain
<1>10. \A i, t : (\E e \in Watches \ {x} : e.id = i /\ e.resolve_by = t) => Expires(i, t)
  BY DEF Expires
<1> QED BY <1>1, <1>3, <1>5, <1>6, <1>7, <1>8, <1>9, <1>10 DEF x, Rest

\* The chains of a step that takes watches and members away, and adds the
\* members N, each the only one of its endpoint in flight and in a chain of its
\* own. A member that still connects stays in its chain, and so do two in
\* flight.
LEMMA ChainsGrow ==
  ASSUME Chains, MemShape', misread => misread', NEW N \in SUBSET Ids,
         \A n \in N : ~Watch(n) /\ \A i \in Ids : ~Owns(i, n),
         \A i \in Ids : Watch(i)' => Watch(i) \/ i \in N,
         \A n \in N : Watch(n)',
         \A i, m \in Ids : Owns(i, m)' => Owns(i, m) /\ Watch(i),
         \A m \in Ids \ N : /\ mem'[m].token = mem[m].token
                            /\ Alive(m)' => Alive(m)
                            /\ Flying(m)' => Flying(m)
                            /\ Conn(m)' => Conn(m)
                            /\ Spawned(m)' => Spawned(m),
         \A i, m \in Ids : InChain(i, m) /\ Conn(m)' /\ m \notin N => InChain(i, m)',
         \A i, m, n \in Ids : /\ m # n /\ InChain(i, m) /\ InChain(i, n)
                              /\ Flying(m)' /\ Flying(n)' /\ m \notin N /\ n \notin N
           => InChain(i, m)' /\ InChain(i, n)',
         \A n \in N, m \in Ids : m # n /\ (Conn(m)' \/ (Spawned(m)' /\ Spawned(n)'))
           => mem'[m].token # mem'[n].token,
         ~misread' => \A n \in N, m \in Ids :
                        m # n /\ Flying(m)' => mem'[m].token # mem'[n].token
  PROVE  Chains'
<1>1. OwnedApart'
  <2> SUFFICES ASSUME NEW i \in Ids, NEW m \in Ids, Owns(i, m)', Watch(m)'
               PROVE  FALSE
    BY DEF OwnedApart
  <2>1. Owns(i, m)
    OBVIOUS
  <2> QED BY <2>1 DEF Chains, OwnedApart
<1>2. OneOwner'
  <2> SUFFICES ASSUME NEW i \in Ids, NEW j \in Ids, NEW m \in Ids, Owns(i, m)', Owns(j, m)'
               PROVE  i = j
    BY DEF OneOwner
  <2> QED BY DEF Chains, OneOwner
<1>3. OwnToken'
  <2> SUFFICES ASSUME NEW i \in Ids, NEW m \in Ids, Owns(i, m)'
               PROVE  mem'[m].token = mem'[i].token
    BY DEF OwnToken
  <2>1. Owns(i, m) /\ i \notin N /\ m \notin N
    OBVIOUS
  <2> QED BY <2>1 DEF Chains, OwnToken
<1>4. ConnKnown'
  <2> SUFFICES ASSUME NEW m \in Ids, Conn(m)'
               PROVE  \E i \in Ids : InChain(i, m)'
    BY DEF ConnKnown
  <2>1. CASE m \in N
    BY <2>1 DEF InChain
  <2>2. CASE m \notin N
    <3>1. PICK i \in Ids : InChain(i, m)
      BY <2>2 DEF Chains, ConnKnown
    <3> QED BY <2>2, <3>1
  <2> QED BY <2>1, <2>2
<1>5. OneFlight'
  <2> SUFFICES ASSUME ~misread', NEW m \in Ids, NEW n \in Ids, m # n, Flying(m)', Flying(n)',
                      mem'[m].token = mem'[n].token
               PROVE  \E i \in Ids : InChain(i, m)' /\ InChain(i, n)'
    BY DEF OneFlight, Together
  <2>1. m \notin N /\ n \notin N
    OBVIOUS
  <2>2. Flying(m) /\ Flying(n) /\ mem[m].token = mem[n].token
    BY <2>1
  <2>3. PICK i \in Ids : InChain(i, m) /\ InChain(i, n)
    BY <2>2 DEF Chains, OneFlight, Together
  <2> QED BY <2>1, <2>3
<1>8. \A m \in Ids : Conn(m)' => Flying(m)'
  BY DEF MemShape, Conn, Flying, Alive
<1>9. OneConn'
  <2> SUFFICES ASSUME NEW m \in Ids, NEW n \in Ids, m # n, Conn(m)', Conn(n)',
                      mem'[m].token = mem'[n].token
               PROVE  \E i \in Ids : InChain(i, m)' /\ InChain(i, n)'
    BY DEF OneConn, Together
  <2>1. m \notin N /\ n \notin N
    OBVIOUS
  <2>2. Conn(m) /\ Conn(n) /\ mem[m].token = mem[n].token
    BY <2>1
  <2>3. PICK i \in Ids : InChain(i, m) /\ InChain(i, n)
    BY <2>2 DEF Chains, OneConn, Together
  <2> QED BY <1>8, <2>1, <2>3
<1>6. ConnOwned'
  <2> SUFFICES ASSUME NEW i \in Ids, NEW j \in Ids, NEW m \in Ids, Owns(i, m)', Conn(m)',
                      Watch(j)', i # j, mem'[m].token = mem'[j].token
               PROVE  ~Alive(j)'
    BY DEF ConnOwned
  <2>2. Owns(i, m) /\ m \notin N /\ j \notin N
    OBVIOUS
  <2>3. Conn(m) /\ Watch(j) /\ mem[m].token = mem[j].token
    BY <2>2
  <2>4. ~Alive(j)
    BY <2>2, <2>3 DEF Chains, ConnOwned
  <2> QED BY <2>2, <2>4
<1>7. OneSpawned'
  <2> SUFFICES ASSUME NEW m \in Ids, NEW n \in Ids, Spawned(m)', Spawned(n)',
                      mem'[m].token = mem'[n].token, m # n
               PROVE  FALSE
    BY DEF OneSpawned
  <2>1. m \notin N /\ n \notin N
    OBVIOUS
  <2> QED BY <2>1 DEF Chains, OneSpawned
<1> QED BY <1>1, <1>2, <1>3, <1>4, <1>5, <1>6, <1>7, <1>9 DEF Chains

\* The chains of a step in which v hands its chain and itself to o: another
\* watched member, or a new one when v's chain has all that connects of its
\* endpoint, and all that flies unless that was misread. When v still connects,
\* no other watched member of its endpoint may be alive.
LEMMA ChainsPass ==
  ASSUME Chains, MemShape, misread => misread',
         NEW v \in Ids, NEW o \in Ids, v # o, Watch(v),
         mem'[o].token = mem[v].token,
         \A m \in Ids : m # o => mem'[m] = mem[m],
         \A i \in Ids : Watch(i)' <=> (Watch(i) /\ i # v) \/ i = o,
         \A i, m \in Ids : Owns(i, m)' <=> \/ Owns(i, m) /\ i # v
                                           \/ i = o /\ InChain(v, m),
         \/ /\ Watch(o) /\ mem'[o] = mem[o]
            /\ \A m \in Ids : Spawned(m)' => Spawned(m)
         \/ /\ ~Watch(o)
            /\ \A i, m \in Ids : ~Owns(i, o) /\ ~Owns(o, m)
            /\ \A m \in Ids : m # o /\ (Conn(m) \/ Spawned(m)) /\ mem[m].token = mem[v].token
                 => InChain(v, m) /\ ~Spawned(m)
            /\ ~misread' => \A m \in Ids : m # o /\ Flying(m) /\ mem[m].token = mem[v].token
                              => InChain(v, m)
            /\ \A m \in Ids : Spawned(m)' => Spawned(m) \/ m = o,
         \A j \in Ids : Conn(v) /\ Watch(j) /\ j # v /\ j # o /\ mem[j].token = mem[v].token
                          => ~Alive(j)
  PROVE  Chains'
<1>1. \A i, m \in Ids : Owns(i, m) => /\ ~Watch(m) /\ mem[m].token = mem[i].token
                                      /\ \A j \in Ids : Owns(j, m) => i = j
  BY DEF Chains, OwnedApart, OneOwner, OwnToken
<1>2. ~Owns(v, o) /\ ~InChain(v, o)
  BY <1>1 DEF InChain
<1>3. \A i, m \in Ids : Owns(i, m) /\ i # v => ~InChain(v, m)
  BY <1>1 DEF InChain
<1>4. \A m \in Ids : InChain(v, m) => /\ m # o /\ mem[m].token = mem[v].token
                                      /\ InChain(o, m)' /\ Owns(o, m)' /\ ~Watch(m)'
  BY <1>1, <1>2 DEF InChain
<1>5. \A i, m \in Ids : InChain(i, m) /\ i # v => InChain(i, m)'
  BY DEF InChain
<1>6. OwnedApart'
  <2> SUFFICES ASSUME NEW i \in Ids, NEW m \in Ids, Owns(i, m)', Watch(m)'
               PROVE  FALSE
    BY DEF OwnedApart
  <2>1. CASE Owns(i, m) /\ i # v
    BY <1>1, <2>1
  <2>2. CASE i = o /\ InChain(v, m)
    BY <1>4, <2>2
  <2> QED BY <2>1, <2>2
<1>7. OneOwner'
  <2> SUFFICES ASSUME NEW i \in Ids, NEW j \in Ids, NEW m \in Ids, Owns(i, m)', Owns(j, m)'
               PROVE  i = j
    BY DEF OneOwner
  <2> QED BY <1>1, <1>3
<1>8. OwnToken'
  <2> SUFFICES ASSUME NEW i \in Ids, NEW m \in Ids, Owns(i, m)'
               PROVE  mem'[m].token = mem'[i].token
    BY DEF OwnToken
  <2>1. CASE Owns(i, m) /\ i # v
    <3>1. mem[m].token = mem[i].token
      BY <1>1, <2>1
    <3>2. mem'[m] = mem[m] /\ mem'[i] = mem[i]
      BY <1>1, <2>1
    <3> QED BY <3>1, <3>2
  <2>2. CASE i = o /\ InChain(v, m)
    BY <1>4, <2>2
  <2> QED BY <2>1, <2>2
<1>9. ConnKnown'
  <2> SUFFICES ASSUME NEW m \in Ids, Conn(m)'
               PROVE  \E i \in Ids : InChain(i, m)'
    BY DEF ConnKnown
  <2>1. CASE m = o
    BY <2>1 DEF InChain
  <2>2. CASE m # o
    <3>1. Conn(m)
      BY <2>2 DEF Conn
    <3>2. PICK i \in Ids : InChain(i, m)
      BY <3>1 DEF Chains, ConnKnown
    <3> QED BY <1>4, <1>5, <3>2
  <2> QED BY <2>1, <2>2
<1>10. ASSUME ~misread', NEW m \in Ids, NEW n \in Ids, m # n, m # o, Flying(m)', Flying(n)',
              mem'[m].token = mem'[n].token
       PROVE  \E i \in Ids : InChain(i, m)' /\ InChain(i, n)'
  <2>1. Flying(m) /\ mem'[m] = mem[m]
    BY <1>10 DEF Flying, Alive
  <2>2. CASE n # o \/ Watch(o)
    <3>1. mem'[n] = mem[n]
      BY <2>2
    <3>2. Flying(n) /\ mem[m].token = mem[n].token
      BY <1>10, <2>1, <3>1 DEF Flying, Alive
    <3>3. PICK i \in Ids : InChain(i, m) /\ InChain(i, n)
      BY <1>10, <2>1, <3>2 DEF Chains, OneFlight, Together
    <3> QED BY <1>4, <1>5, <3>3
  <2>3. CASE n = o /\ ~Watch(o)
    <3>1. InChain(v, m)
      BY <1>10, <2>1, <2>3
    <3> QED BY <1>4, <2>3, <3>1 DEF InChain
  <2> QED BY <2>2, <2>3
<1>11. OneFlight'
  <2> SUFFICES ASSUME ~misread', NEW m \in Ids, NEW n \in Ids, m # n, Flying(m)', Flying(n)',
                      mem'[m].token = mem'[n].token
               PROVE  \E i \in Ids : InChain(i, m)' /\ InChain(i, n)'
    BY DEF OneFlight, Together
  <2>1. CASE m # o
    BY <1>10, <2>1
  <2>2. CASE m = o
    <3>1. \E i \in Ids : InChain(i, n)' /\ InChain(i, m)'
      BY <1>10, <2>2
    <3> QED BY <3>1
  <2> QED BY <2>1, <2>2
<1>14. ASSUME NEW m \in Ids, NEW n \in Ids, m # n, m # o, Conn(m)', Conn(n)',
              mem'[m].token = mem'[n].token
       PROVE  \E i \in Ids : InChain(i, m)' /\ InChain(i, n)'
  <2>1. Conn(m) /\ mem'[m] = mem[m]
    BY <1>14 DEF Conn
  <2>2. CASE n # o \/ Watch(o)
    <3>1. mem'[n] = mem[n]
      BY <2>2
    <3>2. Conn(n) /\ mem[m].token = mem[n].token
      BY <1>14, <2>1, <3>1 DEF Conn
    <3>3. PICK i \in Ids : InChain(i, m) /\ InChain(i, n)
      BY <1>14, <2>1, <3>2 DEF Chains, OneConn, Together
    <3> QED BY <1>4, <1>5, <3>3
  <2>3. CASE n = o /\ ~Watch(o)
    <3>1. InChain(v, m)
      BY <1>14, <2>1, <2>3
    <3> QED BY <1>4, <2>3, <3>1 DEF InChain
  <2> QED BY <2>2, <2>3
<1>15. OneConn'
  <2> SUFFICES ASSUME NEW m \in Ids, NEW n \in Ids, m # n, Conn(m)', Conn(n)',
                      mem'[m].token = mem'[n].token
               PROVE  \E i \in Ids : InChain(i, m)' /\ InChain(i, n)'
    BY DEF OneConn, Together
  <2>1. CASE m # o
    BY <1>14, <2>1
  <2>2. CASE m = o
    <3>1. \E i \in Ids : InChain(i, n)' /\ InChain(i, m)'
      BY <1>14, <2>2
    <3> QED BY <3>1
  <2> QED BY <2>1, <2>2
<1>12. ConnOwned'
  <2> SUFFICES ASSUME NEW i \in Ids, NEW j \in Ids, NEW m \in Ids, Owns(i, m)', Conn(m)',
                      Watch(j)', i # j, mem'[m].token = mem'[j].token
               PROVE  ~Alive(j)'
    BY DEF ConnOwned
  <2>1. m # o /\ mem'[m] = mem[m] /\ Conn(m)
    <3>1. m # o
      BY <1>1, <1>4
    <3>2. mem'[m] = mem[m]
      BY <3>1
    <3> QED BY <3>1, <3>2 DEF Conn
  <2>2. CASE Owns(i, m) /\ i # v
    <3>1. CASE j # o \/ Watch(o)
      <4>1. mem'[j] = mem[j] /\ Watch(j)
        BY <3>1
      <4>2. ~Alive(j)
        BY <2>1, <2>2, <4>1 DEF Chains, ConnOwned
      <4> QED BY <4>1, <4>2 DEF Alive
    <3>2. CASE j = o /\ ~Watch(o)
      <4>1. InChain(v, m)
        BY <2>1, <3>2
      <4> QED BY <1>3, <2>2, <4>1
    <3> QED BY <3>1, <3>2
  <2>3. CASE i = o /\ InChain(v, m)
    <3>1. j # o /\ Watch(j) /\ j # v /\ mem'[j] = mem[j] /\ mem[j].token = mem[m].token
      BY <2>1, <2>3
    <3>2. mem[j].token = mem[v].token
      BY <1>4, <2>3, <3>1
    <3>3. CASE m = v
      <4>1. ~Alive(j)
        BY <2>1, <3>1, <3>2, <3>3
      <4> QED BY <3>1, <4>1 DEF Alive
    <3>4. CASE Owns(v, m)
      <4>1. ~Alive(j)
        BY <2>1, <3>1, <3>4 DEF Chains, ConnOwned
      <4> QED BY <3>1, <4>1 DEF Alive
    <3> QED BY <2>3, <3>3, <3>4 DEF InChain
  <2> QED BY <2>2, <2>3
<1>13. OneSpawned'
  <2> SUFFICES ASSUME NEW m \in Ids, NEW n \in Ids, Spawned(m)', Spawned(n)',
                      mem'[m].token = mem'[n].token, m # n
               PROVE  FALSE
    BY DEF OneSpawned
  <2>1. CASE Watch(o)
    <3>1. mem'[m] = mem[m] /\ mem'[n] = mem[n] /\ Spawned(m) /\ Spawned(n)
      BY <2>1
    <3> QED BY <3>1 DEF Chains, OneSpawned
  <2>2. CASE ~Watch(o)
    <3>1. CASE m # o /\ n # o
      <4>1. mem'[m] = mem[m] /\ mem'[n] = mem[n] /\ Spawned(m) /\ Spawned(n)
        BY <2>2, <3>1
      <4> QED BY <4>1 DEF Chains, OneSpawned
    <3>2. CASE m = o
      <4>1. n # o /\ Spawned(n) /\ mem[n].token = mem[v].token
        BY <2>2, <3>2
      <4> QED BY <2>2, <4>1
    <3>3. CASE n = o
      <4>1. m # o /\ Spawned(m) /\ mem[m].token = mem[v].token
        BY <2>2, <3>3
      <4> QED BY <2>2, <4>1
    <3> QED BY <3>1, <3>2, <3>3
  <2> QED BY <2>1, <2>2
<1> QED BY <1>6, <1>7, <1>8, <1>9, <1>11, <1>12, <1>13, <1>15 DEF Chains

\* The dates of a step that spawns the members N, lets the others get on or
\* die, and leaves a watch its time and those of its chain that are alive.
LEMMA DatesKeep ==
  ASSUME IInv, OwnedApart, OneConn, Dated, mem' \in [Ids -> Member], NEW N \in SUBSET Ids,
         \A i \in Ids : \A t : Expires(i, t)' =>
           \/ i \in N /\ t = CONNECT_TIMEOUT + HANDSHAKE_TTL_SLACK
           \/ i \notin N /\ Expires(i, t),
         \A m \in Ids \ N : /\ mem'[m].token = mem[m].token
                            /\ Conn(m)' => Conn(m) /\ mem'[m].ttl = mem[m].ttl
                            /\ Resolving(m)' =>
                                 /\ mem'[m].ttl = mem[m].ttl
                                 /\ Resolving(m) \/ (Conn(m) /\ mem[m].ttl > 0),
         \A i, j \in Ids \ N : Watch(i)' /\ Alive(j)' /\ InChain(i, j) => InChain(i, j)',
         \A i \in Ids \ N, n \in N : Conn(i)' /\ mem'[n].token = mem'[i].token => ~Watch(i)'
  PROVE  Dated'
<1>1. \A m \in Ids : mem'[m].ttl \in 0..CONNECT_TIMEOUT
  BY DEF Member
<1>2. \A m \in Ids : CONNECT_TIMEOUT + HANDSHAKE_TTL_SLACK > mem'[m].ttl
  <2>1. CONNECT_TIMEOUT \in Nat /\ HANDSHAKE_TTL_SLACK \in Nat \ {0}
    BY RepairAssumption
  <2> QED BY <1>1, <2>1
<1>3. \A i \in Ids : \A t : Expires(i, t)' => Watch(i)'
  BY DEF Expires, Watch
<1>4. InTime'
  <2> SUFFICES ASSUME NEW i \in Ids, NEW t \in Nat, Expires(i, t)',
                      Resolving(i)' \/ (Conn(i)' /\ mem'[i].ttl > 0)
               PROVE  t > mem'[i].ttl
    BY DEF InTime
  <2>1. CASE i \in N
    BY <1>2, <2>1
  <2>2. CASE i \notin N
    <3>1. Expires(i, t) /\ mem'[i].ttl = mem[i].ttl
      BY <2>2
    <3>2. Resolving(i) \/ (Conn(i) /\ mem[i].ttl > 0)
      BY <2>2, <3>1
    <3> QED BY <3>1, <3>2 DEF Dated, InTime
  <2> QED BY <2>1, <2>2
<1>5. Late'
  <2> SUFFICES ASSUME NEW i \in Ids, NEW j \in Ids, NEW t \in Nat, Expires(i, t)', Conn(i)',
                      Resolving(j)', mem'[j].token = mem'[i].token, ~InChain(i, j)'
               PROVE  t > mem'[j].ttl
    BY DEF Late
  <2>1. CASE i \in N
    BY <1>2, <2>1
  <2>2. CASE i \notin N
    <3>1. Expires(i, t) /\ Conn(i) /\ mem[i].token = mem'[i].token /\ Watch(i)'
      BY <1>3, <2>2
    <3>2. j \notin N
      BY <2>2, <3>1
    <3>3. mem[j].token = mem[i].token /\ mem'[j].ttl = mem[j].ttl
      BY <3>1, <3>2
    <3>4. ~InChain(i, j)
      BY <2>2, <3>1, <3>2 DEF Resolving, Alive
    <3>5. CASE Resolving(j)
      BY <3>1, <3>3, <3>4, <3>5 DEF Dated, Late
    <3>6. CASE Conn(j)
      <4>1. i # j
        BY <3>4, <3>1, WatchesType DEF InChain
      <4>2. PICK k \in Ids : InChain(k, i) /\ InChain(k, j)
        BY <3>1, <3>3, <3>6, <4>1 DEF OneConn, Together
      <4>3. Watch(i)
        BY <3>1, WatchesType
      <4>4. k = i
        BY <4>2, <4>3 DEF InChain, OwnedApart
      <4> QED BY <3>4, <4>2, <4>4
    <3> QED BY <3>2, <3>5, <3>6
  <2> QED BY <2>1, <2>2
<1> QED BY <1>4, <1>5 DEF Dated

-----------------------------------------------------------------------------
(* What a plan takes for granted.                                          *)

\* What each plan says of the sibling and of the others.
LEMMA PlanSays ==
  ASSUME NEW r \in Nat, NEW s \in {"none", "watched", "up"},
         NEW a \in BOOLEAN, NEW b \in BOOLEAN
  PROVE  LET p == repair_plan(r, s, a, b)
         IN /\ p = "CloseNow" => s = "none"
            /\ p = "CloseThenSpawn" => s = "none" /\ a
            /\ p = "SpawnThenClose" => s = "none" /\ ~a /\ ~b
            /\ p = "JoinSibling" => s = "up" \/ (s = "watched" /\ a)
            /\ p = "HandToSibling" => s = "watched" /\ ~a /\ ~b
<1>1. MAX_STRANDED_REPAIRS \in Nat
  BY Times
<1>2. CASE s = "up"
  <2>1. repair_plan(r, s, a, b) = "JoinSibling"
    BY <1>2 DEF repair_plan
  <2> QED BY <1>2, <2>1
<1>3. CASE s = "none"
  <2>1. CASE r >= MAX_STRANDED_REPAIRS
    <3>1. repair_plan(r, s, a, b) = "CloseNow"
      BY <1>1, <1>3, <2>1 DEF repair_plan
    <3> QED BY <1>3, <3>1
  <2>2. CASE r < MAX_STRANDED_REPAIRS /\ a
    <3>1. repair_plan(r, s, a, b) = "CloseThenSpawn"
      BY <1>1, <1>3, <2>2 DEF repair_plan
    <3> QED BY <1>3, <2>2, <3>1
  <2>3. CASE r < MAX_STRANDED_REPAIRS /\ ~a
    <3>1. repair_plan(r, s, a, b) = IF b THEN "Wait" ELSE "SpawnThenClose"
      BY <1>1, <1>3, <2>3 DEF repair_plan
    <3> QED BY <1>3, <2>3, <3>1
  <2> QED BY <1>1, <2>1, <2>2, <2>3
<1>4. CASE s = "watched"
  <2>1. CASE a
    <3>1. repair_plan(r, s, a, b) = "JoinSibling"
      BY <1>4, <2>1 DEF repair_plan
    <3> QED BY <1>4, <2>1, <3>1
  <2>2. CASE ~a
    <3>1. repair_plan(r, s, a, b) = IF b THEN "Wait" ELSE "HandToSibling"
      BY <1>4, <2>2 DEF repair_plan
    <3> QED BY <1>4, <2>2, <3>1
  <2> QED BY <2>1, <2>2
<1> QED BY <1>2, <1>3, <1>4

\* Of v's endpoint only its chain connects, and this check has spawned none; only
\* its chain is in flight.
Alone(v) ==
  \A m \in Ids : mem[m].token = mem[v].token /\ ~InChain(v, m) => ~Spawned(m) /\ ~Conn(m)
Free(v) ==
  \A m \in Ids : mem[m].token = mem[v].token /\ ~InChain(v, m) => ~Flying(m)

\* A member outside v's chain that the check has read, up at its peer.
PeerBeside(v) == \E m \in Ids : ~InChain(v, m) /\ mem[m].sock = "Connected"

\* No member outside v's chain is listed up, or watched, Broken and connected.
Settled(v) ==
  /\ \A m \in Ids : ~InChain(v, m) => ~at_peer(rows[m].member, getsockstate(mem, m))
  /\ \A e \in Watches : ~InChain(v, e.id) /\ rows[e.id].member = "Broken"
       => getsockstate(mem, e.id) # "Connected"

\* The state a socket reports.
LEMMA SockStates ==
  ASSUME IInv, NEW m \in Ids
  PROVE  /\ mem[m].sock \in {"NonExist", "Connecting", "Midway", "Written", "Connected"}
         /\ mem[m].member \in {"Pending", "Idle", "Running", "Broken", "Unlisted"}
         /\ rows[m].member \in {"Pending", "Idle", "Running", "Broken", "Unlisted"}
         /\ getsockstate(mem, m) = "Connected" <=> mem[m].sock = "Connected"
         /\ is_terminal_status(getsockstate(mem, m)) <=> ~Alive(m) \/ mem[m].sock = "Midway"
<1>1. /\ mem[m].sock \in {"NonExist", "Connecting", "Midway", "Written", "Connected"}
      /\ mem[m].member \in {"Pending", "Idle", "Running", "Broken", "Unlisted"}
      /\ rows[m].member \in {"Pending", "Idle", "Running", "Broken", "Unlisted"}
  BY DEF IInv, TypeOK, Member, MemberStatus
<1>2. \A x \in {"NonExist", "Connecting", "Broken", "Connected"} :
        is_terminal_status(x) <=> x \in {"NonExist", "Broken"}
  BY DEF is_terminal_status
<1>3. getsockstate(mem, m) = IF mem[m].sock = "Midway" THEN "Broken"
                             ELSE IF mem[m].sock = "Written" THEN "Connecting" ELSE mem[m].sock
  BY DEF getsockstate
<1> QED BY <1>1, <1>2, <1>3 DEF Alive

\* What repair_plan knows when it decides: it closes or replaces a member that
\* is alone for its endpoint, closes first only while another is up, and waits
\* for those it cannot judge yet.
LEMMA PlanFacts ==
  ASSUME IInv, CInv, phase = "look", idx \in 1..Len(watched),
         NEW w \in WatchedMember, w.id = watched[idx].id,
         w.supersedes = watched[idx].supersedes, NEW broken \in BOOLEAN,
         NEW sib \in IF siblings(w) = {} THEN {{}} ELSE {{m} : m \in siblings(w)}
  PROVE  LET p == plan_repair(w, broken, sib)
         IN /\ p \in {"CloseNow", "CloseThenSpawn", "SpawnThenClose"} =>
                 /\ Alone(w.id)
                 /\ Free(w.id) \/ read_midway(rows, mem[w.id].token, repair_chain(w))
            /\ p = "CloseThenSpawn" => PeerBeside(w.id)
            /\ p = "JoinSibling" =>
                 \/ PeerBeside(w.id)
                 \/ \E s \in Ids : /\ ~InChain(w.id, s) /\ ~Watch(s) /\ Alive(s)
                                   /\ mem[s].token = mem[w.id].token
            /\ p \in {"HandToSibling", "SpawnThenClose"} => Settled(w.id)
            /\ p = "HandToSibling" => \A o \in sib : /\ o \in Ids /\ Watch(o) /\ o # w.id
                                                     /\ mem[o].token = mem[w.id].token
                                                     /\ Spawned(o) \/ Alive(o)
<1> DEFINE v == w.id
           C == repair_chain(w)
           a == other_member_at_peer(C)
           bl == other_member_broken_live(Watches, C)
           hs == other_member_handshaking(Watches, C)
           o == weigh_others(broken, a, bl, hs)
           sibling == IF sib = {} THEN "none"
                      ELSE IF \E e \in Watches : e.id \in sib THEN "watched" ELSE "up"
           now == {e.id : e \in {x \in Elements(spawned) : mem[x.id].token = mem[w.id].token}}
           fly == member_in_flight(rows, mem[w.id].token, C)
<1>1. plan_repair(w, broken, sib) = repair_plan(w.repairs, sibling, o.at_peer, o.resolving)
  BY DEF plan_repair, Watches
<1>2. o.at_peer = (a \/ (broken /\ bl)) /\ o.resolving = (hs \/ (~broken /\ bl))
  BY DEF weigh_others
<1>3. w.repairs \in Nat /\ v \in Ids
  BY DEF WatchedMember
<1>4. \A m \in Ids : m \in C <=> InChain(v, m)
  BY RestIs DEF repair_chain
<1>5. siblings(w) = IF now # {} THEN now ELSE fly
  BY DEF siblings
<1>6. /\ sibling \in {"none", "watched", "up"}
      /\ sibling = "none" => siblings(w) = {}
      /\ sibling # "none" => sib # {} /\ sib \subseteq siblings(w)
      /\ sibling = "watched" => \E e \in Watches : e.id \in sib
      /\ sibling = "up" => ~ \E e \in Watches : e.id \in sib
  <2>1. sib = {} \/ \E m \in siblings(w) : sib = {m}
    OBVIOUS
  <2>2. sib = {} => siblings(w) = {}
    OBVIOUS
  <2> QED BY <2>1, <2>2
<1>7. \A m \in sib : \A n \in sib : m = n
  OBVIOUS
<1>8. \A m : m \in now <=> Spawned(m) /\ mem[m].token = mem[w.id].token
  BY DEF Elements, Spawned
<1>9. \A m : m \in fly <=> /\ m \in Ids /\ ~InChain(v, m) /\ mem[m].token = mem[w.id].token
                           /\ rows[m].member \in {"Pending", "Idle", "Running"}
                           /\ Alive(m) /\ mem[m].sock # "Midway"
  <2>1. \A m : m \in fly <=> /\ m \in Ids /\ m \notin C /\ mem[m].token = mem[w.id].token
                             /\ rows[m].member \in {"Pending", "Idle", "Running"}
                             /\ ~is_terminal_status(getsockstate(mem, m))
    BY DEF member_in_flight, in_flight
  <2> HIDE DEF fly, C
  <2> QED BY <1>4, <2>1, SockStates
<1>a. ASSUME siblings(w) = {}, NEW m \in Ids, mem[m].token = mem[v].token, ~InChain(v, m)
      PROVE  /\ ~Spawned(m)
             /\ Alive(m) => \/ mem[m].sock = "Midway"
                            \/ rows[m].member = "Broken"
  <2> HIDE DEF now, fly
  <2>1. ~Spawned(m)
    BY <1>5, <1>8, <1>a
  <2>2. ~(/\ rows[m].member \in {"Pending", "Idle", "Running"}
          /\ Alive(m) /\ mem[m].sock # "Midway")
    BY <1>5, <1>9, <1>a
  <2>3. Alive(m) => rows[m].member # "Unlisted"
    BY <2>1 DEF CInv, Shapes, RowsShape
  <2> QED BY <2>1, <2>2, <2>3, SockStates
<1>b. siblings(w) = {} => Alone(v)
  <2> SUFFICES ASSUME siblings(w) = {}, NEW m \in Ids, mem[m].token = mem[v].token, ~InChain(v, m)
               PROVE  ~Spawned(m) /\ ~Conn(m)
    BY DEF Alone
  <2>1. ~Spawned(m) /\ (Alive(m) => mem[m].sock = "Midway" \/ rows[m].member = "Broken")
    BY <1>a
  <2>2. Conn(m) => Alive(m) /\ mem[m].sock # "Midway" /\ rows[m].member = "Pending"
    BY <2>1 DEF CInv, Shapes, RowsShape, Conn, Alive
  <2> QED BY <2>1, <2>2
<1>c. siblings(w) = {} => Free(v) \/ read_midway(rows, mem[w.id].token, C)
  <2> SUFFICES ASSUME siblings(w) = {}, ~read_midway(rows, mem[w.id].token, C), NEW m \in Ids,
                      mem[m].token = mem[v].token, ~InChain(v, m)
               PROVE  ~Flying(m)
    BY DEF Free
  <2>1. Alive(m) => mem[m].sock = "Midway" \/ rows[m].member = "Broken"
    BY <1>a
  <2>2. /\ mem[m].sock # "Midway"
        /\ rows[m].member = "Broken" => mem[m].member \in {"Broken", "Unlisted"}
    BY <1>4 DEF read_midway
  <2> QED BY <2>1, <2>2 DEF Flying
<1>10. siblings(w) = {} => Alone(v) /\ (Free(v) \/ read_midway(rows, mem[w.id].token, C))
  BY <1>b, <1>c
<1>11. a \in BOOLEAN /\ bl \in BOOLEAN /\ hs \in BOOLEAN
  BY DEF other_member_at_peer, other_member_broken_live, other_member_handshaking
<1>12. (a \/ bl) => PeerBeside(v)
  <2> HIDE DEF C
  <2>1. a => PeerBeside(v)
    BY <1>4, SockStates DEF other_member_at_peer, at_peer, PeerBeside
  <2>2. bl => PeerBeside(v)
    <3> SUFFICES ASSUME bl PROVE PeerBeside(v)
      OBVIOUS
    <3>1. PICK e \in Watches : e.id \notin C /\ getsockstate(mem, e.id) = "Connected"
      BY DEF other_member_broken_live
    <3>2. e.id \in Ids
      BY WatchesType
    <3> QED BY <1>4, <3>1, <3>2, SockStates DEF PeerBeside
  <2> QED BY <2>1, <2>2
<1>13. ~a /\ ~bl => Settled(v)
  <2> SUFFICES ASSUME ~a, ~bl PROVE Settled(v)
    OBVIOUS
  <2> HIDE DEF C
  <2>1. \A m \in Ids : ~InChain(v, m) => ~at_peer(rows[m].member, getsockstate(mem, m))
    BY <1>4 DEF other_member_at_peer
  <2>2. ASSUME NEW e \in Watches, ~InChain(v, e.id), rows[e.id].member = "Broken"
        PROVE  getsockstate(mem, e.id) # "Connected"
    <3>1. e.id \in Ids /\ e.id \notin C
      BY <1>4, <2>2, WatchesType
    <3> QED BY <2>2, <3>1 DEF other_member_broken_live
  <2> QED BY <2>1, <2>2 DEF Settled
<1>14. sibling = "up" => \E s \in Ids : /\ ~InChain(v, s) /\ ~Watch(s) /\ Alive(s)
                                        /\ mem[s].token = mem[v].token
  <2> SUFFICES ASSUME sibling = "up"
               PROVE  \E s \in Ids : /\ ~InChain(v, s) /\ ~Watch(s) /\ Alive(s)
                                     /\ mem[s].token = mem[v].token
    OBVIOUS
  <2> HIDE DEF now, fly, sibling
  <2>1. PICK s \in sib : s \in siblings(w)
    BY <1>6
  <2>2. ~Watch(s)
    BY <1>6, <2>1 DEF Watch
  <2>3. ~Spawned(s)
    BY <2>2, WatchesType
  <2> QED BY <1>5, <1>8, <1>9, <2>1, <2>2, <2>3
<1>15. sibling = "watched" => \A s \in sib : /\ s \in Ids /\ Watch(s) /\ s # v
                                             /\ mem[s].token = mem[v].token
                                             /\ Spawned(s) \/ Alive(s)
  <2> SUFFICES ASSUME sibling = "watched", NEW s \in sib
               PROVE  /\ s \in Ids /\ Watch(s) /\ s # v
                      /\ mem[s].token = mem[v].token /\ (Spawned(s) \/ Alive(s))
    OBVIOUS
  <2> HIDE DEF now, fly, sibling
  <2>1. s \in siblings(w)
    BY <1>6
  <2>2. Watch(s)
    BY <1>6, <1>7 DEF Watch
  <2>3. s # v /\ s \in Ids
    BY <2>1, <2>2, SiblingIsOther, WatchesType
  <2> QED BY <1>5, <1>8, <1>9, <2>1, <2>2, <2>3
<1> HIDE DEF a, bl, hs, sibling
<1>16. LET p == repair_plan(w.repairs, sibling, o.at_peer, o.resolving)
       IN /\ p = "CloseNow" => sibling = "none"
          /\ p = "CloseThenSpawn" => sibling = "none" /\ o.at_peer
          /\ p = "SpawnThenClose" => sibling = "none" /\ ~o.at_peer /\ ~o.resolving
          /\ p = "JoinSibling" => sibling = "up" \/ (sibling = "watched" /\ o.at_peer)
          /\ p = "HandToSibling" => sibling = "watched" /\ ~o.at_peer /\ ~o.resolving
  <2>1. o.at_peer \in BOOLEAN /\ o.resolving \in BOOLEAN
    BY <1>2, <1>11
  <2> HIDE DEF o
  <2> QED BY <1>3, <1>6, <2>1, PlanSays
<1>17. o.at_peer => PeerBeside(v)
  BY <1>2, <1>12
<1>18. ~o.at_peer /\ ~o.resolving => Settled(v)
  BY <1>2, <1>11, <1>13
<1>d. C = repair_chain(w)
  OBVIOUS
<1> HIDE DEF o, v, C
<1> QED BY <1>1, <1>6, <1>10, <1>d, <1>14, <1>15, <1>16, <1>17, <1>18 DEF v

-----------------------------------------------------------------------------
(* A look, seen from the chains.                                           *)

\* Members closed and the others.
LEMMA Closed ==
  ASSUME IInv, NEW C, mem' = close_members(mem, C)
  PROVE  \A m \in Ids : /\ mem'[m].token = mem[m].token
                        /\ m \notin C => mem'[m] = mem[m]
                        /\ m \in C => mem'[m].sock = "NonExist" /\ mem'[m].member = "Unlisted"
<1>1. \A m \in Ids : mem[m].token \in Tokens
  BY DEF IInv, TypeOK, Member
<1>2. \A m \in Ids : mem'[m] = IF m \in C THEN Gone(mem[m].token) ELSE mem[m]
  BY DEF close_members
<1> QED BY <1>1, <1>2, GoneType

\* A watch ends.
LEMMA LeftWatch ==
  ASSUME IInv, idx \in 1..Len(watched),
         watched' = swap_remove(watched, idx), spawned' = spawned
  PROVE  /\ \A i \in Ids : Watch(i)' <=> Watch(i) /\ i # watched[idx].id
         /\ \A i, m \in Ids : Owns(i, m)' <=> Owns(i, m) /\ i # watched[idx].id
         /\ \A m \in Ids : Spawned(m)' <=> Spawned(m)
         /\ \A i \in Ids : \A t : Expires(i, t)' => Expires(i, t)
<1>1. Watches' = Rest
  BY RestIs DEF Watches
<1>2. \A i \in Ids : Watch(i)' <=> \E e \in Rest : e.id = i
  BY <1>1 DEF Watch
<1>3. \A i, m \in Ids : Owns(i, m)' <=> \E e \in Rest : e.id = i /\ m \in e.supersedes
  BY <1>1 DEF Owns
<1>4. \A m \in Ids : Spawned(m)' <=> Spawned(m)
  BY DEF Spawned
<1>5. \A i \in Ids : \A t : Expires(i, t)' => Expires(i, t)
  BY <1>1, RestIs DEF Expires
<1> QED BY <1>2, <1>3, <1>4, <1>5, RestIs

\* A watch goes on.
LEMMA KeptWatch ==
  ASSUME IInv, idx \in 1..Len(watched), NEW x, x.id = watched[idx].id,
         x.resolve_by = watched[idx].resolve_by,
         watched' = [watched EXCEPT ![idx] = x], spawned' = spawned
  PROVE  /\ \A i \in Ids : Watch(i)' <=> Watch(i)
         /\ \A i, m \in Ids : Owns(i, m)' <=>
              (Owns(i, m) /\ i # watched[idx].id) \/ (i = watched[idx].id /\ m \in x.supersedes)
         /\ \A m \in Ids : Spawned(m)' <=> Spawned(m)
         /\ \A i \in Ids : \A t : Expires(i, t)' => Expires(i, t)
<1>1. Len(watched') = Len(watched) /\ watched'[idx] = x
      /\ \A j \in 1..Len(watched) : j # idx => watched'[j] = watched[j]
  BY DEF IInv, AreSequences
<1>2. \A e : e \in Elements(watched') <=>
        e = x \/ \E j \in 1..Len(watched) : j # idx /\ e = watched[j]
  <2>1. \A e : e \in Elements(watched') <=> \E j \in 1..Len(watched) : e = watched'[j]
    BY <1>1 DEF Elements
  <2> QED BY ONLY <1>1, <2>1, idx \in 1..Len(watched)
<1>3. \A e : e \in Rest <=> (\E j \in 1..Len(watched) : j # idx /\ e = watched[j])
                            \/ e \in Elements(spawned)
  <2>1. \A j \in 1..Len(watched) : watched[j] = watched[idx] => j = idx
    BY DEF IInv, OneWatch, Distinct
  <2>2. watched[idx] \notin Elements(spawned)
    BY RestIs DEF Elements, Spawned
  <2> QED BY <2>1, <2>2 DEF Rest, Watches, Elements
<1>4. Watches' = Rest \cup {x}
  BY <1>2, <1>3 DEF Watches
<1>5. \A i \in Ids : Watch(i)' <=> (\E e \in Rest : e.id = i) \/ x.id = i
  BY <1>4 DEF Watch
<1>6. \A i, m \in Ids : Owns(i, m)' <=> \/ \E e \in Rest : e.id = i /\ m \in e.supersedes
                                        \/ x.id = i /\ m \in x.supersedes
  BY <1>4 DEF Owns
<1>7. \A m \in Ids : Spawned(m)' <=> Spawned(m)
  BY DEF Spawned
<1>8. \A i \in Ids : Watch(i)' <=> Watch(i)
  BY <1>5, RestIs
<1>9. \A i, m \in Ids : Owns(i, m)' <=>
        (Owns(i, m) /\ i # watched[idx].id) \/ (i = watched[idx].id /\ m \in x.supersedes)
  BY <1>6, RestIs
<1>10. \A i \in Ids : \A t : Expires(i, t)' => Expires(i, t)
  <2>1. \A i \in Ids : \A t : Expires(i, t)' => \/ \E e \in Rest : e.id = i /\ e.resolve_by = t
                                                \/ x.id = i /\ x.resolve_by = t
    BY <1>4 DEF Expires
  <2>2. watched[idx] \in Watches
    BY RestIs
  <2> QED BY <2>1, <2>2 DEF Expires, Rest
<1> QED BY <1>7, <1>8, <1>9, <1>10

\* A chain is handed to another watched member.
LEMMA HandedWatch ==
  ASSUME IInv, idx \in 1..Len(watched), NEW w, NEW o \in Ids, w.id = watched[idx].id,
         w.supersedes = watched[idx].supersedes, HandsTo(w, o), Watch(o), o # w.id
  PROVE  /\ mem' = mem
         /\ \A i \in Ids : Watch(i)' <=> Watch(i) /\ i # w.id
         /\ \A i, m \in Ids : Owns(i, m)' <=> \/ Owns(i, m) /\ i # w.id
                                              \/ i = o /\ InChain(w.id, m)
         /\ \A m \in Ids : Spawned(m)' <=> Spawned(m)
         /\ \A i \in Ids : \A t : Expires(i, t)' => Expires(i, t)
         /\ UNCHANGED misread
<1> DEFINE r == swap_remove(watched, idx)
           C == repair_chain(w)
           Ext(e) == IF e.id = o THEN [e EXCEPT !.supersedes = @ \cup C] ELSE e
<1>1. /\ watched' = [k \in 1..Len(r) |-> Ext(r[k])]
      /\ spawned' = [k \in 1..Len(spawned) |-> Ext(spawned[k])]
      /\ mem' = mem
  BY DEF HandsTo
<1>2. r \in Seq(WatchedMember) /\ spawned \in Seq(WatchedMember)
  BY OthersStay DEF IInv, AreSequences
<1>3. Len(r) \in Nat /\ Len(spawned) \in Nat
  BY <1>2
<1>4. \A m \in Ids : m \in C <=> InChain(w.id, m)
  BY RestIs DEF repair_chain
<1>5. \A e \in WatchedMember : /\ Ext(e).id = e.id /\ Ext(e).resolve_by = e.resolve_by
                               /\ \A m : m \in Ext(e).supersedes <=>
                                           m \in e.supersedes \/ (e.id = o /\ m \in C)
  BY DEF WatchedMember
<1> HIDE DEF r, C, Ext
<1>6. Elements(watched') = {Ext(e) : e \in Elements(r)}
  <2>1. Len(watched') = Len(r) /\ \A k \in 1..Len(r) : watched'[k] = Ext(r[k])
    BY <1>1, <1>3
  <2> QED BY <2>1 DEF Elements
<1>7. Len(spawned') = Len(spawned) /\ \A k \in 1..Len(spawned) : spawned'[k] = Ext(spawned[k])
  BY <1>1, <1>3
<1>8. Elements(spawned') = {Ext(e) : e \in Elements(spawned)}
  BY <1>7 DEF Elements
<1>9. \A e : e \in Watches' <=> \E f \in Rest : e = Ext(f)
  BY <1>6, <1>8, RestIs DEF Watches, r
<1>10. Rest \subseteq WatchedMember
  BY WatchesType DEF Rest
<1>11. \A i \in Ids : Watch(i)' <=> \E e \in Rest : e.id = i
  BY <1>5, <1>9, <1>10 DEF Watch
<1>12. ASSUME NEW i \in Ids, NEW m \in Ids
       PROVE  Owns(i, m)' <=> \E e \in Rest : e.id = i /\ (m \in e.supersedes \/ (i = o /\ m \in C))
  <2>1. Owns(i, m)' <=> \E e \in Rest : Ext(e).id = i /\ m \in Ext(e).supersedes
    BY <1>9 DEF Owns
  <2>2. \A e \in Rest : Ext(e).id = i /\ m \in Ext(e).supersedes
                          <=> e.id = i /\ (m \in e.supersedes \/ (i = o /\ m \in C))
    BY <1>5, <1>10
  <2> QED BY <2>1, <2>2
<1>13. \E e \in Rest : e.id = o
  BY RestIs
<1>14. \A i, m \in Ids : Owns(i, m)' <=> \/ Owns(i, m) /\ i # w.id
                                         \/ i = o /\ InChain(w.id, m)
  <2> TAKE i \in Ids, m \in Ids
  <2>1. Owns(i, m)' <=> \/ \E e \in Rest : e.id = i /\ m \in e.supersedes
                        \/ i = o /\ m \in C
    BY <1>12, <1>13
  <2> QED BY <1>4, <2>1, RestIs
<1>15. \A m \in Ids : Spawned(m)' <=> Spawned(m)
  <2>1. \A k \in 1..Len(spawned) : spawned'[k].id = spawned[k].id
    BY <1>2, <1>5, <1>7, ElementOfSeq
  <2> QED BY <1>7, <2>1 DEF Spawned
<1>16. \A i \in Ids : Watch(i)' <=> Watch(i) /\ i # w.id
  BY <1>11, RestIs
<1>17. \A i \in Ids : \A t : Expires(i, t)' => Expires(i, t)
  <2>1. \A i \in Ids : \A t : Expires(i, t)' => \E e \in Rest : Ext(e).id = i /\ Ext(e).resolve_by = t
    BY <1>9 DEF Expires
  <2> QED BY <1>5, <1>10, <2>1, RestIs
<1>18. UNCHANGED misread
  BY DEF HandsTo
<1> QED BY <1>1, <1>14, <1>15, <1>16, <1>17, <1>18

\* A member nobody refers to, spawned to take w's place.
LEMMA ReplacedWatch ==
  ASSUME IInv, idx \in 1..Len(watched), NEW n \in Ids, NEW e \in WatchedMember, e.id = n,
         watched' = swap_remove(watched, idx), spawned' = Append(spawned, e)
  PROVE  /\ \A i \in Ids : Watch(i)' <=> (Watch(i) /\ i # watched[idx].id) \/ i = n
         /\ \A i, m \in Ids : Owns(i, m)' <=> \/ Owns(i, m) /\ i # watched[idx].id
                                              \/ i = n /\ m \in e.supersedes
         /\ \A m \in Ids : Spawned(m)' <=> Spawned(m) \/ m = n
         /\ \A i \in Ids : \A t : Expires(i, t)' => Expires(i, t) \/ (i = n /\ t = e.resolve_by)
<1>1. spawned \in Seq(WatchedMember) /\ Len(spawned) \in Nat
  BY DEF IInv, AreSequences
<1>2. /\ Len(spawned') = Len(spawned) + 1
      /\ \A i \in 1..Len(spawned) : spawned'[i] = spawned[i]
      /\ spawned'[Len(spawned) + 1] = e
  BY <1>1, AppendChains
<1>3. \A f : f \in Elements(spawned') <=> f \in Elements(spawned) \/ f = e
  <2>1. \A f : f \in Elements(spawned') <=> \E j \in 1..(Len(spawned) + 1) : f = spawned'[j]
    BY <1>2 DEF Elements
  <2>2. \A j : j \in 1..(Len(spawned) + 1) <=> j \in 1..Len(spawned) \/ j = Len(spawned) + 1
    BY <1>1
  <2>3. \A f : f \in Elements(spawned) <=> \E j \in 1..Len(spawned) : f = spawned[j]
    BY DEF Elements
  <2> QED BY <1>2, <2>1, <2>2, <2>3
<1>4. \A f : f \in Watches' <=> f \in Rest \/ f = e
  BY <1>3, RestIs DEF Watches
<1>5. \A i \in Ids : Watch(i)' <=> (\E f \in Rest : f.id = i) \/ i = n
  BY <1>4 DEF Watch
<1>6. \A i, m \in Ids : Owns(i, m)' <=> \/ \E f \in Rest : f.id = i /\ m \in f.supersedes
                                        \/ i = n /\ m \in e.supersedes
  BY <1>4 DEF Owns
<1>7. \A m \in Ids : Spawned(m)' <=> Spawned(m) \/ m = n
  <2>1. \A m : Spawned(m) <=> \E f \in Elements(spawned) : f.id = m
    BY DEF Spawned, Elements
  <2>2. \A m \in Ids : Spawned(m)' <=> \E f \in Elements(spawned') : f.id = m
    BY DEF Spawned, Elements
  <2> QED BY <1>3, <2>1, <2>2
<1>8. \A i \in Ids : Watch(i)' <=> (Watch(i) /\ i # watched[idx].id) \/ i = n
  BY <1>5, RestIs
<1>9. \A i, m \in Ids : Owns(i, m)' <=> \/ Owns(i, m) /\ i # watched[idx].id
                                        \/ i = n /\ m \in e.supersedes
  BY <1>6, RestIs
<1>10. \A i \in Ids : \A t : Expires(i, t)' => Expires(i, t) \/ (i = n /\ t = e.resolve_by)
  <2>1. \A i \in Ids : \A t : Expires(i, t)' => \/ \E f \in Rest : f.id = i /\ f.resolve_by = t
                                                \/ e.id = i /\ e.resolve_by = t
    BY <1>4 DEF Expires
  <2> QED BY <2>1 DEF Expires, Rest
<1> QED BY <1>7, <1>8, <1>9, <1>10

\* v's watch goes on, without the members C it has closed.
Trims(v, C) ==
  /\ mem' = close_members(mem, C)
  /\ \A m \in C : Owns(v, m)
  /\ C # {} => ~Conn(v)
  /\ \A i \in Ids : Watch(i)' <=> Watch(i)
  /\ \A i, m \in Ids : Owns(i, m)' <=> Owns(i, m) /\ ~(i = v /\ m \in C)
  /\ \A m \in Ids : Spawned(m)' <=> Spawned(m)
  /\ \A i \in Ids : \A t : Expires(i, t)' => Expires(i, t)
  /\ UNCHANGED misread

\* v's watch ends: v is done with and what it was to close is closed; or the
\* whole chain is, which was dead, alone, or not alone for its endpoint.
Ends(v, C) ==
  /\ mem' = close_members(mem, C)
  /\ \A m \in Ids : Owns(v, m) => m \in C
  /\ \A m \in C : InChain(v, m)
  /\ \/ ~Conn(v) /\ v \notin C
     \/ /\ v \in C
        /\ \/ ~Alive(v)
           \/ Alone(v)
           \/ PeerBeside(v)
           \/ \E s \in Ids : /\ ~InChain(v, s) /\ ~Watch(s) /\ Alive(s)
                             /\ mem[s].token = mem[v].token
  /\ \A i \in Ids : Watch(i)' <=> Watch(i) /\ i # v
  /\ \A i, m \in Ids : Owns(i, m)' <=> Owns(i, m) /\ i # v
  /\ \A m \in Ids : Spawned(m)' <=> Spawned(m)
  /\ \A i \in Ids : \A t : Expires(i, t)' => Expires(i, t)
  /\ UNCHANGED misread

\* v and its chain pass to o.
Hands(v, o) ==
  /\ mem' = mem
  /\ Watch(o) /\ o # v /\ mem[o].token = mem[v].token /\ (Spawned(o) \/ Alive(o))
  /\ Settled(v)
  /\ \A i \in Ids : Watch(i)' <=> Watch(i) /\ i # v
  /\ \A i, m \in Ids : Owns(i, m)' <=> (Owns(i, m) /\ i # v) \/ (i = o /\ InChain(v, m))
  /\ \A m \in Ids : Spawned(m)' <=> Spawned(m)
  /\ \A i \in Ids : \A t : Expires(i, t)' => Expires(i, t)
  /\ UNCHANGED misread

\* n takes v's place: beside v's chain, which it is to close, or after it.
Replaces(v, n, close_first) ==
  /\ ~Watch(n) /\ \A i \in Ids : ~Owns(i, n)
  /\ ~Alive(n) /\ rows[n].member = "Unlisted"
  /\ \E o \in Outcomes : mem'[n] = SpawnedAs(o, mem[v].token)
  /\ \A m \in Ids : m # n => \/ mem'[m] = mem[m] /\ ~(close_first /\ InChain(v, m))
                             \/ /\ close_first /\ InChain(v, m)
                                /\ mem'[m].sock = "NonExist" /\ mem'[m].member = "Unlisted"
                                /\ mem'[m].token = mem[m].token
  /\ Alone(v)
  /\ misread => misread'
  /\ ~misread' => Free(v)
  /\ close_first => PeerBeside(v)
  /\ ~close_first => Settled(v)
  /\ \A i \in Ids : Watch(i)' <=> (Watch(i) /\ i # v) \/ i = n
  /\ \A i, m \in Ids : Owns(i, m)' <=> \/ Owns(i, m) /\ i # v
                                       \/ i = n /\ ~close_first /\ InChain(v, m)
  /\ \A m \in Ids : Spawned(m)' <=> Spawned(m) \/ m = n
  /\ \A i \in Ids : \A t : Expires(i, t)' =>
       Expires(i, t) \/ (i = n /\ t = CONNECT_TIMEOUT + HANDSHAKE_TTL_SLACK)

\* A replacement is due: the member was seen connected, or its time to resolve
\* is over.
RepairDue(w) == \/ w.live = "Connected"
                \/ w.resolve_by = 0 /\ ~is_terminal_status(w.live)

\* What the verdicts say.
LEMMA VerdictFacts ==
  ASSUME NEW live, NEW row, row.member \in MemberStatus \cup {"Unlisted"}
  PROVE  /\ classify_watched(live, row) \in {"Confirmed", "Masked"} =>
              row.member \in {"Idle", "Running"}
         /\ classify_watched(live, row) \in {"Stranded", "BrokenLive"} => live = "Connected"
<1>1. CASE row.member = "Unlisted"
  BY <1>1 DEF classify_watched
<1>2. CASE row.member = "Broken"
  BY <1>2 DEF classify_watched
<1>3. CASE row.member \in {"Pending", "Idle", "Running"}
  <2> DEFINE strands == live = "Connected" /\ (row.member = "Pending" \/ row.listed = "Connecting")
             up == row.listed = "Connected" /\ row.member \in {"Idle", "Running"}
  <2>1. CASE strands
    <3>1. classify_watched(live, row) = "Stranded"
      BY <1>3, <2>1 DEF classify_watched
    <3> QED BY <2>1, <3>1
  <2>2. CASE ~strands
    <3>1. classify_watched(live, row) =
            IF up THEN IF row.member = "Running" /\ Backup THEN "Masked" ELSE "Confirmed"
            ELSE "Handshaking"
      BY <1>3, <2>2 DEF classify_watched
    <3> QED BY <3>1
  <2> QED BY <2>1, <2>2
<1> QED BY <1>1, <1>2, <1>3 DEF MemberStatus

\* What the decisions say.
LEMMA StepFacts ==
  ASSUME NEW w \in WatchedMember,
         NEW v \in {"Gone", "BrokenLive", "Stranded", "Confirmed", "Masked", "Handshaking"}
  PROVE  /\ next_step(w, v) = "Drop" => v \in {"Gone", "Confirmed"}
         /\ next_step(w, v) = "Abandon" => /\ v = "Handshaking" /\ is_terminal_status(w.live)
                                        /\ ~(w.resolve_by > 0)
         /\ next_step(w, v) = "Repair" =>
              \/ v \in {"Stranded", "BrokenLive"}
              \/ v = "Handshaking" /\ w.resolve_by = 0 /\ ~is_terminal_status(w.live)
<1>1. w.resolve_by \in Nat
  BY Times DEF WatchedMember
<1>2. CASE v = "Gone"
  BY <1>2 DEF next_step
<1>3. CASE v \in {"BrokenLive", "Stranded"}
  BY <1>3 DEF next_step
<1>4. CASE v \in {"Confirmed", "Masked"}
  BY <1>4 DEF next_step
<1>5. CASE v = "Handshaking"
  <2>1. next_step(w, v) = IF w.resolve_by > 0 THEN "Keep"
                          ELSE IF is_terminal_status(w.live) THEN "Abandon" ELSE "Repair"
    BY <1>5 DEF next_step
  <2> QED BY <1>1, <1>5, <2>1
<1> QED BY <1>2, <1>3, <1>4, <1>5

\* A replacement that could not be spawned ends the watch; else it takes over.
LEMMA RespawnCases ==
  ASSUME IInv, idx \in 1..Len(watched), NEW w \in WatchedMember, NEW close_first \in BOOLEAN,
         w.id = watched[idx].id, w.supersedes = watched[idx].supersedes,
         w.repairs < MAX_STRANDED_REPAIRS, Respawns(w, close_first),
         Alone(w.id), Free(w.id) \/ read_midway(rows, mem[w.id].token, repair_chain(w)),
         close_first => PeerBeside(w.id), ~close_first => Settled(w.id)
  PROVE  \/ \E C \in SUBSET Ids : Ends(w.id, C)
         \/ \E n \in Ids : Replaces(w.id, n, close_first)
<1> DEFINE v == w.id
           C == repair_chain(w)
           M == IF close_first THEN close_members(mem, C) ELSE mem
           tok == mem[w.id].token
<1>1. C \in SUBSET Ids /\ v \in Ids /\ v \in C
  BY DEF repair_chain, WatchedMember
<1>2. \A m : m \in C <=> InChain(v, m)
  BY RestIs DEF repair_chain
<1>3. CASE mem' = close_members(mem, C) /\ UNCHANGED <<misread, spawned>>
  <2>1. watched' = swap_remove(watched, idx)
    BY DEF Respawns
  <2>2. \A m \in Ids : Owns(v, m) => m \in C
    BY <1>2, RestIs DEF InChain
  <2>3. /\ \A i \in Ids : Watch(i)' <=> Watch(i) /\ i # v
        /\ \A i, m \in Ids : Owns(i, m)' <=> Owns(i, m) /\ i # v
        /\ \A m \in Ids : Spawned(m)' <=> Spawned(m)
        /\ \A i \in Ids : \A t : Expires(i, t)' => Expires(i, t)
    BY <1>3, <2>1, LeftWatch
  <2>4. Ends(v, C)
    <3> HIDE DEF C
    <3> QED BY <1>1, <1>2, <1>3, <2>2, <2>3 DEF Ends
  <2> QED BY <1>1, <2>4
<1>4. CASE \E n \in NewIds(M, Elements(watched) \cup Elements(spawned)), o \in Outcomes :
             /\ mem' = [M EXCEPT ![n] = SpawnedAs(o, tok)]
             /\ misread' = (misread \/ read_midway(rows, tok, C))
             /\ spawned' = Append(spawned,
                  [new_watched(connect_group(mem', n, o, M)) EXCEPT !.repairs = w.repairs + 1,
                                         !.supersedes = IF close_first THEN {} ELSE C])
  <2> PICK n \in NewIds(M, Elements(watched) \cup Elements(spawned)), o \in Outcomes :
             /\ mem' = [M EXCEPT ![n] = SpawnedAs(o, tok)]
             /\ misread' = (misread \/ read_midway(rows, tok, C))
             /\ spawned' = Append(spawned,
                  [new_watched(connect_group(mem', n, o, M)) EXCEPT !.repairs = w.repairs + 1,
                                         !.supersedes = IF close_first THEN {} ELSE C])
    BY <1>4
  <2> DEFINE e == [new_watched(n) EXCEPT !.repairs = w.repairs + 1,
                                         !.supersedes = IF close_first THEN {} ELSE C]
  <2>0. tok \in Tokens /\ M \in [Ids -> Member]
    <3>1. tok \in Tokens /\ mem \in [Ids -> Member]
      BY <1>1 DEF IInv, TypeOK, Member
    <3> HIDE DEF C
    <3> QED BY <3>1, CloseMembers
  <2>1. watched' = swap_remove(watched, idx) /\ spawned' = Append(spawned, e)
    <3>1. connect_group(mem', n, o, M) = n
      <4> HIDE DEF M, C, tok
      <4>1. n \in Ids /\ M[n].member = "Unlisted"
        BY NewIdIsFresh
      <4> QED BY <2>0, <4>1, ConnectOneIs
    <3>2. watched' = swap_remove(watched, idx)
      BY DEF Respawns
    <3> HIDE DEF M, C, tok
    <3> QED BY <3>1, <3>2
  <2>2. /\ n \in Ids /\ M[n].sock = "NonExist" /\ rows[n].member = "Unlisted"
        /\ \A x \in Watches : n # x.id /\ n \notin x.supersedes
    BY DEF NewIds, Watches
  <2> HIDE DEF C
  <2>3. /\ e \in WatchedMember /\ e.id = n /\ e.supersedes = IF close_first THEN {} ELSE C
        /\ e.resolve_by = CONNECT_TIMEOUT + HANDSHAKE_TTL_SLACK
    <3>1. /\ new_watched(n) \in WatchedMember /\ new_watched(n).id = n
          /\ new_watched(n).resolve_by = CONNECT_TIMEOUT + HANDSHAKE_TTL_SLACK
      BY <2>2, NewWatchedType DEF new_watched
    <3>2. w.repairs + 1 \in 0..MAX_STRANDED_REPAIRS
      <4>1. w.repairs \in Nat /\ MAX_STRANDED_REPAIRS \in Nat
        BY ONLY Times, w \in WatchedMember DEF WatchedMember
      <4> QED BY ONLY <4>1, w.repairs < MAX_STRANDED_REPAIRS
    <3>3. (IF close_first THEN {} ELSE C) \in SUBSET Ids
      BY <1>1
    <3> QED BY <3>1, <3>2, <3>3 DEF WatchedMember
  <2> HIDE DEF e
  <2>4. ~Watch(n) /\ \A i \in Ids : ~Owns(i, n)
    BY <2>2 DEF Watch, Owns
  <2>5. ~InChain(v, n)
    BY <1>1, <2>4, RestIs DEF InChain
  <2>6. /\ M \in [Ids -> Member]
        /\ \A m \in Ids : m \notin C \/ ~close_first => M[m] = mem[m]
        /\ \A m \in Ids : m \in C /\ close_first =>
             M[m].sock = "NonExist" /\ M[m].member = "Unlisted" /\ M[m].token = mem[m].token
    <3>1. mem \in [Ids -> Member] /\ \A m \in Ids : mem[m].token \in Tokens
      BY DEF IInv, TypeOK, Member
    <3>2. close_members(mem, C) \in [Ids -> Member]
      BY <3>1, CloseMembers
    <3>3. \A m \in Ids : close_members(mem, C)[m] = IF m \in C THEN Gone(mem[m].token) ELSE mem[m]
      BY DEF close_members
    <3> QED BY <3>1, <3>2, <3>3, GoneType
  <2> HIDE DEF M
  <2>7. mem'[n] = SpawnedAs(o, tok) /\ \A m \in Ids : m # n => mem'[m] = M[m]
    BY <2>2, <2>6
  <2>8. ~Alive(n)
    BY <1>2, <2>2, <2>5, <2>6 DEF Alive
  <2>9. \A m \in Ids : m # n => \/ mem'[m] = mem[m] /\ ~(close_first /\ InChain(v, m))
                                \/ /\ close_first /\ InChain(v, m)
                                   /\ mem'[m].sock = "NonExist" /\ mem'[m].member = "Unlisted"
                                   /\ mem'[m].token = mem[m].token
    BY <1>2, <2>6, <2>7
  <2>10. /\ \A i \in Ids : Watch(i)' <=> (Watch(i) /\ i # v) \/ i = n
         /\ \A i, m \in Ids : Owns(i, m)' <=> \/ Owns(i, m) /\ i # v
                                              \/ i = n /\ m \in e.supersedes
         /\ \A m \in Ids : Spawned(m)' <=> Spawned(m) \/ m = n
         /\ \A i \in Ids : \A t : Expires(i, t)' => Expires(i, t) \/ (i = n /\ t = e.resolve_by)
    BY <2>1, <2>2, <2>3, ReplacedWatch
  <2>11. \A i, m \in Ids : Owns(i, m)' <=> \/ Owns(i, m) /\ i # v
                                           \/ i = n /\ ~close_first /\ InChain(v, m)
    BY <1>2, <2>3, <2>10
  <2>13. (misread => misread') /\ (~misread' => Free(v))
    <3>1. misread' = (misread \/ read_midway(rows, tok, C))
      OBVIOUS
    <3>2. Free(v) \/ read_midway(rows, tok, C)
      BY DEF C
    <3> HIDE DEF tok, v
    <3> QED BY <3>1, <3>2
  <2>12. Replaces(v, n, close_first)
    BY <2>2, <2>3, <2>13, <2>4, <2>7, <2>8, <2>9, <2>10, <2>11 DEF Replaces
  <2> QED BY <2>2, <2>12
<1> QED BY <1>3, <1>4 DEF Respawns

\* Whatever the plan.
LEMMA RepairCases ==
  ASSUME IInv, CInv, phase = "look", idx \in 1..Len(watched),
         NEW w \in WatchedMember, NEW verdict,
         w.id = watched[idx].id, w.supersedes = watched[idx].supersedes,
         w.resolve_by = watched[idx].resolve_by,
         repair_stranded(w, verdict)
  PROVE  \/ Trims(w.id, {})
         \/ \E C \in SUBSET Ids : Ends(w.id, C)
         \/ \E o \in Ids : Hands(w.id, o)
         \/ \E n \in Ids, close_first \in BOOLEAN : Replaces(w.id, n, close_first)
<1> DEFINE broken == verdict = "BrokenLive"
           v == w.id
<1> PICK sib \in IF siblings(w) = {} THEN {{}} ELSE {{m} : m \in siblings(w)} :
      \/ plan_repair(w, broken, sib) = "Wait" /\ Stays(w)
      \/ plan_repair(w, broken, sib) \in {"JoinSibling", "CloseNow"} /\ ClosesChain(w)
      \/ plan_repair(w, broken, sib) = "HandToSibling" /\ \E other \in sib : HandsTo(w, other)
      \/ plan_repair(w, broken, sib) = "CloseThenSpawn" /\ Respawns(w, TRUE)
      \/ plan_repair(w, broken, sib) = "SpawnThenClose" /\ Respawns(w, FALSE)
  BY DEF repair_stranded
<1> DEFINE plan == plan_repair(w, broken, sib)
<1>1. /\ plan \in {"CloseNow", "CloseThenSpawn", "SpawnThenClose"} =>
           /\ Alone(v)
           /\ Free(v) \/ read_midway(rows, mem[w.id].token, repair_chain(w))
      /\ plan = "CloseThenSpawn" => PeerBeside(v)
      /\ plan = "JoinSibling" =>
           \/ PeerBeside(v)
           \/ \E s \in Ids : ~InChain(v, s) /\ ~Watch(s) /\ Alive(s) /\ mem[s].token = mem[v].token
      /\ plan \in {"HandToSibling", "SpawnThenClose"} => Settled(v)
      /\ plan = "HandToSibling" => \A o \in sib : /\ o \in Ids /\ Watch(o) /\ o # v
                                                  /\ mem[o].token = mem[v].token
                                                  /\ Spawned(o) \/ Alive(o)
  <2>1. broken \in BOOLEAN
    OBVIOUS
  <2> HIDE DEF broken
  <2> QED BY <2>1, PlanFacts
<1>2. plan \in {"CloseThenSpawn", "SpawnThenClose"} => w.repairs < MAX_STRANDED_REPAIRS
  <2> HIDE DEF broken
  <2> QED BY PlanRepair
<1> HIDE DEF plan
<1>3. repair_chain(w) \in SUBSET Ids /\ v \in repair_chain(w)
      /\ \A m : m \in repair_chain(w) <=> InChain(v, m)
  BY RestIs DEF repair_chain, WatchedMember
<1>4. CASE Stays(w)
  <2>1. /\ watched' = [watched EXCEPT ![idx] = w] /\ spawned' = spawned /\ UNCHANGED misread
        /\ mem' = close_members(mem, {})
    BY <1>4, CloseNone DEF Stays
  <2>2. /\ \A i \in Ids : Watch(i)' <=> Watch(i)
        /\ \A i, m \in Ids : Owns(i, m)' <=> (Owns(i, m) /\ i # v) \/ (i = v /\ m \in w.supersedes)
        /\ \A m \in Ids : Spawned(m)' <=> Spawned(m)
        /\ \A i \in Ids : \A t : Expires(i, t)' => Expires(i, t)
    BY <2>1, KeptWatch
  <2>3. \A i, m \in Ids : Owns(i, m)' <=> Owns(i, m)
    BY <2>2, RestIs
  <2>4. Trims(v, {})
    BY <2>1, <2>2, <2>3 DEF Trims
  <2> QED BY <2>4
<1>5. CASE plan \in {"JoinSibling", "CloseNow"} /\ ClosesChain(w)
  <2>1. /\ watched' = swap_remove(watched, idx) /\ spawned' = spawned /\ UNCHANGED misread
        /\ mem' = close_members(mem, repair_chain(w))
    BY <1>5 DEF ClosesChain, Leaves
  <2>2. \A m \in Ids : Owns(v, m) => m \in repair_chain(w)
    BY <1>3, RestIs DEF InChain
  <2>3. /\ \A i \in Ids : Watch(i)' <=> Watch(i) /\ i # v
        /\ \A i, m \in Ids : Owns(i, m)' <=> Owns(i, m) /\ i # v
        /\ \A m \in Ids : Spawned(m)' <=> Spawned(m)
        /\ \A i \in Ids : \A t : Expires(i, t)' => Expires(i, t)
    BY <2>1, LeftWatch
  <2>4. Ends(v, repair_chain(w))
    BY <1>1, <1>3, <1>5, <2>1, <2>2, <2>3 DEF Ends
  <2> QED BY <1>3, <2>4
<1>6. CASE plan = "HandToSibling" /\ \E other \in sib : HandsTo(w, other)
  <2>1. PICK o \in sib : HandsTo(w, o)
    BY <1>6
  <2>2. /\ o \in Ids /\ Watch(o) /\ o # v /\ mem[o].token = mem[v].token
        /\ Spawned(o) \/ Alive(o)
    BY <1>1, <1>6
  <2>3. /\ mem' = mem
        /\ \A i \in Ids : Watch(i)' <=> Watch(i) /\ i # v
        /\ \A i, m \in Ids : Owns(i, m)' <=> (Owns(i, m) /\ i # v) \/ (i = o /\ InChain(v, m))
        /\ \A m \in Ids : Spawned(m)' <=> Spawned(m)
        /\ \A i \in Ids : \A t : Expires(i, t)' => Expires(i, t)
        /\ UNCHANGED misread
    BY <2>1, <2>2, HandedWatch
  <2>4. Hands(v, o)
    BY <1>1, <1>6, <2>2, <2>3 DEF Hands
  <2> QED BY <2>2, <2>4
<1>7. CASE plan = "CloseThenSpawn" /\ Respawns(w, TRUE)
  <2>1. (\E C \in SUBSET Ids : Ends(v, C)) \/ (\E n \in Ids : Replaces(v, n, TRUE))
    BY <1>1, <1>2, <1>7, RespawnCases
  <2> QED BY <2>1
<1>8. CASE plan = "SpawnThenClose" /\ Respawns(w, FALSE)
  <2>1. (\E C \in SUBSET Ids : Ends(v, C)) \/ (\E n \in Ids : Replaces(v, n, FALSE))
    BY <1>1, <1>2, <1>8, RespawnCases
  <2> QED BY <2>1
<1> QED BY <1>4, <1>5, <1>6, <1>7, <1>8 DEF plan

\* One look, seen from the chains.
LEMMA LookCases ==
  ASSUME IInv, CInv, Look
  PROVE  LET v == watched[idx].id
         IN /\ phase = "look" /\ idx \in 1..Len(watched) /\ v \in Ids
            /\ UNCHANGED <<last_status, adds, hangs, phase, rows>>
            /\ \/ \E C \in SUBSET Ids : Trims(v, C)
               \/ \E C \in SUBSET Ids : Ends(v, C)
               \/ /\ RepairDue(watched[idx])
                  /\ \/ \E o \in Ids : Hands(v, o)
                     \/ \E n \in Ids, close_first \in BOOLEAN : Replaces(v, n, close_first)
<1> DEFINE w0 == watched[idx]
           v == w0.id
           verdict == classify_watched(w0.live, rows[w0.id])
           up == verdict \in {"Confirmed", "Masked"} /\ w0.supersedes # {}
           at == IF up /\ w0.close_superseded_at = None THEN LINGER ELSE w0.close_superseded_at
           due == up /\ at = 0
           w1 == [w0 EXCEPT !.close_superseded_at = at,
                            !.supersedes = IF due THEN {} ELSE @]
           w == [w1 EXCEPT !.stranded_since = since_after(w1, verdict)]
           step == next_step(w1, verdict)
           lingered == IF due THEN w0.supersedes ELSE {}
           wk == [w EXCEPT !.not_before = IF step = "Recheck" THEN MASKED_MEMBER_RECHECK ELSE @]
<1>1. /\ phase = "look" /\ idx \in 1..Len(watched)
      /\ UNCHANGED <<last_status, adds, hangs, phase, rows>>
  <2>1. phase = "look" /\ idx <= Len(watched) /\ UNCHANGED <<last_status, adds, hangs, phase, rows>>
    BY DEF Look
  <2>2. idx \in Nat \ {0} /\ Len(watched) \in Nat
    BY WatchedFields, Times DEF IInv, TypeOK
  <2> QED BY <2>1, <2>2
<1>2. \/ Stays(w0)
      \/ /\ watched' = [watched EXCEPT ![idx] = wk] /\ idx' = idx + 1
         /\ mem' = close_members(mem, lingered) /\ UNCHANGED <<misread, spawned>>
      \/ step = "Drop" /\ Leaves(w1.supersedes \cup lingered)
      \/ step = "Abandon" /\ Leaves(repair_chain(w))
      \/ step = "Repair" /\ repair_stranded(w, verdict)
  BY DEF Look
<1>3. w0 \in WatchedMember /\ v \in Ids /\ w0.supersedes \in SUBSET Ids
  BY <1>1, WatchedFields DEF WatchedMember
<1>4. rows[v].member \in MemberStatus \cup {"Unlisted"}
  BY <1>3 DEF IInv, TypeOK
<1>5. /\ verdict \in {"Gone", "BrokenLive", "Stranded", "Confirmed", "Masked", "Handshaking"}
      /\ verdict = "Gone" => \/ rows[v].member = "Unlisted"
                             \/ (rows[v].member = "Broken" /\ w0.live # "Connected")
      /\ verdict \in {"Confirmed", "Masked"} => rows[v].member \in {"Idle", "Running"}
      /\ verdict \in {"Stranded", "BrokenLive"} => w0.live = "Connected"
  BY <1>4, Verdicts, VerdictFacts
<1>6. /\ ~Spawned(v)
      /\ \A m : Owns(v, m) <=> m \in w0.supersedes
      /\ \A m : InChain(v, m) <=> m = v \/ m \in w0.supersedes
      /\ \A m \in Ids : Owns(v, m) => m # v
  <2>1. /\ ~Spawned(v) /\ Watch(v)
        /\ \A m : Owns(v, m) <=> m \in w0.supersedes
        /\ \A m : InChain(v, m) <=> m = v \/ m \in w0.supersedes
    BY <1>1, RestIs
  <2> QED BY <1>3, <2>1 DEF CInv, Chains, OwnedApart
<1>7. verdict \in {"Gone", "Confirmed", "Masked"} => ~Conn(v)
  <2>1. Conn(v) => rows[v].member = "Pending"
    BY <1>1, <1>3, <1>6 DEF CInv, Shapes, RowsShape
  <2> HIDE DEF verdict, v, w0
  <2> QED BY <1>5, <2>1
<1>8. is_terminal_status(w0.live) /\ ~(w0.resolve_by > 0) => ~Alive(v)
  BY <1>1 DEF CInv, Shapes, LiveShape
<1>9. at \in None..LINGER /\ (due => verdict \in {"Confirmed", "Masked"})
  BY <1>3, Times DEF WatchedMember, None
<1> HIDE DEF verdict, at, due
<1>10. /\ w1 \in WatchedMember /\ w1.id = v /\ w1.live = w0.live
       /\ w1.resolve_by = w0.resolve_by
       /\ w1.supersedes = IF due THEN {} ELSE w0.supersedes
  <2> HIDE DEF w0
  <2>1. w1 = [w0 EXCEPT !.close_superseded_at = at,
                        !.supersedes = IF due THEN {} ELSE w0.supersedes]
    BY <1>3 DEF WatchedMember
  <2>2. (IF due THEN {} ELSE w0.supersedes) \in SUBSET Ids
    BY <1>3
  <2> HIDE DEF w1
  <2> QED BY <1>3, <1>9, <2>1, <2>2 DEF WatchedMember
<1> HIDE DEF w1
<1>11. since_after(w1, verdict) \in None..STRANDED_MEMBER_GRACE
  BY <1>5, <1>10, NextSteps
<1>12. /\ step = "Drop" => verdict \in {"Gone", "Confirmed"}
       /\ step = "Abandon" => /\ verdict = "Handshaking" /\ is_terminal_status(w0.live)
                              /\ ~(w0.resolve_by > 0)
       /\ step = "Repair" => \/ verdict \in {"Stranded", "BrokenLive"}
                             \/ verdict = "Handshaking" /\ w0.resolve_by = 0
                                /\ ~is_terminal_status(w0.live)
  BY <1>5, <1>10, StepFacts
<1>13. w \in WatchedMember /\ w.id = v /\ w.supersedes = w1.supersedes
       /\ w.resolve_by = w0.resolve_by
  BY <1>10, <1>11 DEF WatchedMember
<1> HIDE DEF w, step
<1>14. wk \in WatchedMember /\ wk.id = v /\ wk.supersedes = w1.supersedes
       /\ wk.resolve_by = w0.resolve_by
  <2> DEFINE nb == IF step = "Recheck" THEN MASKED_MEMBER_RECHECK ELSE w.not_before
  <2>1. nb \in 0..MASKED_MEMBER_RECHECK
    BY <1>13, Times DEF WatchedMember
  <2>2. wk = [w EXCEPT !.not_before = nb]
    BY <1>13 DEF WatchedMember
  <2> HIDE DEF wk, nb
  <2> QED BY <1>13, <2>1, <2>2 DEF WatchedMember
<1> HIDE DEF wk
<1>15. /\ \A m : m \in lingered => m \in w0.supersedes
       /\ lingered # {} => ~Conn(v)
       /\ \A m : m \in w1.supersedes \cup lingered <=> m \in w0.supersedes
       /\ \A m : m \in w1.supersedes <=> m \in w0.supersedes /\ m \notin lingered
       /\ lingered \in SUBSET Ids /\ w1.supersedes \cup lingered \in SUBSET Ids
  BY <1>3, <1>7, <1>9, <1>10
<1> HIDE DEF lingered
<1>16. CASE Stays(w0)
  <2>1. /\ watched' = [watched EXCEPT ![idx] = w0] /\ spawned' = spawned /\ UNCHANGED misread
        /\ mem' = close_members(mem, {})
    BY <1>16, CloseNone DEF Stays
  <2>2. /\ \A i \in Ids : Watch(i)' <=> Watch(i)
        /\ \A i, m \in Ids : Owns(i, m)' <=> (Owns(i, m) /\ i # v) \/ (i = v /\ m \in w0.supersedes)
        /\ \A m \in Ids : Spawned(m)' <=> Spawned(m)
        /\ \A i \in Ids : \A t : Expires(i, t)' => Expires(i, t)
    BY <1>1, <2>1, KeptWatch
  <2>3. \A i, m \in Ids : Owns(i, m)' <=> Owns(i, m)
    BY <1>6, <2>2
  <2>4. Trims(v, {})
    BY <2>1, <2>2, <2>3 DEF Trims
  <2>5. {} \in SUBSET Ids
    OBVIOUS
  <2> QED BY <1>1, <1>3, <2>4, <2>5
<1>17. CASE /\ watched' = [watched EXCEPT ![idx] = wk] /\ idx' = idx + 1
            /\ mem' = close_members(mem, lingered) /\ UNCHANGED <<misread, spawned>>
  <2>1. /\ \A i \in Ids : Watch(i)' <=> Watch(i)
        /\ \A i, m \in Ids : Owns(i, m)' <=> (Owns(i, m) /\ i # v) \/ (i = v /\ m \in wk.supersedes)
        /\ \A m \in Ids : Spawned(m)' <=> Spawned(m)
        /\ \A i \in Ids : \A t : Expires(i, t)' => Expires(i, t)
    BY <1>1, <1>14, <1>17, KeptWatch
  <2>2. \A i, m \in Ids : Owns(i, m)' <=> Owns(i, m) /\ ~(i = v /\ m \in lingered)
    BY <1>6, <1>14, <1>15, <2>1
  <2>3. Trims(v, lingered)
    <3> HIDE DEF v
    <3> QED BY <1>6, <1>15, <1>17, <2>1, <2>2 DEF Trims
  <2> QED BY <1>1, <1>3, <1>15, <2>3
<1>18. CASE step = "Drop" /\ Leaves(w1.supersedes \cup lingered)
  <2> DEFINE D == w1.supersedes \cup lingered
  <2>1. /\ watched' = swap_remove(watched, idx) /\ spawned' = spawned /\ UNCHANGED misread
        /\ mem' = close_members(mem, D)
    BY <1>18 DEF Leaves
  <2>2. \A m : m \in D <=> m \in w0.supersedes
    BY <1>15
  <2>3. /\ \A i \in Ids : Watch(i)' <=> Watch(i) /\ i # v
        /\ \A i, m \in Ids : Owns(i, m)' <=> Owns(i, m) /\ i # v
        /\ \A m \in Ids : Spawned(m)' <=> Spawned(m)
        /\ \A i \in Ids : \A t : Expires(i, t)' => Expires(i, t)
    BY <1>1, <2>1, LeftWatch
  <2>4. ~Conn(v) /\ v \notin D
    BY <1>3, <1>6, <1>7, <1>12, <1>18, <2>2
  <2>5. D \in SUBSET Ids
    BY <1>15
  <2> HIDE DEF D, v
  <2>6. Ends(v, D)
    BY <1>6, <2>1, <2>2, <2>3, <2>4 DEF Ends
  <2> QED BY <1>1, <1>3, <2>5, <2>6 DEF v
<1>19. CASE step = "Abandon" /\ Leaves(repair_chain(w))
  <2> DEFINE D == repair_chain(w)
  <2>1. /\ watched' = swap_remove(watched, idx) /\ spawned' = spawned /\ UNCHANGED misread
        /\ mem' = close_members(mem, D)
    BY <1>19 DEF Leaves
  <2>2. ~Alive(v) /\ ~due
    BY <1>8, <1>9, <1>12, <1>19
  <2>3. \A m : m \in D <=> m = v \/ m \in w0.supersedes
    BY <1>10, <1>13, <2>2 DEF repair_chain
  <2>4. /\ \A i \in Ids : Watch(i)' <=> Watch(i) /\ i # v
        /\ \A i, m \in Ids : Owns(i, m)' <=> Owns(i, m) /\ i # v
        /\ \A m \in Ids : Spawned(m)' <=> Spawned(m)
        /\ \A i \in Ids : \A t : Expires(i, t)' => Expires(i, t)
    BY <1>1, <2>1, LeftWatch
  <2>5. D \in SUBSET Ids
    BY <1>3, <2>3
  <2> HIDE DEF D, v
  <2>6. Ends(v, D)
    BY <1>6, <2>1, <2>2, <2>3, <2>4 DEF Ends
  <2> QED BY <1>1, <1>3, <2>5, <2>6 DEF v
<1>20. CASE step = "Repair" /\ repair_stranded(w, verdict)
  <2>1. ~due
    BY <1>9, <1>12, <1>20
  <2>2. w.supersedes = w0.supersedes /\ w.resolve_by = w0.resolve_by
    BY <1>10, <1>13, <2>1
  <2>3. RepairDue(w0)
    BY <1>5, <1>12, <1>20 DEF RepairDue
  <2>4. \/ Trims(w.id, {})
        \/ \E C \in SUBSET Ids : Ends(w.id, C)
        \/ \E o \in Ids : Hands(w.id, o)
        \/ \E n \in Ids, close_first \in BOOLEAN : Replaces(w.id, n, close_first)
    BY <1>1, <1>13, <1>20, <2>2, RepairCases
  <2>5. \/ Trims(v, {})
        \/ \E C \in SUBSET Ids : Ends(v, C)
        \/ \E o \in Ids : Hands(v, o)
        \/ \E n \in Ids, close_first \in BOOLEAN : Replaces(v, n, close_first)
    BY <1>13, <2>4
  <2>6. {} \in SUBSET Ids
    OBVIOUS
  <2> QED BY <1>1, <1>3, <2>3, <2>5, <2>6
<1> QED BY <1>2, <1>16, <1>17, <1>18, <1>19, <1>20

-----------------------------------------------------------------------------
(* A look keeps the chains.                                                *)

\* A member just spawned.
LEMMA SpawnedShape ==
  ASSUME NEW o \in Outcomes, NEW tok
  PROVE  /\ SpawnedAs(o, tok).token = tok /\ SpawnedAs(o, tok).ttl = CONNECT_TIMEOUT
         /\ SpawnedAs(o, tok).member # "Unlisted"
         /\ SpawnedAs(o, tok).sock = "Connecting" => SpawnedAs(o, tok).member = "Pending"
<1>1. /\ o[2] \in {"Pending", "Idle", "Broken"}
      /\ o[1] = "Connecting" => o[2] = "Pending"
  <2>1. CASE o = <<"Connecting", "Pending", "Connecting", FALSE, TRUE>>
    BY <2>1
  <2>2. CASE o = <<"Connected", "Idle", "Connected", FALSE, TRUE>>
    BY <2>2
  <2>3. CASE o = <<"Connected", "Pending", "Connected", TRUE, TRUE>>
    BY <2>3
  <2>4. CASE o = <<"Connected", "Pending", "Connecting", TRUE, TRUE>>
    BY <2>4
  <2>5. CASE o = <<"Connected", "Idle", "Connected", FALSE, FALSE>>
    BY <2>5
  <2>6. CASE o = <<"Connected", "Broken", "Connected", TRUE, FALSE>>
    BY <2>6
  <2>7. CASE o = <<"Midway", "Broken", "Broken", FALSE, FALSE>>
    BY <2>7
  <2> QED BY <2>1, <2>2, <2>3, <2>4, <2>5, <2>6, <2>7 DEF Outcomes
<1> QED BY <1>1 DEF SpawnedAs

\* What was read stays true of the members: those there were are as they were
\* or closed, those spawned (N) are not in what was read.
LEMMA ShapesLook ==
  ASSUME IInv, CInv, LooksOn, phase = "look", UNCHANGED <<phase, rows>>, NEW N \in SUBSET Ids,
         \A m \in Ids \ N : /\ \/ mem'[m] = mem[m]
                               \/ mem'[m].sock = "NonExist" /\ mem'[m].member = "Unlisted"
                            /\ Spawned(m)' <=> Spawned(m),
         \A n \in N : /\ ~Watch(n) /\ rows[n].member = "Unlisted" /\ Spawned(n)'
                      /\ \E o \in Outcomes, tok \in Tokens : mem'[n] = SpawnedAs(o, tok)
  PROVE  Shapes'
<1>1. \A n \in N : /\ mem'[n].member # "Unlisted"
                   /\ mem'[n].sock = "Connecting" => mem'[n].member = "Pending"
  BY SpawnedShape
<1>2. MemShape'
  <2> SUFFICES ASSUME NEW m \in Ids
               PROVE  /\ mem'[m].member = "Unlisted" => mem'[m].sock = "NonExist"
                      /\ mem'[m].sock = "Connecting" => mem'[m].member = "Pending"
    BY DEF MemShape, Alive, Conn
  <2>1. CASE m \in N
    BY <1>1, <2>1
  <2>2. CASE m \notin N /\ mem'[m] = mem[m]
    BY <2>2 DEF CInv, Shapes, MemShape, Alive, Conn
  <2>3. CASE mem'[m].sock = "NonExist" /\ mem'[m].member = "Unlisted"
    BY <2>3
  <2> QED BY <2>1, <2>2, <2>3
<1>3. RowsShape'
  <2> SUFFICES ASSUME NEW m \in Ids
               PROVE  /\ Spawned(m)' => rows[m].member = "Unlisted"
                      /\ Alive(m)' /\ ~Spawned(m)' => rows[m].member # "Unlisted"
                      /\ Conn(m)' /\ ~Spawned(m)' => rows[m].member = "Pending"
    BY DEF RowsShape
  <2>1. CASE m \in N
    BY <2>1
  <2>2. CASE m \notin N
    <3>1. /\ Spawned(m) => rows[m].member = "Unlisted"
          /\ Alive(m) /\ ~Spawned(m) => rows[m].member # "Unlisted"
          /\ Conn(m) /\ ~Spawned(m) => rows[m].member = "Pending"
      BY DEF CInv, Shapes, RowsShape
    <3>2. CASE mem'[m] = mem[m]
      BY <2>2, <3>1, <3>2 DEF Alive, Conn
    <3>3. CASE mem'[m].sock = "NonExist"
      BY <2>2, <3>1, <3>3 DEF Alive, Conn
    <3> QED BY <2>2, <3>2, <3>3
  <2> QED BY <2>1, <2>2
<1>4. LiveShape'
  <2> SUFFICES ASSUME NEW k \in 1..Len(watched')
               PROVE  /\ is_terminal_status(watched'[k].live) =>
                           mem'[watched'[k].id].sock = "NonExist" \/ watched'[k].resolve_by > 0
                      /\ watched'[k].live = "Connected" =>
                           mem'[watched'[k].id].sock \in {"Connected", "NonExist"}
    BY DEF LiveShape, Alive
  <2>1. PICK j \in 1..Len(watched) :
          /\ watched'[k].id = watched[j].id /\ watched'[k].live = watched[j].live
          /\ watched'[k].resolve_by = watched[j].resolve_by
    BY DEF LooksOn, SameWatch
  <2>2. watched[j].id \in Ids /\ watched[j].id \notin N
    <3>1. Watch(watched[j].id)
      BY DEF Watch, Watches, Elements
    <3> QED BY <3>1, WatchedFields
  <2>3. /\ is_terminal_status(watched[j].live) =>
             mem[watched[j].id].sock = "NonExist" \/ watched[j].resolve_by > 0
        /\ watched[j].live = "Connected" => mem[watched[j].id].sock \in {"Connected", "NonExist"}
    BY DEF CInv, Shapes, LiveShape, Alive
  <2>4. mem'[watched[j].id] = mem[watched[j].id] \/ mem'[watched[j].id].sock = "NonExist"
    BY <2>2
  <2> QED BY <2>1, <2>3, <2>4
<1> QED BY <1>2, <1>3, <1>4 DEF Shapes

\* A look that only takes away.
LEMMA TrimsKeeps ==
  ASSUME IInv, CInv, LooksOn, phase = "look", UNCHANGED <<phase, rows>>,
         NEW v \in Ids, NEW C \in SUBSET Ids, Trims(v, C) \/ Ends(v, C), Watch(v)
  PROVE  CInv'
<1>1. \A m \in Ids : /\ mem'[m].token = mem[m].token
                     /\ m \notin C => mem'[m] = mem[m]
                     /\ m \in C => mem'[m].sock = "NonExist" /\ mem'[m].member = "Unlisted"
  BY Closed DEF Trims, Ends
<1>2. \A m \in Ids : Spawned(m)' <=> Spawned(m)
  BY DEF Trims, Ends
<1>3. Shapes'
  <2>1. \A m \in Ids \ {} : /\ \/ mem'[m] = mem[m]
                               \/ mem'[m].sock = "NonExist" /\ mem'[m].member = "Unlisted"
                            /\ Spawned(m)' <=> Spawned(m)
    BY <1>1, <1>2
  <2>2. {} \in SUBSET Ids
    OBVIOUS
  <2> QED BY <2>1, <2>2, ShapesLook
<1>4. \A m \in Ids : /\ Alive(m)' => Alive(m) /\ m \notin C
                     /\ Flying(m)' => Flying(m) /\ m \notin C
                     /\ Conn(m)' => Conn(m) /\ m \notin C
                     /\ Resolving(m)' => Resolving(m) /\ m \notin C
  BY <1>1 DEF Alive, Flying, Conn, Resolving
<1>5. \A i \in Ids : Watch(i)' => Watch(i)
  BY DEF Trims, Ends
<1>6. \A i, m \in Ids : Owns(i, m)' => Owns(i, m) /\ Watch(i)
  BY WatchesType DEF Trims, Ends
<1>7. ASSUME NEW i \in Ids, NEW m \in Ids, InChain(i, m), Conn(m)' \/ (Alive(m)' /\ Watch(i)')
      PROVE  InChain(i, m)'
  <2>1. m \notin C
    BY <1>4, <1>7
  <2>2. CASE Trims(v, C)
    BY <1>7, <2>1, <2>2 DEF Trims, InChain
  <2>3. CASE Ends(v, C)
    <3>1. i # v
      <4> SUFFICES ASSUME i = v PROVE FALSE
        OBVIOUS
      <4>1. m = v /\ ~Conn(v)
        BY <1>7, <2>1, <2>3 DEF Ends, InChain
      <4>2. ~Conn(m)' /\ ~Watch(v)'
        BY <1>4, <2>3, <4>1 DEF Ends
      <4> QED BY <1>7, <4>2
    <3> QED BY <1>7, <2>3, <3>1 DEF Ends, InChain
  <2> QED BY <2>2, <2>3
<1>8. ASSUME NEW i \in Ids, NEW m \in Ids, NEW n \in Ids, m # n, InChain(i, m), InChain(i, n),
             Flying(m)', Flying(n)'
      PROVE  InChain(i, m)' /\ InChain(i, n)'
  <2>1. m \notin C /\ n \notin C
    BY <1>4, <1>8
  <2>2. CASE Trims(v, C)
    BY <1>8, <2>1, <2>2 DEF Trims, InChain
  <2>3. CASE Ends(v, C)
    BY <1>8, <2>1, <2>3 DEF Ends, InChain
  <2> QED BY <2>2, <2>3
<1>9. MemShape' /\ Chains /\ misread' = misread
  BY <1>3 DEF Shapes, CInv, Trims, Ends
<1>10. Chains'
  <2>1. {} \in SUBSET Ids
    OBVIOUS
  <2> QED BY <1>1, <1>2, <1>4, <1>5, <1>6, <1>7, <1>8, <1>9, <2>1, ChainsGrow
<1>11. Dated'
  <2>1. \A i \in Ids : \A t : Expires(i, t)' => Expires(i, t)
    BY DEF Trims, Ends
  <2>2. \A m \in Ids \ {} : /\ mem'[m].token = mem[m].token
                            /\ Conn(m)' => Conn(m) /\ mem'[m].ttl = mem[m].ttl
                            /\ Resolving(m)' =>
                                 /\ mem'[m].ttl = mem[m].ttl
                                 /\ Resolving(m) \/ (Conn(m) /\ mem[m].ttl > 0)
    BY <1>1, <1>4
  <2>3. mem' \in [Ids -> Member] /\ OwnedApart /\ OneConn /\ Dated /\ {} \in SUBSET Ids
    BY DEF LooksOn, CInv, Chains
  <2>4. \A i, j \in Ids \ {} : Watch(i)' /\ Alive(j)' /\ InChain(i, j) => InChain(i, j)'
    BY <1>7
  <2> QED BY <2>1, <2>2, <2>3, <2>4, DatesKeep
<1> QED BY <1>3, <1>10, <1>11 DEF CInv

\* A watched member that is alive beside v, whose time is over while it
\* connects and which is settled, is a replacement of this check: it does not
\* connect, is not connected, and began no later.
LEMMA SettledOthers ==
  ASSUME IInv, CInv, phase = "look", NEW v \in Ids, Watch(v), Settled(v), Conn(v), Expires(v, 0),
         NEW j \in Ids, Watch(j), j # v, mem[j].token = mem[v].token, Alive(j)
  PROVE  Spawned(j)
<1>1. SUFFICES ASSUME ~Spawned(j) PROVE FALSE
  OBVIOUS
<1>2. ~InChain(v, j)
  BY DEF CInv, Chains, OwnedApart, InChain
<1>3. rows[j].member # "Unlisted"
  BY <1>1 DEF CInv, Shapes, RowsShape
<1>4. CASE mem[j].sock = "Connected"
  <2>1. getsockstate(mem, j) = "Connected"
    BY <1>4, SockStates
  <2>2. rows[j].member # "Broken"
    <3>1. PICK e \in Watches : e.id = j
      BY DEF Watch
    <3> QED BY <1>2, <2>1, <3>1 DEF Settled
  <2> QED BY <1>2, <1>3, <2>1, <2>2 DEF Settled, at_peer
<1>5. CASE Conn(j)
  <2>1. PICK i \in Ids : InChain(i, v) /\ InChain(i, j)
    BY <1>5 DEF CInv, Chains, OneConn, Together
  <2>2. i = v
    BY <2>1 DEF CInv, Chains, OwnedApart, InChain
  <2> QED BY <1>2, <2>1, <2>2
<1>6. CASE Resolving(j)
  <2>1. 0 > mem[j].ttl
    BY <1>2, <1>6 DEF CInv, Dated, Late
  <2>2. mem[j].ttl \in Nat
    BY Times DEF IInv, TypeOK, Member
  <2> QED BY <2>1, <2>2
<1> QED BY <1>4, <1>5, <1>6, SockStates DEF Alive, Conn, Resolving

\* A chain handed over.
LEMMA HandsKeepsChains ==
  ASSUME IInv, CInv, LooksOn, phase = "look", UNCHANGED <<phase, rows>>,
         NEW v \in Ids, NEW o \in Ids, Hands(v, o), Watch(v), Conn(v) => Expires(v, 0)
  PROVE  CInv'
<1>1. /\ mem' = mem /\ Watch(o) /\ o # v /\ mem[o].token = mem[v].token
      /\ Spawned(o) \/ Alive(o)
      /\ \A m \in Ids : Spawned(m)' <=> Spawned(m)
      /\ \A i \in Ids : Watch(i)' <=> Watch(i) /\ i # v
      /\ \A i, m \in Ids : Owns(i, m)' <=> (Owns(i, m) /\ i # v) \/ (i = o /\ InChain(v, m))
      /\ Settled(v) /\ misread' = misread
      /\ \A i \in Ids : \A t : Expires(i, t)' => Expires(i, t)
  BY DEF Hands
<1>2. Shapes'
  <2>1. \A m \in Ids \ {} : /\ \/ mem'[m] = mem[m]
                               \/ mem'[m].sock = "NonExist" /\ mem'[m].member = "Unlisted"
                            /\ Spawned(m)' <=> Spawned(m)
    BY <1>1
  <2>2. {} \in SUBSET Ids
    OBVIOUS
  <2> QED BY <2>1, <2>2, ShapesLook
<1>3. Chains /\ MemShape
  BY DEF CInv, Shapes
<1>4. ASSUME NEW j \in Ids, Conn(v), Watch(j), j # v, mem[j].token = mem[v].token, Alive(j)
      PROVE  Spawned(j)
  BY <1>1, <1>4, SettledOthers
<1>5. ASSUME NEW j \in Ids, Conn(v), Watch(j), j # v, j # o, mem[j].token = mem[v].token
      PROVE  ~Alive(j)
  <2> SUFFICES ASSUME Alive(j) PROVE FALSE
    OBVIOUS
  <2>1. Spawned(j)
    BY <1>4, <1>5
  <2>2. Spawned(o)
    BY <1>1, <1>4, <1>5
  <2> QED BY <1>1, <1>3, <1>5, <2>1, <2>2 DEF Chains, OneSpawned
<1>6. \A i \in Ids : Watch(i)' <=> (Watch(i) /\ i # v) \/ i = o
  BY <1>1
<1>7. mem'[o].token = mem[v].token /\ \A m \in Ids : m # o => mem'[m] = mem[m]
  BY <1>1
<1>8. Watch(o) /\ mem'[o] = mem[o] /\ \A m \in Ids : Spawned(m)' => Spawned(m)
  BY <1>1
<1>9. \A j \in Ids : Conn(v) /\ Watch(j) /\ j # v /\ j # o /\ mem[j].token = mem[v].token
                       => ~Alive(j)
  BY <1>5
<1>10. Chains'
  BY <1>1, <1>3, <1>6, <1>7, <1>8, <1>9, ChainsPass
<1>11. Dated'
  <2>1. mem' \in [Ids -> Member] /\ OwnedApart /\ OneConn /\ Dated /\ {} \in SUBSET Ids
    BY DEF LooksOn, CInv, Chains
  <2>2. \A m \in Ids \ {} : /\ mem'[m].token = mem[m].token
                            /\ Conn(m)' => Conn(m) /\ mem'[m].ttl = mem[m].ttl
                            /\ Resolving(m)' =>
                                 /\ mem'[m].ttl = mem[m].ttl
                                 /\ Resolving(m) \/ (Conn(m) /\ mem[m].ttl > 0)
    BY <1>1 DEF Conn, Resolving
  <2>3. \A i, j \in Ids \ {} : Watch(i)' /\ Alive(j)' /\ InChain(i, j) => InChain(i, j)'
    BY <1>1 DEF InChain
  <2> QED BY <1>1, <2>1, <2>2, <2>3, DatesKeep
<1> QED BY <1>2, <1>10, <1>11 DEF CInv

\* A replacement.
LEMMA ReplacesKeepsChains ==
  ASSUME IInv, CInv, LooksOn, phase = "look", UNCHANGED <<phase, rows>>,
         NEW v \in Ids, NEW n \in Ids, NEW close_first \in BOOLEAN,
         Replaces(v, n, close_first), Watch(v), ~Spawned(v), Conn(v) => Expires(v, 0)
  PROVE  CInv'
<1>1. /\ ~Watch(n) /\ \A i \in Ids : ~Owns(i, n)
      /\ ~Alive(n) /\ rows[n].member = "Unlisted"
      /\ \E o \in Outcomes : mem'[n] = SpawnedAs(o, mem[v].token)
      /\ \A m \in Ids : m # n =>
           \/ mem'[m] = mem[m] /\ ~(close_first /\ InChain(v, m))
           \/ /\ close_first /\ InChain(v, m)
              /\ mem'[m].sock = "NonExist" /\ mem'[m].member = "Unlisted"
              /\ mem'[m].token = mem[m].token
      /\ Alone(v) /\ (~close_first => Settled(v))
      /\ (misread => misread') /\ (~misread' => Free(v))
  BY DEF Replaces
<1>2. /\ \A i \in Ids : Watch(i)' <=> (Watch(i) /\ i # v) \/ i = n
      /\ \A i, m \in Ids : Owns(i, m)' <=> \/ Owns(i, m) /\ i # v
                                           \/ i = n /\ ~close_first /\ InChain(v, m)
      /\ \A m \in Ids : Spawned(m)' <=> Spawned(m) \/ m = n
      /\ \A i \in Ids : \A t : Expires(i, t)' =>
           Expires(i, t) \/ (i = n /\ t = CONNECT_TIMEOUT + HANDSHAKE_TTL_SLACK)
  BY DEF Replaces
<1>3. mem[v].token \in Tokens /\ mem'[n].token = mem[v].token
  BY <1>1, SpawnedShape DEF IInv, TypeOK, Member
<1>4. Shapes'
  <2>1. \A m \in Ids \ {n} : /\ \/ mem'[m] = mem[m]
                                \/ mem'[m].sock = "NonExist" /\ mem'[m].member = "Unlisted"
                             /\ Spawned(m)' <=> Spawned(m)
    BY <1>1, <1>2
  <2>2. \A k \in {n} : /\ ~Watch(k) /\ rows[k].member = "Unlisted" /\ Spawned(k)'
                       /\ \E o \in Outcomes, tok \in Tokens : mem'[k] = SpawnedAs(o, tok)
    BY <1>1, <1>2, <1>3
  <2>3. {n} \in SUBSET Ids
    OBVIOUS
  <2> QED BY <2>1, <2>2, <2>3, ShapesLook
<1>5. Chains /\ MemShape /\ MemShape' /\ v # n
  BY <1>1, <1>4 DEF CInv, Shapes
<1>6. \A m \in Ids : m # n /\ (Conn(m) \/ Spawned(m)) /\ mem[m].token = mem[v].token
        => InChain(v, m) /\ ~Spawned(m)
  <2> SUFFICES ASSUME NEW m \in Ids, Conn(m) \/ Spawned(m), mem[m].token = mem[v].token
               PROVE  InChain(v, m) /\ ~Spawned(m)
    OBVIOUS
  <2>1. InChain(v, m)
    BY <1>1 DEF Alone
  <2>2. ~Spawned(m)
    <3> SUFFICES ASSUME Spawned(m) PROVE FALSE
      OBVIOUS
    <3>1. Watch(m)
      BY WatchesType
    <3>2. m = v
      BY <2>1, <3>1, <1>5 DEF InChain, Chains, OwnedApart
    <3> QED BY <3>2
  <2> QED BY <2>1, <2>2
<1>9. ~misread' => \A m \in Ids : Flying(m) /\ mem[m].token = mem[v].token => InChain(v, m)
  BY <1>1 DEF Free
<1>10. Dated'
  <2>1. mem' \in [Ids -> Member] /\ OwnedApart /\ OneConn /\ Dated /\ {n} \in SUBSET Ids
    BY DEF LooksOn, CInv, Chains
  <2>2. \A m \in Ids \ {n} : /\ mem'[m].token = mem[m].token
                             /\ Conn(m)' => Conn(m) /\ mem'[m].ttl = mem[m].ttl
                             /\ Resolving(m)' =>
                                  /\ mem'[m].ttl = mem[m].ttl
                                  /\ Resolving(m) \/ (Conn(m) /\ mem[m].ttl > 0)
    BY <1>1 DEF Conn, Resolving
  <2>3. \A i \in Ids : \A t : Expires(i, t)' =>
          \/ i \in {n} /\ t = CONNECT_TIMEOUT + HANDSHAKE_TTL_SLACK
          \/ i \notin {n} /\ Expires(i, t)
    BY <1>1, <1>2, WatchesType
  <2>4. \A i, j \in Ids \ {n} : Watch(i)' /\ Alive(j)' /\ InChain(i, j) => InChain(i, j)'
    BY <1>2, <1>5 DEF InChain
  <2>5. ASSUME NEW i \in Ids \ {n}, Conn(i)', mem'[n].token = mem'[i].token, Watch(i)'
        PROVE  FALSE
    <3>1. Watch(i) /\ i # v
      BY <1>2, <2>5
    <3>2. Conn(i) /\ mem[i].token = mem[v].token
      BY <1>3, <2>2, <2>5
    <3>3. InChain(v, i)
      BY <1>6, <3>2
    <3> QED BY <2>1, <3>1, <3>3 DEF OwnedApart, InChain
  <2>6. \A i \in Ids \ {n}, k \in {n} : Conn(i)' /\ mem'[k].token = mem'[i].token => ~Watch(i)'
    BY <2>5
  <2> QED BY <2>1, <2>2, <2>3, <2>4, <2>6, DatesKeep
<1>7. CASE ~close_first
  <2>1. \A m \in Ids : m # n => mem'[m] = mem[m]
    BY <1>1, <1>7
  <2>2. \A i, m \in Ids : Owns(i, m)' <=> (Owns(i, m) /\ i # v) \/ (i = n /\ InChain(v, m))
    BY <1>2, <1>7
  <2>3. \A i, m \in Ids : ~Owns(i, n) /\ ~Owns(n, m)
    BY <1>1, WatchesType
  <2>4. ASSUME NEW j \in Ids, Conn(v), Watch(j), j # v, j # n, mem[j].token = mem[v].token
        PROVE  ~Alive(j)
    <3> SUFFICES ASSUME Alive(j) PROVE FALSE
      OBVIOUS
    <3>1. Spawned(j)
      BY <1>1, <1>7, <2>4, SettledOthers
    <3>2. InChain(v, j) /\ ~Spawned(j)
      BY <1>6, <2>4, <3>1
    <3> QED BY <3>1, <3>2
  <2>5. \A m \in Ids : Spawned(m)' => Spawned(m) \/ m = n
    BY <1>2
  <2>6. \A j \in Ids : Conn(v) /\ Watch(j) /\ j # v /\ j # n /\ mem[j].token = mem[v].token
                         => ~Alive(j)
    BY <2>4
  <2>7. Chains'
    BY <1>1, <1>2, <1>3, <1>5, <1>6, <1>9, <2>1, <2>2, <2>3, <2>5, <2>6, ChainsPass
  <2> QED BY <1>4, <1>10, <2>7 DEF CInv
<1>8. CASE close_first
  <2>1. \A m \in Ids \ {n} : /\ mem'[m].token = mem[m].token
                             /\ Alive(m)' => Alive(m) /\ ~InChain(v, m)
                             /\ Flying(m)' => Flying(m) /\ ~InChain(v, m)
                             /\ Conn(m)' => Conn(m) /\ ~InChain(v, m)
                             /\ Spawned(m)' => Spawned(m)
    BY <1>1, <1>2, <1>8 DEF Alive, Flying, Conn
  <2>a. \A k \in {n}, m \in Ids : m # k /\ (Conn(m)' \/ (Spawned(m)' /\ Spawned(k)'))
          => mem'[m].token # mem'[k].token
    <3> SUFFICES ASSUME NEW m \in Ids, m # n, Conn(m)' \/ Spawned(m)',
                        mem'[m].token = mem'[n].token
                 PROVE  FALSE
      OBVIOUS
    <3>1. mem[m].token = mem[v].token /\ (Conn(m) \/ Spawned(m))
      BY <1>3, <2>1
    <3>2. InChain(v, m) /\ ~Spawned(m)
      BY <1>6, <3>1
    <3>3. ~Conn(m)' /\ ~Spawned(m)'
      BY <2>1, <3>2
    <3> QED BY <3>3
  <2>b. ~misread' => \A k \in {n}, m \in Ids : m # k /\ Flying(m)' => mem'[m].token # mem'[k].token
    <3> SUFFICES ASSUME ~misread', NEW m \in Ids, m # n, Flying(m)',
                        mem'[m].token = mem'[n].token
                 PROVE  FALSE
      OBVIOUS
    <3>1. mem[m].token = mem[v].token /\ Flying(m) /\ ~InChain(v, m)
      BY <1>3, <2>1
    <3> QED BY <1>9, <3>1
  <2>3. \A i, m \in Ids : Owns(i, m)' => Owns(i, m) /\ Watch(i)
    BY <1>2, <1>8, WatchesType
  <2>4. \A i, m \in Ids : InChain(i, m) /\ ~InChain(v, m) => InChain(i, m)'
    BY <1>2 DEF InChain
  <2>5. \A i, m \in Ids : InChain(i, m) /\ Conn(m)' /\ m \notin {n} => InChain(i, m)'
    BY <2>1, <2>4
  <2>6. \A i, m, k \in Ids : /\ m # k /\ InChain(i, m) /\ InChain(i, k)
                             /\ Flying(m)' /\ Flying(k)' /\ m \notin {n} /\ k \notin {n}
          => InChain(i, m)' /\ InChain(i, k)'
    BY <2>1, <2>4
  <2>7. /\ {n} \in SUBSET Ids
        /\ \A k \in {n} : ~Watch(k) /\ \A i \in Ids : ~Owns(i, k)
        /\ \A i \in Ids : Watch(i)' => Watch(i) \/ i \in {n}
        /\ \A k \in {n} : Watch(k)'
    BY <1>1, <1>2
  <2>8. Chains'
    BY <1>1, <1>5, <2>1, <2>a, <2>b, <2>3, <2>5, <2>6, <2>7, ChainsGrow
  <2> QED BY <1>4, <1>10, <2>8 DEF CInv
<1> QED BY <1>7, <1>8

\* Every look.
LEMMA LookKeepsChains ==
  ASSUME IInv, CInv, Look
  PROVE  CInv'
<1> DEFINE v == watched[idx].id
<1>1. /\ phase = "look" /\ idx \in 1..Len(watched) /\ v \in Ids
      /\ UNCHANGED <<phase, rows>>
      /\ \/ \E C \in SUBSET Ids : Trims(v, C)
         \/ \E C \in SUBSET Ids : Ends(v, C)
         \/ /\ RepairDue(watched[idx])
            /\ \/ \E o \in Ids : Hands(v, o)
               \/ \E n \in Ids, close_first \in BOOLEAN : Replaces(v, n, close_first)
  BY LookCases
<1>a. RepairDue(watched[idx]) /\ Conn(v) => Expires(v, 0)
  <2>1. watched[idx].live = "Connected" => ~Conn(v)
    BY <1>1 DEF CInv, Shapes, LiveShape, Conn
  <2>2. watched[idx] \in Watches
    BY <1>1, RestIs
  <2> QED BY <2>1, <2>2 DEF RepairDue, Expires
<1>2. LooksOn
  BY LookKeeps
<1>3. Watch(v) /\ ~Spawned(v)
  BY <1>1, RestIs
<1> HIDE DEF v
<1>4. CASE \E C \in SUBSET Ids : Trims(v, C) \/ Ends(v, C)
  BY <1>1, <1>2, <1>3, <1>4, TrimsKeeps
<1>5. CASE RepairDue(watched[idx]) /\ \E o \in Ids : Hands(v, o)
  BY <1>a, <1>1, <1>2, <1>3, <1>5, HandsKeepsChains
<1>6. CASE RepairDue(watched[idx]) /\
           \E n \in Ids, close_first \in BOOLEAN : Replaces(v, n, close_first)
  BY <1>a, <1>1, <1>2, <1>3, <1>6, ReplacesKeepsChains
<1> QED BY <1>1, <1>4, <1>5, <1>6

-----------------------------------------------------------------------------
(* The other steps, seen from the chains.                                  *)

\* The chains of a step that leaves the watches, and lets members only get on
\* with their handshakes or die.
LEMMA ChainsStay ==
  ASSUME IInv, Chains, MemShape', misread' = misread,
         \A i \in Ids : Watch(i)' <=> Watch(i),
         \A i, m \in Ids : Owns(i, m)' <=> Owns(i, m),
         \A m \in Ids : /\ mem'[m].token = mem[m].token
                        /\ Alive(m)' => Alive(m)
                        /\ Flying(m)' => Flying(m)
                        /\ Conn(m)' => Conn(m)
                        /\ Spawned(m)' => Spawned(m)
  PROVE  Chains'
<1>1. \A i, m \in Ids : InChain(i, m) => InChain(i, m)'
  BY DEF InChain
<1>2. \A i, m \in Ids : Owns(i, m)' => Owns(i, m) /\ Watch(i)
  BY WatchesType
<1>3. {} \in SUBSET Ids
  OBVIOUS
<1> QED BY <1>1, <1>2, <1>3, ChainsGrow

\* Its dates, when the watches keep their time.
LEMMA DatesStay ==
  ASSUME IInv, CInv, mem' \in [Ids -> Member],
         \A i \in Ids : Watch(i)' <=> Watch(i),
         \A i, m \in Ids : Owns(i, m)' <=> Owns(i, m),
         \A i \in Ids : \A t : Expires(i, t)' => Expires(i, t),
         \A m \in Ids : /\ mem'[m].token = mem[m].token
                        /\ Conn(m)' => Conn(m) /\ mem'[m].ttl = mem[m].ttl
                        /\ Resolving(m)' =>
                             /\ mem'[m].ttl = mem[m].ttl
                             /\ Resolving(m) \/ (Conn(m) /\ mem[m].ttl > 0)
  PROVE  Dated'
<1>1. \A i, m \in Ids \ {} : Watch(i)' /\ Alive(m)' /\ InChain(i, m) => InChain(i, m)'
  BY DEF InChain
<1>2. {} \in SUBSET Ids /\ OwnedApart /\ OneConn /\ Dated
  BY DEF CInv, Chains
<1> QED BY <1>1, <1>2, DatesKeep

\* What a move of libsrt or the network does to a member: it gets on with its
\* handshake, shows another state in flight, or dies.
Moves(m) ==
  /\ UNCHANGED <<last_status, watched, adds, hangs, misread, phase, rows, idx, spawned>>
  /\ \A n \in Ids : n # m => mem'[n] = mem[n]
  /\ mem' \in [Ids -> Member] /\ mem'[m].token = mem[m].token
  /\ \/ mem'[m].sock = "NonExist"
     \/ /\ Alive(m) /\ mem'[m].member # "Unlisted" /\ mem'[m].ttl = mem[m].ttl
        /\ \/ mem'[m].sock = "Connected"
           \/ /\ mem'[m].sock \in {"Midway", "Written"}
              /\ Resolving(m) \/ (Conn(m) /\ mem[m].ttl > 0)
        /\ mem'[m].member \in {"Pending", "Idle", "Running"} \/ mem'[m].sock = "Midway" => Flying(m)

\* All that libsrt's threads and the network do are such moves.
LEMMA NetworkMoves ==
  ASSUME IInv, MemShape, Network
  PROVE  \E m \in Ids : Moves(m)
<1> PICK m \in Ids : \/ HandshakeMidway(m) \/ HandshakeWrites(m) \/ HandshakeDone(m) \/ Breaks(m)
                     \/ ListedBroken(m) \/ Unlisted(m) \/ DataArrives(m) \/ Keepalive(m)
                     \/ SendClosesBroken(m)
  BY DEF Network
<1>1. /\ mem[m] \in Member /\ mem[m].token \in Tokens /\ mem \in [Ids -> Member]
      /\ Alive(m) => mem[m].member # "Unlisted"
      /\ Conn(m) => mem[m].member = "Pending"
  BY DEF IInv, TypeOK, Member, MemShape
<1>2. ASSUME NEW new, MemberMove(m, new), new.token = mem[m].token,
             \/ new.sock = "NonExist"
             \/ /\ Alive(m) /\ new.member # "Unlisted" /\ new.ttl = mem[m].ttl
                /\ \/ new.sock = "Connected"
                   \/ /\ new.sock \in {"Midway", "Written"}
                      /\ Resolving(m) \/ (Conn(m) /\ mem[m].ttl > 0)
                /\ new.member \in {"Pending", "Idle", "Running"} \/ new.sock = "Midway" => Flying(m)
      PROVE  \E n \in Ids : Moves(n)
  <2>1. /\ mem' = [mem EXCEPT ![m] = new]
        /\ UNCHANGED <<last_status, watched, adds, hangs, misread, phase, rows, idx, spawned>>
    BY <1>2 DEF MemberMove, check
  <2>2. mem'[m] = new /\ \A n \in Ids : n # m => mem'[n] = mem[n]
    BY <1>1, <2>1
  <2>3. mem' \in [Ids -> Member]
    <3>1. IInv'
      BY NetworkKeeps
    <3> QED BY <3>1 DEF IInv, TypeOK
  <2>4. Moves(m)
    BY <1>2, <2>1, <2>2, <2>3 DEF Moves
  <2> QED BY <2>4
<1>3. CASE HandshakeWrites(m)
  <2> DEFINE new == [mem[m] EXCEPT !.sock = IF Racing THEN "Written" ELSE "Connected",
                                   !.member = "Idle", !.listed = "Connected"]
  <2>1. /\ new.token = mem[m].token /\ new.member = "Idle" /\ new.ttl = mem[m].ttl
        /\ new.sock = IF Racing THEN "Written" ELSE "Connected"
    BY <1>1 DEF Member
  <2>2. MemberMove(m, new) /\ (mem[m].sock = "Midway" \/ (Conn(m) /\ mem[m].ttl > 0))
    BY <1>3 DEF HandshakeWrites, Conn
  <2> HIDE DEF new
  <2>3. Alive(m) /\ Flying(m) /\ (Resolving(m) \/ (Conn(m) /\ mem[m].ttl > 0))
    BY <1>1, <2>2 DEF Alive, Flying, Resolving, Conn
  <2> QED BY <1>2, <2>1, <2>2, <2>3
<1>4. CASE HandshakeDone(m)
  <2> DEFINE new == [mem[m] EXCEPT !.sock = "Connected"]
  <2>1. /\ new.token = mem[m].token /\ new.member = mem[m].member /\ new.sock = "Connected"
        /\ new.ttl = mem[m].ttl
    BY <1>1 DEF Member
  <2>2. MemberMove(m, new) /\ mem[m].sock = "Written"
    BY <1>4 DEF HandshakeDone
  <2> HIDE DEF new
  <2>3. Alive(m) /\ (Flying(m) <=> mem[m].member \in {"Pending", "Idle", "Running"})
    BY <2>2 DEF Alive, Flying
  <2> QED BY <1>1, <1>2, <2>1, <2>2, <2>3
<1>10. CASE HandshakeMidway(m)
  <2> DEFINE new == [mem[m] EXCEPT !.sock = "Midway"]
  <2>1. /\ new.token = mem[m].token /\ new.member = mem[m].member /\ new.sock = "Midway"
        /\ new.ttl = mem[m].ttl
    BY <1>1 DEF Member
  <2>2. MemberMove(m, new) /\ Conn(m) /\ mem[m].ttl > 0
    BY <1>10 DEF HandshakeMidway, Conn
  <2> HIDE DEF new
  <2>3. Alive(m) /\ Flying(m)
    BY <1>1, <2>2 DEF Alive, Flying, Conn
  <2> QED BY <1>1, <1>2, <2>1, <2>2, <2>3
<1>5. CASE Breaks(m)
  <2> DEFINE dead == [mem[m] EXCEPT !.sock = "NonExist"]
             new == IF Racing THEN dead ELSE Broken(dead)
  <2>1. dead \in Member /\ dead.sock = "NonExist" /\ dead.token = mem[m].token
    BY <1>1 DEF Member
  <2>2. Broken(dead).sock = "NonExist" /\ Broken(dead).token = mem[m].token
    BY <2>1 DEF Broken, Member
  <2>3. new.sock = "NonExist" /\ new.token = mem[m].token
    BY <2>1, <2>2
  <2>4. MemberMove(m, new)
    BY <1>5 DEF Breaks
  <2> HIDE DEF new
  <2> QED BY <1>2, <2>3, <2>4
<1>6. CASE ListedBroken(m)
  <2> DEFINE new == Broken(mem[m])
  <2>1. new.sock = mem[m].sock /\ new.token = mem[m].token
    BY <1>1 DEF Broken, Member
  <2>2. MemberMove(m, new) /\ mem[m].sock = "NonExist"
    BY <1>6 DEF ListedBroken
  <2> HIDE DEF new
  <2> QED BY <1>2, <2>1, <2>2
<1>7. CASE Unlisted(m) \/ SendClosesBroken(m)
  <2>1. MemberMove(m, Gone(mem[m].token))
    BY <1>7 DEF Unlisted, SendClosesBroken
  <2> QED BY <1>1, <1>2, <2>1, GoneType
<1>8. CASE DataArrives(m)
  <2> DEFINE new == [mem[m] EXCEPT !.member = "Running"]
  <2>1. /\ new.sock = mem[m].sock /\ new.token = mem[m].token /\ new.member = "Running"
        /\ new.ttl = mem[m].ttl
    BY <1>1 DEF Member
  <2>2. MemberMove(m, new) /\ mem[m].sock = "Connected" /\ mem[m].member \in {"Pending", "Idle"}
    BY <1>8 DEF DataArrives
  <2> HIDE DEF new
  <2>3. Alive(m) /\ Flying(m)
    BY <2>2 DEF Alive, Flying
  <2> QED BY <1>2, <2>1, <2>2, <2>3
<1>9. CASE Keepalive(m)
  <2> DEFINE new == [mem[m] EXCEPT !.member = IF mem[m].stuck THEN "Pending" ELSE "Idle"]
  <2>1. /\ new.sock = mem[m].sock /\ new.token = mem[m].token /\ new.member \in {"Pending", "Idle"}
        /\ new.ttl = mem[m].ttl
    BY <1>1 DEF Member
  <2>2. MemberMove(m, new) /\ mem[m].sock = "Connected" /\ mem[m].member = "Running"
    BY <1>9 DEF Keepalive
  <2> HIDE DEF new
  <2>3. Alive(m) /\ Flying(m)
    BY <2>2 DEF Alive, Flying
  <2> QED BY <1>2, <2>1, <2>2, <2>3
<1> QED BY <1>3, <1>4, <1>5, <1>6, <1>7, <1>8, <1>9, <1>10

\* A step that leaves the watches leaves the chains.
LEMMA WatchesSame ==
  ASSUME Watches' = Watches, spawned' = spawned \/ spawned' = <<>>
  PROVE  /\ \A i \in Ids : Watch(i)' <=> Watch(i)
         /\ \A i, m \in Ids : Owns(i, m)' <=> Owns(i, m)
         /\ \A i \in Ids : \A t : Expires(i, t)' => Expires(i, t)
         /\ \A m \in Ids : Spawned(m)' => Spawned(m)
<1>1. /\ \A i \in Ids : Watch(i)' <=> Watch(i)
      /\ \A i, m \in Ids : Owns(i, m)' <=> Owns(i, m)
      /\ \A i \in Ids : \A t : Expires(i, t)' => Expires(i, t)
  BY DEF Watch, Owns, Expires
<1>2. \A m \in Ids : Spawned(m)' => Spawned(m)
  BY DEF Spawned
<1> QED BY <1>1, <1>2

\* Such a move keeps the chains.
LEMMA MovesKeepsChains ==
  ASSUME IInv, CInv, NEW m \in Ids, Moves(m)
  PROVE  CInv'
<1>1. /\ UNCHANGED <<last_status, watched, adds, hangs, misread, phase, rows, idx, spawned>>
      /\ \A n \in Ids : n # m => mem'[n] = mem[n]
      /\ mem'[m].token = mem[m].token /\ mem' \in [Ids -> Member]
      /\ \/ mem'[m].sock = "NonExist"
         \/ /\ Alive(m) /\ mem'[m].member # "Unlisted" /\ mem'[m].ttl = mem[m].ttl
            /\ \/ mem'[m].sock = "Connected"
               \/ /\ mem'[m].sock \in {"Midway", "Written"}
                  /\ Resolving(m) \/ (Conn(m) /\ mem[m].ttl > 0)
            /\ mem'[m].member \in {"Pending", "Idle", "Running"} \/ mem'[m].sock = "Midway"
                 => Flying(m)
  BY DEF Moves
<1>2. MemShape /\ RowsShape /\ LiveShape /\ Chains
  BY DEF CInv, Shapes
<1>3. \A n \in Ids : /\ mem'[n].token = mem[n].token
                     /\ Alive(n)' => Alive(n)
                     /\ Flying(n)' => Flying(n)
                     /\ Conn(n)' => Conn(n) /\ mem'[n].ttl = mem[n].ttl
                     /\ Resolving(n)' => /\ mem'[n].ttl = mem[n].ttl
                                         /\ Resolving(n) \/ (Conn(n) /\ mem[n].ttl > 0)
                     /\ mem'[n].member = "Unlisted" => ~Alive(n)'
                     /\ Conn(n)' => mem'[n].member = "Pending"
                     /\ mem[n].sock \in {"Connected", "NonExist"} =>
                          mem'[n].sock \in {"Connected", "NonExist"}
  <2> TAKE n \in Ids
  <2>1. CASE n # m
    BY <1>1, <1>2, <2>1 DEF Alive, Flying, Conn, Resolving, MemShape
  <2>2. CASE n = m
    BY <1>1, <2>2 DEF Alive, Flying, Conn, Resolving
  <2> QED BY <2>1, <2>2
<1>4. MemShape'
  BY <1>3 DEF MemShape
<1>5. \A n \in Ids : Spawned(n)' <=> Spawned(n)
  BY <1>1 DEF Spawned
<1>6. RowsShape'
  BY <1>1, <1>2, <1>3, <1>5 DEF RowsShape
<1>7. LiveShape'
  <2> SUFFICES ASSUME phase # "idle", NEW i \in 1..Len(watched)
               PROVE  /\ is_terminal_status(watched[i].live) =>
                           mem'[watched[i].id].sock = "NonExist" \/ watched[i].resolve_by > 0
                      /\ watched[i].live = "Connected" =>
                           mem'[watched[i].id].sock \in {"Connected", "NonExist"}
    BY <1>1 DEF LiveShape, Alive
  <2>1. watched[i].id \in Ids
    BY WatchedFields
  <2>2. /\ is_terminal_status(watched[i].live) => ~Alive(watched[i].id) \/ watched[i].resolve_by > 0
        /\ watched[i].live = "Connected" => mem[watched[i].id].sock \in {"Connected", "NonExist"}
    BY <1>2 DEF LiveShape
  <2>3. ~Alive(watched[i].id) => mem'[watched[i].id].sock = "NonExist"
    BY <1>3, <2>1 DEF Alive
  <2> QED BY <1>3, <2>1, <2>2, <2>3
<1>8. /\ \A i \in Ids : Watch(i)' <=> Watch(i)
      /\ \A i, n \in Ids : Owns(i, n)' <=> Owns(i, n)
      /\ \A i \in Ids : \A t : Expires(i, t)' => Expires(i, t)
      /\ \A n \in Ids : Spawned(n)' => Spawned(n)
  <2>1. Watches' = Watches
    BY <1>1 DEF Watches
  <2> QED BY <1>1, <2>1, WatchesSame
<1>9. Chains'
  BY <1>1, <1>2, <1>3, <1>4, <1>8, ChainsStay
<1>10. Dated'
  BY <1>1, <1>3, <1>8, DatesStay
<1> QED BY <1>4, <1>6, <1>7, <1>9, <1>10 DEF CInv, Shapes

\* The sockets are read, of handshakes that have time left to write.
LEMMA SocketsKeepChains ==
  ASSUME IInv, CInv, CheckSockets
  PROVE  CInv'
<1>1. /\ UNCHANGED <<misread, rows, idx, spawned>> /\ spawned = <<>>
      /\ phase' \in {"live", "idle"}
      /\ \A m \in Ids : /\ mem'[m].sock = mem[m].sock /\ mem'[m].member = mem[m].member
                        /\ mem'[m].token = mem[m].token /\ mem'[m].ttl = Sooner(mem[m].ttl)
  BY CheckSocketsReads
<1>2. /\ Len(watched') = Len(watched)
      /\ \A i \in 1..Len(watched) :
           /\ watched'[i].id = watched[i].id
           /\ watched'[i].supersedes = watched[i].supersedes
           /\ watched'[i].resolve_by = Sooner(watched[i].resolve_by)
           /\ phase' = "live" => watched'[i].live = getsockstate(mem, watched[i].id)
  BY CheckSocketsReads
<1>3. \A m \in Ids : /\ Alive(m)' <=> Alive(m)
                     /\ Flying(m)' <=> Flying(m)
                     /\ Conn(m)' <=> Conn(m)
                     /\ Resolving(m)' <=> Resolving(m)
  BY <1>1 DEF Alive, Flying, Conn, Resolving
<1>4. MemShape'
  BY <1>1, <1>3 DEF CInv, Shapes, MemShape
<1>5. RowsShape'
  BY <1>1 DEF RowsShape
<1>a. \A m \in Ids : mem[m].ttl \in Nat /\ (Resolving(m) => mem[m].ttl > 0)
  <2>1. \A m \in Ids : mem[m].ttl \in Nat
    BY Times DEF IInv, TypeOK, Member
  <2>2. \A m \in Ids : Resolving(m) => mem[m].ttl > 0
    BY DEF CheckSockets, Resolving
  <2> QED BY <2>1, <2>2
<1>b. \A i \in 1..Len(watched) : /\ watched[i].resolve_by \in Nat /\ watched[i].id \in Ids
                                 /\ Expires(watched[i].id, watched[i].resolve_by)
  <2> TAKE i \in 1..Len(watched)
  <2>1. watched[i] \in Watches
    BY DEF Watches, Elements
  <2>2. Expires(watched[i].id, watched[i].resolve_by)
    BY <2>1 DEF Expires
  <2> QED BY <2>1, <2>2, WatchesType
<1>6. LiveShape'
  <2> SUFFICES ASSUME phase' = "live", NEW i \in 1..Len(watched)
               PROVE  /\ is_terminal_status(watched'[i].live) =>
                           mem'[watched'[i].id].sock = "NonExist" \/ watched'[i].resolve_by > 0
                      /\ watched'[i].live = "Connected" =>
                           mem'[watched'[i].id].sock \in {"Connected", "NonExist"}
    BY <1>1, <1>2 DEF LiveShape, Alive
  <2> DEFINE x == watched[i].id
  <2>1. x \in Ids /\ watched[i].resolve_by \in Nat /\ Expires(x, watched[i].resolve_by)
    BY <1>b
  <2>2. /\ watched'[i].live = getsockstate(mem, x) /\ watched'[i].id = x
        /\ watched'[i].resolve_by = Sooner(watched[i].resolve_by)
        /\ mem'[x].sock = mem[x].sock
    BY <1>1, <1>2, <2>1
  <2> HIDE DEF x
  <2>3. ASSUME mem[x].sock = "Midway" PROVE watched'[i].resolve_by > 0
    <3>1. Resolving(x)
      BY <2>3 DEF Resolving
    <3>2. mem[x].ttl \in Nat /\ mem[x].ttl > 0
      BY <1>a, <2>1, <3>1
    <3>3. watched[i].resolve_by > mem[x].ttl
      BY <2>1, <3>1 DEF CInv, Dated, InTime
    <3>4. Sooner(watched[i].resolve_by) > 0
      BY <2>1, <3>2, <3>3 DEF Sooner
    <3> QED BY <2>2, <3>4
  <2> QED BY <2>1, <2>2, <2>3, SockStates DEF Alive
<1>7. \A m \in Ids : Spawned(m)' => Spawned(m)
  BY <1>1 DEF Spawned
<1>8. /\ \A i \in Ids : Watch(i)' <=> Watch(i)
      /\ \A i, m \in Ids : Owns(i, m)' <=> Owns(i, m)
      /\ \A i \in Ids : \A t : Expires(i, t)' => \E r \in Nat : Expires(i, r) /\ t = Sooner(r)
  <2>0. Elements(spawned) = {} /\ Elements(spawned') = {}
    <3>1. Len(spawned) = 0
      BY <1>1, EmptySeq
    <3> QED BY <1>1, <3>1 DEF Elements
  <2>1. \A i \in Ids : Watch(i) <=> \E k \in 1..Len(watched) : watched[k].id = i
    BY <2>0 DEF Watch, Watches, Elements
  <2>2. \A i \in Ids : Watch(i)' <=> \E k \in 1..Len(watched') : watched'[k].id = i
    BY <2>0 DEF Watch, Watches, Elements
  <2>3. \A i, m \in Ids : Owns(i, m) <=>
          \E k \in 1..Len(watched) : watched[k].id = i /\ m \in watched[k].supersedes
    BY <2>0 DEF Owns, Watches, Elements
  <2>4. \A i, m \in Ids : Owns(i, m)' <=>
          \E k \in 1..Len(watched') : watched'[k].id = i /\ m \in watched'[k].supersedes
    BY <2>0 DEF Owns, Watches, Elements
  <2>5. \A i \in Ids : Watch(i)' <=> Watch(i)
    BY <1>2, <2>1, <2>2
  <2>6. \A i, m \in Ids : Owns(i, m)' <=> Owns(i, m)
    BY <1>2, <2>3, <2>4
  <2>7. ASSUME NEW i \in Ids, NEW t, Expires(i, t)'
        PROVE  \E r \in Nat : Expires(i, r) /\ t = Sooner(r)
    <3>1. PICK k \in 1..Len(watched') : watched'[k].id = i /\ watched'[k].resolve_by = t
      BY <2>0, <2>7 DEF Expires, Watches, Elements
    <3>2. /\ k \in 1..Len(watched) /\ watched[k].id = i /\ t = Sooner(watched[k].resolve_by)
      BY <1>2, <3>1
    <3> QED BY <1>b, <3>2
  <2> QED BY <2>5, <2>6, <2>7
<1>9. Chains'
  BY <1>1, <1>3, <1>4, <1>7, <1>8, ChainsStay DEF CInv
<1>10. \A r, t \in Nat : r > t => Sooner(r) > Sooner(t) \/ t = 0
  BY DEF Sooner
<1>11. InTime'
  <2> SUFFICES ASSUME NEW i \in Ids, NEW t \in Nat, Expires(i, t)',
                      Resolving(i) \/ (Conn(i) /\ Sooner(mem[i].ttl) > 0)
               PROVE  t > Sooner(mem[i].ttl)
    BY <1>1, <1>3 DEF InTime
  <2>1. PICK r \in Nat : Expires(i, r) /\ t = Sooner(r)
    BY <1>8
  <2>2. mem[i].ttl \in Nat /\ mem[i].ttl > 0
    BY <1>a DEF Sooner
  <2>3. r > mem[i].ttl
    BY <2>1, <2>2 DEF CInv, Dated, InTime
  <2> QED BY <1>10, <2>1, <2>2, <2>3
<1>12. Late'
  <2> SUFFICES ASSUME NEW i \in Ids, NEW j \in Ids, NEW t \in Nat, Expires(i, t)', Conn(i),
                      Resolving(j), mem[j].token = mem[i].token, ~InChain(i, j)'
               PROVE  t > Sooner(mem[j].ttl)
    BY <1>1, <1>3 DEF Late
  <2>1. PICK r \in Nat : Expires(i, r) /\ t = Sooner(r)
    BY <1>8
  <2>2. mem[j].ttl \in Nat /\ mem[j].ttl > 0
    BY <1>a
  <2>3. ~InChain(i, j)
    BY <1>8 DEF InChain
  <2>4. r > mem[j].ttl
    BY <2>1, <2>3 DEF CInv, Dated, Late
  <2> QED BY <1>10, <2>1, <2>2, <2>4
<1> QED BY <1>4, <1>5, <1>6, <1>9, <1>11, <1>12 DEF CInv, Shapes, Dated

\* The listing is read.
LEMMA RowsKeepChains ==
  ASSUME IInv, CInv, CheckRows
  PROVE  CInv'
<1>1. /\ UNCHANGED <<mem, watched, misread, spawned>> /\ spawned = <<>> /\ phase = "live"
      /\ \A m \in Ids : rows'[m].member = mem[m].member
  BY DEF CheckRows, IInv, IdleState
<1>2. \A m \in Ids : /\ Alive(m)' <=> Alive(m)
                     /\ Flying(m)' <=> Flying(m)
                     /\ Conn(m)' <=> Conn(m)
                     /\ Resolving(m)' <=> Resolving(m)
                     /\ ~Spawned(m) /\ ~Spawned(m)'
  <2>1. Len(spawned) = 0
    BY <1>1, EmptySeq
  <2> QED BY <1>1, <2>1 DEF Alive, Flying, Conn, Resolving, Spawned
<1>3. MemShape'
  BY <1>1, <1>2 DEF CInv, Shapes, MemShape
<1>4. RowsShape'
  BY <1>1, <1>2 DEF CInv, Shapes, MemShape, RowsShape
<1>5. LiveShape'
  BY <1>1 DEF CInv, Shapes, LiveShape, Alive
<1>6. /\ \A i \in Ids : Watch(i)' <=> Watch(i)
      /\ \A i, m \in Ids : Owns(i, m)' <=> Owns(i, m)
      /\ \A i \in Ids : \A t : Expires(i, t)' => Expires(i, t)
  <2>1. Watches' = Watches
    BY <1>1 DEF Watches
  <2> QED BY <1>1, <2>1, WatchesSame
<1>7. \A m \in Ids : /\ mem'[m].token = mem[m].token
                     /\ Alive(m)' => Alive(m)
                     /\ Flying(m)' => Flying(m)
                     /\ Conn(m)' => Conn(m)
                     /\ Spawned(m)' => Spawned(m)
  BY <1>1, <1>2
<1>8. Chains'
  BY <1>1, <1>3, <1>6, <1>7, ChainsStay DEF CInv
<1>9. Dated'
  <2>1. mem' \in [Ids -> Member]
    BY <1>1 DEF IInv, TypeOK
  <2>2. \A m \in Ids : mem'[m] = mem[m]
    BY <1>1
  <2>3. \A m \in Ids : Resolving(m)' => Resolving(m) \/ (Conn(m) /\ mem[m].ttl > 0)
    BY <1>2
  <2>4. \A m \in Ids : /\ mem'[m].token = mem[m].token
                       /\ Conn(m)' => Conn(m) /\ mem'[m].ttl = mem[m].ttl
                       /\ Resolving(m)' =>
                            /\ mem'[m].ttl = mem[m].ttl
                            /\ Resolving(m) \/ (Conn(m) /\ mem[m].ttl > 0)
    BY <1>2, <2>2, <2>3
  <2> QED BY <1>6, <2>1, <2>4, DatesStay
<1> QED BY <1>3, <1>4, <1>5, <1>8, <1>9 DEF CInv, Shapes

\* The replacements join the watched members.
LEMMA EndWatches ==
  ASSUME IInv, EndCheck
  PROVE  /\ Watches' = Watches /\ mem' = mem /\ spawned' = <<>> /\ phase' = "idle"
         /\ UNCHANGED <<adds, hangs, misread>>
<1>1. /\ UNCHANGED <<mem, adds, hangs, misread>> /\ phase' = "idle"
      /\ watched' = watched \o spawned /\ spawned' = <<>>
  BY DEF EndCheck
<1>2. /\ Len(watched') = Len(watched) + Len(spawned)
      /\ \A i \in 1..Len(watched) + Len(spawned) :
           watched'[i] = IF i <= Len(watched) THEN watched[i] ELSE spawned[i - Len(watched)]
      /\ Len(watched) \in Nat /\ Len(spawned) \in Nat
  <2>1. watched \in Seq(WatchedMember) /\ spawned \in Seq(WatchedMember)
    BY DEF IInv, AreSequences
  <2> QED BY <1>1, <2>1, ConcatProperties, WatchedFields
<1>3. Elements(spawned') = {}
  <2>1. Len(spawned') = 0
    BY <1>1, EmptySeq
  <2> QED BY <2>1 DEF Elements
<1>4. ASSUME NEW e \in Elements(watched')
      PROVE  e \in Elements(watched) \cup Elements(spawned)
  <2>1. PICK i \in 1..(Len(watched) + Len(spawned)) : e = watched'[i]
    BY <1>2 DEF Elements
  <2>2. CASE i <= Len(watched)
    <3>1. i \in 1..Len(watched) /\ e = watched[i]
      BY <1>2, <2>1, <2>2
    <3> QED BY <3>1 DEF Elements
  <2>3. CASE ~(i <= Len(watched))
    <3>1. i - Len(watched) \in 1..Len(spawned) /\ e = spawned[i - Len(watched)]
      BY <1>2, <2>1, <2>3
    <3> QED BY <3>1 DEF Elements
  <2> QED BY <2>2, <2>3
<1>5. ASSUME NEW e \in Elements(watched) \cup Elements(spawned)
      PROVE  e \in Elements(watched')
  <2>1. CASE e \in Elements(watched)
    <3>1. PICK i \in 1..Len(watched) : e = watched[i]
      BY <2>1 DEF Elements
    <3>2. i \in 1..Len(watched') /\ e = watched'[i]
      BY <1>2, <3>1
    <3> QED BY <3>2 DEF Elements
  <2>2. CASE e \in Elements(spawned)
    <3>1. PICK i \in 1..Len(spawned) : e = spawned[i]
      BY <2>2 DEF Elements
    <3>2. /\ i + Len(watched) \in 1..(Len(watched) + Len(spawned))
          /\ ~(i + Len(watched) <= Len(watched)) /\ (i + Len(watched)) - Len(watched) = i
      BY <1>2
    <3>3. e = watched'[i + Len(watched)]
      BY <1>2, <3>1, <3>2
    <3> QED BY <1>2, <3>2, <3>3 DEF Elements
  <2> QED BY <2>1, <2>2
<1>6. Watches' = Watches
  BY <1>3, <1>4, <1>5 DEF Watches
<1> QED BY <1>1, <1>6

\* A step outside a check that leaves the watches and the members.
LEMMA IdleKeepsChains ==
  ASSUME IInv, CInv, Watches' = Watches, mem' = mem, misread' = misread, phase' = "idle",
         spawned' = spawned \/ spawned' = <<>>
  PROVE  CInv'
<1>1. \A m \in Ids : /\ Alive(m)' <=> Alive(m)
                     /\ Flying(m)' <=> Flying(m)
                     /\ Conn(m)' <=> Conn(m)
                     /\ Resolving(m)' <=> Resolving(m)
  BY DEF Alive, Flying, Conn, Resolving
<1>2. MemShape'
  BY <1>1 DEF CInv, Shapes, MemShape
<1>3. RowsShape' /\ LiveShape'
  BY DEF RowsShape, LiveShape
<1>4. /\ \A i \in Ids : Watch(i)' <=> Watch(i)
      /\ \A i, m \in Ids : Owns(i, m)' <=> Owns(i, m)
      /\ \A i \in Ids : \A t : Expires(i, t)' => Expires(i, t)
      /\ \A m \in Ids : Spawned(m)' => Spawned(m)
  BY WatchesSame
<1>5. \A m \in Ids : /\ mem'[m].token = mem[m].token
                     /\ Alive(m)' => Alive(m)
                     /\ Flying(m)' => Flying(m)
                     /\ Conn(m)' => Conn(m)
                     /\ Spawned(m)' => Spawned(m)
  BY <1>1, <1>4
<1>6. Chains'
  BY <1>2, <1>4, <1>5, ChainsStay DEF CInv
<1>7. Dated'
  <2>1. mem' \in [Ids -> Member]
    BY DEF IInv, TypeOK
  <2>2. \A m \in Ids : mem'[m] = mem[m]
    OBVIOUS
  <2>3. \A m \in Ids : Resolving(m)' => Resolving(m) \/ (Conn(m) /\ mem[m].ttl > 0)
    BY <1>1
  <2>4. \A m \in Ids : /\ mem'[m].token = mem[m].token
                       /\ Conn(m)' => Conn(m) /\ mem'[m].ttl = mem[m].ttl
                       /\ Resolving(m)' =>
                            /\ mem'[m].ttl = mem[m].ttl
                            /\ Resolving(m) \/ (Conn(m) /\ mem[m].ttl > 0)
    BY <1>1, <2>2, <2>3
  <2> QED BY <1>4, <2>1, <2>4, DatesStay
<1> QED BY <1>2, <1>3, <1>6, <1>7 DEF CInv, Shapes

\* The group is closed.
LEMMA CloseKeepsChains ==
  ASSUME IInv, CInv, CloseGroup
  PROVE  CInv'
<1>1. /\ phase' = "idle" /\ watched' = <<>> /\ spawned' = <<>>
      /\ mem' = close_members(mem, Ids)
  BY DEF CloseGroup, check, IInv, IdleState
<1>2. \A m \in Ids : mem'[m].sock = "NonExist" /\ mem'[m].member = "Unlisted"
  BY <1>1, Closed
<1>3. \A i, m \in Ids : ~Watch(i)' /\ ~Owns(i, m)' /\ ~Spawned(i)'
  <2>1. Len(watched') = 0 /\ Len(spawned') = 0
    BY <1>1, EmptySeq
  <2> QED BY <2>1 DEF Watch, Owns, Spawned, Watches, Elements
<1>4. \A m \in Ids : ~Alive(m)' /\ ~Flying(m)' /\ ~Conn(m)' /\ ~Resolving(m)'
  BY <1>2 DEF Alive, Flying, Conn, Resolving
<1>5. Shapes'
  BY <1>1, <1>2, <1>4 DEF Shapes, MemShape, RowsShape, LiveShape
<1>6. Chains'
  BY <1>3, <1>4 DEF Chains, OwnedApart, OneOwner, OwnToken, ConnKnown, OneConn, OneFlight,
                    ConnOwned, OneSpawned
<1>7. Dated'
  BY <1>4 DEF Dated, InTime, Late
<1> QED BY <1>5, <1>6, <1>7 DEF CInv

\* At first there are none.
LEMMA InitChains ==
  ASSUME Init
  PROVE  CInv
<1>1. /\ phase = "idle" /\ watched = <<>> /\ spawned = <<>>
      /\ \A m \in Ids : mem[m].sock = "NonExist" /\ mem[m].member = "Unlisted"
  BY DEF Init, Gone
<1>2. \A i, m \in Ids : ~Watch(i) /\ ~Owns(i, m) /\ ~Spawned(i)
  <2>1. Len(watched) = 0 /\ Len(spawned) = 0
    BY <1>1, EmptySeq
  <2> QED BY <2>1 DEF Watch, Owns, Spawned, Watches, Elements
<1>3. \A m \in Ids : ~Alive(m) /\ ~Flying(m) /\ ~Conn(m) /\ ~Resolving(m)
  BY <1>1 DEF Alive, Flying, Conn, Resolving
<1>4. Shapes
  BY <1>1, <1>3 DEF Shapes, MemShape, RowsShape, LiveShape
<1>5. Chains
  BY <1>2, <1>3 DEF Chains, OwnedApart, OneOwner, OwnToken, ConnKnown, OneConn, OneFlight,
                    ConnOwned, OneSpawned
<1>6. Dated
  BY <1>3 DEF Dated, InTime, Late
<1> QED BY <1>4, <1>5, <1>6 DEF CInv

\* ConnectGroup: the first members, each watched, of an endpoint of its own.
LEMMA ConnectWatches ==
  ASSUME IInv, ConnectGroup
  PROVE  /\ \A m \in Ids : ~Alive(m) /\ ~Watch(m)
         /\ phase' = "idle" /\ spawned' = <<>> /\ UNCHANGED <<adds, hangs, misread>>
         /\ \E U \in SUBSET Ids :
              /\ \A m \in Ids : ~(m \in U) => mem'[m] = mem[m]
              /\ \A m \in U : \E o \in Outcomes : mem'[m] = SpawnedAs(o, Endpoints[m])
              /\ \A m, n \in U : Endpoints[m] = Endpoints[n] => m = n
              /\ \A e \in Watches' : e.id \in U /\ e = new_watched(e.id)
              /\ \A m \in U : new_watched(m) \in Watches'
<1> PICK n \in 1..Len(Endpoints) :
     \E up \in [1..n -> 1..Len(Endpoints)], o \in [1..Len(Endpoints) -> Outcomes] :
       /\ mem' = [m \in Ids |-> IF m \in Elements(up) THEN SpawnedAs(o[m], Endpoints[m])
                               ELSE mem[m]]
       /\ watched' = [i \in 1..n |-> new_watched(connect_group(mem', up[i], o[up[i]], mem))]
  BY DEF ConnectGroup
<1> PICK up \in [1..n -> 1..Len(Endpoints)], o \in [1..Len(Endpoints) -> Outcomes] :
       /\ mem' = [m \in Ids |-> IF m \in Elements(up) THEN SpawnedAs(o[m], Endpoints[m])
                               ELSE mem[m]]
       /\ watched' = [i \in 1..n |-> new_watched(connect_group(mem', up[i], o[up[i]], mem))]
  OBVIOUS
<1>1. /\ UNCHANGED <<adds, hangs, misread, phase, rows, idx, spawned>>
      /\ phase = "idle" /\ spawned = <<>> /\ watched = <<>>
      /\ \A m \in Ids : ~Alive(m) /\ mem[m].member = "Unlisted"
  BY DEF ConnectGroup, check, IInv, IdleState, Alive
<1>2. \A m \in Ids : ~Watch(m)
  <2>1. Len(watched) = 0 /\ Len(spawned) = 0
    BY <1>1, EmptySeq
  <2> QED BY <2>1 DEF Watch, Watches, Elements
<1>3. /\ n \in Nat /\ n >= 1 /\ Len(up) = n
      /\ \A i \in 1..n : up[i] \in 1..Len(Endpoints) /\ up[i] \in Ids
  BY Times
<1>4. \A m : m \in Elements(up) <=> \E i \in 1..n : m = up[i]
  BY <1>3 DEF Elements
<1>5. \A m \in Elements(up) : m \in Ids /\ m \in 1..Len(Endpoints)
  BY <1>3, <1>4
<1>6. /\ \A m \in Ids : ~(m \in Elements(up)) => mem'[m] = mem[m]
      /\ \A m \in Elements(up) : \E x \in Outcomes : mem'[m] = SpawnedAs(x, Endpoints[m])
  BY <1>5
<1>7. \A m, k \in Elements(up) : Endpoints[m] = Endpoints[k] => m = k
  BY <1>5, RepairAssumption
<1> DEFINE w(i) == new_watched(connect_group(mem', up[i], o[up[i]], mem))
<1>b. watched' = [i \in 1..n |-> w(i)]
  OBVIOUS
<1> HIDE DEF w
<1>a. \A i \in 1..n : w(i) = new_watched(up[i])
  <2> TAKE i \in 1..n
  <2>1. up[i] \in Elements(up)
    BY <1>4
  <2>2. /\ Elements(up) \subseteq Ids
        /\ \A k \in Ids : mem[k].member = "Unlisted"
        /\ \A k \in Ids : k \notin Elements(up) => mem'[k].member = "Unlisted"
    BY <1>1, <1>5, <1>6
  <2>3. \A k \in Elements(up) : mem'[k].member # "Unlisted" /\ mem'[k].token = Endpoints[k]
    BY <1>6, SpawnedShape
  <2>4. \A k \in Elements(up) : mem'[k].token = mem'[up[i]].token => k = up[i]
    BY <1>7, <2>1, <2>3
  <2>5. connect_group(mem', up[i], o[up[i]], mem) = up[i]
    BY ONLY <2>1, <2>2, <2>3, <2>4, ConnectManyIs
  <2> QED BY <2>5 DEF w
<1>8. \A e : e \in Watches' <=> \E i \in 1..n : e = new_watched(up[i])
  <2>1. Len(watched') = n /\ \A i \in 1..n : watched'[i] = new_watched(up[i])
    BY ONLY <1>3, <1>a, <1>b
  <2>2. Elements(spawned') = {}
    <3>1. Len(spawned') = 0
      BY <1>1, EmptySeq
    <3> QED BY <3>1 DEF Elements
  <2>3. \A e : e \in Elements(watched') <=> \E i \in 1..n : e = new_watched(up[i])
    BY ONLY <1>3, <2>1 DEF Elements
  <2> QED BY ONLY <2>2, <2>3 DEF Watches
<1>9. \A m \in Ids : new_watched(m).id = m
  BY NewWatchedType
<1>10. \A e \in Watches' : e.id \in Elements(up) /\ e = new_watched(e.id)
  BY <1>3, <1>4, <1>8, <1>9
<1>11. \A m \in Elements(up) : new_watched(m) \in Watches'
  BY <1>4, <1>8
<1>12. Elements(up) \in SUBSET Ids
  BY <1>5
<1> QED BY <1>1, <1>2, <1>6, <1>7, <1>10, <1>11, <1>12

\* The first members keep them.
LEMMA ConnectKeepsChains ==
  ASSUME IInv, CInv, ConnectGroup
  PROVE  CInv'
<1>1. /\ \A m \in Ids : ~Alive(m) /\ ~Watch(m)
      /\ phase' = "idle" /\ spawned' = <<>> /\ misread' = misread
  BY ConnectWatches
<1> PICK U \in SUBSET Ids :
      /\ \A m \in Ids : ~(m \in U) => mem'[m] = mem[m]
      /\ \A m \in U : \E o \in Outcomes : mem'[m] = SpawnedAs(o, Endpoints[m])
      /\ \A m, n \in U : Endpoints[m] = Endpoints[n] => m = n
      /\ \A e \in Watches' : e.id \in U /\ e = new_watched(e.id)
      /\ \A m \in U : new_watched(m) \in Watches'
  BY ConnectWatches
<1>2. \A m \in U : /\ mem'[m].token = Endpoints[m]
                   /\ mem'[m].member # "Unlisted"
                   /\ mem'[m].sock = "Connecting" => mem'[m].member = "Pending"
  BY SpawnedShape
<1>3. \A m \in Ids : /\ ~(m \in U) => ~Alive(m)'
                     /\ ~Spawned(m)'
  <2>1. Len(spawned') = 0
    BY <1>1, EmptySeq
  <2> QED BY <1>1, <2>1 DEF Alive, Spawned
<1>4. MemShape'
  <2> SUFFICES ASSUME NEW m \in Ids
               PROVE  /\ mem'[m].member = "Unlisted" => ~Alive(m)'
                      /\ Conn(m)' => mem'[m].member = "Pending"
    BY DEF MemShape
  <2> QED BY <1>2, <1>3 DEF Alive, Conn
<1>5. RowsShape' /\ LiveShape'
  BY <1>1 DEF RowsShape, LiveShape
<1>6. /\ \A i \in Ids : Watch(i)' <=> i \in U
      /\ \A i, m \in Ids : ~Owns(i, m)'
      /\ \A i \in Ids : \A t : Expires(i, t)' => i \in U /\ t = CONNECT_TIMEOUT + HANDSHAKE_TTL_SLACK
  <2>1. \A m \in Ids : new_watched(m).id = m /\ new_watched(m).supersedes = {}
    BY NewWatchedType
  <2>2. \A i \in Ids : Watch(i)' <=> \E e \in Watches' : e.id = i
    BY DEF Watch
  <2>3. \A i, m \in Ids : Owns(i, m)' <=> \E e \in Watches' : e.id = i /\ m \in e.supersedes
    BY DEF Owns
  <2>4. \A e \in Watches' : e.supersedes = {}
    BY <2>1
  <2>5. \A m \in Ids : new_watched(m).resolve_by = CONNECT_TIMEOUT + HANDSHAKE_TTL_SLACK
    BY DEF new_watched
  <2>6. \A i \in Ids : \A t : Expires(i, t)' => i \in U /\ t = CONNECT_TIMEOUT + HANDSHAKE_TTL_SLACK
    BY <2>5 DEF Expires
  <2> QED BY <2>1, <2>2, <2>3, <2>4, <2>6
<1>7. \A m \in Ids : Flying(m)' \/ Conn(m)' => m \in U /\ InChain(m, m)'
  BY <1>3, <1>6 DEF Flying, Conn, Alive, InChain
<1>8. OneFlight' /\ OneConn'
  BY <1>2, <1>7 DEF OneFlight, OneConn
<1>9. OwnedApart' /\ OneOwner' /\ OwnToken' /\ ConnOwned'
  BY <1>6 DEF OwnedApart, OneOwner, OwnToken, ConnOwned
<1>10. ConnKnown' /\ OneSpawned'
  BY <1>3, <1>7 DEF ConnKnown, OneSpawned
<1>11. Dated'
  <2>1. mem' \in [Ids -> Member]
    <3>1. IInv'
      BY ConnectKeeps
    <3> QED BY <3>1 DEF IInv, TypeOK
  <2>2. OwnedApart /\ OneConn /\ Dated
    BY DEF CInv, Chains
  <2>3. \A m \in Ids \ U : /\ mem'[m].token = mem[m].token
                           /\ Conn(m)' => Conn(m) /\ mem'[m].ttl = mem[m].ttl
                           /\ Resolving(m)' =>
                                /\ mem'[m].ttl = mem[m].ttl
                                /\ Resolving(m) \/ (Conn(m) /\ mem[m].ttl > 0)
    BY <1>1 DEF Alive, Conn, Resolving
  <2>4. \A i, j \in Ids \ U : Watch(i)' /\ Alive(j)' /\ InChain(i, j) => InChain(i, j)'
    BY <1>6
  <2>5. \A i \in Ids \ U, n \in U : Conn(i)' /\ mem'[n].token = mem'[i].token => ~Watch(i)'
    BY <1>6
  <2> QED BY <1>6, <2>1, <2>2, <2>3, <2>4, <2>5, DatesKeep
<1> QED BY <1>4, <1>5, <1>8, <1>9, <1>10, <1>11 DEF CInv, Shapes, Chains

\* AddGroupMember: one more member, watched, of an endpoint with none in flight.
LEMMA AddWatches ==
  ASSUME IInv, NEW tok \in Tokens, add_group_member(tok)
  PROVE  /\ UNCHANGED <<phase, spawned, hangs>> /\ phase = "idle" /\ spawned = <<>>
         /\ adds' = adds + 1 /\ member_in_flight(mem, tok, {}) = {}
         /\ misread' = (misread \/ read_midway(mem, tok, {}))
         /\ \E n \in Ids :
              /\ ~Watch(n) /\ \A i \in Ids : ~Owns(i, n)
              /\ \E o \in Outcomes : mem'[n] = SpawnedAs(o, tok)
              /\ \A m \in Ids : m # n => mem'[m] = mem[m]
              /\ \A e : e \in Watches' <=> e \in Watches \/ e = new_watched(n)
<1> PICK n \in NewIds(mem, Elements(watched)), o \in Outcomes :
       /\ mem' = [mem EXCEPT ![n] = SpawnedAs(o, tok)]
       /\ watched' = Append(watched, new_watched(connect_group(mem', n, o, mem)))
  BY DEF add_group_member
<1>a. watched' = Append(watched, new_watched(n))
  <2>1. mem \in [Ids -> Member] /\ n \in Ids /\ mem[n].member = "Unlisted"
    BY NewIdIsFresh DEF IInv, TypeOK
  <2>2. connect_group([mem EXCEPT ![n] = SpawnedAs(o, tok)], n, o, mem) = n
    BY ONLY <2>1, ConnectOneIs, o \in Outcomes, tok \in Tokens
  <2> QED BY <2>2
<1>1. /\ UNCHANGED <<phase, spawned, hangs>> /\ phase = "idle" /\ spawned = <<>>
      /\ adds' = adds + 1 /\ member_in_flight(mem, tok, {}) = {}
      /\ misread' = (misread \/ read_midway(mem, tok, {}))
  BY DEF add_group_member, check, IInv, IdleState
<1>2. Elements(spawned) = {}
  <2>1. Len(spawned) = 0
    BY <1>1, EmptySeq
  <2> QED BY <2>1 DEF Elements
<1>3. n \in Ids /\ \A e \in Watches : n # e.id /\ n \notin e.supersedes
  BY <1>2 DEF NewIds, Watches
<1>4. ~Watch(n) /\ \A i \in Ids : ~Owns(i, n)
  BY <1>3 DEF Watch, Owns
<1>5. mem'[n] = SpawnedAs(o, tok) /\ \A m \in Ids : m # n => mem'[m] = mem[m]
  BY <1>3 DEF IInv, TypeOK
<1>6. \A e : e \in Watches' <=> e \in Watches \/ e = new_watched(n)
  <2>1. watched \in Seq(WatchedMember) /\ new_watched(n) \in WatchedMember /\ Len(watched) \in Nat
    BY <1>3, NewWatchedType DEF IInv, AreSequences
  <2>2. /\ Len(watched') = Len(watched) + 1
        /\ \A i \in 1..Len(watched) : watched'[i] = watched[i]
        /\ watched'[Len(watched) + 1] = new_watched(n)
    BY ONLY <1>a, <2>1, AppendChains
  <2>3. \A i : i \in 1..(Len(watched) + 1) <=> i \in 1..Len(watched) \/ i = Len(watched) + 1
    BY <2>1
  <2>4. \A e : e \in Elements(watched') <=> \E i \in 1..(Len(watched) + 1) : e = watched'[i]
    BY <2>2 DEF Elements
  <2>5. \A e : e \in Elements(watched) <=> \E i \in 1..Len(watched) : e = watched[i]
    BY DEF Elements
  <2>6. \A e : e \in Elements(watched') <=> e \in Elements(watched) \/ e = new_watched(n)
    BY ONLY <2>2, <2>3, <2>4, <2>5
  <2> QED BY <1>1, <2>6 DEF Watches
<1> QED BY <1>1, <1>3, <1>4, <1>5, <1>6

\* It keeps the chains.
LEMMA AddKeepsChains ==
  ASSUME IInv, CInv, NEW tok \in Tokens, add_group_member(tok)
  PROVE  CInv'
<1>1. /\ UNCHANGED <<phase, spawned>> /\ phase = "idle" /\ spawned = <<>>
      /\ member_in_flight(mem, tok, {}) = {}
      /\ misread' = (misread \/ read_midway(mem, tok, {}))
  BY AddWatches
<1> PICK n \in Ids :
      /\ ~Watch(n) /\ \A i \in Ids : ~Owns(i, n)
      /\ \E o \in Outcomes : mem'[n] = SpawnedAs(o, tok)
      /\ \A m \in Ids : m # n => mem'[m] = mem[m]
      /\ \A e : e \in Watches' <=> e \in Watches \/ e = new_watched(n)
  BY AddWatches
<1>2. Len(spawned) = 0
  BY <1>1, EmptySeq
<1>6. /\ mem'[n].token = tok
      /\ mem'[n].member # "Unlisted"
      /\ mem'[n].sock = "Connecting" => mem'[n].member = "Pending"
  BY SpawnedShape
<1>7. MemShape'
  <2> SUFFICES ASSUME NEW m \in Ids
               PROVE  /\ mem'[m].member = "Unlisted" => ~Alive(m)'
                      /\ Conn(m)' => mem'[m].member = "Pending"
    BY DEF MemShape
  <2>1. CASE m = n
    BY <1>6, <2>1 DEF Conn
  <2>2. CASE m # n
    BY <2>2 DEF CInv, Shapes, MemShape, Alive, Conn
  <2> QED BY <2>1, <2>2
<1>8. RowsShape' /\ LiveShape'
  BY <1>1 DEF RowsShape, LiveShape
<1>9. \A m \in Ids \ {n} : /\ mem'[m].token = mem[m].token
                           /\ Alive(m)' => Alive(m)
                           /\ Flying(m)' => Flying(m)
                           /\ Conn(m)' => Conn(m)
                           /\ Spawned(m)' => Spawned(m)
  BY <1>1 DEF Alive, Flying, Conn, Spawned
<1>10. \A m \in Ids : ~Spawned(m)'
  BY <1>1, <1>2 DEF Spawned
<1>12. /\ \A i \in Ids : Watch(i)' <=> Watch(i) \/ i = n
       /\ \A i, m \in Ids : Owns(i, m)' <=> Owns(i, m)
       /\ \A i \in Ids : \A t : Expires(i, t)' =>
            Expires(i, t) \/ (i = n /\ t = CONNECT_TIMEOUT + HANDSHAKE_TTL_SLACK)
  <2>1. new_watched(n).id = n /\ new_watched(n).supersedes = {}
    BY NewWatchedType
  <2>2. new_watched(n).resolve_by = CONNECT_TIMEOUT + HANDSHAKE_TTL_SLACK
    BY DEF new_watched
  <2>3. /\ \A i \in Ids : Watch(i)' <=> Watch(i) \/ i = n
        /\ \A i, m \in Ids : Owns(i, m)' <=> Owns(i, m)
    BY <2>1 DEF Watch, Owns
  <2>4. \A i \in Ids : \A t : Expires(i, t)' =>
          Expires(i, t) \/ (i = n /\ t = CONNECT_TIMEOUT + HANDSHAKE_TTL_SLACK)
    BY <2>1, <2>2 DEF Expires
  <2> QED BY <2>3, <2>4
<1>13. \A m \in Ids : /\ mem[m].token = tok => ~Conn(m)
                      /\ mem[m].token = tok /\ ~misread' => ~Flying(m)
  <2> SUFFICES ASSUME NEW m \in Ids, mem[m].token = tok
               PROVE  ~Conn(m) /\ (~misread' => ~Flying(m))
    OBVIOUS
  <2>1. ~in_flight(mem[m].member, getsockstate(mem, m))
    BY <1>1 DEF member_in_flight
  <2>2. Alive(m) /\ mem[m].sock # "Midway" =>
          mem[m].member \notin {"Pending", "Idle", "Running"}
    BY <2>1, SockStates DEF in_flight
  <2>3. Conn(m) => mem[m].member = "Pending"
    BY DEF CInv, Shapes, MemShape
  <2>4. ~misread' => mem[m].sock # "Midway"
    BY <1>1 DEF read_midway
  <2> QED BY <2>2, <2>3, <2>4 DEF Conn, Flying, Alive
<1>14. /\ {n} \in SUBSET Ids
       /\ \A k \in {n} : ~Watch(k) /\ \A i \in Ids : ~Owns(i, k)
       /\ \A i \in Ids : Watch(i)' => Watch(i) \/ i \in {n}
       /\ \A k \in {n} : Watch(k)'
       /\ \A i, m \in Ids : Owns(i, m)' => Owns(i, m) /\ Watch(i)
  BY <1>12, WatchesType
<1>15. \A i, m \in Ids : InChain(i, m) => InChain(i, m)'
  BY <1>12 DEF InChain
<1>16. Chains'
  <2>1. \A k \in {n}, m \in Ids : m # k /\ (Conn(m)' \/ (Spawned(m)' /\ Spawned(k)'))
          => mem'[m].token # mem'[k].token
    BY <1>6, <1>9, <1>10, <1>13
  <2>2. ~misread' => \A k \in {n}, m \in Ids :
                       m # k /\ Flying(m)' => mem'[m].token # mem'[k].token
    BY <1>6, <1>9, <1>13
  <2>3. misread => misread'
    BY <1>1
  <2> QED BY <1>7, <1>9, <1>14, <1>15, <2>1, <2>2, <2>3, ChainsGrow DEF CInv
<1>17. Dated'
  <2>1. mem' \in [Ids -> Member]
    <3>1. IInv'
      BY AddKeeps
    <3> QED BY <3>1 DEF IInv, TypeOK
  <2>2. OwnedApart /\ OneConn /\ Dated /\ {n} \in SUBSET Ids
    BY DEF CInv, Chains
  <2>3. \A m \in Ids \ {n} : /\ mem'[m].token = mem[m].token
                             /\ Conn(m)' => Conn(m) /\ mem'[m].ttl = mem[m].ttl
                             /\ Resolving(m)' =>
                                  /\ mem'[m].ttl = mem[m].ttl
                                  /\ Resolving(m) \/ (Conn(m) /\ mem[m].ttl > 0)
    BY DEF Conn, Resolving
  <2>4. \A i, j \in Ids \ {n} : Watch(i)' /\ Alive(j)' /\ InChain(i, j) => InChain(i, j)'
    BY <1>15
  <2>5. \A i \in Ids \ {n}, k \in {n} : Conn(i)' /\ mem'[k].token = mem'[i].token => ~Watch(i)'
    BY <1>6, <1>9, <1>13
  <2>6. \A i \in Ids : \A t : Expires(i, t)' =>
          \/ i \in {n} /\ t = CONNECT_TIMEOUT + HANDSHAKE_TTL_SLACK
          \/ i \notin {n} /\ Expires(i, t)
    BY <1>12, WatchesType
  <2> QED BY <2>1, <2>2, <2>3, <2>4, <2>5, <2>6, DatesKeep
<1> QED BY <1>7, <1>8, <1>16, <1>17 DEF CInv, Shapes

-----------------------------------------------------------------------------
(* The theorems on chains.                                                 *)

\* A step that changes nothing.
LEMMA StutterKeepsChains ==
  ASSUME IInv, CInv, UNCHANGED vars
  PROVE  CInv'
<1>1. UNCHANGED <<mem, watched, misread, phase, rows, spawned>>
  BY DEF vars
<1>2. \A m \in Ids : /\ Alive(m)' <=> Alive(m)
                     /\ Flying(m)' <=> Flying(m)
                     /\ Conn(m)' <=> Conn(m)
                     /\ Resolving(m)' <=> Resolving(m)
                     /\ Spawned(m)' <=> Spawned(m)
  BY <1>1 DEF Alive, Flying, Conn, Resolving, Spawned
<1>3. MemShape' /\ RowsShape'
  BY <1>1, <1>2 DEF CInv, Shapes, MemShape, RowsShape
<1>4. LiveShape'
  BY <1>1 DEF CInv, Shapes, LiveShape, Alive
<1>5. Watches' = Watches
  BY <1>1 DEF Watches
<1>6. \A m \in Ids : /\ mem'[m].token = mem[m].token
                     /\ Alive(m)' => Alive(m)
                     /\ Flying(m)' => Flying(m)
                     /\ Conn(m)' => Conn(m)
                     /\ Spawned(m)' => Spawned(m)
  BY <1>1, <1>2
<1>8. /\ \A i \in Ids : Watch(i)' <=> Watch(i)
      /\ \A i, m \in Ids : Owns(i, m)' <=> Owns(i, m)
      /\ \A i \in Ids : \A t : Expires(i, t)' => Expires(i, t)
  BY <1>1, <1>5, WatchesSame
<1>7. Chains'
  BY <1>1, <1>3, <1>6, <1>8, ChainsStay DEF CInv
<1>9. Dated'
  <2>1. mem' \in [Ids -> Member] /\ \A m \in Ids : mem'[m] = mem[m]
    BY <1>1 DEF IInv, TypeOK
  <2>2. \A m \in Ids : /\ mem'[m].token = mem[m].token
                       /\ Conn(m)' => Conn(m) /\ mem'[m].ttl = mem[m].ttl
                       /\ Resolving(m)' =>
                            /\ mem'[m].ttl = mem[m].ttl
                            /\ Resolving(m) \/ (Conn(m) /\ mem[m].ttl > 0)
    BY <1>2, <2>1
  <2> QED BY <1>8, <2>1, <2>2, DatesStay
<1> QED BY <1>3, <1>4, <1>7, <1>9 DEF CInv, Shapes

\* The invariant of the chains, whatever libsrt does during a check.
THEOREM ChainInvariant == Spec => []CInv
<1>1. Init => CInv
  BY InitChains
<1>2. IInv /\ CInv /\ [Next]_vars => CInv'
  <2> SUFFICES ASSUME IInv, CInv, [Next]_vars
               PROVE  CInv'
    OBVIOUS
  <2>1. CASE UNCHANGED vars
    BY <2>1, StutterKeepsChains
  <2>2. CASE CheckSockets
    BY <2>2, SocketsKeepChains
  <2>3. CASE CheckRows
    BY <2>3, RowsKeepChains
  <2>4. CASE Look
    BY <2>4, LookKeepsChains
  <2>5. CASE EndCheck
    BY <2>5, EndWatches, IdleKeepsChains
  <2>6. CASE PollGroup
    <3>1. UNCHANGED <<mem, watched, misread, spawned>> /\ phase' = "idle"
      BY <2>6 DEF PollGroup, check
    <3>2. Watches' = Watches
      BY <3>1 DEF Watches
    <3> QED BY <3>1, <3>2, IdleKeepsChains
  <2>7. CASE ConnectGroup
    BY <2>7, ConnectKeepsChains
  <2>8. CASE \E tok \in Tokens : add_group_member(tok)
    BY <2>8, AddKeepsChains
  <2>9. CASE CloseGroup
    BY <2>9, CloseKeepsChains
  <2>10. CASE Network
    <3>1. \E m \in Ids : Moves(m)
      BY <2>10, NetworkMoves DEF CInv, Shapes
    <3> QED BY <3>1, MovesKeepsChains
  <2> QED BY <2>1, <2>2, <2>3, <2>4, <2>5, <2>6, <2>7, <2>8, <2>9, <2>10
          DEF Next, Bridge, check_group, App
<1> QED BY <1>1, <1>2, Invariant, PTL DEF Spec

\* Unless a handshake was misread, no endpoint is carried twice for good: of two
\* members libsrt sends on, one is in the chain of the other or of a third that
\* will close it.
THEOREM NeverTwoCarriers == Spec => []OneCarrier
<1>1. IInv /\ CInv => OneCarrier
  <2> SUFFICES ASSUME IInv, CInv, ~misread, NEW m \in Ids, NEW n \in Ids,
                      in_flight(mem[m].member, getsockstate(mem, m)),
                      in_flight(mem[n].member, getsockstate(mem, n)),
                      m # n, mem[m].token = mem[n].token
               PROVE  \E w \in Watches : m \in w.supersedes \/ n \in w.supersedes
    BY DEF OneCarrier, NeverCarriedTwice, Watches
  <2>1. Flying(m) /\ Flying(n)
    BY SockStates DEF in_flight, Flying
  <2>2. PICK i \in Ids : InChain(i, m) /\ InChain(i, n)
    BY <2>1 DEF CInv, Chains, OneFlight, Together
  <2>3. Owns(i, m) \/ Owns(i, n)
    BY <2>2 DEF InChain
  <2> QED BY <2>3 DEF Owns
<1> QED BY <1>1, Invariant, ChainInvariant, PTL

\* What a look may take from the peer.
LEMMA LookKeepsPeer ==
  ASSUME IInv, CInv, Look, AtPeer # {}, AtPeer' = {}
  PROVE  \/ mem[watched[idx].id].sock = "NonExist"
         \/ \A m \in AtPeer, n \in Ids : mem[n].token = mem[m].token => mem'[n].sock = "NonExist"
<1> DEFINE v == watched[idx].id
<1>1. /\ idx \in 1..Len(watched) /\ v \in Ids
      /\ \/ \E C \in SUBSET Ids : Trims(v, C)
         \/ \E C \in SUBSET Ids : Ends(v, C)
         \/ \E o \in Ids : Hands(v, o)
         \/ \E n \in Ids, close_first \in BOOLEAN : Replaces(v, n, close_first)
  BY LookCases
<1>2. Watch(v)
  BY <1>1, RestIs
<1> HIDE DEF v
<1>3. SUFFICES ASSUME Alive(v)
               PROVE  \A m \in AtPeer, n \in Ids : mem[n].token = mem[m].token => mem'[n].sock = "NonExist"
  BY DEF v, Alive
<1>4. \A m \in Ids : m \in AtPeer <=> Alive(m) /\ ~Conn(m)
  BY SockStates DEF AtPeer, Alive, Conn
<1>5. \A m \in Ids : mem'[m].sock \notin {"Midway", "Written", "Connected"}
  BY DEF AtPeer
<1>6. \A m \in AtPeer : m \in Ids
  BY DEF AtPeer
<1>7. PICK p \in Ids : Alive(p) /\ ~Conn(p)
  BY <1>4, <1>6
<1>8. \A m \in Ids : mem'[m] = mem[m] => ~Alive(m) \/ Conn(m)
  BY <1>5, SockStates DEF Alive, Conn
<1>9. CASE \E C \in SUBSET Ids : Trims(v, C)
  <2> PICK C \in SUBSET Ids : Trims(v, C)
    BY <1>9
  <2>1. /\ \A m \in Ids : m \notin C => mem'[m] = mem[m]
        /\ \A m \in C : Owns(v, m)
        /\ C # {} => ~Conn(v)
    BY Closed DEF Trims
  <2>2. C # {}
    BY <1>7, <1>8, <2>1
  <2>3. v \notin C
    BY <1>1, <1>2, <2>1 DEF CInv, Chains, OwnedApart
  <2> QED BY <1>1, <1>3, <1>8, <2>1, <2>2, <2>3
<1>10. CASE \E C \in SUBSET Ids : Ends(v, C)
  <2> PICK C \in SUBSET Ids : Ends(v, C)
    BY <1>10
  <2>1. /\ \A m \in Ids : m \notin C => mem'[m] = mem[m]
        /\ \A m \in C : m \in Ids /\ mem'[m].sock = "NonExist"
        /\ \A m \in C : InChain(v, m)
    BY Closed DEF Ends
  <2>2. \A m \in Ids : Alive(m) /\ ~Conn(m) => m \in C
    BY <1>8, <2>1
  <2>3. v \in C /\ \/ Alone(v)
                   \/ PeerBeside(v)
                   \/ \E s \in Ids : /\ ~InChain(v, s) /\ ~Watch(s) /\ Alive(s)
                                     /\ mem[s].token = mem[v].token
    BY <1>1, <1>3, <1>8, <2>1 DEF Ends
  <2>4. CASE Alone(v)
    <3> SUFFICES ASSUME NEW m \in AtPeer, NEW n \in Ids, mem[n].token = mem[m].token,
                        mem'[n].sock # "NonExist"
                 PROVE  FALSE
      OBVIOUS
    <3>1. m \in Ids /\ m \in C /\ InChain(v, m)
      BY <1>4, <1>6, <2>1, <2>2
    <3>2. mem[m].token = mem[v].token
      BY <1>1, <3>1 DEF InChain, CInv, Chains, OwnToken
    <3>3. n \notin C /\ mem'[n] = mem[n]
      BY <2>1
    <3>4. Conn(n) /\ ~InChain(v, n)
      <4>1. Conn(n)
        BY <1>8, <3>3 DEF Alive
      <4>2. \A k \in Ids : InChain(v, k) => k \in C
        BY <2>3 DEF Ends, InChain
      <4> QED BY <3>3, <4>1, <4>2
    <3> QED BY <2>4, <3>2, <3>4 DEF Alone
  <2>5. CASE PeerBeside(v)
    <3>1. PICK m \in Ids : ~InChain(v, m) /\ mem[m].sock = "Connected"
      BY <2>5 DEF PeerBeside
    <3> QED BY <2>1, <2>2, <3>1 DEF Alive, Conn
  <2>6. CASE \E s \in Ids : /\ ~InChain(v, s) /\ ~Watch(s) /\ Alive(s)
                            /\ mem[s].token = mem[v].token
    <3>1. PICK s \in Ids : ~InChain(v, s) /\ ~Watch(s) /\ Alive(s) /\ mem[s].token = mem[v].token
      BY <2>6
    <3>2. Conn(s)
      BY <2>1, <2>2, <3>1
    <3>3. PICK i \in Ids : InChain(i, s)
      BY <3>2 DEF CInv, Chains, ConnKnown
    <3>4. Owns(i, s) /\ i # v
      BY <3>1, <3>3 DEF InChain
    <3> QED BY <1>1, <1>2, <1>3, <3>1, <3>2, <3>4 DEF CInv, Chains, ConnOwned
  <2> QED BY <2>3, <2>4, <2>5, <2>6
<1>11. CASE \E o \in Ids : Hands(v, o)
  BY <1>7, <1>8, <1>11 DEF Hands
<1>12. CASE \E n \in Ids, close_first \in BOOLEAN : Replaces(v, n, close_first)
  <2> PICK n \in Ids, close_first \in BOOLEAN : Replaces(v, n, close_first)
    BY <1>12
  <2>1. /\ ~Alive(n) /\ (close_first => PeerBeside(v))
        /\ \A m \in Ids : m # n => \/ mem'[m] = mem[m]
                                   \/ close_first /\ InChain(v, m)
    BY DEF Replaces
  <2>2. CASE close_first
    <3>1. PICK m \in Ids : ~InChain(v, m) /\ mem[m].sock = "Connected"
      BY <2>1, <2>2 DEF PeerBeside
    <3>2. mem'[m] = mem[m]
      BY <2>1, <3>1 DEF Alive
    <3> QED BY <1>8, <3>1, <3>2 DEF Alive, Conn
  <2>3. CASE ~close_first
    BY <1>7, <1>8, <2>1, <2>3
  <2> QED BY <2>2, <2>3
<1> QED BY <1>1, <1>9, <1>10, <1>11, <1>12

\* A repair takes the last member from the peer only to give its endpoint up:
\* make-before-break in repair_stranded, also when the listing was stale.
THEOREM NeverLastFromPeer == Spec => PeerKept
<1> DEFINE Kept == phase = "look" /\ watched' # watched /\ AtPeer # {} /\ AtPeer' = {} =>
       \/ mem[watched[idx].id].sock = "NonExist"
       \/ \A m \in AtPeer, n \in Ids : mem[n].token = mem[m].token => mem'[n].sock = "NonExist"
<1>1. IInv /\ CInv /\ [Next]_vars => [Kept]_vars
  <2> SUFFICES ASSUME IInv, CInv, Next, phase = "look", watched' # watched,
                      AtPeer # {}, AtPeer' = {}
               PROVE  \/ mem[watched[idx].id].sock = "NonExist"
                      \/ \A m \in AtPeer, n \in Ids :
                           mem[n].token = mem[m].token => mem'[n].sock = "NonExist"
    OBVIOUS
  <2>1. CASE Look
    BY <2>1, LookKeepsPeer
  <2>2. CASE EndCheck
    <3>1. mem' = mem
      BY <2>2 DEF EndCheck
    <3> QED BY <3>1 DEF AtPeer
  <2>3. CASE Network
    <3>1. \E m \in Ids : Moves(m)
      BY <2>3, NetworkMoves DEF CInv, Shapes
    <3> QED BY <3>1 DEF Moves
  <2>4. CASE CheckSockets \/ CheckRows \/ PollGroup \/ CloseGroup
    BY <2>4 DEF CheckSockets, CheckRows, PollGroup, CloseGroup
  <2>5. CASE ConnectGroup
    BY <2>5 DEF ConnectGroup, IInv, IdleState
  <2>6. CASE \E tok \in Tokens : add_group_member(tok)
    BY <2>6 DEF add_group_member
  <2> QED BY <2>1, <2>2, <2>3, <2>4, <2>5, <2>6 DEF Next, Bridge, check_group, App
<1>2. IInv /\ CInv /\ [Next]_vars =>
        [phase = "look" /\ watched' # watched /\ AtPeer # {} /\ AtPeer' = {} =>
           \/ mem[watched[idx].id].sock = "NonExist"
           \/ \A m \in AtPeer, n \in Ids : mem[n].token = mem[m].token
                                             => mem'[n].sock = "NonExist"]_vars
  BY <1>1
<1> QED BY <1>2, Invariant, ChainInvariant, PTL DEF Spec, PeerKept

=============================================================================
