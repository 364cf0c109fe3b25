--------------------------- MODULE GroupLifeProofs --------------------------
(***************************************************************************)
(* Proofs about GroupLife, for any bonds and any number of added members.  *)
(***************************************************************************)
EXTENDS GroupLife, WellFoundedInduction, TLAPS

(* The inductive invariant. Creation and connect are asked once each, the  *)
(* group is registered ahead of its connect and has had no event or status *)
(* by then; so both channels are there when the connect is answered, and   *)
(* from then on only a group without links reads as terminal, as long as   *)
(* no member is read midway.                                               *)

AnyCommand == {Cmd("CreateGroup"), Cmd("RegisterSocket"), Cmd("ConnectGroup"), Cmd("Close")}
              \cup ({"AddGroupMember"} \X Endpoint)
Queued(c) == \E k \in 1..Len(cmds) : cmds[k] = c
Asks == {Cmd("CreateGroup"), Cmd("ConnectGroup")}

OneAsk == \A i, j \in 1..Len(cmds) : cmds[i] = cmds[j] /\ cmds[i] \in Asks => i = j

AskAwaited ==
  /\ Queued(Cmd("CreateGroup")) =>
       task = "cancelled" \/ (task = "creating" /\ reply = "none")
  /\ Queued(Cmd("ConnectGroup")) =>
       task = "cancelled" \/ (task = "connecting" /\ reply = "none")

RegisterFirst == \A i, j \in 1..Len(cmds) :
                   cmds[i] = Cmd("RegisterSocket") /\ cmds[j] = Cmd("ConnectGroup") => i < j

NotClosing == Queued(Cmd("Close")) => task \in {"failed", "closing", "dropped"}

Newborn == task \in {"idle", "creating"} \/ Queued(Cmd("ConnectGroup")) =>
             ~subscribed /\ ~err /\ ~batch /\ entry.last_status = "Init"

Registered == Queued(Cmd("ConnectGroup")) =>
                Queued(Cmd("RegisterSocket")) \/ (entry.recv_tx /\ entry.send_rx)

Unborn == task = "idle" \/ (task = "creating" /\ reply # "Ok") => lib # "Exists"

MembersRead == /\ ~racing => \A i \in Slot : mem[i] \notin {"Midway", "Failed"}
               /\ lib # "Exists" => \A i \in Slot : mem[i] = "none"

HealthyKept == ~racing /\ (task = "open" \/ (task = "connecting" /\ reply = "Ok")) /\ Alive =>
                 entry.recv_tx /\ entry.send_rx

IInv == /\ TypeOK
        /\ cmds \in Seq(AnyCommand)
        /\ OneAsk
        /\ AskAwaited
        /\ RegisterFirst
        /\ NotClosing
        /\ Newborn
        /\ Registered
        /\ Unborn
        /\ MembersRead
        /\ HealthyKept
        /\ NoGroupLeak

\* What a status update leaves of a SocketState: both channel ends, unless the
\* status is terminal, and then not the receive end.
LEMMA UpdateStatusFields ==
  ASSUME NEW e \in [last_status : SocketStatus, recv_tx : BOOLEAN, send_rx : BOOLEAN],
         NEW st \in SocketStatus
  PROVE  /\ update_status(e, st) \in
              [last_status : SocketStatus, recv_tx : BOOLEAN, send_rx : BOOLEAN]
         /\ update_status(e, st).last_status = st
         /\ update_status(e, st).recv_tx <=> (e.recv_tx /\ ~is_terminal_status(st))
         /\ ~is_terminal_status(st) => (update_status(e, st).send_rx <=> e.send_rx)
BY DEF update_status

\* A set of naturals that is not empty has a least element.
LEMMA LeastOf ==
  ASSUME NEW T, T \subseteq Nat, T # {}
  PROVE  \E x \in T : \A y \in T : x <= y
<1> DEFINE R == OpToRel(<, Nat)
<1>1. IsWellFoundedOn(R, Nat)
  BY NatLessThanWellFounded
<1>2. \A x, y \in Nat : x < y => <<x, y>> \in R
  BY DEF OpToRel
<1> HIDE DEF R
<1>3. PICK x \in T : \A y \in T : ~(<<y, x>> \in R)
  BY <1>1, WFMin
<1>4. \A y \in T : x <= y
  <2> SUFFICES ASSUME NEW y \in T, ~(x <= y) PROVE FALSE
    OBVIOUS
  <2>1. x \in Nat /\ y \in Nat /\ y < x
    OBVIOUS
  <2> QED BY <1>2, <1>3, <2>1
<1> QED BY <1>4

TaskStates == {"idle", "creating", "connecting", "open", "closing", "dropped", "failed",
               "cancelled"}

\* A step that leaves the group's entry, its loop and its bond alone keeps the
\* types if what it does to the rest does.
LEMMA TypeKept ==
  ASSUME TypeOK, UNCHANGED <<bond, racing, present, entry, phase, batch, lib, subscribed>>,
         task' \in TaskStates, reply' \in {"none", "Ok", "Err"}, adds' \in 0..MaxAdds, err' \in BOOLEAN,
         mem' \in [Slot -> MemberState], added' \in Seq(Endpoint), Len(added') <= MaxAdds,
         \A k \in 1..Len(cmds') : cmds'[k] \in AnyCommand
  PROVE  TypeOK'
<1>1. Slot' = Slot /\ Endpoint' = Endpoint /\ AnyCommand' = AnyCommand
  BY DEF Slot, Endpoint, AnyCommand, Cmd
<1>2. /\ bond \in Bonds /\ racing \in BOOLEAN /\ present \in BOOLEAN
      /\ entry \in [last_status : SocketStatus, recv_tx : BOOLEAN, send_rx : BOOLEAN]
      /\ phase \in {"cmds", "events", "poll"}
      /\ batch \in IF phase = "events" THEN BOOLEAN ELSE {FALSE}
      /\ lib \in {"None", "Exists", "Closed"} /\ subscribed \in BOOLEAN
  BY Zenon DEF TypeOK
<1>3. /\ bond' \in Bonds /\ racing' \in BOOLEAN /\ present' \in BOOLEAN
      /\ entry' \in [last_status : SocketStatus, recv_tx : BOOLEAN, send_rx : BOOLEAN]
      /\ phase' \in {"cmds", "events", "poll"}
      /\ batch' \in IF phase' = "events" THEN BOOLEAN ELSE {FALSE}
      /\ lib' \in {"None", "Exists", "Closed"}
  BY ONLY <1>2, UNCHANGED <<bond, racing, present, entry, phase, batch, lib, subscribed>>, Zenon
<1>4. {subscribed', err'} \subseteq BOOLEAN
  BY <1>2, Zenon
<1>5. mem' \in [Slot' -> MemberState] /\ added' \in Seq(Endpoint') /\ Len(added') <= MaxAdds
  BY <1>1
<1>6. \A k \in 1..Len(cmds') : cmds'[k] \in {Cmd("CreateGroup"), Cmd("RegisterSocket"),
                                            Cmd("ConnectGroup"), Cmd("Close")}
                                           \cup ({"AddGroupMember"} \X Endpoint')
  BY ONLY <1>1, \A k \in 1..Len(cmds') : cmds'[k] \in AnyCommand, Zenon DEF AnyCommand
<1>7. MemberState' = MemberState
  BY DEF MemberState
<1> QED BY <1>3, <1>4, <1>5, <1>6, <1>7, Zenon DEF TypeOK, Cmd, TaskStates

\* A group with a link, or one still to come, reads as alive when no member
\* is caught midway: the first listed member decides, and it is Pending.
LEMMA AliveReads ==
  ASSUME IInv, ~racing, Alive
  PROVE  getStatus \in {"Connected", "Connecting"}
<1>1. lib = "Exists"
  BY DEF IInv, MembersRead, Alive
<1>2. CASE \E i \in Slot : mem[i] = "Up"
  BY <1>1, <1>2 DEF getStatus
<1>3. CASE ~\E i \in Slot : mem[i] = "Up"
  <2>1. PICK i \in Slot : mem[i] = "Pending"
    BY <1>3 DEF Alive, IInv, MembersRead
  <2>2. Listed(mem) \subseteq Nat /\ Listed(mem) # {}
    BY <2>1 DEF Listed, Slot
  <2>3. PICK k \in Listed(mem) : \A j \in Listed(mem) : k <= j
    BY <2>2, LeastOf
  <2>4. mem[k] = "Pending"
    BY <2>3 DEF Listed, IInv, MembersRead
  <2> QED BY <1>1, <1>3, <2>3, <2>4 DEF getStatus
<1> QED BY <1>2, <1>3

\* Sending appends: what was queued stays, and the rest is what was sent.
LEMMA Sends ==
  ASSUME cmds \in Seq(AnyCommand), bond' = bond, NEW q \in Seq(AnyCommand), cmds' = cmds \o q
  PROVE  /\ cmds' \in Seq(AnyCommand)'
         /\ Len(cmds) \in Nat /\ Len(q) \in Nat /\ Len(cmds') = Len(cmds) + Len(q)
         /\ \A i \in 1..Len(cmds') :
              \/ i \in 1..Len(cmds) /\ cmds'[i] = cmds[i]
              \/ i - Len(cmds) \in 1..Len(q) /\ cmds'[i] = q[i - Len(cmds)]
         /\ \A c : Queued(c)' <=> Queued(c) \/ \E k \in 1..Len(q) : q[k] = c
<1>1. /\ Len(cmds) \in Nat /\ Len(q) \in Nat /\ Len(cmds') = Len(cmds) + Len(q)
      /\ \A i \in 1..Len(cmds) : cmds'[i] = cmds[i]
      /\ \A k \in 1..Len(q) : cmds'[Len(cmds) + k] = q[k]
      /\ cmds' \in Seq(AnyCommand)
  OBVIOUS
<1>2. \A i \in 1..Len(cmds') :
        \/ i \in 1..Len(cmds) /\ cmds'[i] = cmds[i]
        \/ i - Len(cmds) \in 1..Len(q) /\ cmds'[i] = q[i - Len(cmds)]
  BY <1>1
<1>3. AnyCommand' = AnyCommand
  BY DEF AnyCommand, Slot, Endpoint, Cmd
<1>4. ASSUME NEW c, Queued(c) PROVE Queued(c)'
  BY <1>1, <1>4 DEF Queued
<1>5. ASSUME NEW c, NEW k \in 1..Len(q), q[k] = c PROVE Queued(c)'
  <2>1. Len(cmds) + k \in 1..Len(cmds') /\ cmds'[Len(cmds) + k] = c
    BY <1>1, <1>5
  <2> QED BY <2>1 DEF Queued
<1>6. ASSUME NEW c, Queued(c)' PROVE Queued(c) \/ \E k \in 1..Len(q) : q[k] = c
  BY <1>2, <1>6 DEF Queued
<1> QED BY <1>1, <1>2, <1>3, <1>4, <1>5, <1>6

\* Receiving takes off exactly the head.
LEMMA Receives ==
  ASSUME IInv, NEW c, Received(c)
  PROVE  /\ cmds' \in Seq(AnyCommand)' /\ Queued(c)
         /\ \A d : Queued(d)' => Queued(d)
         /\ \A d : Queued(d) /\ d # c => Queued(d)'
         /\ OneAsk' /\ RegisterFirst'
         /\ c \in Asks => ~Queued(c)'
         /\ c = Cmd("ConnectGroup") => ~Queued(Cmd("RegisterSocket"))
<1>1. /\ Len(cmds) \in Nat \ {0} /\ Len(cmds') = Len(cmds) - 1
      /\ \A i \in 1..Len(cmds') : cmds'[i] = cmds[i + 1] /\ i + 1 \in 1..Len(cmds)
      /\ cmds[1] = c /\ cmds' \in Seq(AnyCommand) /\ 1 \in 1..Len(cmds)
  BY DEF IInv, Received
<1>2. AnyCommand' = AnyCommand
  BY DEF AnyCommand, Slot, Endpoint, Cmd, Received
<1>3. Queued(c) /\ \A d : Queued(d)' => Queued(d)
  BY <1>1 DEF Queued
<1>4. ASSUME NEW d, Queued(d), d # c PROVE Queued(d)'
  <2>1. PICK i \in 1..Len(cmds) : cmds[i] = d
    BY <1>4 DEF Queued
  <2>2. i - 1 \in 1..Len(cmds') /\ cmds'[i - 1] = d
    BY <1>1, <1>4, <2>1
  <2> QED BY <2>2 DEF Queued
<1>5. OneAsk'
  BY <1>1 DEF IInv, OneAsk, Asks, Cmd
<1>6. RegisterFirst'
  <2> SUFFICES ASSUME NEW i \in 1..Len(cmds'), NEW j \in 1..Len(cmds'),
                      cmds'[i] = Cmd("RegisterSocket"), cmds'[j] = Cmd("ConnectGroup")
               PROVE  i < j
    BY DEF RegisterFirst, Cmd
  <2>1. i + 1 < j + 1
    BY <1>1 DEF IInv, RegisterFirst
  <2> QED BY <2>1
<1>7. c \in Asks => ~Queued(c)'
  <2> SUFFICES ASSUME c \in Asks, NEW i \in 1..Len(cmds'), cmds'[i] = c PROVE FALSE
    BY DEF Queued
  <2>1. i + 1 = 1
    BY <1>1 DEF IInv, OneAsk
  <2> QED BY <2>1
<1>8. c = Cmd("ConnectGroup") => ~Queued(Cmd("RegisterSocket"))
  <2> SUFFICES ASSUME c = Cmd("ConnectGroup"), NEW i \in 1..Len(cmds),
                      cmds[i] = Cmd("RegisterSocket")
               PROVE  FALSE
    BY DEF Queued
  <2>1. i < 1
    BY <1>1 DEF IInv, RegisterFirst
  <2> QED BY <2>1
<1> QED BY <1>1, <1>2, <1>3, <1>4, <1>5, <1>6, <1>7, <1>8

\* A step of the connect future or of the handle keeps the invariant, given
\* what every use of Advance satisfies.
LEMMA AdvanceKeeps ==
  ASSUME IInv, NEW from,
         NEW to \in {"creating", "connecting", "open", "closing", "dropped", "failed", "cancelled"},
         NEW q \in Seq(AnyCommand), Advance(from, to, q), OneAsk', RegisterFirst',
         from \notin {"cancelled", "failed", "dropped"},
         from \in {"creating", "connecting"} => reply # "none" \/ to = "cancelled",
         from = "closing" => to = "dropped",
         to = "creating" => from = "idle",
         to = "connecting" => from = "creating",
         to = "open" => from = "connecting" /\ reply = "Ok",
         \A k \in 1..Len(q) : /\ q[k] = Cmd("CreateGroup") => to = "creating"
                              /\ q[k] = Cmd("ConnectGroup") =>
                                   /\ to = "connecting"
                                   /\ \E l \in 1..Len(q) : q[l] = Cmd("RegisterSocket")
                              /\ q[k] = Cmd("Close") => to \in {"failed", "closing", "dropped"},
         to \in {"failed", "dropped"} => \/ from = "idle" \/ (from = "creating" /\ reply = "Err")
                                         \/ \E k \in 1..Len(q) : q[k] = Cmd("Close")
  PROVE  IInv'
<1>1. /\ task = from /\ task' = to /\ reply' = "none" /\ cmds' = cmds \o q
      /\ UNCHANGED <<bond, racing, adds, present, entry, phase, batch, lib, mem, added, subscribed, err>>
  BY DEF Advance, bridge, loop, libsrt
<1>2. /\ cmds' \in Seq(AnyCommand)'
      /\ \A c : Queued(c)' <=> Queued(c) \/ \E k \in 1..Len(q) : q[k] = c
  BY <1>1, Sends DEF IInv
<1>3. TypeOK'
  <2>1. \A k \in 1..Len(cmds') : cmds'[k] \in AnyCommand'
    BY <1>2
  <2>2. Slot' = Slot /\ Endpoint' = Endpoint
    BY <1>1 DEF Slot, Endpoint
  <2>3. /\ task' \in TaskStates /\ reply' \in {"none", "Ok", "Err"} /\ adds' \in 0..MaxAdds /\ err' \in BOOLEAN
        /\ mem' \in [Slot -> MemberState] /\ added' \in Seq(Endpoint) /\ Len(added') <= MaxAdds
    BY <1>1 DEF IInv, TypeOK, TaskStates
  <2>4. AnyCommand' = AnyCommand
    BY <2>2 DEF AnyCommand, Cmd
  <2> QED BY <1>1, <2>1, <2>3, <2>4, TypeKept DEF IInv
<1>4. AskAwaited' /\ NotClosing' /\ Unborn'
  BY <1>1, <1>2 DEF IInv, AskAwaited, NotClosing, Unborn
<1>5. Newborn' /\ Registered'
  BY <1>1, <1>2 DEF IInv, Newborn, Registered
<1>6. MembersRead' /\ HealthyKept'
  BY <1>1 DEF IInv, MembersRead, HealthyKept, Alive, Slot
<1>7. NoGroupLeak'
  <2>1. to \in {"failed", "dropped"} => lib # "Exists" \/ Queued(Cmd("Close"))'
    BY <1>1, <1>2 DEF IInv, Unborn
  <2> QED BY <1>1, <2>1 DEF NoGroupLeak, Queued
<1> QED BY <1>2, <1>3, <1>4, <1>5, <1>6, <1>7 DEF IInv

\* The future and the handle.
LEMMA TaskKeeps ==
  ASSUME IInv, Task \/ connect \/ Cancel \/ close \/ Drop
  PROVE  IInv'
<1>0. /\ Cmd("CreateGroup") # Cmd("ConnectGroup") /\ Cmd("CreateGroup") # Cmd("Close")
      /\ Cmd("ConnectGroup") # Cmd("Close") /\ Cmd("RegisterSocket") \notin Asks
      /\ Cmd("Close") \notin Asks /\ Cmd("RegisterSocket") # Cmd("Close")
      /\ cmds \in Seq(AnyCommand)
  BY DEF Cmd, Asks, IInv
<1>1. ASSUME NEW from, NEW to, Advance(from, to, <<>>),
             \/ from = "idle" /\ to = "failed"
             \/ from = "creating" /\ to = "failed" /\ reply = "Err"
             \/ from = "connecting" /\ to = "open" /\ reply = "Ok"
             \/ from \in {"creating", "connecting"} /\ to = "cancelled"
      PROVE  IInv'
  <2> DEFINE q == <<>>
  <2>1. q \in Seq(AnyCommand) /\ Len(q) = 0 /\ Advance(from, to, q)
    BY <1>1
  <2>2. cmds' = cmds
    BY <1>0, <1>1 DEF Advance
  <2> HIDE DEF q
  <2>3. \A k \in 1..Len(q) : FALSE
    BY <2>1
  <2>4. OneAsk' /\ RegisterFirst'
    BY <2>2 DEF IInv, OneAsk, RegisterFirst
  <2> QED BY <1>1, <2>1, <2>3, <2>4, AdvanceKeeps
<1>2. ASSUME NEW from, NEW to, NEW c \in {Cmd("CreateGroup"), Cmd("Close")},
             Advance(from, to, <<c>>),
             \/ from = "idle" /\ to = "creating" /\ c = Cmd("CreateGroup")
             \/ from = "connecting" /\ to = "failed" /\ reply = "Err" /\ c = Cmd("Close")
             \/ from = "open" /\ to = "closing" /\ c = Cmd("Close")
             \/ from \in {"open", "closing"} /\ to = "dropped" /\ c = Cmd("Close")
      PROVE  IInv'
  <2> DEFINE q == <<c>>
  <2>1. q \in Seq(AnyCommand) /\ Len(q) = 1 /\ q[1] = c /\ Advance(from, to, q)
    BY <1>2 DEF AnyCommand
  <2>2. task = from /\ cmds' = cmds \o q /\ bond' = bond
    BY <1>2 DEF Advance
  <2>3. \A d \in Asks : ~Queued(d)
    BY <1>2, <2>2 DEF IInv, AskAwaited, Asks
  <2> HIDE DEF q
  <2>4. /\ Len(cmds) \in Nat /\ Len(cmds') = Len(cmds) + 1
        /\ \A i \in 1..Len(cmds') : \/ i \in 1..Len(cmds) /\ cmds'[i] = cmds[i]
                                    \/ i = Len(cmds) + 1 /\ cmds'[i] = c
    <3>1. /\ Len(cmds) \in Nat /\ Len(cmds') = Len(cmds) + Len(q)
          /\ \A i \in 1..Len(cmds') :
               \/ i \in 1..Len(cmds) /\ cmds'[i] = cmds[i]
               \/ i - Len(cmds) \in 1..Len(q) /\ cmds'[i] = q[i - Len(cmds)]
      BY <1>0, <2>1, <2>2, Sends
    <3>2. ASSUME NEW i \in 1..Len(cmds'), i - Len(cmds) \in 1..Len(q)
          PROVE  i - Len(cmds) = 1
      BY <2>1, <3>1, <3>2
    <3> QED BY <2>1, <3>1, <3>2
  <2>5. \A i \in 1..Len(cmds) : cmds[i] \notin Asks
    BY <2>3 DEF Queued
  <2>6. OneAsk'
    <3>1. \A i \in 1..Len(cmds') : cmds'[i] \in Asks => i = Len(cmds) + 1
      BY <2>4, <2>5
    <3> QED BY <3>1 DEF OneAsk, Asks, Cmd
  <2>7. RegisterFirst'
    <3>1. \A i \in 1..Len(cmds') : cmds'[i] # Cmd("ConnectGroup")
      BY <1>0, <2>4, <2>5 DEF Asks
    <3> QED BY <3>1 DEF RegisterFirst, Cmd
  <2>8. \A k \in 1..Len(q) : k = 1
    BY <2>1
  <2>9. 1 \in 1..Len(q)
    BY <2>1
  <2> QED BY <1>0, <1>2, <2>1, <2>6, <2>7, <2>8, <2>9, AdvanceKeeps
<1>3. ASSUME reply = "Ok",
             Advance("creating", "connecting", <<Cmd("RegisterSocket"), Cmd("ConnectGroup")>>)
      PROVE  IInv'
  <2> DEFINE q == <<Cmd("RegisterSocket"), Cmd("ConnectGroup")>>
  <2>1. /\ q \in Seq(AnyCommand) /\ Len(q) = 2 /\ q[1] = Cmd("RegisterSocket")
        /\ q[2] = Cmd("ConnectGroup") /\ Advance("creating", "connecting", q)
    BY <1>3 DEF AnyCommand
  <2>2. task = "creating" /\ cmds' = cmds \o q /\ bond' = bond
    BY <1>3 DEF Advance
  <2>3. \A d \in Asks : ~Queued(d)
    BY <1>3, <2>2 DEF IInv, AskAwaited, Asks
  <2> HIDE DEF q
  <2>4. /\ Len(cmds) \in Nat /\ Len(cmds') = Len(cmds) + 2
        /\ \A i \in 1..Len(cmds') : \/ i \in 1..Len(cmds) /\ cmds'[i] = cmds[i]
                                    \/ i = Len(cmds) + 1 /\ cmds'[i] = Cmd("RegisterSocket")
                                    \/ i = Len(cmds) + 2 /\ cmds'[i] = Cmd("ConnectGroup")
    <3>1. /\ Len(cmds) \in Nat /\ Len(cmds') = Len(cmds) + Len(q)
          /\ \A i \in 1..Len(cmds') :
               \/ i \in 1..Len(cmds) /\ cmds'[i] = cmds[i]
               \/ i - Len(cmds) \in 1..Len(q) /\ cmds'[i] = q[i - Len(cmds)]
      BY <1>0, <2>1, <2>2, Sends
    <3>2. ASSUME NEW i \in 1..Len(cmds'), i - Len(cmds) \in 1..Len(q)
          PROVE  i - Len(cmds) = 1 \/ i - Len(cmds) = 2
      BY <2>1, <3>1, <3>2
    <3> QED BY <2>1, <3>1, <3>2
  <2>5. \A i \in 1..Len(cmds) : cmds[i] \notin Asks
    BY <2>3 DEF Queued
  <2>6. \A i \in 1..Len(cmds') : cmds'[i] \in Asks => i = Len(cmds) + 2
    BY <1>0, <2>4, <2>5
  <2>7. OneAsk'
    BY <2>6 DEF OneAsk, Asks, Cmd
  <2>8. RegisterFirst'
    <3> SUFFICES ASSUME NEW i \in 1..Len(cmds'), NEW j \in 1..Len(cmds'),
                        cmds'[i] = Cmd("RegisterSocket"), cmds'[j] = Cmd("ConnectGroup")
                 PROVE  i < j
      BY DEF RegisterFirst, Cmd
    <3>1. j = Len(cmds) + 2
      BY <2>6 DEF Asks
    <3>2. i # Len(cmds) + 2
      BY <1>0, <2>4, <3>1 DEF Asks
    <3> QED BY <2>4, <3>1, <3>2
  <2>9. \A k \in 1..Len(q) : k = 1 \/ k = 2
    BY <2>1
  <2>10. 1 \in 1..Len(q)
    BY <2>1
  <2>11. \A k \in 1..Len(q) :
           /\ q[k] # Cmd("CreateGroup") /\ q[k] # Cmd("Close")
           /\ \E l \in 1..Len(q) : q[l] = Cmd("RegisterSocket")
    BY <1>0, <2>1, <2>9, <2>10 DEF Asks
  <2> QED BY <1>3, <2>1, <2>7, <2>8, <2>11, AdvanceKeeps
<1>4. CASE Task
  BY <1>1, <1>2, <1>3, <1>4 DEF Task, Created, ConnectAnswered
<1>5. CASE connect
  BY <1>1, <1>2, <1>5 DEF connect
<1>6. CASE Cancel \/ close \/ Drop
  BY <1>1, <1>2, <1>6 DEF Cancel, close, Drop
<1> QED BY <1>4, <1>5, <1>6

\* add_member only queues a command that no other part of the invariant is
\* about.
LEMMA AddMemberKeeps ==
  ASSUME IInv, NEW i \in Endpoint, add_member(i)
  PROVE  IInv'
<1> DEFINE c == <<"AddGroupMember", i>>
<1>1. cmds \in Seq(AnyCommand) /\ c \in AnyCommand
  BY DEF IInv, AnyCommand, Cmd
<1>2. c \notin Asks /\ c # Cmd("RegisterSocket") /\ c # Cmd("ConnectGroup") /\ c # Cmd("Close")
      /\ c # Cmd("CreateGroup")
  BY DEF Asks, Cmd
<1>3. /\ cmds' = Append(cmds, c) /\ adds < MaxAdds /\ adds' = adds + 1
      /\ UNCHANGED <<task, bond, racing, reply, present, entry, phase, batch, lib, mem,
                     added, subscribed, err>>
  BY DEF add_member, bridge, loop, libsrt
<1>4. Slot' = Slot /\ Endpoint' = Endpoint /\ AnyCommand' = AnyCommand
  BY <1>3 DEF Slot, Endpoint, AnyCommand, Cmd
<1> HIDE DEF c
<1>5. /\ Len(cmds) \in Nat /\ Len(cmds') = Len(cmds) + 1 /\ cmds' \in Seq(AnyCommand)
      /\ \A k \in 1..Len(cmds) : cmds'[k] = cmds[k]
      /\ cmds'[Len(cmds) + 1] = c
  BY <1>1, <1>3
<1>6. \A k \in 1..Len(cmds') : \/ k \in 1..Len(cmds) /\ cmds'[k] = cmds[k]
                               \/ cmds'[k] = c
  BY <1>5
<1>7. \A d : d # c => (Queued(d)' <=> Queued(d))
  <2>1. ASSUME NEW d, d # c, Queued(d)' PROVE Queued(d)
    BY <1>6, <2>1 DEF Queued
  <2>2. ASSUME NEW d, Queued(d) PROVE Queued(d)'
    BY <1>5, <2>2 DEF Queued
  <2> QED BY <2>1, <2>2
<1>8. TypeOK'
  <2>1. \A k \in 1..Len(cmds') : cmds'[k] \in AnyCommand
    BY <1>5
  <2>2. adds' \in 0..MaxAdds
    BY <1>3, GroupAssumption DEF IInv, TypeOK
  <2>3. /\ task' \in TaskStates /\ reply' \in {"none", "Ok", "Err"} /\ err' \in BOOLEAN
        /\ mem' \in [Slot -> MemberState] /\ added' \in Seq(Endpoint) /\ Len(added') <= MaxAdds
    BY <1>3 DEF IInv, TypeOK, TaskStates
  <2> QED BY <1>3, <2>1, <2>2, <2>3, TypeKept DEF IInv
<1>9. OneAsk' /\ RegisterFirst'
  <2>1. OneAsk'
    BY <1>2, <1>6 DEF IInv, OneAsk, Asks, Cmd
  <2>2. RegisterFirst'
    BY <1>2, <1>6 DEF IInv, RegisterFirst, Cmd
  <2> QED BY <2>1, <2>2
<1>10. AskAwaited' /\ NotClosing' /\ Newborn' /\ Registered' /\ Unborn'
  BY <1>2, <1>3, <1>7 DEF IInv, AskAwaited, NotClosing, Newborn, Registered, Unborn
<1>11. MembersRead' /\ HealthyKept'
  BY <1>3, <1>4 DEF IInv, MembersRead, HealthyKept, Alive
<1>12. NoGroupLeak'
  <2>1. Queued(Cmd("Close")) => Queued(Cmd("Close"))'
    BY <1>2, <1>7
  <2> QED BY <1>3, <2>1 DEF IInv, NoGroupLeak, Queued
<1> QED BY <1>4, <1>5, <1>8, <1>9, <1>10, <1>11, <1>12 DEF IInv

\* What every received command has in common: the state of the future and of
\* the loop is left alone, and the queue keeps its shape.
LEMMA Took ==
  ASSUME IInv, NEW c, Received(c)
  PROVE  /\ UNCHANGED <<task, bond, racing, adds, phase, batch>>
         /\ Slot' = Slot /\ Endpoint' = Endpoint /\ batch = FALSE
         /\ cmds' \in Seq(AnyCommand)'
         /\ \A k \in 1..Len(cmds') : cmds'[k] \in AnyCommand
         /\ OneAsk' /\ RegisterFirst' /\ NotClosing'
         /\ c # Cmd("Close") /\ lib' = lib => NoGroupLeak'
<1>1. UNCHANGED <<task, bond, racing, adds, phase, batch>> /\ Slot' = Slot /\ Endpoint' = Endpoint /\ batch = FALSE
  <2>1. phase = "cmds" /\ UNCHANGED <<task, bond, racing, adds, phase, batch>>
    BY DEF Received, loop
  <2>2. batch \in IF phase = "events" THEN BOOLEAN ELSE {FALSE}
    BY DEF IInv, TypeOK
  <2> QED BY <2>1, <2>2 DEF Slot, Endpoint
<1>2. AnyCommand' = AnyCommand
  BY <1>1 DEF AnyCommand, Slot, Endpoint, Cmd
<1>3. /\ cmds' \in Seq(AnyCommand)'
      /\ \A d : Queued(d)' => Queued(d)
      /\ \A d : Queued(d) /\ d # c => Queued(d)'
      /\ OneAsk' /\ RegisterFirst'
  BY Receives
<1>4. \A k \in 1..Len(cmds') : cmds'[k] \in AnyCommand
  BY <1>2, <1>3
<1>5. NotClosing'
  BY <1>1, <1>3 DEF IInv, NotClosing
<1>6. c # Cmd("Close") /\ lib' = lib => NoGroupLeak'
  <2>1. c # Cmd("Close") /\ Queued(Cmd("Close")) => Queued(Cmd("Close"))'
    BY <1>3
  <2> QED BY <1>1, <2>1 DEF IInv, NoGroupLeak, Queued
<1> QED BY <1>1, <1>3, <1>4, <1>5, <1>6

\* The answer to an ask that is still queued: it reaches a future that waits
\* for it, or one that was dropped.
LEMMA Answered ==
  ASSUME IInv, NEW c \in Asks, Received(c), NEW answer, Deliver(answer)
  PROVE  /\ \/ task = "cancelled"
            \/ /\ task = IF c = Cmd("CreateGroup") THEN "creating" ELSE "connecting"
               /\ reply = "none" /\ reply' = answer
         /\ task = "cancelled" => reply' = reply
         /\ AskAwaited'
<1>1. Queued(c) /\ ~Queued(c)' /\ \A d : Queued(d)' => Queued(d)
  BY Receives
<1>2. c = Cmd("CreateGroup") \/ c = Cmd("ConnectGroup")
  BY DEF Asks
<1>3. Cmd("CreateGroup") # Cmd("ConnectGroup")
  BY DEF Cmd
<1>4. task = "cancelled" \/ (task = (IF c = Cmd("CreateGroup") THEN "creating" ELSE "connecting")
                             /\ reply = "none")
  BY <1>1, <1>2, <1>3 DEF IInv, AskAwaited
<1>5. task' = task
  BY DEF Received
<1>6. /\ task = "cancelled" => reply' = reply
      /\ task \in {"creating", "connecting"} => reply' = answer
  BY DEF Deliver
<1>7. AskAwaited'
  BY <1>1, <1>2, <1>3, <1>4, <1>5 DEF IInv, AskAwaited
<1> QED BY <1>4, <1>6, <1>7

\* The group is made for a future that waits for it, or that was dropped.
LEMMA CreateGroupKeeps ==
  ASSUME IInv, CreateGroup
  PROVE  IInv'
<1> DEFINE c == Cmd("CreateGroup")
<1>1. /\ Received(c) /\ UNCHANGED <<entry, mem, added, subscribed, err>>
      /\ \/ lib' = "Exists" /\ present' = TRUE /\ Deliver("Ok")
         \/ UNCHANGED <<lib, present>> /\ Deliver("Err")
  BY DEF CreateGroup
<1>2. c \in Asks /\ c # Cmd("Close") /\ c # Cmd("RegisterSocket")
  BY DEF Asks, Cmd
<1>3. PICK answer \in {"Ok", "Err"} :
        Deliver(answer) /\ (answer = "Err" => UNCHANGED <<lib, present>>)
                        /\ (answer = "Ok" => lib' = "Exists" /\ present' = TRUE)
  BY <1>1
<1>4. /\ task = "cancelled" \/ (task = "creating" /\ reply = "none" /\ reply' = answer)
      /\ task = "cancelled" => reply' = reply
      /\ AskAwaited'
  BY <1>1, <1>2, <1>3, Answered
<1>5. /\ UNCHANGED <<task, bond, racing, adds, phase, batch>>
      /\ Slot' = Slot /\ Endpoint' = Endpoint
      /\ cmds' \in Seq(AnyCommand)'
      /\ \A k \in 1..Len(cmds') : cmds'[k] \in AnyCommand
      /\ OneAsk' /\ RegisterFirst' /\ NotClosing'
  BY <1>1, Took
<1>6. /\ \A d : Queued(d)' => Queued(d)
      /\ \A d : Queued(d) /\ d # c => Queued(d)'
  BY <1>1, Receives
<1>7. TypeOK'
  BY <1>1, <1>3, <1>4, <1>5 DEF IInv, TypeOK, AnyCommand, Cmd
<1>8. Newborn' /\ Unborn'
  BY <1>1, <1>3, <1>4, <1>5, <1>6 DEF IInv, Newborn, Unborn
<1>9. Registered'
  BY <1>1, <1>2, <1>6 DEF IInv, Registered
<1>10. MembersRead' /\ HealthyKept' /\ NoGroupLeak'
  BY <1>1, <1>3, <1>4, <1>5 DEF IInv, MembersRead, HealthyKept, NoGroupLeak
<1> QED BY <1>4, <1>5, <1>7, <1>8, <1>9, <1>10 DEF IInv

\* Registration gives the entry both its channel ends.
LEMMA RegisterSocketKeeps ==
  ASSUME IInv, RegisterSocket
  PROVE  IInv'
<1> DEFINE c == Cmd("RegisterSocket")
<1>1. /\ Received(c)
      /\ entry' = [entry EXCEPT !.recv_tx = TRUE, !.send_rx = TRUE]
      /\ UNCHANGED <<reply, present, lib, mem, added, subscribed, err>>
  BY DEF RegisterSocket, libsrt
<1>2. c # Cmd("Close") /\ c \notin Asks /\ c # Cmd("ConnectGroup")
  BY DEF Asks, Cmd
<1>3. /\ entry'.recv_tx /\ entry'.send_rx /\ entry'.last_status = entry.last_status
      /\ entry' \in [last_status : SocketStatus, recv_tx : BOOLEAN, send_rx : BOOLEAN]
  BY <1>1 DEF IInv, TypeOK
<1>4. /\ UNCHANGED <<task, bond, racing, adds, phase, batch>>
      /\ Slot' = Slot /\ Endpoint' = Endpoint
      /\ cmds' \in Seq(AnyCommand)'
      /\ \A k \in 1..Len(cmds') : cmds'[k] \in AnyCommand
      /\ OneAsk' /\ RegisterFirst' /\ NotClosing' /\ NoGroupLeak'
  BY <1>1, <1>2, Took
<1>5. \A d : Queued(d)' => Queued(d)
  BY <1>1, Receives
<1>6. TypeOK'
  BY <1>1, <1>3, <1>4 DEF IInv, TypeOK, AnyCommand, Cmd
<1>7. AskAwaited' /\ Newborn' /\ Unborn' /\ Registered'
  BY <1>1, <1>3, <1>4, <1>5 DEF IInv, AskAwaited, Newborn, Unborn, Registered
<1>8. MembersRead' /\ HealthyKept'
  BY <1>1, <1>3, <1>4 DEF IInv, MembersRead, HealthyKept
<1> QED BY <1>4, <1>6, <1>7, <1>8 DEF IInv

\* The connect, refused or not, finds the group registered and its channel
\* ends in place.
LEMMA ConnectGroupKeeps ==
  ASSUME IInv, ConnectRefused \/ ConnectSpawned
  PROVE  IInv'
<1> DEFINE c == Cmd("ConnectGroup")
<1>1. Received(c) /\ UNCHANGED <<present, lib>>
  BY DEF ConnectRefused, ConnectSpawned, bridge, libsrt
<1>2. c \in Asks /\ c # Cmd("Close") /\ c # Cmd("CreateGroup")
  BY DEF Asks, Cmd
<1>3. PICK answer \in {"Ok", "Err"} :
        /\ Deliver(answer)
        /\ answer = "Err" => UNCHANGED <<entry, mem, added, subscribed, err>>
        /\ answer = "Ok" => ConnectSpawned
  BY DEF ConnectRefused, ConnectSpawned, bridge, libsrt
<1>4. /\ task = "cancelled" \/ (task = "connecting" /\ reply = "none" /\ reply' = answer)
      /\ task = "cancelled" => reply' = reply
      /\ AskAwaited'
  BY <1>1, <1>2, <1>3, Answered
<1>5. /\ UNCHANGED <<task, bond, racing, adds, phase, batch>>
      /\ Slot' = Slot /\ Endpoint' = Endpoint
      /\ cmds' \in Seq(AnyCommand)'
      /\ \A k \in 1..Len(cmds') : cmds'[k] \in AnyCommand
      /\ OneAsk' /\ RegisterFirst' /\ NotClosing' /\ NoGroupLeak'
  BY <1>1, <1>2, Took
<1>6. Queued(c) /\ ~Queued(c)' /\ ~Queued(Cmd("RegisterSocket"))
  BY <1>1, <1>2, Receives
<1>7. answer = "Ok" =>
        /\ lib = "Exists" /\ mem' \in [Slot -> {"none", "Pending", "Up"}]
        /\ {subscribed', err'} \subseteq BOOLEAN /\ added' = added
        /\ entry' = entry \/ entry' = update_status(entry, "Connected")
  BY <1>3 DEF ConnectSpawned
<1>8. entry.recv_tx /\ entry.send_rx
  BY <1>6 DEF IInv, Registered
<1>9. entry \in [last_status : SocketStatus, recv_tx : BOOLEAN, send_rx : BOOLEAN]
  BY DEF IInv, TypeOK
<1>10. "Connected" \in SocketStatus /\ ~is_terminal_status("Connected")
  BY DEF SocketStatus, is_terminal_status
<1>11. /\ entry' \in [last_status : SocketStatus, recv_tx : BOOLEAN, send_rx : BOOLEAN]
       /\ entry'.recv_tx /\ entry'.send_rx
  BY <1>3, <1>7, <1>8, <1>9, <1>10, UpdateStatusFields
<1>12. mem' \in [Slot -> MemberState] /\ {subscribed', err'} \subseteq BOOLEAN /\ added' = added
  BY <1>3, <1>7 DEF IInv, TypeOK, MemberState
<1>13. TypeOK'
  BY <1>1, <1>3, <1>4, <1>5, <1>11, <1>12 DEF IInv, TypeOK, AnyCommand, Cmd
<1>14. Newborn' /\ Unborn' /\ Registered' /\ HealthyKept'
  BY <1>4, <1>5, <1>6, <1>11 DEF Newborn, Unborn, Registered, HealthyKept
<1>15. MembersRead'
  BY <1>1, <1>3, <1>5, <1>7 DEF IInv, MembersRead
<1> QED BY <1>4, <1>5, <1>13, <1>14, <1>15 DEF IInv

\* A member is added only to a group that has a link already.
LEMMA AddGroupMemberKeeps ==
  ASSUME IInv, NEW i \in Endpoint, AddGroupMember(i)
  PROVE  IInv'
<1> DEFINE c == <<"AddGroupMember", i>>
<1>1. /\ Received(c) /\ UNCHANGED <<reply, present, entry, lib, subscribed, err>>
      /\ \/ mem' = mem /\ added' = added
         \/ /\ getStatus = "Connected"
            /\ Len(added) < MaxAdds /\ added' = Append(added, i)
            /\ mem' = [mem EXCEPT ![Len(bond) + Len(added')] = "Pending"]
  BY DEF AddGroupMember, bridge
<1>2. c # Cmd("Close")
  BY DEF Cmd
<1>3. /\ UNCHANGED <<task, bond, racing, adds, phase, batch>>
      /\ Slot' = Slot /\ Endpoint' = Endpoint
      /\ cmds' \in Seq(AnyCommand)'
      /\ \A k \in 1..Len(cmds') : cmds'[k] \in AnyCommand
      /\ OneAsk' /\ RegisterFirst' /\ NotClosing' /\ NoGroupLeak'
  BY <1>1, <1>2, Took
<1>4. /\ \A d : Queued(d)' => Queued(d)
      /\ \A d : Queued(d) /\ d # c => Queued(d)'
  BY <1>1, Receives
<1>5. getStatus = "Connected" => lib = "Exists" /\ Alive
  BY DEF getStatus, Alive
<1>6. mem \in [Slot -> MemberState]
  BY DEF IInv, TypeOK
<1>7. mem' \in [Slot -> MemberState] /\ \A j \in Slot : mem'[j] = mem[j] \/ mem'[j] = "Pending"
  BY <1>1, <1>6 DEF MemberState
<1>8. TypeOK'
  <2>1. /\ task' \in TaskStates /\ reply' \in {"none", "Ok", "Err"} /\ adds' \in 0..MaxAdds /\ err' \in BOOLEAN
    BY <1>1, <1>3 DEF IInv, TypeOK, TaskStates
  <2>2. added' \in Seq(Endpoint) /\ Len(added') <= MaxAdds
    <3>1. added \in Seq(Endpoint) /\ Len(added) <= MaxAdds /\ MaxAdds \in Nat
      BY GroupAssumption DEF IInv, TypeOK
    <3>2. CASE Len(added) < MaxAdds /\ added' = Append(added, i)
      BY <3>1, <3>2
    <3> QED BY <1>1, <3>1, <3>2
  <2> QED BY <1>1, <1>3, <1>7, <2>1, <2>2, TypeKept DEF IInv
<1>9. AskAwaited' /\ Newborn' /\ Unborn'
  BY <1>1, <1>3, <1>4 DEF IInv, AskAwaited, Newborn, Unborn
<1>10. Registered'
  <2>1. c # Cmd("RegisterSocket")
    BY DEF Cmd
  <2> QED BY <1>1, <1>4, <2>1 DEF IInv, Registered
<1>11. MembersRead'
  BY <1>1, <1>3, <1>5, <1>7 DEF IInv, MembersRead
<1>12. HealthyKept'
  <2>1. Alive' => Alive
    BY <1>1, <1>3, <1>5 DEF Alive
  <2> QED BY <1>1, <1>3, <2>1 DEF IInv, HealthyKept
<1> QED BY <1>3, <1>8, <1>9, <1>10, <1>11, <1>12 DEF IInv

\* A Close comes only after the connect has failed or the handle is done.
LEMMA CloseKeeps ==
  ASSUME IInv, Close
  PROVE  IInv'
<1> DEFINE c == Cmd("Close")
<1>1. /\ Received(c) /\ reply' = reply
      /\ subscribed' = FALSE /\ err' = FALSE /\ lib' = "Closed"
      /\ mem' = [i \in Slot |-> "none"] /\ added' = added /\ present' = FALSE
      /\ entry' = [entry EXCEPT !.recv_tx = FALSE, !.send_rx = FALSE]
  BY DEF Close
<1>2. /\ UNCHANGED <<task, bond, racing, adds, phase, batch>>
      /\ Slot' = Slot /\ Endpoint' = Endpoint
      /\ cmds' \in Seq(AnyCommand)'
      /\ \A k \in 1..Len(cmds') : cmds'[k] \in AnyCommand
      /\ OneAsk' /\ RegisterFirst' /\ NotClosing'
  BY <1>1, Took
<1>3. Queued(c) /\ \A d : Queued(d)' => Queued(d)
  BY <1>1, Receives
<1>4. task \in {"failed", "closing", "dropped"}
  BY <1>3 DEF IInv, NotClosing
<1>5. /\ entry' \in [last_status : SocketStatus, recv_tx : BOOLEAN, send_rx : BOOLEAN]
      /\ mem' \in [Slot -> MemberState]
  BY <1>1 DEF IInv, TypeOK, MemberState
<1>6. TypeOK'
  BY <1>1, <1>2, <1>5 DEF IInv, TypeOK, AnyCommand, Cmd
<1>7. ~Queued(Cmd("ConnectGroup"))' /\ ~Queued(Cmd("CreateGroup"))'
  BY <1>3, <1>4 DEF IInv, AskAwaited
<1>8. AskAwaited' /\ Newborn' /\ Unborn' /\ Registered' /\ HealthyKept' /\ NoGroupLeak'
  BY <1>1, <1>2, <1>4, <1>7
  DEF AskAwaited, Newborn, Unborn, Registered, HealthyKept, NoGroupLeak
<1>9. MembersRead'
  BY <1>1, <1>2 DEF MembersRead
<1> QED BY <1>2, <1>6, <1>8, <1>9 DEF IInv

\* A step that leaves the queue alone keeps what is said of the queue.
LEMMA SameQueue ==
  ASSUME IInv, UNCHANGED <<task, bond, racing, reply, adds, cmds>>
  PROVE  /\ Slot' = Slot /\ Endpoint' = Endpoint /\ AnyCommand' = AnyCommand /\ cmds' \in Seq(AnyCommand)'
         /\ \A k \in 1..Len(cmds') : cmds'[k] \in AnyCommand
         /\ OneAsk' /\ AskAwaited' /\ RegisterFirst' /\ NotClosing'
         /\ \A d : Queued(d)' <=> Queued(d)
         /\ lib' = lib => Unborn' /\ NoGroupLeak'
<1>1. Slot' = Slot /\ Endpoint' = Endpoint
  BY DEF Slot, Endpoint
<1>2. AnyCommand' = AnyCommand
  BY <1>1 DEF AnyCommand, Cmd
<1>3. cmds' \in Seq(AnyCommand)' /\ \A k \in 1..Len(cmds') : cmds'[k] \in AnyCommand
  BY <1>2 DEF IInv
<1>4. \A d : Queued(d)' <=> Queued(d)
  BY DEF Queued
<1>5. OneAsk' /\ RegisterFirst'
  BY DEF IInv, OneAsk, RegisterFirst
<1>6. AskAwaited' /\ NotClosing'
  BY <1>4 DEF IInv, AskAwaited, NotClosing
<1>7. lib' = lib => Unborn' /\ NoGroupLeak'
  BY DEF IInv, Unborn, NoGroupLeak
<1> QED BY <1>1, <1>2, <1>3, <1>4, <1>5, <1>6, <1>7

\* The rest of the loop: a status read from a group that has links is not
\* terminal, and a newborn group has no event and no status to lose.
LEMMA LoopKeeps ==
  ASSUME IInv, EpollWait \/ ProcessErr \/ NoPoll \/ PollState
  PROVE  IInv'
<1>1. /\ UNCHANGED <<task, bond, racing, reply, adds, cmds, present, lib, mem, added, subscribed>>
  BY DEF EpollWait, ProcessErr, NoPoll, PollState, tokio, bridge, libsrt
<1>2. /\ Slot' = Slot /\ Endpoint' = Endpoint /\ AnyCommand' = AnyCommand /\ cmds' \in Seq(AnyCommand)'
      /\ \A k \in 1..Len(cmds') : cmds'[k] \in AnyCommand
      /\ OneAsk' /\ AskAwaited' /\ RegisterFirst' /\ NotClosing'
      /\ \A d : Queued(d)' <=> Queued(d)
      /\ Unborn' /\ NoGroupLeak'
  BY <1>1, SameQueue
<1>3. /\ entry \in [last_status : SocketStatus, recv_tx : BOOLEAN, send_rx : BOOLEAN]
      /\ raw_state_to_status(getStatus) \in SocketStatus /\ "Broken" \in SocketStatus
  BY DEF IInv, TypeOK, raw_state_to_status, SocketStatus
<1>4. PICK st \in SocketStatus :
        /\ entry' = entry \/ entry' = update_status(entry, st)
        /\ entry' = entry \/ entry.last_status # "Init" \/ batch
        /\ ~racing /\ Alive => entry' = entry \/ ~is_terminal_status(st)
  <2>1. ~racing /\ Alive => ~is_terminal_status(raw_state_to_status(getStatus))
    BY AliveReads DEF is_terminal_status, raw_state_to_status, SocketStatus
  <2>2. CASE EpollWait \/ NoPoll
    <3>1. entry' = entry
      BY <2>2 DEF EpollWait, NoPoll, bridge
    <3> QED BY <1>3, <3>1
  <2>3. CASE ProcessErr
    <3>1. \/ entry' = entry
          \/ /\ batch /\ is_terminal_status(raw_state_to_status(getStatus))
             /\ entry' = update_status(entry, "Broken")
      BY <2>3 DEF ProcessErr, group_err_is_real
    <3> QED BY <1>3, <2>1, <3>1
  <2>4. CASE PollState
    <3>1. \/ entry' = entry
          \/ /\ entry.last_status # "Init"
             /\ entry' = update_status(entry, raw_state_to_status(getStatus))
      BY <2>4 DEF PollState
    <3> QED BY <1>3, <2>1, <3>1
  <2> QED BY <2>2, <2>3, <2>4
<1>5. /\ entry' \in [last_status : SocketStatus, recv_tx : BOOLEAN, send_rx : BOOLEAN]
      /\ ~racing /\ Alive /\ entry.recv_tx /\ entry.send_rx => entry'.recv_tx /\ entry'.send_rx
  BY <1>3, <1>4, UpdateStatusFields
<1>6. /\ phase' \in {"cmds", "events", "poll"} /\ err' \in BOOLEAN
      /\ batch' \in IF phase' = "events" THEN BOOLEAN ELSE {FALSE}
      /\ err' => err
      /\ batch' => batch \/ err
  <2>1. err \in BOOLEAN /\ batch \in BOOLEAN /\ (phase # "events" => batch = FALSE)
    BY DEF IInv, TypeOK
  <2>2. CASE EpollWait
    BY <2>1, <2>2 DEF EpollWait
  <2>3. CASE ProcessErr
    BY <2>1, <2>3 DEF ProcessErr, libsrt
  <2>4. CASE NoPoll \/ PollState
    <3>1. phase = "poll" /\ phase' = "cmds" /\ batch' = batch /\ err' = err
      BY <2>4 DEF NoPoll, PollState, libsrt
    <3> QED BY <2>1, <3>1
  <2> QED BY <2>2, <2>3, <2>4
<1>7. TypeOK'
  BY <1>1, <1>2, <1>5, <1>6 DEF IInv, TypeOK, AnyCommand, Cmd
<1>8. Newborn' /\ Registered'
  BY <1>1, <1>2, <1>4, <1>6 DEF IInv, Newborn, Registered
<1>9. MembersRead' /\ HealthyKept'
  BY <1>1, <1>2, <1>5 DEF IInv, MembersRead, HealthyKept, Alive
<1> QED BY <1>2, <1>7, <1>8, <1>9 DEF IInv

\* libsrt's own moves bring no member to a group that has none, and raise ERR
\* only on a group that is in the epoll.
LEMMA LibsrtKeeps ==
  ASSUME IInv, NEW i \in Slot, Libsrt(i)
  PROVE  IInv'
<1>1. PICK from \in SUBSET MemberState, to \in MemberState :
        /\ MemberMove(i, from, to)
        /\ from \cap {"none"} = {}
        /\ to = "none" \/ from \cap {"Failed"} = {}
        /\ ~racing => to \notin {"Midway", "Failed"}
  BY DEF Libsrt, HandshakeMidway, HandshakeDone, HandshakeFails, Unlisted, LinkBreaks, MemberState
<1>2. /\ lib = "Exists" /\ mem[i] \in from /\ mem' = [mem EXCEPT ![i] = to]
      /\ err' = err \/ (err' = (err \/ (subscribed /\ \A j \in Slot : mem'[j] # "Up")))
      /\ UNCHANGED <<task, bond, racing, reply, adds, cmds, present, entry, phase, batch, lib,
                     added, subscribed>>
  BY <1>1 DEF MemberMove, tokio, bridge, loop
<1>3. /\ Slot' = Slot /\ Endpoint' = Endpoint /\ AnyCommand' = AnyCommand /\ cmds' \in Seq(AnyCommand)'
      /\ \A k \in 1..Len(cmds') : cmds'[k] \in AnyCommand
      /\ OneAsk' /\ AskAwaited' /\ RegisterFirst' /\ NotClosing'
      /\ \A d : Queued(d)' <=> Queued(d)
      /\ Unborn' /\ NoGroupLeak'
  BY <1>2, SameQueue
<1>4. mem \in [Slot -> MemberState] /\ subscribed \in BOOLEAN /\ err \in BOOLEAN
  BY DEF IInv, TypeOK
<1>5. err' \in BOOLEAN /\ (~subscribed /\ ~err => ~err')
  BY <1>2, <1>4
<1>6. mem' \in [Slot -> MemberState] /\ mem'[i] = to /\ \A j \in Slot : j # i => mem'[j] = mem[j]
  BY <1>1, <1>2, <1>4
<1>7. TypeOK'
  <2>1. /\ task' \in TaskStates /\ reply' \in {"none", "Ok", "Err"} /\ adds' \in 0..MaxAdds
        /\ added' \in Seq(Endpoint) /\ Len(added') <= MaxAdds
    BY <1>2 DEF IInv, TypeOK, TaskStates
  <2> QED BY <1>2, <1>3, <1>5, <1>6, <2>1, TypeKept DEF IInv
<1>8. Newborn' /\ Registered'
  BY <1>2, <1>3, <1>5 DEF IInv, Newborn, Registered
<1>9. MembersRead'
  BY <1>1, <1>2, <1>3, <1>6 DEF IInv, MembersRead
<1>10. HealthyKept'
  <2>1. Alive' => Alive
    <3>1. to # "none" => mem[i] \in {"Pending", "Midway", "Up"}
      BY <1>1, <1>2, <1>4 DEF MemberState
    <3> QED BY <1>3, <1>6, <3>1 DEF Alive
  <2> QED BY <1>2, <2>1 DEF IInv, HealthyKept
<1> QED BY <1>3, <1>7, <1>8, <1>9, <1>10 DEF IInv

-----------------------------------------------------------------------------
(* The theorems.                                                           *)

\* The first state: nothing asked, nothing made.
LEMMA InitKeeps ==
  Init => IInv
<1> SUFFICES ASSUME Init PROVE IInv
  OBVIOUS
<1>1. cmds = <<>> /\ Len(cmds) = 0 /\ cmds \in Seq(AnyCommand) /\ \A k \in 1..Len(cmds) : FALSE
  BY DEF Init
<1>2. TypeOK
  <2>1. /\ entry \in [last_status : SocketStatus, recv_tx : BOOLEAN, send_rx : BOOLEAN]
        /\ mem \in [Slot -> MemberState] /\ adds \in 0..MaxAdds /\ racing \in BOOLEAN
        /\ added \in Seq(Endpoint) /\ Len(added) = 0 /\ MaxAdds \in Nat
    BY GroupAssumption DEF Init, SocketStatus, MemberState
  <2>2. \A k \in 1..Len(cmds) : cmds[k] \in AnyCommand
    BY <1>1
  <2>3. Init
    OBVIOUS
  <2>4. /\ task \in TaskStates /\ bond \in Bonds /\ reply \in {"none", "Ok", "Err"}
        /\ present \in BOOLEAN /\ phase \in {"cmds", "events", "poll"}
        /\ batch \in IF phase = "events" THEN BOOLEAN ELSE {FALSE}
        /\ lib \in {"None", "Exists", "Closed"} /\ {subscribed, err} \subseteq BOOLEAN
    BY ONLY <2>3 DEF Init, TaskStates
  <2>5. Len(added) <= MaxAdds
    BY ONLY <2>1
  <2> QED BY ONLY <2>1, <2>2, <2>4, <2>5 DEF TypeOK, TaskStates, AnyCommand
<1>3. OneAsk /\ AskAwaited /\ RegisterFirst /\ NotClosing
  BY <1>1 DEF OneAsk, AskAwaited, RegisterFirst, NotClosing, Queued
<1>4. Newborn /\ Registered /\ Unborn /\ MembersRead /\ HealthyKept /\ NoGroupLeak
  BY <1>1 DEF Init, Newborn, Registered, Unborn, MembersRead, HealthyKept, NoGroupLeak, Queued
<1> QED BY <1>1, <1>2, <1>3, <1>4 DEF IInv

\* The group's life keeps the inductive invariant: every step of the connect
\* future, of the handle, of the srt-io thread and of libsrt.
THEOREM Invariant ==
  Spec => []IInv
<1>1. Init => IInv
  BY InitKeeps
<1>2. IInv /\ [Next]_vars => IInv'
  <2> SUFFICES ASSUME IInv, [Next]_vars PROVE IInv'
    OBVIOUS
  <2>1. CASE App
    BY <2>1, TaskKeeps, AddMemberKeeps DEF App
  <2>2. CASE Task
    BY <2>2, TaskKeeps
  <2>3. CASE io_thread_main
    BY <2>3, CreateGroupKeeps, RegisterSocketKeeps, ConnectGroupKeeps, AddGroupMemberKeeps,
       CloseKeeps, LoopKeeps
    DEF io_thread_main
  <2>4. CASE \E i \in Slot : Libsrt(i)
    BY <2>4, LibsrtKeeps
  <2>5. CASE UNCHANGED vars
    <3>1. UNCHANGED <<task, bond, racing, reply, adds, cmds, present, entry, phase, batch, lib,
                      mem, added, subscribed, err>>
      BY <2>5 DEF vars
    <3>2. /\ Slot' = Slot /\ Endpoint' = Endpoint /\ cmds' \in Seq(AnyCommand)'
          /\ \A k \in 1..Len(cmds') : cmds'[k] \in AnyCommand
          /\ OneAsk' /\ AskAwaited' /\ RegisterFirst' /\ NotClosing'
          /\ \A d : Queued(d)' <=> Queued(d)
          /\ Unborn' /\ NoGroupLeak'
      BY <3>1, SameQueue
    <3>3. TypeOK'
      <4>1. /\ task' \in TaskStates /\ reply' \in {"none", "Ok", "Err"} /\ adds' \in 0..MaxAdds /\ err' \in BOOLEAN
            /\ mem' \in [Slot -> MemberState]
            /\ added' \in Seq(Endpoint) /\ Len(added') <= MaxAdds
        BY <3>1 DEF IInv, TypeOK, TaskStates
      <4> QED BY <3>1, <3>2, <4>1, TypeKept DEF IInv
    <3>4. Newborn' /\ Registered'
      BY <3>1, <3>2 DEF IInv, Newborn, Registered
    <3>5. MembersRead' /\ HealthyKept'
      BY <3>1, <3>2 DEF IInv, MembersRead, HealthyKept, Alive
    <3> QED BY <3>2, <3>3, <3>4, <3>5 DEF IInv
  <2> QED BY <2>1, <2>2, <2>3, <2>4, <2>5 DEF Next
<1> QED BY <1>1, <1>2, PTL DEF Spec

\* Every variable keeps its type, and an ERR taken from the epoll is gone by
\* the end of the pass that handled it.
THEOREM TypeCorrect ==
  Spec => []TypeOK
<1>1. IInv => TypeOK
  BY DEF IInv
<1> QED BY <1>1, Invariant, PTL

\* No group is left in libsrt without an owner or a queued Close, whatever
\* the answers and whenever the handle is dropped.
THEOREM GroupNeverLeaked ==
  Spec => []NoGroupLeak
<1>1. IInv => NoGroupLeak
  BY DEF IInv
<1> QED BY <1>1, Invariant, PTL

\* A group with a link, or one still to come, keeps both channels: the ERR it
\* is born with and every ERR and poll after it are read against a status that
\* a live member keeps from being terminal.
THEOREM HealthyGroupKept ==
  Spec => []HealthyGroupKeepsChannels
<1>1. IInv => HealthyGroupKeepsChannels
  BY DEF IInv, HealthyKept, HealthyGroupKeepsChannels
<1> QED BY <1>1, Invariant, PTL

=============================================================================
