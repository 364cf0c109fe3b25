------------------------ MODULE MemberListingProofs -------------------------
(***************************************************************************)
(* Proofs about MemberListing, for any number of members and any first     *)
(* buffer.                                                                 *)
(***************************************************************************)
EXTENDS MemberListing, TLAPS

(* The inductive invariant. During a reading fewest is below the members   *)
(* there are, a group that is gone has none, and between its two calls a   *)
(* group that is not a mirror group does not outgrow the buffer the first  *)
(* one asked for. The probe of get_group_member_stats has no buffer.       *)

FewestBelow == reader # "none" => fewest <= members

GoneHasNone == ~exists => members = 0

SecondFits == calls = 1 /\ ~mirror => members <= cap

CallsInReading == reader = "none" => calls = 0

ProbeIsEmpty == reader = "get_group_member_stats" /\ calls = 0 => cap = 0

IInv == /\ TypeOK
        /\ FewestBelow
        /\ GoneHasNone
        /\ SecondFits
        /\ CallsInReading
        /\ ProbeIsEmpty

\* Min and Max of two naturals.
LEMMA MinMaxOfTwo ==
  ASSUME NEW a \in Nat, NEW b \in Nat
  PROVE  /\ Min({a, b}) \in {a, b} /\ Min({a, b}) <= a /\ Min({a, b}) <= b
         /\ Max({a, b}) \in {a, b} /\ Max({a, b}) >= a /\ Max({a, b}) >= b
<1>1. \E x \in {a, b} : \A y \in {a, b} : x <= y
  <2>1. CASE a <= b
    BY <2>1
  <2>2. CASE b <= a
    BY <2>2
  <2> QED BY <2>1, <2>2
<1>2. \E x \in {a, b} : \A y \in {a, b} : x >= y
  <2>1. CASE a >= b
    BY <2>1
  <2>2. CASE b >= a
    BY <2>2
  <2> QED BY <2>1, <2>2
<1>3. Min({a, b}) \in {a, b} /\ \A y \in {a, b} : Min({a, b}) <= y
  BY <1>1 DEF Min
<1>4. Max({a, b}) \in {a, b} /\ \A y \in {a, b} : Max({a, b}) >= y
  BY <1>2 DEF Max
<1> QED BY <1>3, <1>4

\* What a call says: it lists the members, or asks for a larger buffer, or the
\* group is gone.
LEMMA CallSays ==
  ASSUME IInv
  PROVE  /\ srt_group_data(cap).ok \in BOOLEAN
         /\ exists => /\ srt_group_data(cap).count = members
                      /\ srt_group_data(cap).ok <=> members <= cap
         /\ ~exists => srt_group_data(cap).count = cap /\ ~srt_group_data(cap).ok
<1> DEFINE r == srt_group_data(cap)
<1>1. members \in Nat /\ cap \in Int
  <2>1. Max({MaxMembers, Slots}) \in Nat
    BY ListingAssumption, MinMaxOfTwo
  <2> QED BY <2>1, ListingAssumption DEF IInv, TypeOK
<1>2. CASE exists
  <2>1. r = [ok |-> members <= cap, count |-> members]
    BY <1>2 DEF srt_group_data
  <2>2. (members <= cap) \in BOOLEAN
    BY <1>1
  <2>3. r.count = members /\ r.ok = (members <= cap)
    BY <2>1
  <2> QED BY <1>2, <2>2, <2>3
<1>3. CASE ~exists
  <2>1. r = [ok |-> FALSE, count |-> cap]
    BY <1>3 DEF srt_group_data
  <2>2. r.count = cap /\ r.ok = FALSE
    BY <2>1
  <2> QED BY <1>3, <2>2
<1> QED BY <1>2, <1>3

\* libsrt's moves: a group that is read by somebody keeps fewest below its
\* members, and grows only if it is a mirror group.
LEMMA GroupMoveKeeps ==
  ASSUME IInv, MemberLeaves \/ MemberJoins \/ GroupGone
  PROVE  IInv'
<1>0. /\ MaxMembers \in Nat /\ members \in 0..MaxMembers /\ fewest \in 0..MaxMembers
      /\ exists \in BOOLEAN /\ mirror \in BOOLEAN
      /\ cap \in 0..Max({MaxMembers, Slots}) /\ Max({MaxMembers, Slots}) \in Nat
      /\ calls \in 0..1
  BY ListingAssumption, MinMaxOfTwo DEF IInv, TypeOK
<1>1. PICK e \in BOOLEAN, n \in 0..MaxMembers :
        /\ GroupMove(e, n) /\ (e => exists) /\ (~e => n = 0)
        /\ n <= members \/ mirror \/ reader = "none"
  <2>1. CASE MemberLeaves
    <3>1. GroupMove(exists, members - 1) /\ members > 0
      BY <2>1 DEF MemberLeaves
    <3>2. members - 1 \in 0..MaxMembers /\ members - 1 <= members /\ exists
      BY <1>0, <3>1 DEF IInv, GoneHasNone
    <3> QED BY <1>0, <3>1, <3>2
  <2>2. CASE MemberJoins
    <3>1. /\ exists /\ members < MaxMembers /\ GroupMove(exists, members + 1)
          /\ mirror \/ reader = "none"
      BY <2>2 DEF MemberJoins
    <3>2. members + 1 \in 0..MaxMembers
      BY <1>0, <3>1
    <3> QED BY <1>0, <3>1, <3>2
  <2>3. CASE GroupGone
    <3>1. exists /\ GroupMove(FALSE, 0)
      BY <2>3 DEF GroupGone
    <3>2. 0 \in 0..MaxMembers /\ 0 <= members
      BY <1>0
    <3> QED BY <3>1, <3>2
  <2> QED BY <2>1, <2>2, <2>3
<1>2. /\ exists' = e /\ members' = n
      /\ fewest' = IF reader = "none" THEN fewest ELSE Min({fewest, n})
      /\ UNCHANGED <<mirror, reader, calls, cap, buf, listing>>
  BY <1>1 DEF GroupMove, reading
<1>3. Min({fewest, n}) \in {fewest, n} /\ Min({fewest, n}) <= n
  BY <1>0, MinMaxOfTwo
<1>4. fewest' \in 0..MaxMembers
  BY <1>0, <1>2, <1>3
<1>5. TypeOK'
  BY <1>2, <1>4 DEF IInv, TypeOK
<1>6. FewestBelow' /\ GoneHasNone' /\ CallsInReading' /\ ProbeIsEmpty'
  BY <1>1, <1>2, <1>3 DEF IInv, FewestBelow, GoneHasNone, CallsInReading, ProbeIsEmpty
<1>7. SecondFits'
  <2> SUFFICES ASSUME calls = 1, ~mirror PROVE n <= cap
    BY <1>2 DEF SecondFits
  <2>1. members <= cap /\ reader # "none"
    BY DEF IInv, SecondFits, CallsInReading
  <2> QED BY <1>0, <1>1, <2>1
<1> QED BY <1>5, <1>6, <1>7 DEF IInv

\* The two readers: a reading begins, calls again, or returns.
LEMMA ReadingKeeps ==
  ASSUME IInv, read_group_rows \/ get_group_member_stats \/ ReadRows \/ ReadStats
  PROVE  IInv'
<1> DEFINE r == srt_group_data(cap)
           top == Max({MaxMembers, Slots})
<1>0. /\ MaxMembers \in Nat /\ members \in 0..MaxMembers /\ fewest \in 0..MaxMembers
      /\ buf \in 0..MaxMembers /\ Slots \in Nat
      /\ cap \in 0..top /\ top \in Nat /\ top >= MaxMembers /\ top >= Slots
      /\ calls \in 0..1
  BY ListingAssumption, MinMaxOfTwo DEF IInv, TypeOK
<1>1. /\ r.ok \in BOOLEAN
      /\ exists => r.count = members /\ (r.ok <=> members <= cap)
      /\ ~exists => r.count = cap /\ ~r.ok
  BY CallSays
<1> HIDE DEF r, top
<1>2. ASSUME NEW f \in Readers, NEW n \in 0..top, Begin(f, n),
             f = "get_group_member_stats" => n = 0
      PROVE  IInv'
  <2>1. /\ reader' = f /\ calls' = 0 /\ cap' = n /\ fewest' = members
        /\ f # "none" /\ UNCHANGED <<mirror, exists, members, buf, listing>>
    BY <1>2 DEF Begin, group, Readers
  <2>2. TypeOK'
    BY <1>0, <2>1 DEF IInv, TypeOK, top
  <2>3. FewestBelow' /\ GoneHasNone' /\ SecondFits' /\ CallsInReading' /\ ProbeIsEmpty'
    BY <1>0, <1>2, <2>1 DEF IInv, FewestBelow, GoneHasNone, SecondFits, CallsInReading, ProbeIsEmpty
  <2> QED BY <2>2, <2>3 DEF IInv
<1>3. ASSUME calls = 0, reader # "none", exists, Again(r.count) PROVE IInv'
  <2>1. /\ calls' = 1 /\ cap' = members
        /\ UNCHANGED <<mirror, exists, members, reader, buf, listing, fewest>>
    BY <1>1, <1>3 DEF Again, group
  <2>2. cap' \in 0..top
    BY <1>0, <2>1
  <2>3. TypeOK'
    BY <1>0, <2>1, <2>2 DEF IInv, TypeOK, top
  <2>4. FewestBelow' /\ GoneHasNone' /\ SecondFits' /\ CallsInReading' /\ ProbeIsEmpty'
    BY <1>0, <1>3, <2>1 DEF IInv, FewestBelow, GoneHasNone, SecondFits, CallsInReading, ProbeIsEmpty
  <2> QED BY <2>3, <2>4 DEF IInv
<1>4. ASSUME Return(IF r.ok THEN r.count ELSE 0) PROVE IInv'
  <2> DEFINE n == IF r.ok THEN r.count ELSE 0
  <2>1. n \in 0..MaxMembers
    BY <1>0, <1>1
  <2>2. /\ listing' = n /\ buf' \in {buf, n} /\ reader' = "none" /\ calls' = 0 /\ cap' = 0
        /\ UNCHANGED <<mirror, exists, members, fewest>>
    BY <1>4 DEF Return, group
  <2> HIDE DEF n
  <2>3. TypeOK'
    BY <1>0, <2>1, <2>2 DEF IInv, TypeOK, top
  <2>4. FewestBelow' /\ GoneHasNone' /\ SecondFits' /\ CallsInReading' /\ ProbeIsEmpty'
    BY <2>2 DEF IInv, FewestBelow, GoneHasNone, SecondFits, CallsInReading, ProbeIsEmpty
  <2> QED BY <2>3, <2>4 DEF IInv
<1>5. CASE read_group_rows
  <2>1. Max({buf, Slots}) \in {buf, Slots}
    BY <1>0, MinMaxOfTwo
  <2>2. Max({buf, Slots}) \in 0..top
    BY <1>0, <2>1
  <2> QED BY <1>2, <1>5, <2>2 DEF read_group_rows, Readers
<1>6. CASE get_group_member_stats
  <2>1. 0 \in 0..top
    BY <1>0
  <2> QED BY <1>2, <1>6, <2>1 DEF get_group_member_stats, Readers
<1>7. CASE ReadRows
  <2>1. /\ reader = "read_group_rows"
        /\ IF ~r.ok /\ calls = 0 /\ r.count > cap THEN Again(r.count)
           ELSE Return(IF r.ok THEN r.count ELSE 0)
    BY <1>7 DEF ReadRows, r
  <2>2. r.count > cap => exists
    BY <1>0, <1>1
  <2> QED BY <1>3, <1>4, <2>1, <2>2
<1>8. CASE ReadStats
  <2>1. /\ reader = "get_group_member_stats"
        /\ IF calls = 0 /\ r.count > 0 THEN Again(r.count)
           ELSE Return(IF r.ok THEN r.count ELSE 0)
    BY <1>8 DEF ReadStats, r
  <2>2. calls = 0 /\ r.count > 0 => exists
    BY <1>1, <2>1 DEF IInv, ProbeIsEmpty
  <2> QED BY <1>3, <1>4, <2>1, <2>2
<1> QED BY <1>5, <1>6, <1>7, <1>8

-----------------------------------------------------------------------------
(* The theorems.                                                           *)

\* The readers and libsrt keep the inductive invariant.
THEOREM Invariant ==
  Spec => []IInv
<1>1. Init => IInv
  <2> SUFFICES ASSUME Init PROVE IInv
    OBVIOUS
  <2>1. /\ mirror \in BOOLEAN /\ exists = TRUE /\ members \in 0..MaxMembers
        /\ reader = "none" /\ calls = 0 /\ cap = 0 /\ buf = 0
        /\ listing = members /\ fewest = members
    BY ListingAssumption DEF Init
  <2>2. Max({MaxMembers, Slots}) \in Nat
    BY ListingAssumption, MinMaxOfTwo
  <2>3. TypeOK
    BY <2>1, <2>2, ListingAssumption DEF TypeOK
  <2> QED BY <2>1, <2>3 DEF IInv, FewestBelow, GoneHasNone, SecondFits, CallsInReading, ProbeIsEmpty
<1>2. IInv /\ [Next]_vars => IInv'
  <2> SUFFICES ASSUME IInv, [Next]_vars PROVE IInv'
    OBVIOUS
  <2>1. CASE Next
    BY <2>1, GroupMoveKeeps, ReadingKeeps DEF Next
  <2>2. CASE UNCHANGED vars
    BY <2>2 DEF vars, IInv, TypeOK, FewestBelow, GoneHasNone, SecondFits, CallsInReading,
                ProbeIsEmpty
  <2> QED BY <2>1, <2>2
<1> QED BY <1>1, <1>2, PTL DEF Spec

\* A reading lists the members there are, and is empty only when the group
\* had none at some moment of it, for any number of members and any buffer;
\* a mirror group may join one more link between the calls.
THEOREM ListingTrue ==
  Spec => ListingIsRight
<1> DEFINE Right == reader # "none" /\ reader' = "none" =>
                      \/ listing' = members
                      \/ listing' = 0 /\ (fewest = 0 \/ mirror)
<1>1. IInv /\ [Next]_vars => [Right]_vars
  <2> SUFFICES ASSUME IInv, Next, reader # "none", reader' = "none"
               PROVE  \/ listing' = members
                      \/ listing' = 0 /\ (fewest = 0 \/ mirror)
    OBVIOUS
  <2> DEFINE r == srt_group_data(cap)
  <2>0. /\ members \in Nat /\ fewest \in Nat /\ cap \in Int /\ calls \in 0..1
        /\ fewest <= members /\ (~exists => members = 0)
    <3>1. Max({MaxMembers, Slots}) \in Nat
      BY ListingAssumption, MinMaxOfTwo
    <3> QED BY <3>1, ListingAssumption DEF IInv, TypeOK, FewestBelow, GoneHasNone
  <2>1. /\ r.ok \in BOOLEAN
        /\ exists => r.count = members /\ (r.ok <=> members <= cap)
        /\ ~exists => r.count = cap /\ ~r.ok
    BY CallSays
  <2> HIDE DEF r
  <2>2. CASE ReadRows
    <3>1. /\ IF ~r.ok /\ calls = 0 /\ r.count > cap THEN Again(r.count)
             ELSE Return(IF r.ok THEN r.count ELSE 0)
      BY <2>2 DEF ReadRows, r
    <3>2. /\ ~(~r.ok /\ calls = 0 /\ r.count > cap)
          /\ listing' = IF r.ok THEN r.count ELSE 0
      BY <3>1 DEF Again, Return
    <3>3. ~r.ok => fewest = 0 \/ mirror
      BY <2>0, <2>1, <3>2 DEF IInv, SecondFits
    <3> QED BY <2>1, <3>2, <3>3
  <2>3. CASE ReadStats
    <3>1. /\ reader = "get_group_member_stats"
          /\ IF calls = 0 /\ r.count > 0 THEN Again(r.count)
             ELSE Return(IF r.ok THEN r.count ELSE 0)
      BY <2>3 DEF ReadStats, r
    <3>2. /\ ~(calls = 0 /\ r.count > 0)
          /\ listing' = IF r.ok THEN r.count ELSE 0
      BY <3>1 DEF Again, Return
    <3>3. ~r.ok => fewest = 0 \/ mirror
      BY <2>0, <2>1, <3>1, <3>2 DEF IInv, SecondFits, ProbeIsEmpty
    <3> QED BY <2>1, <3>2, <3>3
  <2>4. CASE MemberLeaves \/ MemberJoins \/ GroupGone
    BY <2>4 DEF MemberLeaves, MemberJoins, GroupGone, GroupMove, reading
  <2>5. CASE read_group_rows \/ get_group_member_stats
    BY <2>5 DEF read_group_rows, get_group_member_stats, Begin
  <2> QED BY <2>2, <2>3, <2>4, <2>5 DEF Next
<1> QED BY <1>1, Invariant, PTL DEF Spec, ListingIsRight

=============================================================================
