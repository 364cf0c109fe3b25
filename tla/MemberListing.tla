---------------------------- MODULE MemberListing ----------------------------
(***************************************************************************)
(* Reading a group's members out of libsrt. srt_group_data fails when the  *)
(* buffer is too small and says how large it must be, so both readers of   *)
(* the srt-io thread, read_group_rows (for the stranded-member check and   *)
(* add_group_member) and get_group_member_stats (for member_stats()), call *)
(* it twice, and libsrt's own threads move members in between. They remove *)
(* members of any group; a caller group gets new ones only from the srt-io *)
(* thread itself, a listener's mirror group whenever a link of the caller  *)
(* completes its handshake.                                                *)
(***************************************************************************)
EXTENDS Naturals, FiniteSetsExt

CONSTANTS MaxMembers,  \* bound on the members of the group
          Slots        \* the rows read_group_rows starts with (8 in the code)

ASSUME ListingAssumption == MaxMembers \in Nat /\ Slots \in Nat

VARIABLES
  mirror,    \* the group is a listener's mirror group
  exists,    \* libsrt knows the group
  members,   \* how many members it has
  reader,    \* "none", or the function that is reading
  calls,     \* srt_group_data calls it has made
  cap,       \* rows its buffer holds
  buf,       \* rows of the buffer read_group_rows keeps between readings
  listing,   \* the rows the last reading returned
  fewest     \* the fewest members the group had during that reading

group == <<mirror, exists, members>>
reading == <<reader, calls, cap, buf, listing>>
vars == <<mirror, exists, members, reader, calls, cap, buf, listing, fewest>>

Readers == {"read_group_rows", "get_group_member_stats"}

Init == /\ mirror \in BOOLEAN /\ exists = TRUE
        /\ members \in (IF mirror THEN 1..MaxMembers ELSE 0..MaxMembers)
        /\ reader = "none" /\ calls = 0 /\ cap = 0 /\ buf = 0
        /\ listing = members /\ fewest = members

-----------------------------------------------------------------------------
(* libsrt (external).                                                      *)

\* What a call on a buffer of n rows returns and leaves in its count: of a
\* group that is gone nothing, and the count as it was.
srt_group_data(n) ==
  IF ~exists THEN [ok |-> FALSE, count |-> n]
  ELSE [ok |-> members <= n, count |-> members]

\* fewest follows the group while somebody reads it.
GroupMove(e, n) ==
  /\ exists' = e /\ members' = n
  /\ fewest' = IF reader = "none" THEN fewest ELSE Min({fewest, n})
  /\ UNCHANGED <<mirror, reading>>

MemberLeaves == members > 0 /\ GroupMove(exists, members - 1)

\* A mirror group loses its last member by closing.
MemberJoins == /\ exists /\ members < MaxMembers
               /\ mirror => members > 0
               /\ mirror \/ reader = "none"
               /\ GroupMove(exists, members + 1)

GroupGone == exists /\ GroupMove(FALSE, 0)

-----------------------------------------------------------------------------
(* srt-io thread.                                                          *)

Begin(r, n) ==
  /\ reader = "none"
  /\ reader' = r /\ calls' = 0 /\ cap' = n
  /\ fewest' = members
  /\ UNCHANGED <<group, buf, listing>>

Again(n) == /\ calls' = calls + 1 /\ cap' = n
            /\ UNCHANGED <<group, reader, buf, listing, fewest>>

Return(n) == /\ listing' = n
             /\ buf' = IF reader = "read_group_rows" THEN n ELSE buf
             /\ reader' = "none" /\ calls' = 0 /\ cap' = 0
             /\ UNCHANGED <<group, fewest>>

read_group_rows == Begin("read_group_rows", Max({buf, Slots}))
get_group_member_stats == Begin("get_group_member_stats", 0)

\* Mutant of ReadRows: a listing that does not fit is given up.
ReadRows_Once ==
  /\ reader = "read_group_rows"
  /\ LET r == srt_group_data(cap) IN Return(IF r.ok THEN r.count ELSE 0)

\* One call of read_group_rows. Only the first failure, and only one that
\* asks for more rows than there are, is tried again.
ReadRows ==
  LET r == srt_group_data(cap)
  IN /\ reader = "read_group_rows"
     /\ IF ~r.ok /\ calls = 0 /\ r.count > cap THEN Again(r.count)
        ELSE Return(IF r.ok THEN r.count ELSE 0)

\* One call of get_group_member_stats: the probe, then the listing.
ReadStats ==
  LET r == srt_group_data(cap)
  IN /\ reader = "get_group_member_stats"
     /\ IF calls = 0 /\ r.count > 0 THEN Again(r.count)
        ELSE Return(IF r.ok THEN r.count ELSE 0)

-----------------------------------------------------------------------------
Next == \/ MemberLeaves \/ MemberJoins \/ GroupGone
        \/ read_group_rows \/ get_group_member_stats \/ ReadRows \/ ReadStats

Spec == Init /\ [][Next]_vars

-----------------------------------------------------------------------------
\* Type invariant: a reading ends by its second call, and the kept buffer never
\* is larger than what was asked of it.
TypeOK ==
  /\ {mirror, exists} \subseteq BOOLEAN /\ members \in 0..MaxMembers
  /\ reader \in Readers \cup {"none"} /\ calls \in 0..1
  /\ cap \in 0..Max({MaxMembers, Slots})
  /\ buf \in 0..MaxMembers /\ listing \in 0..MaxMembers /\ fewest \in 0..MaxMembers

\* A reading lists the members there are when libsrt fills the buffer. "Empty
\* when the group is gone or has no member" (read_group_rows), and on no other
\* account, whichever members leave between the calls and however many there
\* are: the stranded-member check and member_stats() both take an empty listing
\* for the absence of members. Not so for a mirror group: a link that joins it
\* between the two calls makes the second one fail.
ListingIsRight ==
  [][reader # "none" /\ reader' = "none" =>
       \/ listing' = members
       \/ listing' = 0 /\ (fewest = 0 \/ mirror)]_vars

=============================================================================
