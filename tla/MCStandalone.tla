---------------------------- MODULE MCStandalone ----------------------------
(***************************************************************************)
(* The parts that share no state with any other, in one instance for TLC:  *)
(* the listing of a group's members and socket options (MemberListing and  *)
(* SocketOptions, extended), stream ids and packet filter strings          *)
(* (instances). A behaviour runs one of them and leaves the others where   *)
(* they start.                                                             *)
(*                                                                         *)
(* A sign bit of 4096 leaves room on both sides of it for the constants of *)
(* config.rs. Stream ids have up to three words of two known keys    *)
(* and one other; filter strings up to three parameters around zero.       *)
(***************************************************************************)
EXTENDS MemberListing, SocketOptions

CONSTANT NaN   \* a model value: what is no integer

VARIABLES
  subject,                     \* the part that runs
  id, info, dialled, id_step,  \* of StreamId
  text, result, text_step      \* of FecConfig

stream_id == <<id, info, dialled, id_step>>
filter == <<text, result, text_step>>
all == <<subject, vars, options, stream_id, filter>>

Streams == INSTANCE StreamId WITH
  KnownKeys <- <<"r", "m">>, OtherKeys <- {"x"}, Names <- {"a", "b"}, MaxWords <- 3,
  out <- dialled, step <- id_step

Filters == INSTANCE FecConfig WITH
  Numbers <- {-5, 0, 1, 5, NaN}, Layouts <- {"even", "staircase", "bad"},
  Arqs <- {"always", "never", "bad"}, MaxParams <- 3,
  step <- text_step

AllInit ==
  /\ subject \in {"listing", "options", "stream_id", "filter"}
  /\ Init /\ (subject # "listing" => ~mirror /\ members = 0)
  /\ OptionsInit /\ (subject # "options" => builder = "socket")
  /\ IF subject = "stream_id" THEN Streams!Init ELSE Streams!Given(Streams!Empty)
  /\ IF subject = "filter" THEN Filters!Init ELSE Filters!Given(Filters!Text("", <<>>))

AllNext ==
  \/ subject = "listing" /\ Next /\ UNCHANGED <<subject, options, stream_id, filter>>
  \/ subject = "options" /\ OptionsNext /\ UNCHANGED <<subject, vars, stream_id, filter>>
  \/ subject = "stream_id" /\ Streams!Next /\ UNCHANGED <<subject, vars, options, filter>>
  \/ subject = "filter" /\ Filters!Parse /\ UNCHANGED <<subject, vars, options, stream_id>>

AllSpec == AllInit /\ [][AllNext]_all

\* StreamIdInfo: parse against what a stream id means, said declaratively, and
\* what to_stream_id writes is parsed to what it was written from.
StreamIdMeaning == Streams!ReadsTheLast /\ Streams!MeaningKept

\* FecConfig::parse accepts a string exactly when all its parameters are good,
\* and what Display writes is parsed to what it was written from.
AcceptsOnlyGood == Filters!AcceptsOnlyGood

=============================================================================
