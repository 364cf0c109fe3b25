------------------------------ MODULE StreamId ------------------------------
(***************************************************************************)
(* StreamIdInfo (access_control.rs): what a listener's access control      *)
(* reads out of a caller's stream id, and the stream id an application     *)
(* builds from it to dial on. parse and to_stream_id are operators; the    *)
(* steps parse an id, format the result and parse that again.              *)
(*                                                                         *)
(* A stream id is the "#!::" mark, or none, and the words between its      *)
(* commas. A word is bare, or a key, "=" and a word again, as only the     *)
(* first "=" of a pair divides it. Names carry no white space at their     *)
(* ends, which parse trims.                                                *)
(***************************************************************************)
EXTENDS Naturals, Sequences, SequencesExt

CONSTANTS KnownKeys,  \* the keys with a field of their own, in the order
                      \* to_stream_id writes them; the first one is "r"
          OtherKeys,  \* keys kept as extra
          Names,      \* bare words
          MaxWords    \* bound on the words of an id

VARIABLES id, info, out, step
vars == <<id, info, out, step>>

Key == Range(KnownKeys) \cup OtherKeys
Blank == <<"">>
Bare(n) == <<n>>
Pair(k, w) == <<k>> \o w
BareWord == {Bare(n) : n \in Names} \cup {Blank}
Word == BareWord \cup {Pair(k, w) : k \in Key, w \in BareWord}
IsPair(w) == Len(w) > 1

Id(marked, words) == [marked |-> marked, words |-> words]
Empty == Id(FALSE, <<>>)
Ids == {Id(m, s) : m \in BOOLEAN, s \in BoundedSeq(Word, MaxWords)}

\* A field holds a text, a sequence of words; None is the field left unset.
None == <<>>
Default == [field |-> [k \in Range(KnownKeys) |-> None], extra |-> <<>>]

\* Mutant of TakeWord: a key given twice keeps its first value.
TakeWord_First(acc, w) ==
  IF ~IsPair(w) THEN acc
  ELSE IF Head(w) \notin Range(KnownKeys)
    THEN [acc EXCEPT !.extra = Append(@, <<Head(w), Tail(w)>>)]
  ELSE IF acc.field[Head(w)] # None THEN acc
  ELSE [acc EXCEPT !.field[Head(w)] = <<Tail(w)>>]

\* One word of a marked id; one without "=" is passed over.
TakeWord(acc, w) ==
  IF ~IsPair(w) THEN acc
  ELSE IF Head(w) \in Range(KnownKeys)
    THEN [acc EXCEPT !.field[Head(w)] = <<Tail(w)>>]
    ELSE [acc EXCEPT !.extra = Append(@, <<Head(w), Tail(w)>>)]

\* An id without the mark is the resource, whatever is in it.
parse(s) ==
  IF s = Empty THEN Default
  ELSE IF s.marked THEN FoldLeft(TakeWord, Default, s.words)
  ELSE [Default EXCEPT !.field[KnownKeys[1]] = s.words]

\* The words a text becomes behind "k=".
Written(k, text) ==
  IF text = None THEN <<>> ELSE <<Pair(k, Head(text))>> \o Tail(text)

to_stream_id(i) ==
  LET known == FlattenSeq([n \in DOMAIN KnownKeys |-> Written(KnownKeys[n], i.field[KnownKeys[n]])])
      extra == FlattenSeq([n \in DOMAIN i.extra |-> Written(i.extra[n][1], <<i.extra[n][2]>>)])
  IN IF known \o extra = <<>> THEN Empty ELSE Id(TRUE, known \o extra)

-----------------------------------------------------------------------------
\* An empty string has no words; a plain one that is a single blank word is it.
Given(s) == id = s /\ info = Default /\ out = Empty /\ step = "given"
Init == \E s \in Ids : (~s.marked => s = Empty \/ s.words # <<Blank>>) /\ Given(s)

Parse == /\ step = "given" /\ step' = "parsed"
         /\ info' = parse(id)
         /\ UNCHANGED <<id, out>>

Format == /\ step = "parsed" /\ step' = "formatted"
          /\ out' = to_stream_id(info)
          /\ UNCHANGED <<id, info>>

Next == Parse \/ Format

Spec == Init /\ [][Next]_vars

-----------------------------------------------------------------------------
LastOf(words, k) == LET at == {n \in DOMAIN words : IsPair(words[n]) /\ Head(words[n]) = k}
                    IN IF at = {} THEN None ELSE <<Tail(words[Max(at)])>>

\* What a marked id means, said without reading it from left to right: a known
\* key has the value of the last pair that names it, every other pair is kept
\* in its order, and words that are no pairs mean nothing.
ReadsTheLast ==
  step # "given" /\ id.marked =>
    /\ \A k \in Range(KnownKeys) : info.field[k] = LastOf(id.words, k)
    /\ LET other(w) == IsPair(w) /\ Head(w) \in OtherKeys
       IN [n \in DOMAIN info.extra |-> Pair(info.extra[n][1], info.extra[n][2])]
            = SelectSeq(id.words, other)

\* to_stream_id formats an info back into the format parse reads: an id dialled
\* on means what the one received meant, the order of known keys, the repeated
\* ones and the words without meaning aside. A plain id with a comma in it is
\* the one that does not survive, as nothing in the format escapes one.
MeaningKept ==
  step = "formatted" /\ (id.marked \/ Len(id.words) <= 1) => parse(out) = info

=============================================================================
