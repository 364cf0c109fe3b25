------------------------------ MODULE FecConfig ------------------------------
(***************************************************************************)
(* FecConfig (fec.rs): the check of a packet filter string at load time.   *)
(* libsrt applies the string itself, much later and with the result of the *)
(* call thrown away (apply_config), so what parse lets through is what is  *)
(* tried on the wire. parse and Display are operators; the one step parses *)
(* a string.                                                               *)
(*                                                                         *)
(* A string is its first word and the parameters between its commas; a     *)
(* parameter is a key and a value, or has no ":" (key NoKey), or is blank. *)
(***************************************************************************)
EXTENDS Integers, Sequences, SequencesExt

CONSTANTS NaN,        \* a value that is no integer
          Numbers,    \* what a number may be written as, NaN among them
          Layouts,    \* the values layout may be given, good and bad
          Arqs,       \* the same for arq
          MaxParams   \* bound on the parameters of a string

VARIABLES text, result, step
vars == <<text, result, step>>

NoKey == "nokey"
Blank == ""
FecLayout == {"even", "staircase"}
ArqMode == {"always", "onreq", "never"}

P(key, value) == [key |-> key, value |-> value]
Param == {P("cols", n) : n \in Numbers} \cup {P("rows", n) : n \in Numbers}
           \cup {P("layout", l) : l \in Layouts} \cup {P("arq", a) : a \in Arqs}
           \cup {P(key, NaN) : key \in {"other", NoKey, Blank}}
Text(head, params) == [head |-> head, params |-> params]

Err == [ok |-> FALSE]
Ok(c) == [ok |-> TRUE, config |-> c]
Default == [cols |-> 10, rows |-> 1, layout |-> "staircase", arq |-> "onreq"]

\* cols is read as a usize, rows as an i64 of which the size is kept.
parse_usize(v) == IF v = NaN \/ v < 0 THEN NaN ELSE v
unsigned_abs(v) == IF v = NaN THEN NaN ELSE IF v < 0 THEN -v ELSE v

Sized(c, key, n) == IF n = NaN \/ n = 0 THEN Err ELSE Ok([c EXCEPT ![key] = n])
OneOf(c, key, S, v) == IF v \in S THEN Ok([c EXCEPT ![key] = v]) ELSE Err

\* One parameter. The first bad one ends the parse; a blank one is skipped and
\* an unknown key ignored.
TakeParam(acc, p) ==
  IF ~acc.ok \/ p.key = NoKey THEN Err
  ELSE CASE p.key = "cols" -> Sized(acc.config, "cols", parse_usize(p.value))
         [] p.key = "rows" -> Sized(acc.config, "rows", unsigned_abs(p.value))
         [] p.key = "layout" -> OneOf(acc.config, "layout", FecLayout, p.value)
         [] p.key = "arq" -> OneOf(acc.config, "arq", ArqMode, p.value)
         [] OTHER -> acc

\* Mutant of parse: keeps what it had when it met a bad parameter.
parse_Lenient(t) ==
  LET good(acc, p) == IF TakeParam(acc, p).ok THEN TakeParam(acc, p) ELSE acc
  IN IF t.head # "fec" THEN Err ELSE FoldLeft(good, Ok(Default), t.params)

parse(t) ==
  IF t.head # "fec" THEN Err ELSE FoldLeft(TakeParam, Ok(Default), t.params)

Display(c) ==
  Text("fec", << P("cols", c.cols), P("rows", c.rows),
                 P("layout", c.layout), P("arq", c.arq) >>)

-----------------------------------------------------------------------------
Given(t) == text = t /\ result = Err /\ step = "given"
Init == \E h \in {"fec", ""}, s \in BoundedSeq(Param, MaxParams) : Given(Text(h, s))

Parse == /\ step = "given" /\ step' = "parsed"
         /\ result' = parse(text)
         /\ UNCHANGED text

Spec == Init /\ [][Parse]_vars

-----------------------------------------------------------------------------
Valid(p) == CASE p.key = NoKey -> FALSE
              [] p.key = "cols" -> p.value # NaN /\ p.value > 0
              [] p.key = "rows" -> p.value # NaN /\ p.value # 0
              [] p.key = "layout" -> p.value \in FecLayout
              [] p.key = "arq" -> p.value \in ArqMode
              [] OTHER -> TRUE

\* A string passes the check exactly when its every parameter is good on its
\* own, wherever in the string a bad one stands and whether or not a later one
\* overrides it. What it is then taken to mean has no empty dimension, and is
\* what Display writes: a negative row count, read by its size, is written so.
AcceptsOnlyGood ==
  step = "parsed" =>
    /\ result.ok <=> text.head = "fec" /\ \A n \in DOMAIN text.params : Valid(text.params[n])
    /\ result.ok => /\ result.config.cols >= 1 /\ result.config.rows >= 1
                    /\ parse(Display(result.config)) = result

=============================================================================
