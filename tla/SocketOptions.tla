--------------------------- MODULE SocketOptions ---------------------------
(***************************************************************************)
(* From a builder's calls to the options of a libsrt socket.               *)
(*                                                                         *)
(* An application configures a socket, a listener or a group with any      *)
(* sequence of builder calls; each rewrites fields of an SrtConfig, and    *)
(* the three builders share nearly all of them. connect() or bind() hands  *)
(* the SrtConfig to the srt-io thread, which creates the socket or group   *)
(* and runs apply_config on it before it answers: nobody sees it half      *)
(* configured, so creating it is one action. apply_config is a fixed chain *)
(* of srt_setsockflag calls whose results are thrown away, each behind a   *)
(* condition of its own.                                                   *)
(*                                                                         *)
(* The fields kept are the ones the others interact with: SRTO_TRANSTYPE   *)
(* rewrites several options at once. `mss' stands for the options that     *)
(* apply_config skips when they hold the value it takes for libsrt's       *)
(* default (flight flag size, buffer sizes, overhead, TTL, key refresh),   *)
(* which meet no other. A u32 wraps at twice SignBit, the code's 2^31:     *)
(* TLC's own integers are 32 bits wide, so the instances scale it down.    *)
(***************************************************************************)
EXTENDS Integers

CONSTANTS SignBit,      \* the sign bit of an i32, as a u32
          Millis,       \* the durations an application passes, in ms
          PayloadSizes, \* the payload sizes it passes
          MaxCalls,     \* bound: builder calls before connect()
          LibMaxBW      \* SRTO_MAXBW of a new libsrt socket

VARIABLES builder, \* whose it is: "socket", "listener" or "group"
          config,  \* the builder's SrtConfig
          built,   \* builder calls made
          asked,   \* the receive latency last asked for, in ms
          lib,     \* the libsrt socket's options, once it exists
          phase    \* "building", "created"

Builders == {"socket", "listener", "group"}
options == <<builder, config, built, asked, lib, phase>>

-----------------------------------------------------------------------------
(* Integer widths and the constants of config.rs.                          *)

U32 == 0 .. 2 * SignBit - 1
I32Max == SignBit - 1

(* `as u32' of a millisecond count, and `as i32' of one or of a u32.       *)
as_u32(n) == n % (2 * SignBit)
as_i32(n) == LET u == n % (2 * SignBit) IN IF u > I32Max THEN u - 2 * SignBit ELSE u

SRT_LIVE_DEF_PLSIZE     == 1316
SRT_LIVE_MAX_PLSIZE     == 1456
SRT_LIVE_DEF_LATENCY_MS == 120
LibConnTimeo            == 3000   \* SRTO_CONNTIMEO of a new libsrt socket

(* The code's constants fit an i32; durations are whole milliseconds.      *)
ASSUME OptionsAssumption ==
  /\ SignBit \in Nat /\ SignBit > 3000 /\ MaxCalls \in Nat /\ LibMaxBW \in Int
  /\ Millis \subseteq Nat /\ PayloadSizes \subseteq U32

-----------------------------------------------------------------------------
(* SrtConfig.                                                              *)

SrtConfig ==
  [trans_type : {"Live", "File"}, recv_latency : U32, peer_latency : U32,
   mss : U32, connect_timeout : Millis \cup {3000}, payload_size : U32,
   max_bw : Int, tsbpd_mode : BOOLEAN, tlpkt_drop : BOOLEAN,
   nak_report : BOOLEAN]

DefaultConfig ==
  [trans_type |-> "Live", recv_latency |-> 120, peer_latency |-> 0,
   mss |-> 1500, connect_timeout |-> 3000, payload_size |-> 1316,
   max_bw |-> -1, tsbpd_mode |-> TRUE, tlpkt_drop |-> TRUE,
   nak_report |-> TRUE]

live_defaults(c) ==
  [c EXCEPT !.trans_type = "Live", !.tsbpd_mode = TRUE, !.tlpkt_drop = TRUE,
            !.nak_report = TRUE, !.payload_size = SRT_LIVE_DEF_PLSIZE]

file_defaults(c) ==
  [c EXCEPT !.trans_type = "File", !.tsbpd_mode = FALSE, !.tlpkt_drop = FALSE,
            !.nak_report = FALSE, !.payload_size = 0]

-----------------------------------------------------------------------------
(* libsrt's side: the options of a socket and srt_setsockflag.             *)

NewSocket ==
  [transtype |-> "Live", rcvlatency |-> 120, peerlatency |-> 0, mss |-> 1500,
   conntimeo |-> LibConnTimeo, payloadsize |-> SRT_LIVE_DEF_PLSIZE,
   maxbw |-> LibMaxBW, tsbpd |-> TRUE, tlpktdrop |-> TRUE, nak |-> TRUE]

(* SRTO_TRANSTYPE sets every option that the mode decides.                 *)
TransTypeSet(l, v) ==
  LET live == v = "Live"
  IN [transtype |-> v, tsbpd |-> live, tlpktdrop |-> live, nak |-> live,
      peerlatency |-> 0,
      rcvlatency |-> IF live THEN SRT_LIVE_DEF_LATENCY_MS ELSE 0,
      payloadsize |-> IF live THEN SRT_LIVE_DEF_PLSIZE ELSE 0,
      mss |-> l.mss, conntimeo |-> l.conntimeo, maxbw |-> l.maxbw]

(* The values srt_setsockflag refuses, leaving the option as it was: a     *)
(* negative size or time, and a live payload above the maximum.            *)
Refused(l, opt, v) ==
  \/ opt \in {"rcvlatency", "peerlatency", "mss", "payloadsize"} /\ v < 0
  \/ opt = "payloadsize" /\ l.transtype = "Live" /\ v > SRT_LIVE_MAX_PLSIZE

srt_setsockflag(l, opt, v) ==
  IF opt = "transtype" THEN TransTypeSet(l, v)
  ELSE IF Refused(l, opt, v) THEN l ELSE [l EXCEPT ![opt] = v]

-----------------------------------------------------------------------------
(* apply_config: the options in its order, each with the condition it is   *)
(* set under and the value after the casts.                                *)

set_opt(l, when, opt, v) == IF when THEN srt_setsockflag(l, opt, v) ELSE l

OptionsAfterMode(l, c) ==
  LET l1 == set_opt(l, c.recv_latency > 0, "rcvlatency", as_i32(c.recv_latency))
      l2 == set_opt(l1, c.peer_latency > 0, "peerlatency", as_i32(c.peer_latency))
      l3 == set_opt(l2, c.mss # 1500, "mss", as_i32(c.mss))
      conn_timeout_ms == as_i32(c.connect_timeout)
      l4 == set_opt(l3, conn_timeout_ms > 0, "conntimeo", conn_timeout_ms)
      l5 == set_opt(l4, c.payload_size > 0, "payloadsize", as_i32(c.payload_size))
      l6 == set_opt(l5, c.max_bw >= 0, "maxbw", c.max_bw)
  IN set_opt(l6, TRUE, "tlpktdrop", c.tlpkt_drop)

(* Mutation: the mode is set after the options it rewrites.                *)
apply_config_ModeLast(l, c) ==
  srt_setsockflag(OptionsAfterMode(l, c), "transtype", c.trans_type)

apply_config(l, c) ==
  OptionsAfterMode(srt_setsockflag(l, "transtype", c.trans_type), c)

-----------------------------------------------------------------------------
(* The builder's calls.                                                    *)

OptionsInit ==
  /\ builder \in Builders
  /\ config = DefaultConfig
  /\ built = 0
  /\ asked = DefaultConfig.recv_latency
  /\ lib = NewSocket
  /\ phase = "building"

Build(c, ms) ==
  /\ phase = "building"
  /\ built < MaxCalls
  /\ built' = built + 1
  /\ config' = c
  /\ asked' = ms
  /\ UNCHANGED <<builder, lib, phase>>

latency(d) ==
  Build([config EXCEPT !.recv_latency = as_u32(d), !.peer_latency = as_u32(d)], d)

receiver_latency(d) == Build([config EXCEPT !.recv_latency = as_u32(d)], d)

sender_latency(d) == Build([config EXCEPT !.peer_latency = as_u32(d)], asked)

live_mode == Build(live_defaults(config), asked)

file_mode == Build(file_defaults(config), asked)

payload_size(n) == Build([config EXCEPT !.payload_size = n], asked)

connect_timeout(d) == Build([config EXCEPT !.connect_timeout = d], asked)

max_bw(n) == Build([config EXCEPT !.max_bw = n], asked)

mss(n) == Build([config EXCEPT !.mss = n], asked)

tlpkt_drop(b) == Build([config EXCEPT !.tlpkt_drop = b], asked)

Setters ==
  \/ \E d \in Millis : latency(d) \/ receiver_latency(d) \/ sender_latency(d)
                        \/ connect_timeout(d)
  \/ \E n \in PayloadSizes : payload_size(n) \/ mss(n)
  \/ \E n \in {-1, 0, 1} : max_bw(n)
  \/ \E b \in BOOLEAN : tlpkt_drop(b)
  \/ live_mode

SrtSocketBuilder == builder = "socket" /\ (Setters \/ file_mode)
SrtListenerBuilder == builder = "listener" /\ (Setters \/ file_mode)
SrtGroupBuilder == builder = "group" /\ Setters

-----------------------------------------------------------------------------
(* srt-io thread. CreateGroup configures the group as CreateSocket does a  *)
(* socket; its members get the options from it.                            *)

Create(kinds) ==
  /\ phase = "building" /\ builder \in kinds
  /\ lib' = apply_config(NewSocket, config)
  /\ phase' = "created"
  /\ UNCHANGED <<builder, config, built, asked>>

CreateSocket == Create({"socket", "listener"})
CreateGroup == Create({"group"})

OptionsNext == \/ SrtSocketBuilder \/ SrtListenerBuilder \/ SrtGroupBuilder
        \/ CreateSocket \/ CreateGroup

OptionsSpec == OptionsInit /\ [][OptionsNext]_options

(* Mutation: no margin over libsrt's own timeout.                          *)
connect_budget_NoMargin(c) == c.connect_timeout

(* How long SrtSocketBuilder::connect waits for the handshake.             *)
connect_budget(c) == c.connect_timeout + 2000

-----------------------------------------------------------------------------
(* Properties.                                                             *)

(* Type invariant: every field a builder writes fits the width the code    *)
(* gives it, whatever duration it was computed from.                       *)
OptionsTypeOK ==
  /\ builder \in Builders /\ config \in SrtConfig
  /\ built \in 0 .. MaxCalls
  /\ asked \in Millis \cup {120}
  /\ DOMAIN lib = DOMAIN NewSocket
  /\ phase \in {"building", "created"}

Created == phase = "created"

(* Whatever the order of the builder's calls, the SrtConfig is one the     *)
(* code's types can hold, and a created socket has the receive latency     *)
(* last asked for, and the peer latency, payload size, bandwidth and drop  *)
(* flag of the final SrtConfig, although SRTO_TRANSTYPE rewrites most of   *)
(* them; the mode flags that apply_config never sets itself (TSBPD, NAK    *)
(* reports) come out as the SrtConfig holds them. Left out is what the     *)
(* code skips or libsrt refuses unseen: zeros, which leave libsrt's value, *)
(* a max_bw of -1, payloads above the maximum, and times beyond 31 bits.   *)
ConfigSurvivesMode ==
  /\ OptionsTypeOK
  /\ Created =>
       /\ lib.transtype = config.trans_type
       /\ lib.tsbpd = config.tsbpd_mode
       /\ lib.nak = config.nak_report
       /\ lib.tlpktdrop = config.tlpkt_drop
       /\ asked \in 1 .. I32Max => lib.rcvlatency = asked
       /\ config.peer_latency \in 1 .. I32Max => lib.peerlatency = config.peer_latency
       /\ config.payload_size \in 1 .. SRT_LIVE_MAX_PLSIZE
            => lib.payloadsize = config.payload_size
       /\ config.max_bw >= 0 => lib.maxbw = config.max_bw

(* "Hard deadline above libsrt's own SRTO_CONNTIMEO" (connect): for a       *)
(* timeout of at least a millisecond connect() gives up later than libsrt, *)
(* casts, skipped settings and all. (Below that the timeout is not set and *)
(* libsrt keeps its 3 s, a second longer than connect() then waits.)       *)
DeadlineAboveLibsrt ==
  Created /\ builder = "socket" /\ config.connect_timeout >= 1
    => connect_budget(config) > lib.conntimeo

=============================================================================
