------------------------ MODULE SocketOptionsProofs -------------------------
(***************************************************************************)
(* Proofs about SocketOptions, for integers of any width that holds the    *)
(* code's constants, any durations and sizes, and any number of builder    *)
(* calls.                                                                  *)
(***************************************************************************)
EXTENDS SocketOptions, TLAPS

(* The inductive invariant: the mode flags of an SrtConfig follow its mode, *)
(* its receive latency is the one asked for, wrapped, and a created socket *)
(* is what apply_config makes of a new one.                                *)

LibOptions ==
  [transtype : {"Live", "File"}, rcvlatency : Int, peerlatency : Int, mss : Int,
   conntimeo : Int, payloadsize : Int, maxbw : Int, tsbpd : BOOLEAN,
   tlpktdrop : BOOLEAN, nak : BOOLEAN]

Typed == /\ builder \in Builders /\ config \in SrtConfig /\ built \in 0 .. MaxCalls
         /\ asked \in Millis \cup {120} /\ phase \in {"building", "created"}

ModeFlags == /\ config.tsbpd_mode <=> config.trans_type = "Live"
             /\ config.nak_report <=> config.trans_type = "Live"

Asked == config.recv_latency = as_u32(asked)

Configured == lib = IF phase = "created" THEN apply_config(NewSocket, config) ELSE NewSocket

OptInv == Typed /\ ModeFlags /\ Asked /\ Configured

-----------------------------------------------------------------------------
(* Casts and options.                                                      *)

\* A cast wraps: it stays in the width, keeps what fits, and never grows.
LEMMA Casts ==
  ASSUME NEW n \in Nat
  PROVE  /\ as_u32(n) \in U32 /\ as_i32(n) \in Int /\ as_i32(n) <= n
         /\ n \in U32 => as_u32(n) = n
         /\ n \in 0 .. I32Max => as_u32(n) = n /\ as_i32(n) = n
         /\ n >= 1 /\ as_i32(n) <= 0 => n >= SignBit
<1> DEFINE M == 2 * SignBit
           u == n % M
<1>1. SignBit \in Nat /\ SignBit > 0 /\ M \in Nat /\ M > 0 /\ M = SignBit + SignBit
  BY OptionsAssumption
<1> HIDE DEF M
<1>2. u \in Nat /\ u < M /\ u <= n /\ (n < M => u = n)
  BY <1>1
<1> HIDE DEF u
<1>3. as_u32(n) = u /\ as_i32(n) = IF u > SignBit - 1 THEN u - M ELSE u
  BY DEF as_u32, as_i32, I32Max, M, u
<1>4. as_u32(n) \in U32 /\ (n \in U32 => as_u32(n) = n)
  BY <1>1, <1>2, <1>3 DEF U32, M
<1>5. as_i32(n) \in Int /\ as_i32(n) <= n
  BY <1>1, <1>2, <1>3
<1>6. n \in 0 .. I32Max => as_u32(n) = n /\ as_i32(n) = n
  BY <1>1, <1>2, <1>3 DEF I32Max
<1>7. n >= 1 /\ as_i32(n) <= 0 => n >= SignBit
  BY <1>1, <1>2, <1>3
<1> QED BY <1>4, <1>5, <1>6, <1>7

\* The mode set on a new socket: it decides what its options are.
LEMMA ModeSet ==
  ASSUME NEW t \in {"Live", "File"}, NEW l,
         l = srt_setsockflag(NewSocket, "transtype", t)
  PROVE  /\ l \in LibOptions /\ l.transtype = t /\ l.conntimeo = 3000
         /\ l.tsbpd = (t = "Live") /\ l.nak = (t = "Live")
<1> DEFINE rl == IF t = "Live" THEN 120 ELSE 0
           ps == IF t = "Live" THEN 1316 ELSE 0
<1>1. l = [transtype |-> t, tsbpd |-> t = "Live", tlpktdrop |-> t = "Live",
           nak |-> t = "Live", peerlatency |-> 0, rcvlatency |-> rl, payloadsize |-> ps,
           mss |-> NewSocket.mss, conntimeo |-> NewSocket.conntimeo,
           maxbw |-> NewSocket.maxbw]
  BY DEF srt_setsockflag, TransTypeSet, SRT_LIVE_DEF_LATENCY_MS, SRT_LIVE_DEF_PLSIZE
<1>2. rl \in Int /\ ps \in Int /\ (t = "Live") \in BOOLEAN
  OBVIOUS
<1>3. NewSocket.mss \in Int /\ NewSocket.conntimeo = 3000 /\ NewSocket.maxbw \in Int
  BY OptionsAssumption DEF NewSocket, LibConnTimeo
<1> HIDE DEF rl, ps
<1>4. l \in LibOptions
  <2>1. 0 \in Int /\ NewSocket.conntimeo \in Int
    BY <1>3
  <2>2. CASE t = "Live"
    <3>1. l = [transtype |-> "Live", tsbpd |-> TRUE, tlpktdrop |-> TRUE, nak |-> TRUE,
               peerlatency |-> 0, rcvlatency |-> rl, payloadsize |-> ps,
               mss |-> NewSocket.mss, conntimeo |-> NewSocket.conntimeo,
               maxbw |-> NewSocket.maxbw]
      BY <1>1, <2>2
    <3> QED BY ONLY <1>2, <1>3, <2>1, <3>1 DEF LibOptions
  <2>3. CASE t = "File"
    <3>1. l = [transtype |-> "File", tsbpd |-> FALSE, tlpktdrop |-> FALSE, nak |-> FALSE,
               peerlatency |-> 0, rcvlatency |-> rl, payloadsize |-> ps,
               mss |-> NewSocket.mss, conntimeo |-> NewSocket.conntimeo,
               maxbw |-> NewSocket.maxbw]
      BY <1>1, <2>3
    <3> QED BY ONLY <1>2, <1>3, <2>1, <3>1 DEF LibOptions
  <2> QED BY <2>2, <2>3
<1>5. l.transtype = t /\ l.conntimeo = 3000 /\ l.tsbpd = (t = "Live") /\ l.nak = (t = "Live")
  BY <1>1, <1>3
<1> QED BY <1>4, <1>5

\* What apply_config makes of a new socket, whatever the SrtConfig.
LEMMA AppliedConfig ==
  ASSUME NEW c \in SrtConfig
  PROVE  LET l == apply_config(NewSocket, c)
         IN /\ l \in LibOptions /\ l.transtype = c.trans_type
            /\ l.tsbpd = (c.trans_type = "Live") /\ l.nak = (c.trans_type = "Live")
            /\ l.tlpktdrop = c.tlpkt_drop
            /\ c.recv_latency \in 1 .. I32Max => l.rcvlatency = c.recv_latency
            /\ c.peer_latency \in 1 .. I32Max => l.peerlatency = c.peer_latency
            /\ c.payload_size > 0 /\ c.payload_size <= 1456 => l.payloadsize = c.payload_size
            /\ c.max_bw >= 0 => l.maxbw = c.max_bw
            /\ l.conntimeo = IF as_i32(c.connect_timeout) > 0 THEN as_i32(c.connect_timeout)
                             ELSE 3000
<1> DEFINE l0 == srt_setsockflag(NewSocket, "transtype", c.trans_type)
           rl == as_i32(c.recv_latency)
           pl == as_i32(c.peer_latency)
           ms == as_i32(c.mss)
           ct == as_i32(c.connect_timeout)
           ps == as_i32(c.payload_size)
           l1 == set_opt(l0, c.recv_latency > 0, "rcvlatency", rl)
           l2 == set_opt(l1, c.peer_latency > 0, "peerlatency", pl)
           l3 == set_opt(l2, c.mss # 1500, "mss", ms)
           l4 == set_opt(l3, ct > 0, "conntimeo", ct)
           l5 == set_opt(l4, c.payload_size > 0, "payloadsize", ps)
           l6 == set_opt(l5, c.max_bw >= 0, "maxbw", c.max_bw)
           l7 == set_opt(l6, TRUE, "tlpktdrop", c.tlpkt_drop)
           Same(x) == x \in LibOptions /\ x.transtype = c.trans_type
                      /\ x.tsbpd = (c.trans_type = "Live") /\ x.nak = (c.trans_type = "Live")
<1>1. apply_config(NewSocket, c) = l7
  BY DEF apply_config, OptionsAfterMode
<1>2. /\ c.trans_type \in {"Live", "File"} /\ c.tlpkt_drop \in BOOLEAN /\ c.max_bw \in Int
      /\ c.recv_latency \in Nat /\ c.peer_latency \in Nat /\ c.mss \in Nat
      /\ c.connect_timeout \in Nat /\ c.payload_size \in Nat
  <2>1. (\A x \in U32 : x \in Nat) /\ (\A x \in Millis \cup {3000} : x \in Nat)
    BY OptionsAssumption DEF U32
  <2>2. /\ c.trans_type \in {"Live", "File"} /\ c.tlpkt_drop \in BOOLEAN /\ c.max_bw \in Int
        /\ c.recv_latency \in U32 /\ c.peer_latency \in U32 /\ c.mss \in U32
        /\ c.connect_timeout \in Millis \cup {3000} /\ c.payload_size \in U32
    BY DEF SrtConfig
  <2> QED BY <2>1, <2>2
<1>3. rl \in Int /\ pl \in Int /\ ms \in Int /\ ct \in Int /\ ps \in Int
  BY <1>2, Casts
<1>4. /\ c.recv_latency \in 1 .. I32Max => rl = c.recv_latency
      /\ c.peer_latency \in 1 .. I32Max => pl = c.peer_latency
      /\ c.payload_size > 0 /\ c.payload_size <= 1456 => ps = c.payload_size
  <2>1. SignBit \in Nat /\ I32Max \in Nat /\ I32Max >= 1456
    BY OptionsAssumption DEF I32Max
  <2>2. \A n \in Nat : n \in 1 .. I32Max => as_i32(n) = n
    BY <2>1, Casts
  <2>3. \A n \in Nat : n > 0 /\ n <= 1456 => n \in 1 .. I32Max
    BY <2>1
  <2>4. 1456 >= 1 /\ as_i32(c.recv_latency) = rl /\ as_i32(c.peer_latency) = pl
        /\ as_i32(c.payload_size) = ps
    OBVIOUS
  <2>5. c.recv_latency \in 1 .. I32Max => rl = c.recv_latency
    BY <1>2, <2>2, <2>4
  <2>6. c.peer_latency \in 1 .. I32Max => pl = c.peer_latency
    BY <1>2, <2>2, <2>4
  <2>7. c.payload_size > 0 /\ c.payload_size <= 1456 => ps = c.payload_size
    <3>1. c.payload_size > 0 /\ c.payload_size <= 1456 => c.payload_size \in 1 .. I32Max
      BY <1>2, <2>3
    <3> QED BY <1>2, <2>2, <2>4, <3>1
  <2> HIDE DEF rl, pl, ps
  <2> QED BY <2>5, <2>6, <2>7
<1>5. Same(l0) /\ l0.conntimeo = 3000
  BY <1>2, ModeSet
<1> HIDE DEF l0, rl, pl, ms, ct, ps
<1>6. /\ Same(l1) /\ l1.conntimeo = l0.conntimeo
      /\ c.recv_latency \in 1 .. I32Max => l1.rcvlatency = c.recv_latency
  <2>1. l1 = IF c.recv_latency > 0
             THEN IF Refused(l0, "rcvlatency", rl) THEN l0
                  ELSE [l0 EXCEPT !["rcvlatency"] = rl]
             ELSE l0
    <3>1. "rcvlatency" # "transtype"
          /\ l1 = IF c.recv_latency > 0 THEN srt_setsockflag(l0, "rcvlatency", rl) ELSE l0
      BY DEF set_opt
    <3> HIDE DEF l1
    <3>2. srt_setsockflag(l0, "rcvlatency", rl)
            = IF Refused(l0, "rcvlatency", rl) THEN l0 ELSE [l0 EXCEPT !["rcvlatency"] = rl]
      BY <3>1, Zenon DEF srt_setsockflag
    <3> QED BY ONLY <3>1, <3>2, Zenon
  <2>2. Refused(l0, "rcvlatency", rl) => rl < 0
    BY DEF Refused
  <2> HIDE DEF l1
  <2> QED BY <1>2, <1>3, <1>4, <1>5, <2>1, <2>2 DEF LibOptions
<1> HIDE DEF l1
<1>7. /\ Same(l2) /\ l2.conntimeo = l1.conntimeo /\ l2.rcvlatency = l1.rcvlatency
      /\ c.peer_latency \in 1 .. I32Max => l2.peerlatency = c.peer_latency
  <2>1. l2 = IF c.peer_latency > 0
             THEN IF Refused(l1, "peerlatency", pl) THEN l1
                  ELSE [l1 EXCEPT !["peerlatency"] = pl]
             ELSE l1
    <3>1. "peerlatency" # "transtype"
          /\ l2 = IF c.peer_latency > 0 THEN srt_setsockflag(l1, "peerlatency", pl) ELSE l1
      BY DEF set_opt
    <3> HIDE DEF l2
    <3>2. srt_setsockflag(l1, "peerlatency", pl)
            = IF Refused(l1, "peerlatency", pl) THEN l1 ELSE [l1 EXCEPT !["peerlatency"] = pl]
      BY <3>1, Zenon DEF srt_setsockflag
    <3> QED BY ONLY <3>1, <3>2, Zenon
  <2>2. Refused(l1, "peerlatency", pl) => pl < 0
    BY DEF Refused
  <2> HIDE DEF l2
  <2> QED BY <1>2, <1>3, <1>4, <1>6, <2>1, <2>2 DEF LibOptions
<1> HIDE DEF l2
<1>8. /\ Same(l3) /\ l3.conntimeo = l2.conntimeo /\ l3.rcvlatency = l2.rcvlatency
      /\ l3.peerlatency = l2.peerlatency
  <2>1. l3 = l2 \/ l3 = [l2 EXCEPT !["mss"] = ms]
    <3>1. "mss" # "transtype"
      OBVIOUS
    <3>2. l3 = l2 \/ l3 = srt_setsockflag(l2, "mss", ms)
      BY DEF set_opt
    <3> HIDE DEF l3
    <3> QED BY <3>1, <3>2, Zenon DEF srt_setsockflag
  <2> HIDE DEF l3
  <2> QED BY <1>3, <1>7, <2>1 DEF LibOptions
<1> HIDE DEF l3
<1>9. /\ Same(l4) /\ l4.rcvlatency = l3.rcvlatency /\ l4.peerlatency = l3.peerlatency
      /\ l4.conntimeo = IF ct > 0 THEN ct ELSE l3.conntimeo
  <2>1. l4 = IF ct > 0
             THEN IF Refused(l3, "conntimeo", ct) THEN l3
                  ELSE [l3 EXCEPT !["conntimeo"] = ct]
             ELSE l3
    <3>1. "conntimeo" # "transtype"
          /\ l4 = IF ct > 0 THEN srt_setsockflag(l3, "conntimeo", ct) ELSE l3
      BY DEF set_opt
    <3> HIDE DEF l4
    <3>2. srt_setsockflag(l3, "conntimeo", ct)
            = IF Refused(l3, "conntimeo", ct) THEN l3 ELSE [l3 EXCEPT !["conntimeo"] = ct]
      BY <3>1, Zenon DEF srt_setsockflag
    <3> QED BY ONLY <3>1, <3>2, Zenon
  <2>2. ~Refused(l3, "conntimeo", ct)
    BY DEF Refused
  <2> HIDE DEF l4
  <2> QED BY <1>3, <1>8, <2>1, <2>2 DEF LibOptions
<1> HIDE DEF l4
<1>10. /\ Same(l5) /\ l5.rcvlatency = l4.rcvlatency /\ l5.peerlatency = l4.peerlatency
       /\ l5.conntimeo = l4.conntimeo
       /\ c.payload_size > 0 /\ c.payload_size <= 1456 => l5.payloadsize = c.payload_size
  <2>1. l5 = IF c.payload_size > 0
             THEN IF Refused(l4, "payloadsize", ps) THEN l4
                  ELSE [l4 EXCEPT !["payloadsize"] = ps]
             ELSE l4
    <3>1. "payloadsize" # "transtype"
          /\ l5 = IF c.payload_size > 0 THEN srt_setsockflag(l4, "payloadsize", ps) ELSE l4
      BY DEF set_opt
    <3> HIDE DEF l5
    <3>2. srt_setsockflag(l4, "payloadsize", ps)
            = IF Refused(l4, "payloadsize", ps) THEN l4 ELSE [l4 EXCEPT !["payloadsize"] = ps]
      BY <3>1, Zenon DEF srt_setsockflag
    <3> QED BY ONLY <3>1, <3>2, Zenon
  <2>2. Refused(l4, "payloadsize", ps) => ps < 0 \/ ps > 1456
    BY DEF Refused, SRT_LIVE_MAX_PLSIZE
  <2> HIDE DEF l5
  <2>3. /\ Same(l5) /\ l5.rcvlatency = l4.rcvlatency /\ l5.peerlatency = l4.peerlatency
        /\ l5.conntimeo = l4.conntimeo
    BY <1>2, <1>3, <1>9, <2>1 DEF LibOptions
  <2>4. ASSUME c.payload_size > 0, c.payload_size <= 1456 PROVE l5.payloadsize = c.payload_size
    <3>1. ps = c.payload_size /\ c.payload_size > 0 /\ ~(ps < 0) /\ ~(ps > 1456)
      BY <1>2, <1>4, <2>4
    <3>2. l5 = [l4 EXCEPT !["payloadsize"] = ps]
      BY <2>1, <2>2, <3>1
    <3> QED BY <1>9, <3>1, <3>2 DEF LibOptions
  <2> QED BY <2>3, <2>4
<1> HIDE DEF l5
<1>11. /\ Same(l6) /\ l6.rcvlatency = l5.rcvlatency /\ l6.peerlatency = l5.peerlatency
       /\ l6.conntimeo = l5.conntimeo /\ l6.payloadsize = l5.payloadsize
       /\ c.max_bw >= 0 => l6.maxbw = c.max_bw
  <2>1. l6 = IF c.max_bw >= 0
             THEN IF Refused(l5, "maxbw", c.max_bw) THEN l5
                  ELSE [l5 EXCEPT !["maxbw"] = c.max_bw]
             ELSE l5
    <3>1. "maxbw" # "transtype"
          /\ l6 = IF c.max_bw >= 0 THEN srt_setsockflag(l5, "maxbw", c.max_bw) ELSE l5
      BY DEF set_opt
    <3> HIDE DEF l6
    <3>2. srt_setsockflag(l5, "maxbw", c.max_bw)
            = IF Refused(l5, "maxbw", c.max_bw) THEN l5 ELSE [l5 EXCEPT !["maxbw"] = c.max_bw]
      BY <3>1, Zenon DEF srt_setsockflag
    <3> QED BY ONLY <3>1, <3>2, Zenon
  <2>2. ~Refused(l5, "maxbw", c.max_bw)
    BY DEF Refused
  <2> HIDE DEF l6
  <2> QED BY <1>2, <1>10, <2>1, <2>2 DEF LibOptions
<1> HIDE DEF l6
<1>12. /\ Same(l7) /\ l7.rcvlatency = l6.rcvlatency /\ l7.peerlatency = l6.peerlatency
       /\ l7.conntimeo = l6.conntimeo /\ l7.payloadsize = l6.payloadsize
       /\ l7.maxbw = l6.maxbw /\ l7.tlpktdrop = c.tlpkt_drop
  <2>1. ~Refused(l6, "tlpktdrop", c.tlpkt_drop)
    BY Zenon DEF Refused
  <2>2. l7 = [l6 EXCEPT !["tlpktdrop"] = c.tlpkt_drop]
    <3>1. "tlpktdrop" # "transtype" /\ l7 = srt_setsockflag(l6, "tlpktdrop", c.tlpkt_drop)
      BY DEF set_opt
    <3> HIDE DEF l7
    <3> QED BY <2>1, <3>1, Zenon DEF srt_setsockflag
  <2> HIDE DEF l7
  <2> QED BY <1>2, <1>11, <2>2 DEF LibOptions
<1> HIDE DEF l7
<1> QED BY <1>1, <1>5, <1>6, <1>7, <1>8, <1>9, <1>10, <1>11, <1>12 DEF ct, SRT_LIVE_MAX_PLSIZE

-----------------------------------------------------------------------------
(* Builder calls.                                                          *)

\* What live_defaults and file_defaults share.
ModeConfig(c, t, n) ==
  [c EXCEPT !.trans_type = t, !.tsbpd_mode = (t = "Live"), !.tlpkt_drop = (t = "Live"),
            !.nak_report = (t = "Live"), !.payload_size = n]

\* Both modes' defaults are a configuration whose flags follow the mode.
LEMMA ModeDefaults ==
  ASSUME NEW c \in SrtConfig, NEW t \in {"Live", "File"}, NEW n \in U32,
         NEW d, d = ModeConfig(c, t, n)
  PROVE  /\ d \in SrtConfig /\ d.recv_latency = c.recv_latency
         /\ d.tsbpd_mode = (d.trans_type = "Live") /\ d.nak_report = (d.trans_type = "Live")
<1>1. PICK flag \in BOOLEAN : flag = (t = "Live")
  OBVIOUS
<1> DEFINE d1 == [c EXCEPT !.trans_type = t]
           d2 == [d1 EXCEPT !.tsbpd_mode = flag]
           d3 == [d2 EXCEPT !.tlpkt_drop = flag]
           d4 == [d3 EXCEPT !.nak_report = flag]
<1>2. d = [d4 EXCEPT !.payload_size = n]
  BY <1>1 DEF ModeConfig
<1>3. d1 \in SrtConfig /\ d1.recv_latency = c.recv_latency /\ d1.trans_type = t
  BY DEF SrtConfig
<1> HIDE DEF d1
<1>4. d2 \in SrtConfig /\ d2.recv_latency = d1.recv_latency /\ d2.trans_type = d1.trans_type
      /\ d2.tsbpd_mode = flag
  BY ONLY <1>3, flag \in BOOLEAN DEF SrtConfig
<1> HIDE DEF d2
<1>5. d3 \in SrtConfig /\ d3.recv_latency = d2.recv_latency /\ d3.trans_type = d2.trans_type
      /\ d3.tsbpd_mode = d2.tsbpd_mode
  BY ONLY <1>4, flag \in BOOLEAN DEF SrtConfig
<1> HIDE DEF d3
<1>6. d4 \in SrtConfig /\ d4.recv_latency = d3.recv_latency /\ d4.trans_type = d3.trans_type
      /\ d4.tsbpd_mode = d3.tsbpd_mode /\ d4.nak_report = flag
  BY ONLY <1>5, flag \in BOOLEAN DEF SrtConfig
<1> HIDE DEF d4
<1>7. d \in SrtConfig /\ d.recv_latency = d4.recv_latency /\ d.trans_type = d4.trans_type
      /\ d.tsbpd_mode = d4.tsbpd_mode /\ d.nak_report = d4.nak_report
  BY <1>2, <1>6 DEF SrtConfig
<1>8. d.tsbpd_mode = flag /\ d.nak_report = flag
  BY <1>4, <1>5, <1>6, <1>7, Zenon
<1>9. d.recv_latency = c.recv_latency /\ d.trans_type = t
  BY <1>3, <1>4, <1>5, <1>6, <1>7
<1> QED BY <1>1, <1>7, <1>8, <1>9, Zenon

\* A builder call that leaves a well-formed configuration keeps the invariant.
LEMMA BuildKeeps ==
  ASSUME OptInv, NEW c \in SrtConfig, NEW ms \in Millis \cup {120},
         c.tsbpd_mode = (c.trans_type = "Live"), c.nak_report = (c.trans_type = "Live"),
         c.recv_latency = as_u32(ms), Build(c, ms)
  PROVE  OptInv'
<1>1. /\ phase = "building" /\ built < MaxCalls /\ built' = built + 1 /\ config' = c
      /\ asked' = ms /\ builder' = builder /\ lib' = lib /\ phase' = phase
  BY DEF Build
<1>2. MaxCalls \in Nat /\ built \in 0 .. MaxCalls /\ builder \in Builders
  BY OptionsAssumption DEF OptInv, Typed
<1>3. built' \in 0 .. MaxCalls
  BY <1>1, <1>2
<1>4. Typed'
  BY <1>1, <1>2, <1>3 DEF Typed
<1>5. ModeFlags'
  BY <1>1 DEF ModeFlags
<1>6. Asked'
  BY <1>1 DEF Asked
<1>7. Configured'
  <2>1. lib = NewSocket
    BY <1>1 DEF OptInv, Configured
  <2> QED BY <1>1, <2>1 DEF Configured
<1> QED BY <1>4, <1>5, <1>6, <1>7 DEF OptInv

\* The calls every builder has.
LEMMA SettersKeep ==
  ASSUME OptInv, Setters
  PROVE  OptInv'
<1>1. /\ config \in SrtConfig /\ asked \in Millis \cup {120}
      /\ config.tsbpd_mode = (config.trans_type = "Live")
      /\ config.nak_report = (config.trans_type = "Live")
      /\ config.recv_latency = as_u32(asked)
  BY DEF OptInv, Typed, ModeFlags, Asked, SrtConfig
<1>2. \A d \in Millis : d \in Nat /\ as_u32(d) \in U32
  BY OptionsAssumption, Casts
<1>3. ASSUME NEW d \in Millis, latency(d) PROVE OptInv'
  <2> DEFINE c1 == [config EXCEPT !.recv_latency = as_u32(d)]
             c == [c1 EXCEPT !.peer_latency = as_u32(d)]
  <2>1. Build(c, d)
    <3>1. c = [config EXCEPT !.recv_latency = as_u32(d), !.peer_latency = as_u32(d)]
      OBVIOUS
    <3> QED BY <1>3, <3>1 DEF latency
  <2>2. c1 \in SrtConfig /\ c1.recv_latency = as_u32(d) /\ c1.trans_type = config.trans_type
        /\ c1.tsbpd_mode = config.tsbpd_mode /\ c1.nak_report = config.nak_report
    BY <1>1, <1>2 DEF SrtConfig
  <2> HIDE DEF c1
  <2>3. c \in SrtConfig /\ c.recv_latency = as_u32(d) /\ c.trans_type = config.trans_type
        /\ c.tsbpd_mode = config.tsbpd_mode /\ c.nak_report = config.nak_report
    BY <1>2, <2>2 DEF SrtConfig
  <2> HIDE DEF c
  <2> QED BY <1>1, <2>1, <2>3, BuildKeeps
<1>4. ASSUME NEW d \in Millis, receiver_latency(d) PROVE OptInv'
  <2> DEFINE c == [config EXCEPT !.recv_latency = as_u32(d)]
  <2>1. Build(c, d)
    BY <1>4 DEF receiver_latency
  <2>2. c \in SrtConfig /\ c.recv_latency = as_u32(d) /\ c.trans_type = config.trans_type
        /\ c.tsbpd_mode = config.tsbpd_mode /\ c.nak_report = config.nak_report
    BY <1>1, <1>2 DEF SrtConfig
  <2> HIDE DEF c
  <2> QED BY <1>1, <2>1, <2>2, BuildKeeps
<1> DEFINE Other(c) == /\ c \in SrtConfig /\ c.recv_latency = config.recv_latency
                       /\ c.trans_type = config.trans_type
                       /\ c.tsbpd_mode = config.tsbpd_mode /\ c.nak_report = config.nak_report
<1>5. ASSUME NEW c, Other(c), Build(c, asked) PROVE OptInv'
  BY <1>1, <1>5, BuildKeeps
<1>6. ASSUME NEW d \in Millis, sender_latency(d) PROVE OptInv'
  <2>1. Other([config EXCEPT !.peer_latency = as_u32(d)])
    BY <1>1, <1>2 DEF SrtConfig
  <2> QED BY <1>5, <1>6, <2>1 DEF sender_latency
<1>7. ASSUME NEW d \in Millis, connect_timeout(d) PROVE OptInv'
  <2>1. Other([config EXCEPT !.connect_timeout = d])
    BY <1>1 DEF SrtConfig
  <2> QED BY <1>5, <1>7, <2>1 DEF connect_timeout
<1>8. ASSUME NEW n \in PayloadSizes, payload_size(n) PROVE OptInv'
  <2>1. n \in U32
    BY OptionsAssumption
  <2>2. Other([config EXCEPT !.payload_size = n])
    BY <1>1, <2>1 DEF SrtConfig
  <2> QED BY <1>5, <1>8, <2>2 DEF payload_size
<1>9. ASSUME NEW n \in PayloadSizes, mss(n) PROVE OptInv'
  <2>1. n \in U32
    BY OptionsAssumption
  <2>2. Other([config EXCEPT !.mss = n])
    BY <1>1, <2>1 DEF SrtConfig
  <2> QED BY <1>5, <1>9, <2>2 DEF mss
<1>10. ASSUME NEW n \in {-1, 0, 1}, max_bw(n) PROVE OptInv'
  <2>1. n \in Int
    OBVIOUS
  <2>2. Other([config EXCEPT !.max_bw = n])
    BY <1>1, <2>1 DEF SrtConfig
  <2> QED BY <1>5, <1>10, <2>2 DEF max_bw
<1>11. ASSUME NEW b \in BOOLEAN, tlpkt_drop(b) PROVE OptInv'
  <2>1. Other([config EXCEPT !.tlpkt_drop = b])
    BY <1>1 DEF SrtConfig
  <2> QED BY <1>5, <1>11, <2>1 DEF tlpkt_drop
<1>12. ASSUME live_mode PROVE OptInv'
  <2> DEFINE c == live_defaults(config)
  <2>1. SRT_LIVE_DEF_PLSIZE \in U32
    BY OptionsAssumption DEF SRT_LIVE_DEF_PLSIZE, U32
  <2>2. /\ c \in SrtConfig /\ c.recv_latency = config.recv_latency
        /\ c.tsbpd_mode = (c.trans_type = "Live") /\ c.nak_report = (c.trans_type = "Live")
    <3>1. c = ModeConfig(config, "Live", SRT_LIVE_DEF_PLSIZE)
      BY DEF live_defaults, ModeConfig
    <3> HIDE DEF c
    <3> QED BY <1>1, <2>1, <3>1, ModeDefaults
  <2>3. Build(c, asked)
    BY <1>12 DEF live_mode
  <2> HIDE DEF c
  <2> QED BY <1>1, <2>2, <2>3, BuildKeeps
<1> QED BY <1>3, <1>4, <1>6, <1>7, <1>8, <1>9, <1>10, <1>11, <1>12 DEF Setters

\* file_mode, which a group's builder does not have.
LEMMA FileModeKeeps ==
  ASSUME OptInv, file_mode
  PROVE  OptInv'
<1> DEFINE c == file_defaults(config)
<1>1. config \in SrtConfig /\ asked \in Millis \cup {120} /\ config.recv_latency = as_u32(asked)
  BY DEF OptInv, Typed, Asked
<1>2. 0 \in U32
  BY OptionsAssumption DEF U32
<1>3. /\ c \in SrtConfig /\ c.recv_latency = config.recv_latency
      /\ c.tsbpd_mode = (c.trans_type = "Live") /\ c.nak_report = (c.trans_type = "Live")
  <2>1. c = ModeConfig(config, "File", 0)
    BY DEF file_defaults, ModeConfig
  <2> HIDE DEF c
  <2> QED BY <1>1, <1>2, <2>1, ModeDefaults
<1>4. Build(c, asked)
  BY DEF file_mode
<1> HIDE DEF c
<1> QED BY <1>1, <1>3, <1>4, BuildKeeps

-----------------------------------------------------------------------------
(* The invariant and what follows from it.                                 *)

\* A new builder holds the defaults.
LEMMA InitOpt ==
  ASSUME OptionsInit
  PROVE  OptInv
<1>1. 120 \in U32 /\ 0 \in U32 /\ 1500 \in U32 /\ 1316 \in U32 /\ 120 \in Nat
  BY OptionsAssumption DEF U32
<1>2. as_u32(120) = 120
  BY <1>1, Casts
<1>3. DefaultConfig \in SrtConfig
  BY <1>1 DEF DefaultConfig, SrtConfig
<1>4. DefaultConfig.trans_type = "Live" /\ DefaultConfig.tsbpd_mode = TRUE
      /\ DefaultConfig.nak_report = TRUE /\ DefaultConfig.recv_latency = 120
  BY DEF DefaultConfig
<1>5. /\ builder \in Builders /\ config = DefaultConfig /\ built = 0 /\ asked = 120
      /\ lib = NewSocket /\ phase = "building"
  BY <1>4 DEF OptionsInit
<1>6. built \in 0 .. MaxCalls
  BY OptionsAssumption, <1>5
<1>7. Typed
  BY <1>3, <1>5, <1>6 DEF Typed
<1>8. ModeFlags
  BY <1>4, <1>5 DEF ModeFlags
<1>9. Asked
  BY <1>2, <1>4, <1>5 DEF Asked
<1>10. Configured
  BY <1>5 DEF Configured
<1> QED BY <1>7, <1>8, <1>9, <1>10 DEF OptInv

\* Creating the socket or the group applies the configuration.
LEMMA CreateKeeps ==
  ASSUME OptInv, NEW kinds, Create(kinds)
  PROVE  OptInv'
<1>1. /\ lib' = apply_config(NewSocket, config) /\ phase' = "created"
      /\ builder' = builder /\ config' = config /\ built' = built /\ asked' = asked
  BY DEF Create
<1>2. Typed'
  BY <1>1 DEF OptInv, Typed
<1>3. ModeFlags'
  BY <1>1 DEF OptInv, ModeFlags
<1>4. Asked'
  BY <1>1 DEF OptInv, Asked
<1>5. Configured'
  BY <1>1 DEF Configured
<1> QED BY <1>2, <1>3, <1>4, <1>5 DEF OptInv

\* Every step keeps the invariant.
LEMMA NextOpt ==
  ASSUME OptInv, [OptionsNext]_options
  PROVE  OptInv'
<1>1. CASE SrtSocketBuilder
  BY <1>1, SettersKeep, FileModeKeeps DEF SrtSocketBuilder
<1>2. CASE SrtListenerBuilder
  BY <1>2, SettersKeep, FileModeKeeps DEF SrtListenerBuilder
<1>3. CASE SrtGroupBuilder
  BY <1>3, SettersKeep DEF SrtGroupBuilder
<1>4. CASE CreateSocket
  BY <1>4, CreateKeeps DEF CreateSocket
<1>5. CASE CreateGroup
  BY <1>5, CreateKeeps DEF CreateGroup
<1>6. CASE UNCHANGED options
  BY <1>6 DEF options, OptInv, Typed, ModeFlags, Asked, Configured
<1> QED BY <1>1, <1>2, <1>3, <1>4, <1>5, <1>6 DEF OptionsNext

\* Of every reachable state: the configuration is well formed, whatever the
\* calls, and the socket is what apply_config makes of it.
THEOREM OptionsInvariant == OptionsSpec => []OptInv
<1>1. OptionsInit => OptInv
  BY InitOpt
<1>2. OptInv /\ [OptionsNext]_options => OptInv'
  BY NextOpt
<1> QED BY <1>1, <1>2, PTL DEF OptionsSpec

\* A socket has the options of a new one, whatever their values.
LEMMA OptTyped ==
  ASSUME OptInv
  PROVE  OptionsTypeOK
<1>1. NewSocket \in LibOptions
  BY OptionsAssumption DEF NewSocket, LibOptions, LibConnTimeo, SRT_LIVE_DEF_PLSIZE
<1>2. lib \in LibOptions
  <2>1. apply_config(NewSocket, config) \in LibOptions
    BY AppliedConfig DEF OptInv, Typed
  <2> QED BY <1>1, <2>1 DEF OptInv, Configured
<1>3. DOMAIN lib = DOMAIN NewSocket
  BY <1>1, <1>2 DEF LibOptions
<1> QED BY <1>3 DEF OptInv, Typed, OptionsTypeOK

\* Type correctness: whatever durations a builder is given, the fields of its
\* SrtConfig fit the code's widths.
THEOREM OptionsTypeCorrect == OptionsSpec => []OptionsTypeOK
<1>1. OptInv => OptionsTypeOK
  BY OptTyped
<1> QED BY <1>1, OptionsInvariant, PTL

\* Whatever the order of the builder's calls, a created socket has what they
\* asked for, although setting the mode rewrites most of it: apply_config sets
\* the mode first, and the flags it leaves to the mode follow the mode in every
\* SrtConfig a builder can hold.
THEOREM ConfigAlwaysSurvives == OptionsSpec => []ConfigSurvivesMode
<1>1. ASSUME OptInv, Created PROVE ConfigSurvivesMode
  <2>1. /\ config \in SrtConfig /\ config.recv_latency = as_u32(asked)
        /\ lib = apply_config(NewSocket, config)
        /\ config.tsbpd_mode = (config.trans_type = "Live")
        /\ config.nak_report = (config.trans_type = "Live")
    BY <1>1 DEF OptInv, Typed, ModeFlags, Asked, Configured, Created, SrtConfig
  <2>2. /\ lib.transtype = config.trans_type
        /\ lib.tsbpd = (config.trans_type = "Live") /\ lib.nak = (config.trans_type = "Live")
        /\ lib.tlpktdrop = config.tlpkt_drop
        /\ config.recv_latency \in 1 .. I32Max => lib.rcvlatency = config.recv_latency
        /\ config.peer_latency \in 1 .. I32Max => lib.peerlatency = config.peer_latency
        /\ config.payload_size > 0 /\ config.payload_size <= 1456
             => lib.payloadsize = config.payload_size
        /\ config.max_bw >= 0 => lib.maxbw = config.max_bw
    BY <2>1, AppliedConfig
  <2>3. lib.tsbpd = config.tsbpd_mode /\ lib.nak = config.nak_report
    BY <2>1, <2>2
  <2>4. asked \in 1 .. I32Max => lib.rcvlatency = asked
    <3>1. asked \in Nat
      BY <1>1, OptionsAssumption DEF OptInv, Typed
    <3>2. I32Max \in Int
      BY OptionsAssumption DEF I32Max
    <3>3. asked \in 1 .. I32Max => asked \in 0 .. I32Max
      BY <3>1, <3>2
    <3>4. asked \in 1 .. I32Max => config.recv_latency = asked
      BY <2>1, <3>1, <3>3, Casts
    <3> QED BY <2>2, <3>4
  <2>5. config.payload_size \in 1 .. SRT_LIVE_MAX_PLSIZE => lib.payloadsize = config.payload_size
    <3>1. config.payload_size \in 1 .. SRT_LIVE_MAX_PLSIZE
            => config.payload_size > 0 /\ config.payload_size <= SRT_LIVE_MAX_PLSIZE
      <4>1. SRT_LIVE_MAX_PLSIZE \in Int
        BY DEF SRT_LIVE_MAX_PLSIZE
      <4> QED BY <4>1
    <3> QED BY <2>2, <3>1 DEF SRT_LIVE_MAX_PLSIZE
  <2>6. OptionsTypeOK
    BY <1>1, OptTyped
  <2> QED BY <2>2, <2>3, <2>4, <2>5, <2>6 DEF ConfigSurvivesMode
<1>2. ASSUME OptInv, ~Created PROVE ConfigSurvivesMode
  <2>1. OptionsTypeOK
    BY <1>2, OptTyped
  <2> QED BY <1>2, <2>1 DEF ConfigSurvivesMode
<1>3. OptInv => ConfigSurvivesMode
  BY <1>1, <1>2
<1> QED BY <1>3, OptionsInvariant, PTL

\* connect() waits longer than libsrt's own timeout, for every timeout of at
\* least a millisecond: a cast never grows, and one that turns a timeout into
\* none, so that libsrt keeps its 3 s, starts from more than 3 s.
THEOREM DeadlineAlwaysAbove == OptionsSpec => []DeadlineAboveLibsrt
<1>1. OptInv => DeadlineAboveLibsrt
  <2> SUFFICES ASSUME OptInv, Created, config.connect_timeout >= 1
               PROVE  connect_budget(config) > lib.conntimeo
    BY DEF DeadlineAboveLibsrt
  <2> DEFINE t == config.connect_timeout
  <2>1. config \in SrtConfig /\ lib = apply_config(NewSocket, config)
    BY DEF OptInv, Typed, Configured, Created
  <2>2. lib.conntimeo = IF as_i32(t) > 0 THEN as_i32(t) ELSE 3000
    BY <2>1, AppliedConfig
  <2>3. t \in Nat
    <3>1. t \in Millis \cup {3000}
      BY <2>1 DEF SrtConfig
    <3>2. \A x \in Millis \cup {3000} : x \in Nat
      BY OptionsAssumption
    <3> HIDE DEF t
    <3> QED BY <3>1, <3>2
  <2>4. as_i32(t) \in Int /\ as_i32(t) <= t /\ (t >= 1 /\ as_i32(t) <= 0 => t >= SignBit)
    BY <2>3, Casts
  <2>5. SignBit \in Nat /\ SignBit > 3000
    BY OptionsAssumption
  <2>6. connect_budget(config) = t + 2000 /\ t >= 1
    BY DEF connect_budget
  <2> HIDE DEF t
  <2> QED BY <2>2, <2>3, <2>4, <2>5, <2>6
<1> QED BY <1>1, OptionsInvariant, PTL
=============================================================================
