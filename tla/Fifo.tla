-------------------------------- MODULE Fifo --------------------------------
(***************************************************************************)
(* What the send direction of a handle promises its application: a queue   *)
(* that never reorders or duplicates. A packet is lost only from its head, *)
(* and only when the link is down or can never carry it, or together with  *)
(* everything behind it when the queue is shut. A link that came back from *)
(* a stall is up again; a shut queue stays shut.                           *)
(***************************************************************************)
EXTENDS Naturals, Sequences

CONSTANTS Packet,      \* what the application may send
          Unsendable   \* packets the link refuses even when it is up

VARIABLES
  queue,       \* accepted and not yet handed to the link
  delivered,   \* what the link took, in order
  open,        \* whether the queue accepts packets
  up           \* whether the link carries packets

vars == <<queue, delivered, open, up>>

Init == queue = <<>> /\ delivered = <<>> /\ open \in BOOLEAN /\ up \in BOOLEAN

Put(p) == /\ open
          /\ queue' = Append(queue, p)
          /\ UNCHANGED <<delivered, open, up>>

Transmit == /\ queue # <<>> /\ up
            /\ delivered' = Append(delivered, Head(queue))
            /\ queue' = Tail(queue)
            /\ UNCHANGED <<open, up>>

Lose == /\ queue # <<>>
        /\ ~up \/ Head(queue) \in Unsendable
        /\ queue' = Tail(queue)
        /\ UNCHANGED <<delivered, open, up>>

Shut == /\ open' = FALSE
        /\ queue' = <<>>
        /\ up' \in BOOLEAN
        /\ UNCHANGED delivered

Link == up' \in BOOLEAN /\ UNCHANGED <<queue, delivered, open>>

Next == (\E p \in Packet : Put(p)) \/ Transmit \/ Lose \/ Shut \/ Link

Spec == Init /\ [][Next]_vars

=============================================================================
