------------------------------ MODULE SrtStatus ------------------------------
(***************************************************************************)
(* The status vocabulary shared by every module: the states libsrt reports *)
(* for a socket, the states it lists for a group member, and the bridge's  *)
(* reading of them (srt-protocol/src/config.rs, epoll_bridge.rs).          *)
(***************************************************************************)

SocketStatus == {"Init", "Opened", "Listening", "Connecting", "Connected",
                 "Broken", "Closing", "Closed", "NonExist"}

MemberStatus == {"Pending", "Idle", "Running", "Broken"}

\* The catch-all arm reads every state it does not know as NonExist.
raw_state_to_status(raw) == IF raw \in SocketStatus THEN raw ELSE "NonExist"

\* Mutant of is_terminal_status: the reading behind bilbycast-edge #100.
is_terminal_status_TwoStates(st) == st \in {"Broken", "Closed"}

\* No further I/O is possible from these: all four states a dying libsrt
\* socket walks through, not only the first two a poll may catch.
is_terminal_status(st) == st \in {"Broken", "Closing", "Closed", "NonExist"}

\* A SocketState e given a new status: its channel ends go with a terminal
\* one, the send end only if the socket had been live. The status is also
\* what the handle's watch channel shows.
update_status(e, st) ==
  [e EXCEPT !.last_status = st,
            !.recv_tx = @ /\ ~is_terminal_status(st),
            !.send_rx = @ /\ ~(/\ is_terminal_status(st)
                               /\ e.last_status \in {"Connected", "Connecting"})]

=============================================================================
