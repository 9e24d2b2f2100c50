----------------------------- MODULE MCSeatStart ----------------------------
(* SeatStart on pods of two seats of each kind.                              *)
EXTENDS SeatStart

Plain == [uid |-> 1000, gid |-> 1000, sidecar |-> FALSE, init |-> FALSE, extra |-> TRUE,
          taken |-> FALSE, secret |-> FALSE, odd |-> FALSE, pinned |-> TRUE]
Full    == [Plain EXCEPT !.uid = 0, !.gid = 0]
Sidecar == [Plain EXCEPT !.sidecar = TRUE, !.init = TRUE]
Group0  == [Plain EXCEPT !.gid = 0]                 \* the image's passwd file serves it
Low     == [Plain EXCEPT !.uid = 472, !.gid = 472]
Between == [Plain EXCEPT !.gid = 472]               \* nothing serves it

MCPods ==
  LET Each(one, two) == [s \in Seats |-> IF s = "one" THEN one ELSE two]
      Of(first, second, on, left, bad) ==
        [seats |-> Each(first, second), volume |-> on, wirings |-> left, faults |-> bad]
  IN {Of(Plain, Plain, "open", Each(1, 0), 0),
      Of([Full EXCEPT !.pinned = FALSE], [Between EXCEPT !.odd = TRUE], "closed", Each(1, 1), 1),
      Of(Sidecar, Low, "none", Each(2, 0), 1),
      Of([Sidecar EXCEPT !.secret = TRUE], Group0, "open", Each(1, 0), 1),
      Of([Plain EXCEPT !.taken = TRUE], Full, "none", Each(1, 1), 0)}
=============================================================================
