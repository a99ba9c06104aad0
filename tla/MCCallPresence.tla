--------------------------- MODULE MCCallPresence ---------------------------
(* CallPresence on two participants. *)
EXTENDS CallPresence

MCUserOf == [c \in Conns |-> IF c = 1 THEN "ann" ELSE "bob"]
MCUsers == {"ann", "bob"}
MCTimes == {1}
=============================================================================
