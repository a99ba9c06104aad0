---------------------------- MODULE MCCallState -----------------------------
(* CallState on two users with two connections each. *)
EXTENDS CallState

MCConns == 1..4
MCUserOf == [c \in MCConns |-> IF c \in {1, 2} THEN "ann" ELSE "bob"]
MCUsers == {"ann", "bob"}
MCTimes == {1, 2}
=============================================================================
