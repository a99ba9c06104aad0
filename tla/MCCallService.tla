--------------------------- MODULE MCCallService ----------------------------
(* CallService on small instances: one or two clients on one channel. *)
EXTENDS CallService

TwoUsers == [c \in Conns |-> IF c = 1 THEN "ann" ELSE "bob"]
OneUser == [c \in Conns |-> "ann"]
MCUsers == {"ann", "bob"}
MCTimes == {1}
=============================================================================
