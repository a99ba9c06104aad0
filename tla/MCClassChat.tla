----------------------------- MODULE MCClassChat ----------------------------
(***************************************************************************)
(* ClassChat on small instances.  classChannelName lower-cases the code:   *)
(* of the codes "10A", "10a" and "10B" the first two have one channel name *)
(* and the third its own.                                                  *)
(***************************************************************************)
EXTENDS ClassChat, TLC

MCNames == [k \in Codes |-> IF k = "10B" THEN "10b" ELSE "10a"]
WorkerSymmetry == Permutations(Workers)
ClassSymmetry == Permutations(Classes)
ChatSymmetry == WorkerSymmetry \cup ClassSymmetry
=============================================================================
