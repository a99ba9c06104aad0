------------------------------- MODULE MCLms --------------------------------
(* Lms on small instances. *)
EXTENDS Lms, TLC

MCLessons == {<<1, 3>>, <<3, 5>>, <<6, 8>>}
WorkerSymmetry == Permutations(Workers)
=============================================================================
