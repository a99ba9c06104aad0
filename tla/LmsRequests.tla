---------------------------- MODULE LmsRequests -----------------------------
(***************************************************************************)
(* What the LMS services share (server/channels/app/lms): HTTP requests    *)
(* that run at the same time, a store any call of which may fail, and the  *)
(* class whose row the sessions and tuitions refer to.  No service uses a  *)
(* transaction or a lock: requests interleave at every store call.         *)
(***************************************************************************)
EXTENDS Integers, FiniteSets

CONSTANTS Workers,      \* requests that may be under way at the same time
          MaxRequests,  \* bound: requests ever served
          StoreFaults   \* may a store call fail?

ASSUME RequestAssumption ==
    /\ MaxRequests \in Nat
    /\ StoreFaults \in BOOLEAN

VARIABLES served,     \* requests begun
          classLives  \* is the class's row there?

requests == <<served, classLives>>

RequestsInit == served = 0 /\ classLives = TRUE

\* One more request begins.
Begin == served < MaxRequests /\ served' = served + 1 /\ UNCHANGED classLives
=============================================================================
