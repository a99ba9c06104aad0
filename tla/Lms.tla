-------------------------------- MODULE Lms ---------------------------------
(***************************************************************************)
(* A class with its schedule and a student's tuition, served by concurrent *)
(* requests.  What joins them is the class: deleting it takes the rows of  *)
(* both away under the requests that are at work on them.                  *)
(***************************************************************************)
EXTENDS Tuition, Schedule

vars == <<requests, tuitionVars, scheduleVars>>

Init == RequestsInit /\ TuitionInit /\ ScheduleInit

\* DeleteClass; the foreign keys take the sessions, their attendance, the
\* tuition and its payments along.
DeleteClass ==
    /\ classLives
    /\ served < MaxRequests /\ served' = served + 1
    /\ classLives' = FALSE
    /\ TuitionRemoved
    /\ sessions' = [i \in {} |-> sessions[i]]
    /\ book' = [w \in Workers |-> IF "saw" \in DOMAIN book[w]
                                  THEN [book[w] EXCEPT !.saw = {}, !.missed = {}]
                                  ELSE book[w]]
    /\ attendance' = {}
    /\ UNCHANGED <<issued, mark, filed>>

Next ==
    \/ TuitionNext /\ UNCHANGED scheduleVars
    \/ ScheduleNext /\ UNCHANGED tuitionVars
    \/ DeleteClass

Spec == Init /\ [][Next]_vars
=============================================================================
