------------------------------ MODULE Schedule ------------------------------
(***************************************************************************)
(* The lessons of a class and their attendance (app/lms/session.go,        *)
(* attendance.go, store/sqlstore/lms_store).  A request looks for          *)
(* conflicts in the teacher's schedule and then writes, one row per store  *)
(* call; an attendance sheet is deleted and inserted again row by row.     *)
(***************************************************************************)
EXTENDS LmsRequests

CONSTANTS MaxRows,      \* bound: lms_sessions rows ever inserted
          Teachers,
          Lessons,      \* <<start, end>> of a lesson in the first week
          Week,         \* the length of a week in the same unit
          MaxRepeat,    \* maxRepeatOccurrences
          RowCap,       \* the row limit of FindTeacherConflicts
          Students

ASSUME ScheduleAssumption ==
    /\ MaxRows \in Nat
    /\ Lessons \subseteq Nat \X Nat
    /\ \A l \in Lessons : l[1] < l[2]
    /\ Week \in Nat /\ MaxRepeat \in Nat /\ RowCap \in Nat

VARIABLES
    sessions,    \* lms_sessions: id -> row
    issued,      \* ids given to rows; none is given twice
    attendance,  \* attendances: rows [session, student, sheet, after]
    book,        \* worker -> the scheduling request it serves
    mark,        \* worker -> the attendance request it serves
    filed        \* history: the sheets whose requests have ended

scheduleVars == <<sessions, issued, attendance, book, mark, filed>>

\* A row remembers, as history, the rows that were in the table, as they are
\* now, when the conflict check for it was made, none when it was forced:
\* missed are those that matched the query and were cut from its answer, saw
\* are all others.
Row(teacher, lesson, k, live, saw) ==
    [teacher |-> teacher, start |-> lesson[1] + k * Week,
     end |-> lesson[2] + k * Week, live |-> live, saw |-> saw, missed |-> {}]

NoBooking == [pc |-> "idle"]
NoSheet == [pc |-> "idle"]

ScheduleInit ==
    /\ \E t \in Teachers, l \in Lessons :
          sessions = [i \in {1} |-> Row(t, l, 0, TRUE, {})]
    /\ issued = 1
    /\ attendance = {}
    /\ book = [w \in Workers |-> NoBooking]
    /\ mark = [w \in Workers |-> NoSheet]
    /\ filed = {}

\* A request that has forgotten a row which was rewritten or deleted.
Forgets(rec, id) ==
    IF "saw" \in DOMAIN rec
    THEN [rec EXCEPT !.saw = @ \ {id}, !.missed = @ \ {id}] ELSE rec
WithoutRow(id) == [i \in DOMAIN sessions \ {id} |-> Forgets(sessions[i], id)]
BookingsForget(id) == [w \in Workers |-> Forgets(book[w], id)]

-----------------------------------------------------------------------------
(***************************************************************************)
(* The conflict check                                                      *)
(***************************************************************************)

Overlap(r, s) == r.start < s.end /\ r.end > s.start

\* The rows the query of FindTeacherConflicts matches: the teacher's rows that
\* are not cancelled and overlap the span, without one row.
Matching(teacher, span, exclude) ==
    {i \in DOMAIN sessions \ exclude :
        /\ sessions[i].teacher = teacher
        /\ sessions[i].live
        /\ Overlap(sessions[i], span)}

\* FindTeacherConflicts: its possible answers, sorted by start and cut at
\* RowCap.  Rows that start together come in any order.
FindTeacherConflicts(teacher, span, exclude) ==
    LET found == Matching(teacher, span, exclude)
    IN  {page \in SUBSET found :
            /\ \/ page = found
               \/ Cardinality(page) = RowCap
            /\ Cardinality(page) <= RowCap
            /\ \A i \in page, j \in found \ page :
                  sessions[i].start <= sessions[j].start}

\* From the first start to the last end.
Span(occurrences) ==
    [start |-> CHOOSE s \in {o.start : o \in occurrences} :
                   \A o \in occurrences : s <= o.start,
     end |-> CHOOSE e \in {o.end : o \in occurrences} :
                   \A o \in occurrences : e >= o.end]

\* Mutant: only the first occurrence is compared with the rows found.
ClearFirst(teacher, occurrences, exclude) ==
    LET first == CHOOSE o \in occurrences :
                     \A p \in occurrences : o.start <= p.start
    IN  {page \in FindTeacherConflicts(teacher, Span(occurrences), exclude) :
            \A i \in page : ~Overlap(sessions[i], first)}

\* checkOccurrenceConflicts makes one query for the span of the whole series
\* and compares each row of the answer with each occurrence: the answers in
\* which it finds no conflict.
Clear(teacher, occurrences, exclude) ==
    {page \in FindTeacherConflicts(teacher, Span(occurrences), exclude) :
        \A i \in page, o \in occurrences : ~Overlap(sessions[i], o)}

\* What the answer leaves out; nothing is asked when the request is forced.
Checks(teacher, occurrences, exclude, force) ==
    IF force THEN {{}}
    ELSE {Matching(teacher, Span(occurrences), exclude) \ page :
             page \in Clear(teacher, occurrences, exclude)}

-----------------------------------------------------------------------------
(***************************************************************************)
(* CreateSessionsWithRepeat, UpdateSession, DeleteSession                  *)
(***************************************************************************)

\* expandWeeklyOccurrences and, unless forced, the check.  (Conflicts, and
\* a series that is too long, end the request without a change.)
CreateSessionsWithRepeat(w, teacher, lesson, weeks, force) ==
    LET saw == IF force THEN {} ELSE DOMAIN sessions
        occurrences == {Row(teacher, lesson, k, TRUE, {}) : k \in 0 .. weeks - 1}
    IN  /\ book[w] = NoBooking
        /\ weeks <= MaxRepeat
        /\ Begin
        /\ \E missed \in Checks(teacher, occurrences, {}, force) :
              book' = [book EXCEPT ![w] =
                          [pc |-> "save", teacher |-> teacher, lesson |-> lesson,
                           next |-> 0, weeks |-> weeks, saw |-> saw \ missed,
                           missed |-> missed]]
        /\ UNCHANGED <<sessions, issued, attendance, mark, filed>>

\* LMSSession().Save of the next occurrence; without the class it fails.
SaveOccurrence(w) ==
    LET b == book[w]
        id == issued + 1
        done == b.next + 1 = b.weeks
    IN  /\ b.pc = "save"
        /\ IF classLives
           THEN /\ issued < MaxRows
                /\ issued' = id
                /\ sessions' = [i \in DOMAIN sessions \cup {id} |->
                                   IF i = id
                                   THEN [Row(b.teacher, b.lesson, b.next, TRUE, b.saw)
                                            EXCEPT !.missed = b.missed]
                                   ELSE sessions[i]]
                /\ book' = [book EXCEPT ![w] = IF done THEN NoBooking
                                               ELSE [b EXCEPT !.next = @ + 1]]
           ELSE /\ book' = [book EXCEPT ![w] = NoBooking]
                /\ UNCHANGED <<sessions, issued>>
        /\ UNCHANGED <<requests, attendance, mark, filed>>

\* UpdateSession: the check without the row itself, unless forced.
UpdateSession(w, id, teacher, lesson, live, force) ==
    LET saw == IF force THEN {} ELSE DOMAIN sessions \ {id}
    IN  /\ book[w] = NoBooking
        /\ id \in DOMAIN sessions
        /\ Begin
        /\ \E missed \in Checks(teacher, {Row(teacher, lesson, 0, live, {})}, {id}, force) :
              book' = [book EXCEPT ![w] =
                          [pc |-> "update", id |-> id,
                           row |-> Row(teacher, lesson, 0, live, {}),
                           saw |-> saw \ missed, missed |-> missed]]
        /\ UNCHANGED <<sessions, issued, attendance, mark, filed>>

\* LMSSession().Update of the whole row, or not found
UpdateRow(w) ==
    LET b == book[w]
    IN  /\ b.pc = "update"
        /\ IF b.id \in DOMAIN sessions
           THEN /\ sessions' = [i \in DOMAIN sessions |->
                                   IF i = b.id
                                   THEN [b.row EXCEPT !.saw = b.saw, !.missed = b.missed]
                                   ELSE Forgets(sessions[i], b.id)]
                /\ book' = [BookingsForget(b.id) EXCEPT ![w] = NoBooking]
           ELSE book' = [book EXCEPT ![w] = NoBooking] /\ UNCHANGED sessions
        /\ UNCHANGED <<requests, issued, attendance, mark, filed>>

\* The row goes, and its attendance with it (ON DELETE CASCADE).
DeleteSession(id) ==
    /\ id \in DOMAIN sessions
    /\ Begin
    /\ sessions' = WithoutRow(id)
    /\ book' = BookingsForget(id)
    /\ attendance' = {a \in attendance : a.session # id}
    /\ UNCHANGED <<issued, mark, filed>>

\* A store call fails: the series stays as far as it has come.
BookingFails(w) ==
    /\ StoreFaults
    /\ book[w] # NoBooking
    /\ book' = [book EXCEPT ![w] = NoBooking]
    /\ UNCHANGED <<requests, sessions, issued, attendance, mark, filed>>

-----------------------------------------------------------------------------
(***************************************************************************)
(* SaveAttendance                                                          *)
(***************************************************************************)

\* Mutant: only the students of the new sheet are deleted.
SaveAttendanceMerges(w, id, students) ==
    /\ mark[w] = NoSheet
    /\ id \in DOMAIN sessions
    /\ Begin
    /\ attendance' = {a \in attendance : a.session # id \/ a.student \notin students}
    /\ mark' = [mark EXCEPT ![w] = [pc |-> "insert", session |-> id, sheet |-> served,
                                    todo |-> students, after |-> filed]]
    /\ UNCHANGED <<sessions, issued, book, filed>>

\* Attendance().DeleteBySession
SaveAttendance(w, id, students) ==
    /\ mark[w] = NoSheet
    /\ id \in DOMAIN sessions
    /\ Begin
    /\ attendance' = {a \in attendance : a.session # id}
    /\ mark' = [mark EXCEPT ![w] = [pc |-> "insert", session |-> id, sheet |-> served,
                                    todo |-> students, after |-> filed]]
    /\ UNCHANGED <<sessions, issued, book, filed>>

\* Attendance().Save of one record; nothing keeps a student from having
\* two rows.
InsertRecord(w, student) ==
    LET m == mark[w]
    IN  /\ m.pc = "insert"
        /\ student \in m.todo
        /\ m.session \in DOMAIN sessions
        /\ attendance' = attendance \cup {[session |-> m.session, student |-> student,
                                           sheet |-> m.sheet, after |-> m.after]}
        /\ mark' = [mark EXCEPT ![w].todo = @ \ {student}]
        /\ UNCHANGED <<requests, sessions, issued, book, filed>>

\* The last record is saved, or the next one cannot be: its session is gone
\* or the store fails.
SheetEnds(w) ==
    LET m == mark[w]
    IN  /\ m.pc = "insert"
        /\ \/ m.todo = {}
           \/ m.session \notin DOMAIN sessions
           \/ StoreFaults
        /\ filed' = filed \cup {m.sheet}
        /\ mark' = [mark EXCEPT ![w] = NoSheet]
        /\ UNCHANGED <<requests, sessions, issued, attendance, book>>

ScheduleNext ==
    \/ \E w \in Workers, t \in Teachers, l \in Lessons, force \in BOOLEAN :
          \/ \E weeks \in 1 .. MaxRepeat : CreateSessionsWithRepeat(w, t, l, weeks, force)
          \/ \E id \in DOMAIN sessions, live \in BOOLEAN :
                UpdateSession(w, id, t, l, live, force)
    \/ \E w \in Workers : SaveOccurrence(w) \/ UpdateRow(w) \/ BookingFails(w)
    \/ \E id \in DOMAIN sessions : DeleteSession(id)
    \/ \E w \in Workers, id \in DOMAIN sessions, students \in SUBSET Students :
          SaveAttendance(w, id, students)
    \/ \E w \in Workers : SheetEnds(w) \/ \E student \in Students : InsertRecord(w, student)

-----------------------------------------------------------------------------
(***************************************************************************)
(* Properties                                                              *)
(***************************************************************************)

NeverOverlaps(i, j) ==
    (/\ sessions[i].live /\ sessions[j].live
     /\ sessions[i].teacher = sessions[j].teacher)
        => ~Overlap(sessions[i], sessions[j])

\* A lesson booked without force never overlaps a lesson of the same teacher
\* that was in the table when its request checked, unless the row limit cut
\* that lesson from the answer: other overlaps come from force, from requests
\* that ran at the same time, and from a series that overlaps itself
\* (checkOccurrenceConflicts asks once for the span of a series, whose rows
\* are then saved one by one, session.go:71-115).
SeenNeverOverlaps ==
    \A i, j \in DOMAIN sessions : j \in sessions[i].saw => NeverOverlaps(i, j)

\* The same without regard to the row limit (CreateSessionsWithRepeat: "Every
\* occurrence (single included) is checked against the teacher's existing
\* non-cancelled sessions").  A full answer refutes it.
CheckedNeverOverlaps ==
    \A i, j \in DOMAIN sessions :
        j \in sessions[i].saw \cup sessions[i].missed => NeverOverlaps(i, j)

\* A sheet replaces the sheets that were saved before it: rows of two
\* sheets stand side by side only when their requests overlapped
\* (SaveAttendance: "deletes all existing attendance for the session").
SheetReplaced ==
    \A a, b \in attendance : a.session = b.session => a.sheet \notin b.after
=============================================================================
