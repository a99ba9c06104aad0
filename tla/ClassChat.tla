----------------------------- MODULE ClassChat ------------------------------
(***************************************************************************)
(* A class, its enrolments and its chat channel (api4/lms_api/class.go,    *)
(* app/lms/class.go, app/lms/chat.go).  The class row carries the id of    *)
(* the channel; the channel is found again by a name made of the class's   *)
(* code when the id is missing.  Every write of a class rewrites the whole *)
(* row from the request's copy of it, chat_channel_id included, and no     *)
(* request holds a transaction or a lock: requests interleave between      *)
(* store calls.  One step each are the loop that adds members to a         *)
(* channel, the loop that removes them, and an update of a row with its    *)
(* reload.                                                                 *)
(*                                                                         *)
(* A request that is refused before it has written anything leaves no      *)
(* trace and is not a request here.                                        *)
(***************************************************************************)
EXTENDS Integers, Sequences, FiniteSets

CONSTANTS Workers,      \* requests that may be under way at the same time
          MaxRequests,  \* bound: requests ever served, archivings included
          MayFail,      \* may calls of the store or of the chat core fail?
          Classes,      \* class ids
          Codes, nameOf,\* class codes and the channel name of each
          Teachers, Students, Admins,
          TeamMembers,  \* who is in the "teaching" team
          Bodies        \* what clients put into an update, see Body

ASSUME ChatAssumption ==
    /\ MaxRequests \in Nat
    /\ MayFail \in BOOLEAN
    /\ Bodies \subseteq {"form", "status", "rename"}

VARIABLES
    classes,   \* classes: id -> [code, teacher, finished, link]
    ids,       \* class ids given out; none is given twice
    enrolled,  \* student_classes: rows [id, class, student]
    rows,      \* student_classes rows ever inserted
    channels,  \* the team's channels, by id: [name, state, members, lent]
    served,    \* requests begun
    req        \* worker -> the request it serves

vars == <<classes, ids, enrolled, rows, channels, served, req>>

NoLink == 0
People == Teachers \cup Students \cup Admins
ClassRow == [code : Codes, teacher : Teachers, finished : BOOLEAN, link : Nat]

Live(ch) == ch \in DOMAIN channels /\ channels[ch].state = "live"
\* Archived channels keep their name, permanently deleted ones do not.
Bearing(name) == {ch \in DOMAIN channels :
                      channels[ch].name = name /\ channels[ch].state # "gone"}

\* classStudentUserIDs.
StudentsOf(c) == {r.student : r \in {e \in enrolled : e.class = c}}
\* adminUserIDs.  addAdminsToTeam never adds to the team: it asks for the
\* admins of the team with the empty id, of which the store has none.
TeamAdmins == Admins \cap TeamMembers

-----------------------------------------------------------------------------
(***************************************************************************)
(* Requests.  obj is the request's copy of the class row; lone and sound   *)
(* are history: no other request overlapped this one, no call failed.  So  *)
(* are the result that is kept with an answer, and of channels the mark    *)
(* lent: a client has sent the id of the channel with a code it is not     *)
(* named after.                                                            *)
(***************************************************************************)
NoRow == [code |-> "none", teacher |-> "none", finished |-> FALSE, link |-> NoLink]
Idle == [pc |-> "idle", result |-> "none", class |-> "none", obj |-> NoRow,
         wasFinished |-> FALSE, todo |-> {}, row |-> 0, students |-> {},
         want |-> {}, ch |-> NoLink, then |-> "none", lone |-> FALSE, sound |-> TRUE]

Overlapped(v) ==
    IF req[v].pc = "idle" THEN Idle ELSE [req[v] EXCEPT !.lone = FALSE]

\* Worker w takes on request r.
Begin(w, r) ==
    /\ req[w].pc = "idle"
    /\ served < MaxRequests /\ served' = served + 1
    /\ req' = [v \in Workers |->
                  IF v = w
                  THEN [r EXCEPT !.lone = \A u \in Workers \ {w} : req[u].pc = "idle"]
                  ELSE Overlapped(v)]

\* Worker w goes on with request r.
Continue(w, r) == req' = [req EXCEPT ![w] = r] /\ UNCHANGED served

\* Worker w answers request r.  What the properties say of it is kept.
Answer(w, r, result) ==
    Continue(w, IF result # "none" /\ r.lone /\ r.sound
                THEN [Idle EXCEPT !.result = result, !.class = r.class, !.ch = r.ch]
                ELSE Idle)

Failed(w) == [req[w] EXCEPT !.sound = FALSE]

\* Request r has finished the part it was in: closing, or providing a
\* channel.
Go(w, r) ==
    IF r.then \in {"none", "closed"}
    THEN Answer(w, r, r.then) ELSE Continue(w, [r EXCEPT !.pc = r.then])

\* SqlClassStore.Update: the row must exist and codes are unique.
CanWrite(c, row) ==
    /\ c \in DOMAIN classes
    /\ \A d \in DOMAIN classes \ {c} : classes[d].code # row.code

\* UpdateClass at the end of the chat hooks; a failure is only logged.
WriteBack(w, row, r) ==
    /\ \/ /\ CanWrite(req[w].class, row)
          /\ classes' = [classes EXCEPT ![req[w].class] = row]
          /\ Go(w, r) \/ (MayFail /\ Go(w, [r EXCEPT !.sound = FALSE]))
       \/ /\ MayFail \/ ~CanWrite(req[w].class, row)
          /\ UNCHANGED classes
          /\ Go(w, [r EXCEPT !.sound = FALSE])

-----------------------------------------------------------------------------
(***************************************************************************)
(* The requests on a class                                                 *)
(***************************************************************************)

\* createClass: the row is saved, without a channel, and one is provided.
CreateClass(w, c, code, teacher) ==
    LET row == [code |-> code, teacher |-> teacher, finished |-> FALSE,
                link |-> NoLink]
    IN  /\ c \notin ids
        /\ \A d \in DOMAIN classes : classes[d].code # code
        /\ classes' = [d \in DOMAIN classes \cup {c} |->
                          IF d = c THEN row ELSE classes[d]]
        /\ ids' = ids \cup {c}
        /\ Begin(w, [Idle EXCEPT !.pc = "ensure", !.class = c, !.obj = row])
        /\ UNCHANGED <<enrolled, rows, channels>>

\* What clients send to update a class: the web form's fields, which do not
\* include the link; or the row the client has read, with another status,
\* or with another status and code.
Body(kind, row) ==
    CASE kind = "form" -> [code : Codes, teacher : Teachers,
                           finished : BOOLEAN, link : {NoLink}]
      [] kind = "status" -> {[row EXCEPT !.finished = f] : f \in BOOLEAN}
      [] kind = "rename" -> [code : Codes, teacher : {row.teacher},
                             finished : BOOLEAN, link : {row.link}]

\* The channels once a client has sent body.
Lent(body) ==
    IF body.link \in DOMAIN channels /\ channels[body.link].name # nameOf[body.code]
    THEN [channels EXCEPT ![body.link].lent = TRUE] ELSE channels

\* updateClass reads the prior status; when that fails it takes the class to
\* have been unfinished.  ch is history: the link the class had.
UpdateClass(w, c) ==
    /\ c \in DOMAIN classes
    /\ \E kind \in Bodies : \E body \in Body(kind, classes[c]) :
         LET r == [Idle EXCEPT !.pc = "write", !.class = c, !.obj = body,
                               !.ch = classes[c].link]
         IN  /\ \/ Begin(w, [r EXCEPT !.wasFinished = classes[c].finished])
                \/ MayFail /\ Begin(w, [r EXCEPT !.sound = FALSE])
             /\ channels' = Lent(body)
    /\ UNCHANGED <<classes, ids, enrolled, rows>>

\* Mutant: an update without a link leaves the link of the row alone.
StoredKeepsLink(c, body) ==
    [body EXCEPT !.link = IF @ = NoLink THEN classes[c].link ELSE @]
\* What an update leaves in row c: every column comes from the body.
Stored(c, body) == body

\* updateClass writes the body over the row and chooses what becomes of the
\* channel.  When the row cannot be read again after it is written, the
\* request fails though the update stands.
WriteClass(w) ==
    LET r == req[w]
        row == Stored(r.class, r.obj)
        Hook(pc, then) == Continue(w, [r EXCEPT !.obj = row, !.pc = pc, !.then = then])
    IN
    /\ r.pc = "write"
    /\ \/ /\ CanWrite(r.class, r.obj)
          /\ classes' = [classes EXCEPT ![r.class] = row]
          /\ \/ row.finished /\ row.link # NoLink /\ Hook("close", "closed")
             \/ ~row.finished /\ ~r.wasFinished /\ Hook("students", "sync")
             \/ row.finished /\ row.link = NoLink /\ Answer(w, r, "finished")
             \/ ~row.finished /\ r.wasFinished /\ Answer(w, r, "none")
             \/ MayFail /\ Answer(w, r, "none")
       \/ /\ MayFail \/ ~CanWrite(r.class, r.obj)
          /\ UNCHANGED classes
          /\ Answer(w, r, "none")
    /\ UNCHANGED <<ids, enrolled, rows, channels>>

\* Mutant: the row goes first, and there is nothing left to close.
ToCloseNothing(row) == FALSE
\* CloseClassChannel has something to close.
ToClose(row) == row.link # NoLink

\* deleteClass reads the row and closes its channel first.
DeleteClass(w, c) ==
    /\ c \in DOMAIN classes
    /\ LET r == [Idle EXCEPT !.class = c, !.then = "drop"]
       IN  \/ Begin(w, [r EXCEPT !.obj = classes[c], !.ch = classes[c].link,
                            !.pc = IF ToClose(classes[c]) THEN "close" ELSE "drop"])
           \/ MayFail /\ Begin(w, [r EXCEPT !.pc = "drop", !.sound = FALSE])
    /\ UNCHANGED <<classes, ids, enrolled, rows, channels>>

\* DeleteClass; the foreign key takes the enrolments along.
DropClass(w) ==
    LET c == req[w].class IN
    /\ req[w].pc = "drop"
    /\ \/ /\ c \in DOMAIN classes
          /\ classes' = [d \in DOMAIN classes \ {c} |-> classes[d]]
          /\ enrolled' = {e \in enrolled : e.class # c}
          /\ Answer(w, req[w], "closed")
       \/ /\ MayFail \/ c \notin DOMAIN classes
          /\ UNCHANGED <<classes, enrolled>>
          /\ Answer(w, req[w], "none")
    /\ UNCHANGED <<ids, rows, channels>>

\* enrollStudents, possibly of nobody.
EnrollStudents(w, c, students) ==
    /\ c \in DOMAIN classes
    /\ Begin(w, [Idle EXCEPT !.pc = IF students = {} THEN "reload" ELSE "check",
                             !.class = c, !.todo = students, !.then = "sync"])
    /\ UNCHANGED <<classes, ids, enrolled, rows, channels>>

\* The next student: one who is enrolled is skipped, unless the lookup fails.
CheckEnrolment(w, s) ==
    LET r == req[w]
        Rest == r.todo \ {s}
    IN  /\ r.pc = "check" /\ s \in r.todo
        /\ \/ /\ s \in StudentsOf(r.class)
              /\ Continue(w, [r EXCEPT !.todo = Rest,
                                       !.pc = IF Rest = {} THEN "reload" ELSE "check"])
           \/ /\ s \notin StudentsOf(r.class)
              /\ Continue(w, [r EXCEPT !.pc = "save", !.students = {s}])
           \/ /\ MayFail
              /\ Continue(w, [Failed(w) EXCEPT !.pc = "save", !.students = {s}])
        /\ UNCHANGED <<classes, ids, enrolled, rows, channels>>

\* Saving the enrolment; when that fails the request ends at once, without a
\* look at the channel.
SaveEnrolment(w) ==
    LET r == req[w]
        Rest == r.todo \ r.students
    IN  /\ r.pc = "save"
        /\ \/ /\ r.class \in DOMAIN classes
              /\ rows' = rows + 1
              /\ enrolled' = enrolled \cup
                    {[id |-> rows', class |-> r.class, student |-> s] : s \in r.students}
              /\ Continue(w, [r EXCEPT !.todo = Rest, !.students = {},
                                       !.pc = IF Rest = {} THEN "reload" ELSE "check"])
           \/ /\ MayFail \/ r.class \notin DOMAIN classes
              /\ UNCHANGED <<rows, enrolled>>
              /\ Answer(w, req[w], "none")
        /\ UNCHANGED <<classes, ids, channels>>

\* unenrollStudent looks up one row of the student.
UnenrollStudent(w, e) ==
    /\ e \in enrolled
    /\ Begin(w, [Idle EXCEPT !.pc = "remove", !.class = e.class, !.row = e.id,
                             !.then = "sync"])
    /\ UNCHANGED <<classes, ids, enrolled, rows, channels>>

\* And deletes it.
RemoveEnrolment(w) ==
    LET Found == {e \in enrolled : e.id = req[w].row}
    IN  /\ req[w].pc = "remove"
        /\ \/ /\ Found # {}
              /\ enrolled' = enrolled \ Found
              /\ Continue(w, [req[w] EXCEPT !.pc = "reload", !.row = 0])
           \/ /\ MayFail \/ Found = {}
              /\ UNCHANGED enrolled
              /\ Answer(w, req[w], "none")
        /\ UNCHANGED <<classes, ids, rows, channels>>

\* Both read the class again; without it the channel is left alone.
ReloadClass(w) ==
    LET c == req[w].class IN
    /\ req[w].pc = "reload"
    /\ \/ /\ c \in DOMAIN classes
          /\ Continue(w, [req[w] EXCEPT !.pc = "students", !.obj = classes[c]])
       \/ /\ MayFail \/ c \notin DOMAIN classes
          /\ Answer(w, req[w], "none")
    /\ UNCHANGED <<classes, ids, enrolled, rows, channels>>

\* classStudentUserIDs; when it fails the class has no students.
ReadStudents(w) ==
    /\ req[w].pc = "students"
    /\ \/ Continue(w, [req[w] EXCEPT !.pc = "ensure",
                                     !.students = StudentsOf(req[w].class)])
       \/ MayFail /\ Continue(w, [Failed(w) EXCEPT !.pc = "ensure"])
    /\ UNCHANGED <<classes, ids, enrolled, rows, channels>>

-----------------------------------------------------------------------------
(***************************************************************************)
(* The channel                                                             *)
(***************************************************************************)

\* EnsureClassChannel: the channel the copy of the row names, if it is
\* there.
ResolveChannel(w) ==
    LET r == req[w] IN
    /\ r.pc = "ensure"
    /\ \/ Live(r.obj.link) /\ Go(w, [r EXCEPT !.ch = r.obj.link])
       \/ ~Live(r.obj.link) /\ Continue(w, [r EXCEPT !.pc = "provide"])
       \/ /\ MayFail /\ r.obj.link # NoLink
          /\ Continue(w, [Failed(w) EXCEPT !.pc = "provide"])
    /\ UNCHANGED <<classes, ids, enrolled, rows, channels>>

\* A new channel with the class's name.  When it cannot be created, because
\* the name is taken or for any other reason, the name is looked up; when the
\* team cannot be had the request gives up.
ProvideChannel(w) ==
    LET r == req[w]
        name == nameOf[r.obj.code]
    IN  /\ r.pc = "provide"
        /\ \/ /\ Bearing(name) = {}
              /\ channels' = Append(channels, [name |-> name, state |-> "live",
                                               members |-> {}, lent |-> FALSE])
              /\ Continue(w, [r EXCEPT !.pc = "seed", !.ch = Len(channels')])
           \/ /\ Bearing(name) # {}
              /\ Continue(w, [r EXCEPT !.pc = "lookup"])
              /\ UNCHANGED channels
           \/ /\ MayFail
              /\ Continue(w, [Failed(w) EXCEPT !.pc = "lookup"])
              /\ UNCHANGED channels
           \/ /\ MayFail
              /\ Answer(w, req[w], "none")
              /\ UNCHANGED channels
        /\ UNCHANGED <<classes, ids, enrolled, rows>>

\* GetChannelByName, which does not see archived channels.
LookUpChannel(w) ==
    LET Found == {ch \in Bearing(nameOf[req[w].obj.code]) : Live(ch)}
    IN  /\ req[w].pc = "lookup"
        /\ \/ \E ch \in Found : Continue(w, [req[w] EXCEPT !.pc = "seed", !.ch = ch])
           \/ (MayFail \/ Found = {}) /\ Answer(w, req[w], "none")
        /\ UNCHANGED <<classes, ids, enrolled, rows, channels>>

Members(ch) == IF Live(ch) THEN channels[ch].members ELSE {}
SetMembers(ch, people) ==
    channels' = IF Live(ch) THEN [channels EXCEPT ![ch].members = people] ELSE channels
Cleanup(pc) == IF pc = "seed" THEN "seeded" ELSE "synced"

\* Mutant: whoever teaches the class is not kept.
WantedWithoutOwner(r, admins) ==
    admins \cup (IF r.pc = "sync" THEN r.students ELSE {})
\* Whom the class wants: teacher and admins when the channel is provided,
\* the students too when it is synchronised.
Wanted(r, admins) ==
    {r.obj.teacher} \cup admins \cup (IF r.pc = "sync" THEN r.students ELSE {})

\* syncChannelMembership adds the missing.  Only members of the team can be
\* added; adding may fail for anybody.
AddMembers(w) ==
    LET r == req[w] IN
    /\ r.pc \in {"seed", "sync"}
    /\ \E admins \in {TeamAdmins, {}} :
         LET want == Wanted(r, admins)
         IN  \E added \in SUBSET (want \cap TeamMembers) :
               LET exact == admins = TeamAdmins /\ added = want \cap TeamMembers
               IN  /\ exact \/ MayFail
                   /\ SetMembers(r.ch, Members(r.ch) \cup added)
                   /\ Continue(w, [r EXCEPT !.want = want, !.sound = @ /\ exact,
                                            !.pc = Cleanup(@)])
    /\ UNCHANGED <<classes, ids, enrolled, rows>>

\* And removes everybody else.
RemoveOthers(w) ==
    LET Others == Members(req[w].ch) \ req[w].want IN
    /\ req[w].pc \in {"seeded", "synced"}
    /\ \E gone \in SUBSET Others :
         LET r == [req[w] EXCEPT !.sound = @ /\ gone = Others, !.want = {}]
         IN  /\ gone = Others \/ MayFail
             /\ SetMembers(r.ch, Members(r.ch) \ gone)
             /\ IF r.pc = "seeded" THEN Continue(w, [r EXCEPT !.pc = "persist"])
                                   ELSE Answer(w, r, "synced")
    /\ UNCHANGED <<classes, ids, enrolled, rows>>

\* The link goes into the copy of the row, and the copy over the row.
PersistLink(w) ==
    LET linked == [req[w].obj EXCEPT !.link = req[w].ch]
    IN  /\ req[w].pc = "persist"
        /\ WriteBack(w, linked, [req[w] EXCEPT !.obj = linked])
        /\ UNCHANGED <<ids, enrolled, rows, channels>>

\* CloseClassChannel looks for the channel; one it cannot read is taken to be
\* gone.
FindChannel(w) ==
    /\ req[w].pc = "close"
    /\ LET r == [req[w] EXCEPT !.ch = req[w].obj.link]
       IN  \/ Continue(w, [r EXCEPT !.pc =
                  IF r.ch \in DOMAIN channels /\ channels[r.ch].state # "gone"
                  THEN "erase" ELSE "clear"])
           \/ MayFail /\ Continue(w, [r EXCEPT !.pc = "clear", !.sound = FALSE])
    /\ UNCHANGED <<classes, ids, enrolled, rows, channels>>

\* PermanentDeleteChannel; when it fails the link stays.
EraseChannel(w) ==
    LET r == req[w] IN
    /\ r.pc = "erase"
    /\ \/ /\ channels' = [channels EXCEPT ![r.ch].state = "gone", ![r.ch].members = {}]
          /\ Continue(w, [r EXCEPT !.pc = "clear"])
       \/ /\ MayFail
          /\ UNCHANGED channels
          /\ Go(w, Failed(w))
    /\ UNCHANGED <<classes, ids, enrolled, rows>>

\* clearChannelLink.
ClearLink(w) ==
    LET cleared == [req[w].obj EXCEPT !.link = NoLink]
    IN  /\ req[w].pc = "clear"
        /\ WriteBack(w, cleared, [req[w] EXCEPT !.obj = cleared])
        /\ UNCHANGED <<ids, enrolled, rows, channels>>

\* Somebody archives a channel in the chat application.
ArchiveChannel(ch) ==
    /\ Live(ch)
    /\ served < MaxRequests /\ served' = served + 1
    /\ channels' = [channels EXCEPT ![ch].state = "archived"]
    /\ req' = [v \in Workers |-> Overlapped(v)]
    /\ UNCHANGED <<classes, ids, enrolled, rows>>

Next ==
    \/ \E w \in Workers :
          \/ \E c \in Classes :
                \/ \E code \in Codes, t \in Teachers : CreateClass(w, c, code, t)
                \/ UpdateClass(w, c)
                \/ DeleteClass(w, c)
                \/ \E students \in SUBSET Students : EnrollStudents(w, c, students)
          \/ \E e \in enrolled : UnenrollStudent(w, e)
          \/ WriteClass(w) \/ DropClass(w)
          \/ \E s \in Students : CheckEnrolment(w, s)
          \/ SaveEnrolment(w) \/ RemoveEnrolment(w)
          \/ ReloadClass(w) \/ ReadStudents(w)
          \/ ResolveChannel(w) \/ ProvideChannel(w) \/ LookUpChannel(w)
          \/ AddMembers(w) \/ RemoveOthers(w) \/ PersistLink(w)
          \/ FindChannel(w) \/ EraseChannel(w) \/ ClearLink(w)
    \/ \E ch \in DOMAIN channels : ArchiveChannel(ch)

Init ==
    /\ classes = [c \in {} |-> NoRow]
    /\ ids = {}
    /\ enrolled = {}
    /\ rows = 0
    /\ channels = <<>>
    /\ served = 0
    /\ req = [w \in Workers |-> Idle]

Spec == Init /\ [][Next]_vars

-----------------------------------------------------------------------------
(***************************************************************************)
(* Properties                                                              *)
(***************************************************************************)

\* Two classes that are linked to the same channel have codes with the same
\* channel name, unless a client has sent the link with another code: no
\* interleaving of creations, updates that hand codes on, stale copies
\* written back and failures brings other classes together
\* (EnsureClassChannel takes over any channel that bears the name it wants,
\* chat.go:184-194; the comment at 186-188, that such a channel is one of this
\* class, does not hold of codes that classChannelName maps to one name).
SharedBySameNameOnly ==
    \A c, d \in DOMAIN classes :
        c # d /\ classes[c].link = classes[d].link /\ classes[c].link # NoLink
            => \/ nameOf[classes[c].code] = nameOf[classes[d].code]
               \/ channels[classes[c].link].lent

\* Whatever earlier requests left behind, a change of the enrolments, or of a
\* class that is open before and after it, that no other request overlaps
\* and in which no call fails leaves the class linked to a channel whose
\* members are the teacher, the admins and the students enrolled then, as far
\* as they are in the team (SyncClassChannelMembership, chat.go:286-301).  A
\* class that is reopened is not synchronised (class.go:154, though 144
\* speaks of it).
SyncSettles ==
    \A w \in Workers : req[w].result = "synced" =>
        LET c == req[w].class
        IN  /\ c \in DOMAIN classes
            /\ Live(classes[c].link)
            /\ Members(classes[c].link) =
                  ({classes[c].teacher} \cup TeamAdmins \cup StudentsOf(c)) \cap TeamMembers

\* A class that is deleted or finished, undisturbed, keeps no link to the
\* channel it had, and of the other classes only those keep one whose codes
\* have the same channel name, unless a client has sent the link with another
\* code; and the channel and its messages are gone, unless the class was
\* finished by an update that did not send the link (result "finished"), as
\* the web form's do not (CloseClassChannel, chat.go:307-326; deleteClass,
\* class.go:179-192; updateClass, class.go:149, whose comment at 126-128
\* makes no such exception).
ClosingReleases ==
    \A w \in Workers :
        req[w].result \in {"closed", "finished"} /\ req[w].ch # NoLink =>
            /\ \/ channels[req[w].ch].state = "gone"
               \/ req[w].result = "finished"
            /\ \A c \in DOMAIN classes : classes[c].link = req[w].ch =>
                  /\ c # req[w].class
                  /\ \/ nameOf[classes[c].code] = channels[req[w].ch].name
                     \/ channels[req[w].ch].lent
=============================================================================
