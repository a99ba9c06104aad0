-------------------------- MODULE ClassChatProofs ---------------------------
(***************************************************************************)
(* The chat of a class for any number of classes, people and concurrent    *)
(* requests.                                                               *)
(*                                                                         *)
(* Two classes share a channel only if their codes have the same channel   *)
(* name, or a client has sent its id with another code: a link always      *)
(* leads to a channel that bears the name of the code it is stored with,   *)
(* or is marked, in the rows and in the copies requests hold.              *)
(*                                                                         *)
(* A request that nothing disturbs and in which no call fails leaves the   *)
(* channel as the class wants it, or gone: what it has read is still so    *)
(* when it writes.                                                         *)
(***************************************************************************)
EXTENDS ClassChat, TLAPS

Names == {nameOf[k] : k \in Codes}
ChannelRows == [name : Names, state : {"live", "archived", "gone"},
                members : SUBSET People, lent : BOOLEAN]

\* Where a request's copy of the row is one that was read or written, and
\* where it holds the channel that it has provided.
Copying == {"write", "close", "erase", "clear", "students", "ensure", "provide",
            "lookup", "seed", "seeded", "persist", "sync", "synced"}
Providing == {"seed", "seeded", "persist"}
Steps == Copying \cup {"idle", "check", "save", "remove", "reload", "drop"}

Requests == [pc : Steps, result : {"none", "synced", "closed", "finished"},
             class : Classes \cup {"none"}, obj : ClassRow \cup {NoRow},
             wasFinished : BOOLEAN, todo : SUBSET Students, row : Nat,
             students : SUBSET Students, want : SUBSET People, ch : Nat,
             then : {"none", "closed", "sync", "drop"}, lone : BOOLEAN,
             sound : BOOLEAN]

\* Channel ch is one of the channels chs and bears the name of the code,
\* unless a client has sent its id with another.
Bears(ch, code, chs) ==
    /\ ch \in DOMAIN chs
    /\ chs[ch].name = nameOf[code] \/ chs[ch].lent

RowFits(row, chs) == row.link # NoLink => Bears(row.link, row.code, chs)

RequestFits(r, chs) ==
    /\ r \in Requests
    /\ RowFits(r.obj, chs)
    /\ r.pc \in Copying => r.obj \in ClassRow
    /\ r.pc \in Providing => Bears(r.ch, r.obj.code, chs)

CodesUnique ==
    \A c, d \in DOMAIN classes : c # d => classes[c].code # classes[d].code

RowsFit ==
    /\ DOMAIN classes \subseteq Classes
    /\ classes = [c \in DOMAIN classes |-> classes[c]]
    /\ \A c \in DOMAIN classes :
          classes[c] \in ClassRow /\ RowFits(classes[c], channels)

\* The inductive invariant.
ChatInv ==
    /\ channels \in Seq(ChannelRows)
    /\ enrolled \subseteq [id : Nat, class : Classes, student : Students]
    /\ rows \in Nat
    /\ RowsFit
    /\ CodesUnique
    /\ req \in [Workers -> Requests]
    /\ \A w \in Workers : RequestFits(req[w], channels)

\* Channels keep their names and their marks.
NamesKept(chs, new) ==
    \A ch \in DOMAIN chs :
        ch \in DOMAIN new /\ new[ch].name = chs[ch].name /\ (chs[ch].lent => new[ch].lent)

-----------------------------------------------------------------------------

\* A worker without a request fits.
LEMMA IdleFits == \A chs : RequestFits(Idle, chs)
BY DEF RequestFits, Idle, NoRow, Requests, Steps, Copying, Providing, RowFits,
       NoLink, People

\* What fits goes on fitting while channels keep their names.
LEMMA FitsKept ==
    ASSUME NEW chs, NEW new, NamesKept(chs, new)
    PROVE  /\ \A row : RowFits(row, chs) => RowFits(row, new)
           /\ \A r : RequestFits(r, chs) => RequestFits(r, new)
BY DEF NamesKept, RowFits, RequestFits, Bears

\* A request that begins, when it fits itself, leaves every request fitting.
LEMMA BeginFits ==
    ASSUME ChatInv, NEW w \in Workers, NEW r, NEW chs, NamesKept(channels, chs),
           RequestFits(r, chs), Begin(w, r)
    PROVE  /\ req' \in [Workers -> Requests]
           /\ \A v \in Workers : RequestFits(req'[v], chs)
<1>1. ASSUME NEW q, RequestFits(q, chs), NEW b \in BOOLEAN
      PROVE  RequestFits([q EXCEPT !.lone = b], chs)
  BY <1>1 DEF RequestFits, Requests, RowFits, Bears
<1>2. \A v \in Workers : RequestFits(Overlapped(v), chs)
  BY <1>1, IdleFits, FitsKept DEF Overlapped, ChatInv
<1> QED
  BY <1>1, <1>2 DEF Begin, RequestFits

\* A request that goes on.
LEMMA ContinueFits ==
    ASSUME ChatInv, NEW w \in Workers, NEW r, NEW chs, NamesKept(channels, chs),
           RequestFits(r, chs), Continue(w, r)
    PROVE  /\ req' \in [Workers -> Requests]
           /\ \A v \in Workers : RequestFits(req'[v], chs)
BY FitsKept DEF Continue, ChatInv, RequestFits

\* A request that is answered.
LEMMA AnswerFits ==
    ASSUME ChatInv, NEW w \in Workers, NEW r \in Requests, NEW chs,
           NamesKept(channels, chs),
           NEW result \in {"none", "synced", "closed", "finished"}, Answer(w, r, result)
    PROVE  /\ req' \in [Workers -> Requests]
           /\ \A v \in Workers : RequestFits(req'[v], chs)
<1> DEFINE a == IF result # "none" /\ r.lone /\ r.sound
                THEN [Idle EXCEPT !.result = result, !.class = r.class, !.ch = r.ch]
                ELSE Idle
<1>1. RequestFits(a, chs)
  <2> DEFINE k == [Idle EXCEPT !.result = result, !.class = r.class, !.ch = r.ch]
  <2>1. Idle \in Requests /\ Idle.pc = "idle" /\ Idle.obj = NoRow
    BY IdleFits DEF RequestFits, Idle
  <2>2. k \in Requests /\ k.pc = "idle" /\ k.obj = NoRow
    BY <2>1 DEF Requests
  <2>3. RequestFits(k, chs)
    <3> HIDE DEF k
    <3> QED BY <2>2 DEF RequestFits, RowFits, NoRow, NoLink, Copying, Providing
  <2> QED
    BY <2>3, IdleFits
<1>2. Continue(w, a)
  BY DEF Answer
<1> QED
  BY <1>1, <1>2, ContinueFits

\* A request that has finished a part.
LEMMA GoFits ==
    ASSUME ChatInv, NEW w \in Workers, NEW r, NEW chs, NamesKept(channels, chs),
           RequestFits(r, chs), r.pc \in Copying, Go(w, r)
    PROVE  /\ req' \in [Workers -> Requests]
           /\ \A v \in Workers : RequestFits(req'[v], chs)
<1>1. r \in Requests
  BY DEF RequestFits
<1>2. CASE r.then \in {"none", "closed"}
  BY <1>1, <1>2, AnswerFits DEF Go, Requests
<1>3. CASE r.then \in {"sync", "drop"}
  <2>1. RequestFits([r EXCEPT !.pc = r.then], chs)
    BY <1>3 DEF RequestFits, Requests, RowFits, Bears, Copying, Providing, Steps
  <2> QED
    BY <1>3, <2>1, ContinueFits DEF Go
<1> QED
  BY <1>1, <1>2, <1>3 DEF Requests

\* Rows as they must be after a step.
LEMMA WriteFits ==
    ASSUME ChatInv, NEW c, NEW row \in ClassRow, RowFits(row, channels),
           CanWrite(c, row), classes' = [classes EXCEPT ![c] = row],
           UNCHANGED channels
    PROVE  RowsFit' /\ CodesUnique'
<1>1. c \in DOMAIN classes /\ DOMAIN classes' = DOMAIN classes
  BY DEF ChatInv, RowsFit, CanWrite
<1>2. \A d \in DOMAIN classes : classes'[d] = IF d = c THEN row ELSE classes[d]
  BY <1>1
<1>3. RowsFit'
  BY <1>1, <1>2 DEF ChatInv, RowsFit
<1>4. CodesUnique'
  BY <1>1, <1>2 DEF ChatInv, CodesUnique, CanWrite
<1> QED
  BY <1>3, <1>4

\* A step that leaves the class table alone and the channels their names.
LEMMA RowsKept ==
    ASSUME ChatInv, UNCHANGED classes, NamesKept(channels, channels')
    PROVE  RowsFit' /\ CodesUnique'
BY FitsKept DEF ChatInv, RowsFit, CodesUnique

\* A step that leaves the tables and the channels alone.
LEMMA QuietStep ==
    ASSUME ChatInv, UNCHANGED <<classes, enrolled, rows, channels>>,
           req' \in [Workers -> Requests],
           \A v \in Workers : RequestFits(req'[v], channels)
    PROVE  ChatInv'
<1>1. NamesKept(channels, channels')
  BY DEF NamesKept
<1> QED
  BY <1>1, RowsKept DEF ChatInv

\* The same, for a step that begins a request that fits.
LEMMA QuietBegin ==
    ASSUME ChatInv, UNCHANGED <<classes, enrolled, rows, channels>>,
           NEW w \in Workers, NEW r, RequestFits(r, channels), Begin(w, r)
    PROVE  ChatInv'
<1>1. NamesKept(channels, channels)
  BY DEF NamesKept
<1> QED
  BY <1>1, BeginFits, QuietStep

\* The same, for a step that goes on with a request that fits.
LEMMA QuietContinue ==
    ASSUME ChatInv, UNCHANGED <<classes, enrolled, rows, channels>>,
           NEW w \in Workers, NEW r, RequestFits(r, channels), Continue(w, r)
    PROVE  ChatInv'
<1>1. NamesKept(channels, channels)
  BY DEF NamesKept
<1> QED
  BY <1>1, ContinueFits, QuietStep

\* The same, for a step that answers a request.
LEMMA QuietAnswer ==
    ASSUME ChatInv, UNCHANGED <<classes, enrolled, rows, channels>>,
           NEW w \in Workers, NEW r \in Requests,
           NEW result \in {"none", "synced", "closed", "finished"}, Answer(w, r, result)
    PROVE  ChatInv'
<1>1. NamesKept(channels, channels)
  BY DEF NamesKept
<1> QED
  BY <1>1, AnswerFits, QuietStep

\* The same, for a step that ends a part of a request that fits.
LEMMA QuietGo ==
    ASSUME ChatInv, UNCHANGED <<classes, enrolled, rows, channels>>,
           NEW w \in Workers, NEW r, RequestFits(r, channels), r.pc \in Copying,
           Go(w, r)
    PROVE  ChatInv'
<1>1. NamesKept(channels, channels)
  BY DEF NamesKept
<1> QED
  BY <1>1, GoFits, QuietStep

\* UpdateClass at the end of a hook.
LEMMA WriteBackFits ==
    ASSUME ChatInv, NEW w \in Workers, NEW row \in ClassRow, RowFits(row, channels),
           NEW r, RequestFits(r, channels), r.pc \in Copying,
           WriteBack(w, row, r), UNCHANGED <<enrolled, rows, channels>>
    PROVE  ChatInv'
<1>1. NamesKept(channels, channels) /\ NamesKept(channels, channels')
  BY DEF NamesKept
<1>2. RequestFits([r EXCEPT !.sound = FALSE], channels)
      /\ [r EXCEPT !.sound = FALSE].pc \in Copying
  BY DEF RequestFits, Requests, RowFits, Bears
<1>3. CASE /\ CanWrite(req[w].class, row)
           /\ classes' = [classes EXCEPT ![req[w].class] = row]
           /\ Go(w, r) \/ Go(w, [r EXCEPT !.sound = FALSE])
  <2>1. RowsFit' /\ CodesUnique'
    BY <1>3, WriteFits
  <2>2. req' \in [Workers -> Requests] /\ \A v \in Workers : RequestFits(req'[v], channels)
    <3>1. CASE Go(w, r)
      BY <1>1, <3>1, GoFits
    <3>2. CASE Go(w, [r EXCEPT !.sound = FALSE])
      BY <1>1, <1>2, <3>2, GoFits
    <3> QED
      BY <1>3, <3>1, <3>2
  <2> QED
    BY <2>1, <2>2 DEF ChatInv
<1>4. CASE UNCHANGED classes /\ Go(w, [r EXCEPT !.sound = FALSE])
  <2>1. req' \in [Workers -> Requests] /\ \A v \in Workers : RequestFits(req'[v], channels)
    BY <1>1, <1>2, <1>4, GoFits
  <2> QED
    BY <1>4, <2>1, QuietStep
<1> QED
  BY <1>3, <1>4 DEF WriteBack

\* One channel changes, and keeps its name and its mark.
LEMMA ChannelChanged ==
    ASSUME ChatInv, NEW ch \in DOMAIN channels, NEW new \in ChannelRows,
           new.name = channels[ch].name, channels[ch].lent => new.lent,
           channels' = [channels EXCEPT ![ch] = new]
    PROVE  channels' \in Seq(ChannelRows) /\ NamesKept(channels, channels')
BY DEF ChatInv, NamesKept

\* A step that changes channels, but no names, and no tables.
LEMMA ChannelStep ==
    ASSUME ChatInv, channels' \in Seq(ChannelRows), NamesKept(channels, channels'),
           UNCHANGED <<classes, enrolled, rows>>,
           req' \in [Workers -> Requests],
           \A v \in Workers : RequestFits(req'[v], channels')
    PROVE  ChatInv'
BY RowsKept DEF ChatInv

-----------------------------------------------------------------------------
(***************************************************************************)
(* The requests                                                            *)
(***************************************************************************)

\* A new class has no link, and a code of its own (createClass).
LEMMA CreateClassKeeps ==
    ASSUME ChatInv, NEW w \in Workers, NEW c \in Classes, NEW code \in Codes,
           NEW t \in Teachers, CreateClass(w, c, code, t)
    PROVE  ChatInv'
<1> DEFINE row == [code |-> code, teacher |-> t, finished |-> FALSE, link |-> NoLink]
           r == [Idle EXCEPT !.pc = "ensure", !.class = c, !.obj = row]
<1>1. row \in ClassRow /\ RowFits(row, channels)
  BY DEF ClassRow, RowFits, NoLink
<1>2. RequestFits(r, channels)
  <2>1. r \in Requests /\ r.pc = "ensure" /\ r.obj = row
    BY <1>1 DEF Idle, Requests, Steps, Copying, NoLink, People
  <2> HIDE DEF r
  <2> QED
    BY <1>1, <2>1 DEF RequestFits, Providing
<1>3. Begin(w, r)
  BY DEF CreateClass
<1>4. req' \in [Workers -> Requests] /\ \A v \in Workers : RequestFits(req'[v], channels)
  <2>1. NamesKept(channels, channels)
    BY DEF NamesKept
  <2> QED
    BY <1>2, <1>3, <2>1, BeginFits
<1>5. RowsFit' /\ CodesUnique'
  <2>1. /\ \A d \in DOMAIN classes : classes[d].code # row.code
        /\ classes' = [d \in DOMAIN classes \cup {c} |->
                          IF d = c THEN row ELSE classes[d]]
        /\ UNCHANGED channels
    BY DEF CreateClass
  <2> HIDE DEF row
  <2> QED
    BY <1>1, <2>1 DEF ChatInv, RowsFit, CodesUnique
<1> QED
  BY <1>4, <1>5 DEF ChatInv, CreateClass

\* A client sends back a link it has read, or none; a channel it sends with
\* another code is marked.
LEMMA BodyFits ==
    ASSUME ChatInv, NEW c \in DOMAIN classes,
           NEW kind \in Bodies, NEW body \in Body(kind, classes[c]), channels' = Lent(body)
    PROVE  /\ body \in ClassRow /\ RowFits(body, channels')
           /\ channels' \in Seq(ChannelRows) /\ NamesKept(channels, channels')
           /\ \A ch \in DOMAIN channels' : /\ ch \in DOMAIN channels
                                          /\ channels'[ch].members = channels[ch].members
<1>1. classes[c] \in ClassRow /\ RowFits(classes[c], channels)
  BY DEF ChatInv, RowsFit
<1>2. body \in ClassRow /\ body.link \in {NoLink, classes[c].link}
  <2>1. CASE kind = "form"
    BY <2>1 DEF Body, ClassRow, NoLink
  <2>2. CASE kind = "status"
    BY <1>1, <2>2 DEF Body, ClassRow
  <2>3. CASE kind = "rename"
    <3>1. body \in [code : Codes, teacher : {classes[c].teacher}, finished : BOOLEAN,
                    link : {classes[c].link}]
      BY <2>3 DEF Body
    <3> QED
      BY <1>1, <3>1 DEF ClassRow
  <2> QED
    BY <2>1, <2>2, <2>3, ChatAssumption
<1>3. body.link # NoLink => body.link \in DOMAIN channels
  BY <1>1, <1>2 DEF RowFits, Bears
<1>4. CASE body.link \in DOMAIN channels /\ channels[body.link].name # nameOf[body.code]
  <2> DEFINE new == [channels[body.link] EXCEPT !.lent = TRUE]
  <2>1. channels[body.link] \in ChannelRows
    BY <1>4 DEF ChatInv
  <2>2. /\ new \in ChannelRows /\ new.name = channels[body.link].name /\ new.lent
        /\ new.members = channels[body.link].members
    BY <2>1 DEF ChannelRows
  <2>3. channels' = [channels EXCEPT ![body.link] = new]
    BY <1>4 DEF Lent
  <2> HIDE DEF new
  <2>4. channels' \in Seq(ChannelRows) /\ NamesKept(channels, channels')
    BY <1>4, <2>2, <2>3, ChannelChanged
  <2>5. /\ DOMAIN channels' = DOMAIN channels
        /\ \A ch \in DOMAIN channels :
              channels'[ch] = IF ch = body.link THEN new ELSE channels[ch]
    BY <2>3 DEF ChatInv
  <2> QED
    BY <1>2, <1>4, <2>2, <2>4, <2>5 DEF RowFits, Bears
<1>5. CASE ~(body.link \in DOMAIN channels /\ channels[body.link].name # nameOf[body.code])
  <2>1. channels' = channels
    BY <1>5 DEF Lent
  <2> QED
    BY <1>2, <1>3, <1>5, <2>1 DEF ChatInv, NamesKept, RowFits, Bears
<1> QED
  BY <1>4, <1>5

\* An update begins with a body that fits (updateClass).
LEMMA UpdateClassKeeps ==
    ASSUME ChatInv, NEW w \in Workers, NEW c \in Classes, UpdateClass(w, c)
    PROVE  ChatInv'
<1>0. PICK kind \in Bodies : \E body \in Body(kind, classes[c]) :
         LET r == [Idle EXCEPT !.pc = "write", !.class = c, !.obj = body,
                               !.ch = classes[c].link]
         IN  /\ \/ Begin(w, [r EXCEPT !.wasFinished = classes[c].finished])
                \/ MayFail /\ Begin(w, [r EXCEPT !.sound = FALSE])
             /\ channels' = Lent(body)
  BY DEF UpdateClass
<1>1. PICK body \in Body(kind, classes[c]) :
         LET r == [Idle EXCEPT !.pc = "write", !.class = c, !.obj = body,
                               !.ch = classes[c].link]
         IN  /\ \/ Begin(w, [r EXCEPT !.wasFinished = classes[c].finished])
                \/ MayFail /\ Begin(w, [r EXCEPT !.sound = FALSE])
             /\ channels' = Lent(body)
  BY <1>0
<1>2. /\ body \in ClassRow /\ RowFits(body, channels')
      /\ channels' \in Seq(ChannelRows) /\ NamesKept(channels, channels')
  BY <1>1, BodyFits DEF UpdateClass
<1> DEFINE r == [Idle EXCEPT !.pc = "write", !.class = c, !.obj = body,
                             !.ch = classes[c].link]
<1>7. classes[c] \in ClassRow /\ classes[c].link \in Nat
  BY DEF UpdateClass, ChatInv, RowsFit, ClassRow
<1>3. r \in Requests /\ r.pc = "write" /\ r.obj = body
  BY <1>2, <1>7 DEF Idle, Requests, Steps, Copying, NoLink, People
<1>4. PICK q : q \in Requests /\ q.pc = "write" /\ q.obj = body /\ Begin(w, q)
  <2>1. \A b \in BOOLEAN : LET q == [r EXCEPT !.wasFinished = b]
                           IN  q \in Requests /\ q.pc = "write" /\ q.obj = body
    BY <1>3 DEF Requests
  <2>2. LET q == [r EXCEPT !.sound = FALSE]
        IN  q \in Requests /\ q.pc = "write" /\ q.obj = body
    BY <1>3 DEF Requests
  <2>3. classes[c].finished \in BOOLEAN
    BY <1>7 DEF ClassRow
  <2>4. CASE Begin(w, [r EXCEPT !.wasFinished = classes[c].finished])
    BY <2>1, <2>3, <2>4
  <2>5. CASE Begin(w, [r EXCEPT !.sound = FALSE])
    BY <2>2, <2>5
  <2> QED
    BY <1>1, <2>4, <2>5
<1>5. RequestFits(q, channels')
  BY <1>2, <1>4 DEF RequestFits, Providing
<1>6. req' \in [Workers -> Requests] /\ \A v \in Workers : RequestFits(req'[v], channels')
  BY <1>2, <1>4, <1>5, BeginFits
<1> QED
  BY <1>2, <1>6, ChannelStep DEF UpdateClass

\* The body that is written over the row fits (SqlClassStore.Update).
LEMMA WriteClassKeeps ==
    ASSUME ChatInv, NEW w \in Workers, WriteClass(w)
    PROVE  ChatInv'
<1> DEFINE r == req[w]
           Hooked(pc, then) == [r EXCEPT !.obj = r.obj, !.pc = pc, !.then = then]
<1>1. RequestFits(r, channels) /\ r.pc = "write" /\ r \in Requests
      /\ r.obj \in ClassRow /\ RowFits(r.obj, channels)
  BY DEF ChatInv, WriteClass, RequestFits, Copying
<1>2. NamesKept(channels, channels)
  BY DEF NamesKept
<1>3. RequestFits(Hooked("close", "closed"), channels)
      /\ RequestFits(Hooked("students", "sync"), channels)
  BY <1>1 DEF RequestFits, Requests, RowFits, Bears, Steps, Copying, Providing
<1>4. CASE /\ CanWrite(r.class, r.obj)
           /\ classes' = [classes EXCEPT ![r.class] = r.obj]
           /\ \/ Continue(w, Hooked("close", "closed"))
              \/ Continue(w, Hooked("students", "sync"))
              \/ Answer(w, r, "none") \/ Answer(w, r, "finished")
  <2>1. RowsFit' /\ CodesUnique'
    BY <1>1, <1>4, WriteFits DEF WriteClass
  <2>2. req' \in [Workers -> Requests] /\ \A v \in Workers : RequestFits(req'[v], channels)
    <3> HIDE DEF r, Hooked
    <3>1. CASE Continue(w, Hooked("close", "closed"))
      BY <1>2, <1>3, <3>1, ContinueFits
    <3>2. CASE Continue(w, Hooked("students", "sync"))
      BY <1>2, <1>3, <3>2, ContinueFits
    <3>3. CASE Answer(w, r, "none") \/ Answer(w, r, "finished")
      BY <1>1, <1>2, <3>3, AnswerFits
    <3> QED
      BY <1>4, <3>1, <3>2, <3>3
  <2> QED
    BY <2>1, <2>2 DEF ChatInv, WriteClass
<1>5. CASE UNCHANGED classes /\ Answer(w, r, "none")
  BY <1>1, <1>5, QuietAnswer DEF WriteClass
<1> QED
  BY <1>4, <1>5 DEF WriteClass, Stored

\* A deletion begins with the row as it was read (deleteClass).
LEMMA DeleteClassKeeps ==
    ASSUME ChatInv, NEW w \in Workers, NEW c \in Classes, DeleteClass(w, c)
    PROVE  ChatInv'
<1>1. classes[c] \in ClassRow /\ RowFits(classes[c], channels)
  BY DEF ChatInv, RowsFit, DeleteClass
<1>2. PICK q : RequestFits(q, channels) /\ Begin(w, q)
  <2> DEFINE r == [Idle EXCEPT !.class = c, !.then = "drop"]
             found == [r EXCEPT !.obj = classes[c], !.ch = classes[c].link,
                                !.pc = IF ToClose(classes[c]) THEN "close" ELSE "drop"]
             lost == [r EXCEPT !.pc = "drop", !.sound = FALSE]
  <2>1. r \in Requests /\ r.obj = NoRow
    BY DEF Idle, Requests, Steps, NoLink, People
  <2> HIDE DEF r
  <2>2. found \in Requests /\ found.obj = classes[c] /\ found.pc \in {"close", "drop"}
    <3> DEFINE pc == IF ToClose(classes[c]) THEN "close" ELSE "drop"
    <3>1. pc \in {"close", "drop"} /\ pc \in Steps
      BY DEF Steps, Copying
    <3>2. classes[c].link \in Nat
      BY <1>1 DEF ClassRow
    <3>3. found = [r EXCEPT !.obj = classes[c], !.ch = classes[c].link, !.pc = pc]
      OBVIOUS
    <3> HIDE DEF pc, found
    <3> QED
      BY <1>1, <2>1, <3>1, <3>2, <3>3 DEF Requests
  <2>3. lost \in Requests /\ lost.obj = NoRow /\ lost.pc = "drop"
    BY <2>1 DEF Requests, Steps
  <2>4. RequestFits(found, channels)
    <3> HIDE DEF found
    <3> QED BY <1>1, <2>2 DEF RequestFits, Providing
  <2>5. RequestFits(lost, channels)
    <3> HIDE DEF lost
    <3> QED BY <2>3 DEF RequestFits, Providing, Copying, RowFits, NoRow
  <2> QED
    BY <2>4, <2>5 DEF DeleteClass, r
<1> QED
  BY <1>2, QuietBegin DEF DeleteClass

\* The rows that stay are as they were (SqlClassStore.Delete).
LEMMA DropClassKeeps ==
    ASSUME ChatInv, NEW w \in Workers, DropClass(w)
    PROVE  ChatInv'
<1>1. req[w] \in Requests
  BY DEF ChatInv
<1>2. NamesKept(channels, channels)
  BY DEF NamesKept
<1>3. CASE UNCHANGED <<classes, enrolled>> /\ Answer(w, req[w], "none")
  BY <1>1, <1>3, QuietAnswer DEF DropClass
<1>4. CASE /\ classes' = [d \in DOMAIN classes \ {req[w].class} |-> classes[d]]
           /\ enrolled' = {e \in enrolled : e.class # req[w].class}
           /\ Answer(w, req[w], "closed")
  <2>1. req' \in [Workers -> Requests] /\ \A v \in Workers : RequestFits(req'[v], channels)
    BY <1>1, <1>2, <1>4, AnswerFits
  <2>2. RowsFit' /\ CodesUnique'
    BY <1>4 DEF ChatInv, RowsFit, CodesUnique, DropClass
  <2> QED
    BY <1>4, <2>1, <2>2 DEF ChatInv, DropClass
<1> QED
  BY <1>3, <1>4 DEF DropClass

\* Enrolling begins without a copy of the class (enrollStudents).
LEMMA EnrollStudentsKeeps ==
    ASSUME ChatInv, NEW w \in Workers, NEW c \in Classes,
           NEW students \in SUBSET Students, EnrollStudents(w, c, students)
    PROVE  ChatInv'
<1> DEFINE r == [Idle EXCEPT !.pc = IF students = {} THEN "reload" ELSE "check",
                             !.class = c, !.todo = students, !.then = "sync"]
<1>1. r \in Requests /\ r.pc \in {"check", "reload"} /\ r.obj = NoRow
  BY DEF Idle, Requests, Steps, NoLink, People
<1>2. Begin(w, r)
  BY DEF EnrollStudents
<1> HIDE DEF r
<1>3. RequestFits(r, channels)
  BY <1>1 DEF RequestFits, Providing, Copying, RowFits, NoRow
<1> QED
  BY <1>2, <1>3, QuietBegin DEF EnrollStudents

\* So does unenrolling (unenrollStudent).
LEMMA UnenrollStudentKeeps ==
    ASSUME ChatInv, NEW w \in Workers, NEW e \in enrolled, UnenrollStudent(w, e)
    PROVE  ChatInv'
<1> DEFINE r == [Idle EXCEPT !.pc = "remove", !.class = e.class, !.row = e.id, !.then = "sync"]
<1>1. r \in Requests /\ r.pc = "remove" /\ r.obj = NoRow
  BY DEF ChatInv, Idle, Requests, Steps, NoLink, People
<1>2. Begin(w, r)
  BY DEF UnenrollStudent
<1> HIDE DEF r
<1>3. RequestFits(r, channels)
  BY <1>1 DEF RequestFits, Providing, Copying, RowFits, NoRow
<1> QED
  BY <1>2, <1>3, QuietBegin DEF UnenrollStudent

\* Looking for an enrolment writes nothing (EnrollStudents).
LEMMA CheckEnrolmentKeeps ==
    ASSUME ChatInv, NEW w \in Workers, NEW s \in Students, CheckEnrolment(w, s)
    PROVE  ChatInv'
<1>1. RequestFits(req[w], channels) /\ req[w].pc = "check"
  BY DEF ChatInv, CheckEnrolment
<1>2. PICK q : RequestFits(q, channels) /\ Continue(w, q)
  <2> DEFINE r == req[w]
             Rest == r.todo \ {s}
             skipped == [r EXCEPT !.todo = Rest,
                                  !.pc = IF Rest = {} THEN "reload" ELSE "check"]
             chosen == [r EXCEPT !.pc = "save", !.students = {s}]
             unread == [Failed(w) EXCEPT !.pc = "save", !.students = {s}]
  <2>1. RequestFits(skipped, channels)
    BY <1>1 DEF RequestFits, Requests, RowFits, Bears, Steps, Copying, Providing
  <2>2. RequestFits(chosen, channels)
    BY <1>1 DEF RequestFits, Requests, RowFits, Bears, Steps, Copying, Providing
  <2>3. RequestFits(unread, channels)
    <3>1. unread \in Requests /\ unread.obj = r.obj /\ unread.pc = "save"
      BY <1>1 DEF Failed, RequestFits, Requests, Steps
    <3> HIDE DEF unread
    <3> QED
      BY <1>1, <3>1 DEF RequestFits, Copying, Providing
  <2> QED
    BY <2>1, <2>2, <2>3 DEF CheckEnrolment
<1> QED
  BY <1>2, QuietContinue DEF CheckEnrolment

\* Saving an enrolment leaves classes and channels alone.
LEMMA SaveEnrolmentKeeps ==
    ASSUME ChatInv, NEW w \in Workers, SaveEnrolment(w)
    PROVE  ChatInv'
<1> DEFINE r == req[w]
           Rest == r.todo \ r.students
           q == [r EXCEPT !.todo = Rest, !.students = {},
                          !.pc = IF Rest = {} THEN "reload" ELSE "check"]
           new == {[id |-> rows', class |-> r.class, student |-> s] : s \in r.students}
<1>1. RequestFits(r, channels) /\ r \in Requests /\ r.pc = "save"
  BY DEF ChatInv, SaveEnrolment, RequestFits
<1>2. NamesKept(channels, channels) /\ NamesKept(channels, channels')
  BY DEF NamesKept, SaveEnrolment
<1>3. CASE UNCHANGED <<rows, enrolled>> /\ Answer(w, r, "none")
  BY <1>1, <1>3, QuietAnswer DEF SaveEnrolment
<1>4. CASE /\ r.class \in DOMAIN classes
           /\ rows' = rows + 1
           /\ enrolled' = enrolled \cup new
           /\ Continue(w, q)
  <2>1. RequestFits(q, channels)
    BY <1>1 DEF RequestFits, Requests, RowFits, Bears, Steps, Copying, Providing
  <2>2. req' \in [Workers -> Requests] /\ \A v \in Workers : RequestFits(req'[v], channels)
    BY <1>2, <1>4, <2>1, ContinueFits
  <2>3. RowsFit' /\ CodesUnique'
    BY <1>2, RowsKept DEF SaveEnrolment
  <2>4. rows' \in Nat /\ r.class \in Classes /\ r.students \subseteq Students
    BY <1>1, <1>4 DEF ChatInv, RowsFit, Requests
  <2>5. enrolled' \subseteq [id : Nat, class : Classes, student : Students]
    BY <1>4, <2>4 DEF ChatInv
  <2> QED
    BY <2>2, <2>3, <2>4, <2>5 DEF ChatInv, SaveEnrolment
<1> QED
  BY <1>3, <1>4 DEF SaveEnrolment

\* So does deleting one.
LEMMA RemoveEnrolmentKeeps ==
    ASSUME ChatInv, NEW w \in Workers, RemoveEnrolment(w)
    PROVE  ChatInv'
<1> DEFINE q == [req[w] EXCEPT !.pc = "reload", !.row = 0]
<1>1. RequestFits(req[w], channels) /\ req[w] \in Requests /\ req[w].pc = "remove"
  BY DEF ChatInv, RemoveEnrolment, RequestFits
<1>2. NamesKept(channels, channels) /\ NamesKept(channels, channels')
  BY DEF NamesKept, RemoveEnrolment
<1>3. CASE UNCHANGED enrolled /\ Answer(w, req[w], "none")
  BY <1>1, <1>3, QuietAnswer DEF RemoveEnrolment
<1>4. CASE enrolled' \subseteq enrolled /\ Continue(w, q)
  <2>1. RequestFits(q, channels)
    BY <1>1 DEF RequestFits, Requests, RowFits, Bears, Steps, Copying, Providing
  <2>2. req' \in [Workers -> Requests] /\ \A v \in Workers : RequestFits(req'[v], channels)
    BY <1>2, <1>4, <2>1, ContinueFits
  <2>3. RowsFit' /\ CodesUnique'
    BY <1>2, RowsKept DEF RemoveEnrolment
  <2> QED
    BY <1>4, <2>2, <2>3 DEF ChatInv, RemoveEnrolment
<1> QED
  BY <1>3, <1>4 DEF RemoveEnrolment

\* The copy read again is a row, and fits like one.
LEMMA ReloadClassKeeps ==
    ASSUME ChatInv, NEW w \in Workers, ReloadClass(w)
    PROVE  ChatInv'
<1> DEFINE c == req[w].class
           q == [req[w] EXCEPT !.pc = "students", !.obj = classes[c]]
<1>1. RequestFits(req[w], channels) /\ req[w] \in Requests
  BY DEF ChatInv, RequestFits
<1>2. CASE Answer(w, req[w], "none")
  BY <1>1, <1>2, QuietAnswer DEF ReloadClass
<1>3. CASE c \in DOMAIN classes /\ Continue(w, q)
  <2>1. classes[c] \in ClassRow /\ RowFits(classes[c], channels)
    BY <1>3 DEF ChatInv, RowsFit
  <2>2. RequestFits(q, channels)
    BY <1>1, <2>1 DEF RequestFits, Requests, Steps, Copying, Providing
  <2> QED
    BY <1>3, <2>2, QuietContinue DEF ReloadClass
<1> QED
  BY <1>2, <1>3 DEF ReloadClass

\* Reading the students changes nothing but the request.
LEMMA ReadStudentsKeeps ==
    ASSUME ChatInv, NEW w \in Workers, ReadStudents(w)
    PROVE  ChatInv'
<1>1. RequestFits(req[w], channels) /\ req[w].pc = "students"
  BY DEF ChatInv, ReadStudents
<1>2. StudentsOf(req[w].class) \subseteq Students
  BY DEF StudentsOf, ChatInv
<1>3. PICK q : RequestFits(q, channels) /\ Continue(w, q)
  <2>1. RequestFits([req[w] EXCEPT !.pc = "ensure",
                                   !.students = StudentsOf(req[w].class)], channels)
    BY <1>1, <1>2 DEF RequestFits, Requests, RowFits, Bears, Steps, Copying, Providing
  <2>2. RequestFits([Failed(w) EXCEPT !.pc = "ensure"], channels)
    BY <1>1 DEF Failed, RequestFits, Requests, RowFits, Bears, Steps, Copying, Providing
  <2> QED
    BY <2>1, <2>2 DEF ReadStudents
<1> QED
  BY <1>3, QuietContinue DEF ReadStudents

-----------------------------------------------------------------------------
(***************************************************************************)
(* The channel                                                             *)
(***************************************************************************)

\* A request that finds its channel, or not, still has a copy that fits.
LEMMA ResolveChannelKeeps ==
    ASSUME ChatInv, NEW w \in Workers, ResolveChannel(w)
    PROVE  ChatInv'
<1> DEFINE r == req[w]
           found == [r EXCEPT !.ch = r.obj.link]
           missing == [r EXCEPT !.pc = "provide"]
           unread == [Failed(w) EXCEPT !.pc = "provide"]
<1>1. RequestFits(r, channels) /\ r.pc = "ensure" /\ r.obj.link \in Nat
  BY DEF ChatInv, ResolveChannel, RequestFits, Copying, ClassRow
<1>2. CASE Go(w, found)
  <2>1. RequestFits(found, channels) /\ found.pc \in Copying
    BY <1>1 DEF RequestFits, Requests, RowFits, Bears, Steps, Copying, Providing
  <2> QED
    BY <1>2, <2>1, QuietGo DEF ResolveChannel
<1>3. CASE Continue(w, missing)
  <2>1. RequestFits(missing, channels)
    BY <1>1 DEF RequestFits, Requests, RowFits, Bears, Steps, Copying, Providing
  <2> QED
    BY <1>3, <2>1, QuietContinue DEF ResolveChannel
<1>4. CASE Continue(w, unread)
  <2>1. RequestFits(unread, channels)
    BY <1>1 DEF Failed, RequestFits, Requests, RowFits, Bears, Steps, Copying, Providing
  <2> QED
    BY <1>4, <2>1, QuietContinue DEF ResolveChannel
<1> QED
  BY <1>2, <1>3, <1>4 DEF ResolveChannel

\* The new channel bears the name of the copy's code (CreateChannel).
LEMMA ProvideChannelKeeps ==
    ASSUME ChatInv, NEW w \in Workers, ProvideChannel(w)
    PROVE  ChatInv'
<1> DEFINE r == req[w]
           name == nameOf[r.obj.code]
           new == [name |-> name, state |-> "live", members |-> {}, lent |-> FALSE]
<1>1. RequestFits(r, channels) /\ r \in Requests /\ r.pc = "provide" /\ r.obj \in ClassRow
  BY DEF ChatInv, ProvideChannel, RequestFits, Copying
<1>2. CASE channels' = Append(channels, new)
           /\ Continue(w, [r EXCEPT !.pc = "seed", !.ch = Len(channels')])
  <2>1. new \in ChannelRows /\ channels \in Seq(ChannelRows)
    BY <1>1 DEF ChannelRows, Names, ClassRow, ChatInv
  <2>2. /\ channels' \in Seq(ChannelRows)
        /\ Len(channels') = Len(channels) + 1 /\ Len(channels) \in Nat
        /\ DOMAIN channels' = 1 .. Len(channels) + 1
        /\ DOMAIN channels = 1 .. Len(channels)
        /\ channels'[Len(channels) + 1] = new
        /\ \A ch \in 1 .. Len(channels) : channels'[ch] = channels[ch]
    <3> HIDE DEF new
    <3> QED BY <1>2, <2>1
  <2>3. NamesKept(channels, channels')
    BY <2>2 DEF NamesKept
  <2>4. Bears(Len(channels'), r.obj.code, channels') /\ Len(channels') \in Nat
    BY <2>2 DEF Bears
  <2>5. RequestFits(r, channels')
    BY <1>1, <2>3, FitsKept
  <2>6. RequestFits([r EXCEPT !.pc = "seed", !.ch = Len(channels')], channels')
    BY <2>4, <2>5, <1>1 DEF RequestFits, Requests, Steps, Copying
  <2>7. req' \in [Workers -> Requests] /\ \A v \in Workers : RequestFits(req'[v], channels')
    BY <1>2, <2>3, <2>6, ContinueFits
  <2>8. RowsFit' /\ CodesUnique'
    BY <2>3, RowsKept DEF ProvideChannel
  <2> QED
    BY <2>2, <2>7, <2>8 DEF ChatInv, ProvideChannel
<1>3. CASE /\ UNCHANGED channels
           /\ \/ Continue(w, [r EXCEPT !.pc = "lookup"])
              \/ Continue(w, [Failed(w) EXCEPT !.pc = "lookup"])
  <2>1. RequestFits([r EXCEPT !.pc = "lookup"], channels)
    BY <1>1 DEF RequestFits, Requests, RowFits, Bears, Steps, Copying, Providing
  <2>2. RequestFits([Failed(w) EXCEPT !.pc = "lookup"], channels)
    BY <1>1 DEF Failed, RequestFits, Requests, RowFits, Bears, Steps, Copying, Providing
  <2> QED
    BY <1>3, <2>1, <2>2, QuietContinue DEF ProvideChannel
<1>4. CASE UNCHANGED channels /\ Answer(w, req[w], "none")
  BY <1>1, <1>4, QuietAnswer DEF ProvideChannel
<1> QED
  BY <1>2, <1>3, <1>4 DEF ProvideChannel

\* The channel looked up bears the name of the copy's code
\* (GetChannelByName): the request may keep it.
LEMMA LookUpChannelKeeps ==
    ASSUME ChatInv, NEW w \in Workers, LookUpChannel(w)
    PROVE  ChatInv'
<1>1. RequestFits(req[w], channels) /\ req[w] \in Requests /\ req[w].pc = "lookup"
  BY DEF ChatInv, LookUpChannel, RequestFits
<1>2. CASE Answer(w, req[w], "none")
  BY <1>1, <1>2, QuietAnswer DEF LookUpChannel
<1>3. ASSUME NEW ch \in Bearing(nameOf[req[w].obj.code]),
             Continue(w, [req[w] EXCEPT !.pc = "seed", !.ch = ch])
      PROVE  ChatInv'
  <2>1. Bears(ch, req[w].obj.code, channels) /\ ch \in Nat
    BY DEF Bearing, Bears, ChatInv
  <2>2. RequestFits([req[w] EXCEPT !.pc = "seed", !.ch = ch], channels)
    BY <1>1, <2>1 DEF RequestFits, Requests, Steps, Copying, Providing
  <2> QED
    BY <1>3, <2>2, QuietContinue DEF LookUpChannel
<1> QED
  BY <1>2, <1>3 DEF LookUpChannel

\* Setting the members of a channel keeps all names.
LEMMA MembersSet ==
    ASSUME ChatInv, NEW ch, NEW people \in SUBSET People, SetMembers(ch, people)
    PROVE  channels' \in Seq(ChannelRows) /\ NamesKept(channels, channels')
<1>1. CASE Live(ch)
  <2> DEFINE new == [channels[ch] EXCEPT !.members = people]
  <2>1. ch \in DOMAIN channels /\ channels[ch] \in ChannelRows
    BY <1>1 DEF Live, ChatInv
  <2>2. new \in ChannelRows /\ new.name = channels[ch].name /\ new.lent = channels[ch].lent
    BY <2>1 DEF ChannelRows
  <2>3. channels' = [channels EXCEPT ![ch] = new]
    BY <1>1 DEF SetMembers
  <2> HIDE DEF new
  <2> QED
    BY <2>1, <2>2, <2>3, ChannelChanged
<1>2. CASE ~Live(ch)
  BY <1>2 DEF SetMembers, ChatInv, NamesKept
<1> QED
  BY <1>1, <1>2

\* Members of channels are people.
LEMMA MembersArePeople ==
    ASSUME ChatInv, NEW ch
    PROVE  Members(ch) \subseteq People
<1>1. CASE Live(ch)
  <2>1. channels[ch] \in ChannelRows
    BY <1>1 DEF ChatInv, Live
  <2>2. channels[ch].members \in SUBSET People
    BY <2>1 DEF ChannelRows
  <2> QED
    BY <1>1, <2>2 DEF Members
<1>2. CASE ~Live(ch)
  BY <1>2 DEF Members
<1> QED
  BY <1>1, <1>2

\* Adding members keeps names, and the request its channel.
LEMMA AddMembersKeeps ==
    ASSUME ChatInv, NEW w \in Workers, AddMembers(w)
    PROVE  ChatInv'
<1> DEFINE r == req[w]
<1>1. RequestFits(r, channels) /\ r \in Requests /\ r.pc \in {"seed", "sync"}
      /\ r.obj \in ClassRow
  BY DEF ChatInv, AddMembers, RequestFits, Copying
<1>2. PICK admins \in {TeamAdmins, {}} :
        \E added \in SUBSET (Wanted(r, admins) \cap TeamMembers) :
          LET exact == admins = TeamAdmins /\ added = Wanted(r, admins) \cap TeamMembers
          IN  /\ SetMembers(r.ch, Members(r.ch) \cup added)
              /\ Continue(w, [r EXCEPT !.want = Wanted(r, admins), !.sound = @ /\ exact,
                                       !.pc = Cleanup(@)])
  BY DEF AddMembers
<1>3. Wanted(r, admins) \subseteq People
  BY <1>1 DEF Wanted, TeamAdmins, People, ClassRow, Requests
<1>4. PICK added \in SUBSET (Wanted(r, admins) \cap TeamMembers), exact \in BOOLEAN :
        /\ SetMembers(r.ch, Members(r.ch) \cup added)
        /\ Continue(w, [r EXCEPT !.want = Wanted(r, admins), !.sound = @ /\ exact,
                                 !.pc = Cleanup(@)])
  BY <1>2
<1>5. channels' \in Seq(ChannelRows) /\ NamesKept(channels, channels')
  <2>1. Members(r.ch) \cup added \in SUBSET People
    BY <1>3, MembersArePeople
  <2> QED
    BY <1>4, <2>1, MembersSet
<1>6. RequestFits([r EXCEPT !.want = Wanted(r, admins), !.sound = @ /\ exact,
                            !.pc = Cleanup(@)], channels)
  <2> DEFINE q == [r EXCEPT !.want = Wanted(r, admins), !.sound = @ /\ exact,
                            !.pc = Cleanup(@)]
  <2> SUFFICES RequestFits(q, channels)
    OBVIOUS
  <2>1. /\ r.pc = "seed" => Cleanup(r.pc) = "seeded"
        /\ r.pc = "sync" => Cleanup(r.pc) = "synced"
    BY DEF Cleanup
  <2>2. (r.sound /\ exact) \in BOOLEAN
    OBVIOUS
  <2>3. q \in Requests /\ q.pc = Cleanup(r.pc) /\ q.obj = r.obj /\ q.ch = r.ch
    BY <1>1, <1>3, <2>1, <2>2 DEF Requests, Steps, Copying
  <2> HIDE DEF q
  <2> QED
    BY <1>1, <2>1, <2>3 DEF RequestFits, Providing
<1>7. req' \in [Workers -> Requests] /\ \A v \in Workers : RequestFits(req'[v], channels')
  BY <1>4, <1>5, <1>6, FitsKept, ContinueFits
<1> QED
  BY <1>5, <1>7, ChannelStep DEF AddMembers

\* So does removing them.
LEMMA RemoveOthersKeeps ==
    ASSUME ChatInv, NEW w \in Workers, RemoveOthers(w)
    PROVE  ChatInv'
<1>1. RequestFits(req[w], channels) /\ req[w].pc \in {"seeded", "synced"}
      /\ req[w] \in Requests
  BY DEF ChatInv, RemoveOthers, RequestFits
<1>2. PICK gone \in SUBSET (Members(req[w].ch) \ req[w].want) :
        LET r == [req[w] EXCEPT !.sound = @ /\ gone = Members(req[w].ch) \ req[w].want,
                                !.want = {}]
        IN  /\ SetMembers(r.ch, Members(r.ch) \ gone)
            /\ IF r.pc = "seeded" THEN Continue(w, [r EXCEPT !.pc = "persist"])
                                  ELSE Answer(w, r, "synced")
  BY DEF RemoveOthers
<1> DEFINE exact == gone = Members(req[w].ch) \ req[w].want
           r == [req[w] EXCEPT !.sound = @ /\ exact, !.want = {}]
<1>3. channels' \in Seq(ChannelRows) /\ NamesKept(channels, channels')
  BY <1>2, MembersSet, MembersArePeople
<1>4. r \in Requests /\ r.obj = req[w].obj /\ r.ch = req[w].ch /\ r.pc = req[w].pc
  <2>1. (req[w].sound /\ exact) \in BOOLEAN
    OBVIOUS
  <2> QED
    BY <1>1, <2>1 DEF Requests
<1>5. req' \in [Workers -> Requests] /\ \A v \in Workers : RequestFits(req'[v], channels')
  <2>1. CASE r.pc = "seeded"
    <3> DEFINE q == [r EXCEPT !.pc = "persist"]
    <3>1. Continue(w, q)
      BY <1>2, <2>1
    <3> HIDE DEF r
    <3>2. q \in Requests /\ q.obj = r.obj /\ q.ch = r.ch /\ q.pc = "persist"
      BY <1>4 DEF Requests, Steps, Copying
    <3> HIDE DEF q
    <3>3. RequestFits(q, channels)
      BY <1>1, <1>4, <2>1, <3>2 DEF RequestFits, Providing, Copying
    <3> QED
      BY <1>3, <3>1, <3>3, FitsKept, ContinueFits
  <2>2. CASE r.pc # "seeded"
    BY <1>2, <1>3, <1>4, <2>2, AnswerFits
  <2> QED
    BY <2>1, <2>2
<1> QED
  BY <1>3, <1>5, ChannelStep DEF RemoveOthers

\* The link that is stored leads to a channel with the name of the code it is
\* stored with, though the rest of the copy may be stale.
LEMMA PersistLinkKeeps ==
    ASSUME ChatInv, NEW w \in Workers, PersistLink(w)
    PROVE  ChatInv'
<1> DEFINE linked == [req[w].obj EXCEPT !.link = req[w].ch]
           q == [req[w] EXCEPT !.obj = linked]
<1>1. RequestFits(req[w], channels) /\ req[w] \in Requests /\ req[w].pc = "persist"
      /\ req[w].obj \in ClassRow /\ Bears(req[w].ch, req[w].obj.code, channels)
  BY DEF ChatInv, PersistLink, RequestFits, Copying, Providing
<1>2. linked \in ClassRow /\ RowFits(linked, channels) /\ linked.code = req[w].obj.code
  BY <1>1 DEF ClassRow, Requests, RowFits, Bears
<1>3. WriteBack(w, linked, q)
  BY DEF PersistLink
<1>4. RequestFits(q, channels) /\ q.pc \in Copying
  <2> HIDE DEF linked
  <2> QED
    BY <1>1, <1>2 DEF RequestFits, Requests, Copying
<1> HIDE DEF linked, q
<1> QED
  BY <1>2, <1>3, <1>4, WriteBackFits DEF PersistLink

\* Looking for the channel to close changes nothing but the request.
LEMMA FindChannelKeeps ==
    ASSUME ChatInv, NEW w \in Workers, FindChannel(w)
    PROVE  ChatInv'
<1>1. RequestFits(req[w], channels) /\ req[w] \in Requests /\ req[w].obj \in ClassRow
  BY DEF ChatInv, FindChannel, RequestFits, Copying
<1> DEFINE r == [req[w] EXCEPT !.ch = req[w].obj.link]
<1>2. r \in Requests /\ r.obj = req[w].obj
  BY <1>1 DEF Requests, ClassRow
<1>3. \/ \E pc \in {"erase", "clear"} : Continue(w, [r EXCEPT !.pc = pc])
      \/ Continue(w, [r EXCEPT !.pc = "clear", !.sound = FALSE])
  BY DEF FindChannel
<1> HIDE DEF r
<1>4. ASSUME NEW pc \in {"erase", "clear"}
      PROVE  RequestFits([r EXCEPT !.pc = pc], channels)
             /\ RequestFits([r EXCEPT !.pc = pc, !.sound = FALSE], channels)
  BY <1>1, <1>2, <1>4 DEF RequestFits, Requests, Steps, Copying, Providing
<1> QED
  BY <1>3, <1>4, QuietContinue DEF FindChannel

\* An erased channel is remembered with its name.
LEMMA EraseChannelKeeps ==
    ASSUME ChatInv, NEW w \in Workers, EraseChannel(w)
    PROVE  ChatInv'
<1>1. RequestFits(req[w], channels) /\ req[w] \in Requests /\ req[w].pc = "erase"
  BY DEF ChatInv, EraseChannel, RequestFits
<1>2. CASE UNCHANGED channels /\ Go(w, Failed(w))
  <2>1. RequestFits(Failed(w), channels) /\ Failed(w).pc \in Copying
    BY <1>1 DEF Failed, RequestFits, Requests, RowFits, Bears, Copying
  <2> QED
    BY <1>2, <2>1, QuietGo DEF EraseChannel
<1>3. CASE /\ channels' = [channels EXCEPT ![req[w].ch].state = "gone",
                                           ![req[w].ch].members = {}]
           /\ Continue(w, [req[w] EXCEPT !.pc = "clear"])
  <2>1. channels' \in Seq(ChannelRows) /\ NamesKept(channels, channels')
    <3>1. CASE req[w].ch \in DOMAIN channels
      <4> DEFINE new == [channels[req[w].ch] EXCEPT !.state = "gone", !.members = {}]
      <4>1. channels[req[w].ch] \in ChannelRows
        BY <3>1 DEF ChatInv
      <4>2. /\ new \in ChannelRows /\ new.name = channels[req[w].ch].name
            /\ new.lent = channels[req[w].ch].lent
        BY <4>1 DEF ChannelRows
      <4>3. channels' = [channels EXCEPT ![req[w].ch] = new]
        BY <1>3, <3>1 DEF ChatInv
      <4> HIDE DEF new
      <4> QED
        BY <3>1, <4>2, <4>3, ChannelChanged
    <3>2. CASE req[w].ch \notin DOMAIN channels
      <4>1. channels' = channels
        BY <1>3, <3>2 DEF ChatInv
      <4> QED
        BY <4>1 DEF ChatInv, NamesKept
    <3> QED
      BY <3>1, <3>2
  <2>2. RequestFits([req[w] EXCEPT !.pc = "clear"], channels)
    BY <1>1 DEF RequestFits, Requests, RowFits, Bears, Steps, Copying, Providing
  <2>3. req' \in [Workers -> Requests] /\ \A v \in Workers : RequestFits(req'[v], channels')
    BY <1>3, <2>1, <2>2, FitsKept, ContinueFits
  <2> QED
    BY <2>1, <2>3, ChannelStep DEF EraseChannel
<1> QED
  BY <1>2, <1>3 DEF EraseChannel

\* A copy without a link fits.
LEMMA ClearLinkKeeps ==
    ASSUME ChatInv, NEW w \in Workers, ClearLink(w)
    PROVE  ChatInv'
<1> DEFINE cleared == [req[w].obj EXCEPT !.link = NoLink]
           q == [req[w] EXCEPT !.obj = cleared]
<1>1. RequestFits(req[w], channels) /\ req[w] \in Requests /\ req[w].pc = "clear"
      /\ req[w].obj \in ClassRow
  BY DEF ChatInv, ClearLink, RequestFits, Copying
<1>2. cleared \in ClassRow /\ RowFits(cleared, channels)
  BY <1>1 DEF ClassRow, RowFits, NoLink
<1>3. WriteBack(w, cleared, q)
  BY DEF ClearLink
<1>4. RequestFits(q, channels) /\ q.pc \in Copying
  <2> HIDE DEF cleared
  <2> QED
    BY <1>1, <1>2 DEF RequestFits, Requests, Copying, Providing
<1> HIDE DEF cleared, q
<1> QED
  BY <1>2, <1>3, <1>4, WriteBackFits DEF ClearLink

\* An archived channel keeps its name.
LEMMA ArchiveChannelKeeps ==
    ASSUME ChatInv, NEW ch \in DOMAIN channels, ArchiveChannel(ch)
    PROVE  ChatInv'
<1> DEFINE new == [channels[ch] EXCEPT !.state = "archived"]
<1>1. channels[ch] \in ChannelRows
  BY DEF ChatInv
<1>2. new \in ChannelRows /\ new.name = channels[ch].name /\ new.lent = channels[ch].lent
  BY <1>1 DEF ChannelRows
<1>3. channels' = [channels EXCEPT ![ch] = new]
  BY DEF ArchiveChannel
<1> HIDE DEF new
<1>4. channels' \in Seq(ChannelRows) /\ NamesKept(channels, channels')
  BY <1>2, <1>3, ChannelChanged
<1>5. \A v \in Workers : RequestFits(Overlapped(v), channels)
  <2>1. ASSUME NEW v \in Workers
        PROVE  RequestFits([req[v] EXCEPT !.lone = FALSE], channels)
    BY <2>1 DEF ChatInv, RequestFits, Requests, RowFits, Bears
  <2> QED
    BY <2>1, IdleFits DEF Overlapped
<1>6. req' \in [Workers -> Requests] /\ \A v \in Workers : RequestFits(req'[v], channels')
  BY <1>4, <1>5, FitsKept DEF ArchiveChannel, RequestFits
<1> QED
  BY <1>4, <1>6, ChannelStep DEF ArchiveChannel

-----------------------------------------------------------------------------
(***************************************************************************)
(* The invariant and what it is for                                        *)
(***************************************************************************)

\* Without classes, channels and requests everything fits.
LEMMA InitFits == Init => ChatInv
<1> SUFFICES ASSUME Init PROVE ChatInv
  OBVIOUS
<1>1. Idle \in Requests
  BY IdleFits DEF RequestFits
<1>2. req \in [Workers -> Requests] /\ \A w \in Workers : RequestFits(req[w], channels)
  BY <1>1, IdleFits DEF Init
<1>3. RowsFit /\ CodesUnique
  BY DEF Init, RowsFit, CodesUnique
<1> QED
  BY <1>2, <1>3 DEF Init, ChatInv

\* No step of any request, and no archiving, breaks the invariant.
LEMMA StepKeeps ==
    ASSUME ChatInv, [Next]_vars
    PROVE  ChatInv'
<1>1. CASE UNCHANGED vars
  BY <1>1 DEF vars, ChatInv, RowsFit, CodesUnique
<1>2. ASSUME NEW ch \in DOMAIN channels, ArchiveChannel(ch)
      PROVE  ChatInv'
  BY <1>2, ArchiveChannelKeeps
<1>3. ASSUME NEW w \in Workers, NEW c \in Classes,
             \/ \E code \in Codes, t \in Teachers : CreateClass(w, c, code, t)
             \/ UpdateClass(w, c)
             \/ DeleteClass(w, c)
             \/ \E students \in SUBSET Students : EnrollStudents(w, c, students)
      PROVE  ChatInv'
  BY <1>3, CreateClassKeeps, UpdateClassKeeps, DeleteClassKeeps, EnrollStudentsKeeps
<1>4. ASSUME NEW w \in Workers,
             \/ \E e \in enrolled : UnenrollStudent(w, e)
             \/ WriteClass(w) \/ DropClass(w)
             \/ \E s \in Students : CheckEnrolment(w, s)
             \/ SaveEnrolment(w) \/ RemoveEnrolment(w)
             \/ ReloadClass(w) \/ ReadStudents(w)
      PROVE  ChatInv'
  BY <1>4, UnenrollStudentKeeps, WriteClassKeeps, DropClassKeeps, CheckEnrolmentKeeps,
     SaveEnrolmentKeeps, RemoveEnrolmentKeeps, ReloadClassKeeps, ReadStudentsKeeps
<1>5. ASSUME NEW w \in Workers,
             \/ ResolveChannel(w) \/ ProvideChannel(w) \/ LookUpChannel(w)
             \/ AddMembers(w) \/ RemoveOthers(w) \/ PersistLink(w)
             \/ FindChannel(w) \/ EraseChannel(w) \/ ClearLink(w)
      PROVE  ChatInv'
  BY <1>5, ResolveChannelKeeps, ProvideChannelKeeps, LookUpChannelKeeps, AddMembersKeeps,
     RemoveOthersKeeps, PersistLinkKeeps, FindChannelKeeps, EraseChannelKeeps,
     ClearLinkKeeps
<1> QED
  BY <1>1, <1>2, <1>3, <1>4, <1>5 DEF Next

\* Two classes are linked to the same channel only if their codes have the
\* same channel name or a client has sent the link with another code, however
\* requests to create, update, finish, delete and enrol interleave and
\* whichever calls fail (EnsureClassChannel, chat.go:154).
THEOREM SharedBySameNameTheorem == Spec => []SharedBySameNameOnly
<1>1. Init => ChatInv
  BY InitFits
<1>2. ChatInv /\ [Next]_vars => ChatInv'
  BY StepKeeps
<1>3. ChatInv => SharedBySameNameOnly
  BY DEF ChatInv, RowsFit, RowFits, Bears, SharedBySameNameOnly
<1> QED
  BY <1>1, <1>2, <1>3, PTL DEF Spec

-----------------------------------------------------------------------------
(***************************************************************************)
(* Requests that nothing disturbs.  What a request has read is still so    *)
(* when it writes, because it is alone and no call of it has failed; its   *)
(* answer stands until the next request begins.                            *)
(***************************************************************************)

\* The students of class c in the enrolments enr; a live channel of chs; the
\* request's copy of the class is the row in cls.
EnrolledIn(enr, c) == {r.student : r \in {e \in enr : e.class = c}}
LiveIn(chs, ch) == ch \in DOMAIN chs /\ chs[ch].state = "live"
Fresh(r, cls) == r.class \in DOMAIN cls /\ cls[r.class] = r.obj

\* Of channel ch, if class c had one: a class that is linked to it is another
\* with the same channel name; and the channel is gone.
Unlinked(c, ch, cls, chs) ==
    ch # NoLink =>
        \A d \in DOMAIN cls : cls[d].link = ch => d # c /\ Bears(ch, cls[d].code, chs)
Released(c, ch, cls, chs) ==
    ch # NoLink =>
        /\ chs[ch].state = "gone"
        /\ \A d \in DOMAIN cls : cls[d].link = ch => d # c /\ Bears(ch, cls[d].code, chs)

\* Class c is linked to a channel with the members it should have.
Settled(c, cls, enr, chs) ==
    /\ c \in DOMAIN cls
    /\ LiveIn(chs, cls[c].link)
    /\ chs[cls[c].link].members =
          ({cls[c].teacher} \cup TeamAdmins \cup EnrolledIn(enr, c)) \cap TeamMembers

\* The steps of an enrolment, of providing a channel and synchronising its
\* members, and of closing one.
Enrolling == {"check", "save", "remove", "reload"}
Linking == {"students", "ensure", "provide", "lookup", "seed", "seeded", "persist",
            "sync", "synced"}
Provided == {"seed", "seeded", "persist", "sync", "synced"}
Closing == {"close", "erase", "clear"}

\* What an undisturbed request knows at each step of providing and
\* synchronising.
Syncing(r, cls, enr, chs) ==
    /\ r.pc \in Enrolling => r.then = "sync"
    /\ r.pc \in Linking =>
          /\ Fresh(r, cls)
          /\ r.then \in {"sync", "none"}
          /\ r.pc # "students" /\ r.then = "sync" => r.students = EnrolledIn(enr, r.class)
    /\ r.pc \in Provided => LiveIn(chs, r.ch)
    /\ r.pc \in {"sync", "synced"} => r.then = "sync" /\ r.obj.link = r.ch
    /\ r.pc = "synced" =>
          /\ r.want = {r.obj.teacher} \cup TeamAdmins \cup r.students
          /\ r.want \cap TeamMembers \subseteq chs[r.ch].members

\* And of closing.
Releasing(r, cls, chs) ==
    /\ r.pc \in Closing =>
          /\ Fresh(r, cls)
          /\ r.obj.link # NoLink
          /\ r.then \in {"closed", "drop"}
          /\ r.pc # "close" => r.ch = r.obj.link
          /\ r.pc = "clear" => chs[r.ch].state = "gone"
    /\ r.pc = "drop" => Released(r.class, r.ch, cls, chs)

InStep(r, cls, enr, chs) == Syncing(r, cls, enr, chs) /\ Releasing(r, cls, chs)

\* What it knows when providing or closing is done.
PartDone(r, cls, enr, chs) ==
    /\ r.then = "sync" =>
          /\ Fresh(r, cls)
          /\ r.students = EnrolledIn(enr, r.class)
          /\ LiveIn(chs, r.ch)
          /\ r.obj.link = r.ch
    /\ r.then \in {"closed", "drop"} => Released(r.class, r.ch, cls, chs)

\* What an answer that is kept claims.
Stands(r, cls, enr, chs) ==
    /\ r.result = "synced" => Settled(r.class, cls, enr, chs)
    /\ r.result = "closed" => Released(r.class, r.ch, cls, chs)
    /\ r.result = "finished" => Unlinked(r.class, r.ch, cls, chs)

TeamOnly(chs) == \A ch \in DOMAIN chs : chs[ch].members \subseteq TeamMembers

\* The inductive invariant, beside ChatInv.
AloneInv ==
    /\ TeamOnly(channels)
    /\ \A w \in Workers :
          /\ req[w].lone => \A v \in Workers \ {w} : req[v] = Idle
          /\ req[w].result # "none" => \A v \in Workers : req[v].pc = "idle"
          /\ req[w].lone /\ req[w].sound => InStep(req[w], classes, enrolled, channels)
          /\ Stands(req[w], classes, enrolled, channels)

\* A worker without a request claims nothing.
LEMMA IdleStands ==
    /\ Idle \in Requests /\ Idle.pc = "idle" /\ Idle.result = "none" /\ ~Idle.lone
    /\ \A cls, enr, chs : Stands(Idle, cls, enr, chs) /\ InStep(Idle, cls, enr, chs)
<1>1. Idle \in Requests
  BY IdleFits DEF RequestFits
<1>2. Idle.pc = "idle" /\ Idle.result = "none" /\ Idle.lone = FALSE
  BY DEF Idle
<1> QED
  BY <1>1, <1>2 DEF Stands, InStep, Syncing, Releasing, Enrolling, Linking, Provided, Closing

\* While a request is under way no other is alone, and no answer is kept.
LEMMA Undisturbed ==
    ASSUME AloneInv, NEW w \in Workers, req[w].pc # "idle"
    PROVE  /\ req[w].result = "none"
           /\ \A v \in Workers \ {w} : ~req[v].lone /\ req[v].result = "none"
BY IdleStands DEF AloneInv

\* A request goes on, knowing what it has to know.
LEMMA GoesOn ==
    ASSUME ChatInv, AloneInv, NEW w \in Workers, req[w].pc # "idle",
           TeamOnly(channels'), NEW q, Continue(w, q),
           q.lone => req[w].lone, q.result = "none",
           q.lone /\ q.sound => InStep(q, classes', enrolled', channels')
    PROVE  AloneInv'
<1>1. \A v \in Workers : req'[v] = IF v = w THEN q ELSE req[v]
  BY DEF Continue, ChatInv
<1>2. \A v \in Workers \ {w} : ~req[v].lone /\ req[v].result = "none"
  BY Undisturbed
<1>3. \A v \in Workers : req'[v].result = "none" /\ (req'[v].lone => v = w)
  BY <1>1, <1>2
<1>4. ASSUME NEW v \in Workers, req'[v].lone
      PROVE  /\ \A u \in Workers \ {v} : req'[u] = Idle
             /\ req'[v].sound => InStep(req'[v], classes', enrolled', channels')
  <2>1. v = w /\ req'[v] = q /\ req[w].lone
    BY <1>1, <1>3, <1>4
  <2> QED
    BY <1>1, <1>4, <2>1 DEF AloneInv
<1> QED
  BY <1>3, <1>4 DEF AloneInv, Stands

\* A request is answered.
LEMMA Answered ==
    ASSUME ChatInv, AloneInv, NEW w \in Workers, req[w].pc # "idle",
           TeamOnly(channels'), NEW r \in Requests,
           NEW result \in {"none", "synced", "closed", "finished"}, Answer(w, r, result),
           r.lone => req[w].lone,
           r.lone /\ r.sound =>
              /\ result = "synced" => Settled(r.class, classes', enrolled', channels')
              /\ result = "closed" => Released(r.class, r.ch, classes', channels')
              /\ result = "finished" => Unlinked(r.class, r.ch, classes', channels')
    PROVE  AloneInv'
<1> DEFINE k == [Idle EXCEPT !.result = result, !.class = r.class, !.ch = r.ch]
<1>1. \/ Continue(w, Idle)
      \/ r.lone /\ r.sound /\ Continue(w, k)
  BY DEF Answer
<1>2. CASE Continue(w, Idle)
  BY <1>2, GoesOn, IdleStands
<1>3. CASE r.lone /\ r.sound /\ Continue(w, k)
  <2>1. k.pc = "idle" /\ k.result = result /\ k.class = r.class /\ k.ch = r.ch /\ ~k.lone
    BY DEF Idle
  <2> HIDE DEF k
  <2>2. \A v \in Workers : req'[v] = IF v = w THEN k ELSE Idle
    BY <1>3 DEF Continue, ChatInv, AloneInv
  <2>3. Stands(k, classes', enrolled', channels')
    BY <1>3, <2>1 DEF Stands
  <2>4. \A v \in Workers : /\ ~req'[v].lone /\ req'[v].pc = "idle"
                           /\ Stands(req'[v], classes', enrolled', channels')
    BY <2>1, <2>2, <2>3, IdleStands
  <2> QED
    BY <2>4 DEF AloneInv
<1> QED
  BY <1>1, <1>2, <1>3

\* A request has finished providing or closing.
LEMMA GoneOn ==
    ASSUME ChatInv, AloneInv, NEW w \in Workers, req[w].pc # "idle",
           TeamOnly(channels'), NEW r \in Requests, Go(w, r),
           r.lone => req[w].lone, r.result = "none",
           r.lone /\ r.sound => PartDone(r, classes', enrolled', channels')
    PROVE  AloneInv'
<1>1. CASE r.then \in {"none", "closed"}
  <2>1. Answer(w, r, r.then)
    BY <1>1 DEF Go
  <2> QED
    BY <1>1, <2>1, Answered DEF PartDone
<1>2. CASE r.then \in {"sync", "drop"}
  <2> DEFINE q == [r EXCEPT !.pc = r.then]
  <2>1. Continue(w, q)
    BY <1>2 DEF Go
  <2>2. /\ q.pc = r.then /\ q.then = r.then /\ q.class = r.class /\ q.obj = r.obj /\ q.ch = r.ch
        /\ q.students = r.students /\ q.lone = r.lone /\ q.sound = r.sound /\ q.result = r.result
    BY DEF Requests
  <2> HIDE DEF q
  <2>3. ASSUME q.lone, q.sound PROVE InStep(q, classes', enrolled', channels')
    BY <1>2, <2>2, <2>3 DEF PartDone, InStep, Syncing, Releasing, Fresh, Enrolling, Linking,
                            Provided, Closing
  <2> QED
    BY <2>1, <2>2, <2>3, GoesOn
<1> QED
  BY <1>1, <1>2 DEF Requests

\* UpdateClass at the end of a hook: the request knows what it has to when
\* the row is written; otherwise a call has failed.
LEMMA WrittenBack ==
    ASSUME ChatInv, AloneInv, NEW w \in Workers, req[w].pc # "idle",
           NEW row, NEW r \in Requests, WriteBack(w, row, r),
           UNCHANGED <<enrolled, channels>>, r.lone => req[w].lone, r.result = "none",
           CanWrite(req[w].class, row) /\ classes' = [classes EXCEPT ![req[w].class] = row]
              /\ r.lone /\ r.sound => PartDone(r, classes', enrolled', channels')
    PROVE  AloneInv'
<1> DEFINE f == [r EXCEPT !.sound = FALSE]
<1>1. f \in Requests /\ f.lone = r.lone /\ ~f.sound /\ f.result = r.result
  BY DEF Requests
<1>2. TeamOnly(channels')
  BY DEF AloneInv
<1>3. CASE Go(w, f)
  <2> HIDE DEF f
  <2> QED
    BY <1>1, <1>2, <1>3, GoneOn
<1>4. CASE CanWrite(req[w].class, row) /\ classes' = [classes EXCEPT ![req[w].class] = row]
           /\ Go(w, r)
  BY <1>2, <1>4, GoneOn
<1> QED
  BY <1>3, <1>4 DEF WriteBack

\* What a request knows does not depend on whether it is alone.
LEMMA LoneInStep ==
    ASSUME NEW r \in Requests, NEW b \in BOOLEAN, NEW cls, NEW enr, NEW chs
    PROVE  LET q == [r EXCEPT !.lone = b]
           IN  /\ q.result = r.result /\ q.sound = r.sound /\ q.lone = b
               /\ InStep(r, cls, enr, chs) => InStep(q, cls, enr, chs)
<1> DEFINE q == [r EXCEPT !.lone = b]
<1>1. /\ q.pc = r.pc /\ q.then = r.then /\ q.class = r.class /\ q.obj = r.obj /\ q.ch = r.ch
      /\ q.students = r.students /\ q.want = r.want
      /\ q.result = r.result /\ q.sound = r.sound /\ q.lone = b
  BY DEF Requests
<1> SUFFICES /\ q.result = r.result /\ q.sound = r.sound /\ q.lone = b
             /\ InStep(r, cls, enr, chs) => InStep(q, cls, enr, chs)
  OBVIOUS
<1> HIDE DEF q
<1> QED
  BY <1>1 DEF InStep, Syncing, Releasing, Fresh

\* Whoever is not idle is disturbed; an answer that was kept is forgotten.
LEMMA OverlappedStands ==
    ASSUME ChatInv, AloneInv, NEW v \in Workers
    PROVE  /\ ~Overlapped(v).lone /\ Overlapped(v).result = "none"
           /\ req[v].pc = "idle" => Overlapped(v) = Idle
           /\ \A cls, enr, chs : Stands(Overlapped(v), cls, enr, chs)
<1>1. CASE req[v].pc = "idle"
  BY <1>1, IdleStands DEF Overlapped
<1>2. CASE req[v].pc # "idle"
  <2>1. req[v] \in Requests /\ req[v].result = "none"
    BY <1>2, Undisturbed DEF ChatInv
  <2>2. Overlapped(v) = [req[v] EXCEPT !.lone = FALSE]
    BY <1>2 DEF Overlapped
  <2>3. Overlapped(v).lone = FALSE /\ Overlapped(v).result = "none"
    BY <2>1, <2>2 DEF Requests
  <2> QED
    BY <1>2, <2>3 DEF Stands
<1> QED
  BY <1>1, <1>2

\* A request begins, alone or not.
LEMMA Begun ==
    ASSUME ChatInv, AloneInv, NEW w \in Workers, NEW r \in Requests, Begin(w, r),
           UNCHANGED channels \/ TeamOnly(channels'), r.result = "none",
           r.sound => InStep(r, classes', enrolled', channels')
    PROVE  AloneInv'
<1> DEFINE alone == \A u \in Workers \ {w} : req[u].pc = "idle"
           q == [r EXCEPT !.lone = alone]
<1>1. alone \in BOOLEAN
  OBVIOUS
<1>2. /\ req'[w] = q
      /\ \A v \in Workers \ {w} : req'[v] = Overlapped(v)
  BY DEF Begin
<1>3. alone => \A v \in Workers \ {w} : Overlapped(v) = Idle
  BY OverlappedStands
<1> HIDE DEF alone
<1>4. /\ q.result = "none" /\ q.sound = r.sound /\ q.lone = alone
      /\ r.sound => InStep(q, classes', enrolled', channels')
  BY <1>1, LoneInStep
<1> HIDE DEF q
<1>5. \A v \in Workers \ {w} : /\ ~req'[v].lone /\ req'[v].result = "none"
                               /\ Stands(req'[v], classes', enrolled', channels')
  BY <1>2, OverlappedStands
<1>6. Stands(req'[w], classes', enrolled', channels')
  BY <1>2, <1>4 DEF Stands
<1>7. req'[w].lone => \A v \in Workers \ {w} : req'[v] = Idle
  BY <1>2, <1>3, <1>4
<1>8. \A v \in Workers : req'[v].result = "none"
  BY <1>2, <1>4, <1>5
<1>9. TeamOnly(channels')
  BY DEF AloneInv
<1>10. req'[w].lone /\ req'[w].sound => InStep(req'[w], classes', enrolled', channels')
  BY <1>2, <1>4
<1> QED
  BY <1>5, <1>6, <1>7, <1>8, <1>9, <1>10 DEF AloneInv

\* A worker's request, and what it knows.
LEMMA Known ==
    ASSUME ChatInv, AloneInv, NEW w \in Workers
    PROVE  /\ req[w] \in Requests
           /\ req[w].lone /\ req[w].sound => InStep(req[w], classes, enrolled, channels)
           /\ req[w].pc # "idle" => req[w].result = "none"
           /\ TeamOnly(channels)
           /\ RequestFits(req[w], channels)
BY Undisturbed DEF ChatInv, AloneInv

\* createClass saves the copy it goes on with.
LEMMA CreateClassAlone ==
    ASSUME ChatInv, AloneInv, NEW w \in Workers, NEW c \in Classes, NEW code \in Codes,
           NEW t \in Teachers, CreateClass(w, c, code, t)
    PROVE  AloneInv'
<1> DEFINE row == [code |-> code, teacher |-> t, finished |-> FALSE, link |-> NoLink]
           r == [Idle EXCEPT !.pc = "ensure", !.class = c, !.obj = row]
<1>1. row \in ClassRow
  BY DEF ClassRow, NoLink
<1>2. /\ classes' = [d \in DOMAIN classes \cup {c} |-> IF d = c THEN row ELSE classes[d]]
      /\ Begin(w, r) /\ UNCHANGED channels
  BY DEF CreateClass
<1> HIDE DEF row
<1>3. /\ r \in Requests /\ r.pc = "ensure" /\ r.class = c /\ r.obj = row /\ r.then = "none"
      /\ r.result = "none"
  BY <1>1 DEF Idle, Requests, Steps, Copying, NoLink, People
<1> HIDE DEF r
<1>4. c \in DOMAIN classes' /\ classes'[c] = row
  BY <1>2
<1>5. InStep(r, classes', enrolled', channels')
  BY <1>3, <1>4 DEF InStep, Syncing, Releasing, Fresh, Enrolling, Linking, Provided, Closing
<1> QED
  BY <1>2, <1>3, <1>5, Begun

\* updateClass begins with a body and knows nothing of the row.
LEMMA UpdateClassAlone ==
    ASSUME ChatInv, AloneInv, NEW w \in Workers, NEW c \in Classes, UpdateClass(w, c)
    PROVE  AloneInv'
<1>0. PICK kind \in Bodies : \E body \in Body(kind, classes[c]) :
         LET r == [Idle EXCEPT !.pc = "write", !.class = c, !.obj = body,
                               !.ch = classes[c].link]
         IN  /\ \/ Begin(w, [r EXCEPT !.wasFinished = classes[c].finished])
                \/ MayFail /\ Begin(w, [r EXCEPT !.sound = FALSE])
             /\ channels' = Lent(body)
  BY DEF UpdateClass
<1>1. PICK body \in Body(kind, classes[c]) :
         LET r == [Idle EXCEPT !.pc = "write", !.class = c, !.obj = body,
                               !.ch = classes[c].link]
         IN  /\ \/ Begin(w, [r EXCEPT !.wasFinished = classes[c].finished])
                \/ MayFail /\ Begin(w, [r EXCEPT !.sound = FALSE])
             /\ channels' = Lent(body)
  BY <1>0
<1>2. /\ body \in ClassRow /\ TeamOnly(channels')
      /\ classes[c] \in ClassRow /\ classes[c].link \in Nat
  <2>1. /\ body \in ClassRow
        /\ \A ch \in DOMAIN channels' : /\ ch \in DOMAIN channels
                                       /\ channels'[ch].members = channels[ch].members
    BY <1>1, BodyFits DEF UpdateClass
  <2> QED
    BY <2>1 DEF UpdateClass, ChatInv, RowsFit, ClassRow, AloneInv, TeamOnly
<1> DEFINE r == [Idle EXCEPT !.pc = "write", !.class = c, !.obj = body,
                             !.ch = classes[c].link]
<1>3. r \in Requests /\ r.pc = "write" /\ r.result = "none"
  BY <1>2 DEF Idle, Requests, Steps, Copying, NoLink, People
<1>4. classes[c].finished \in BOOLEAN
  BY <1>2 DEF ClassRow
<1> DEFINE a == [r EXCEPT !.wasFinished = classes[c].finished]
           b == [r EXCEPT !.sound = FALSE]
<1>5. Begin(w, a) \/ Begin(w, b)
  BY <1>1
<1> HIDE DEF r
<1>6. a \in Requests /\ a.pc = "write" /\ a.result = "none"
  BY <1>3, <1>4 DEF Requests
<1>7. b \in Requests /\ b.pc = "write" /\ b.result = "none"
  BY <1>3 DEF Requests
<1> HIDE DEF a, b
<1>8. \A q : q.pc = "write" => InStep(q, classes', enrolled', channels')
  BY DEF InStep, Syncing, Releasing, Enrolling, Linking, Provided, Closing
<1> QED
  BY <1>2, <1>5, <1>6, <1>7, <1>8, Begun

\* deleteClass has the row it has read.
LEMMA DeleteClassAlone ==
    ASSUME ChatInv, AloneInv, NEW w \in Workers, NEW c \in Classes, DeleteClass(w, c)
    PROVE  AloneInv'
<1> DEFINE r == [Idle EXCEPT !.class = c, !.then = "drop"]
           a == [r EXCEPT !.obj = classes[c], !.ch = classes[c].link,
                          !.pc = IF ToClose(classes[c]) THEN "close" ELSE "drop"]
           b == [r EXCEPT !.pc = "drop", !.sound = FALSE]
<1>1. /\ c \in DOMAIN classes /\ UNCHANGED <<classes, enrolled, channels>>
      /\ Begin(w, a) \/ Begin(w, b)
  BY DEF DeleteClass
<1>2. classes[c] \in ClassRow /\ classes[c].link \in Nat
  BY <1>1 DEF ChatInv, RowsFit, ClassRow
<1>3. r \in Requests /\ r.class = c /\ r.then = "drop" /\ r.result = "none"
  BY DEF Idle, Requests, Steps, Copying, NoLink, People
<1> HIDE DEF r
<1>4. /\ a \in Requests /\ a.class = c /\ a.then = "drop" /\ a.result = "none"
      /\ a.obj = classes[c] /\ a.ch = classes[c].link
      /\ a.pc = IF classes[c].link # NoLink THEN "close" ELSE "drop"
  BY <1>2, <1>3 DEF Requests, Steps, Copying, ToClose
<1>5. b \in Requests /\ ~b.sound /\ b.result = "none"
  BY <1>3 DEF Requests, Steps
<1> HIDE DEF a, b
<1>6. InStep(a, classes, enrolled, channels)
  BY <1>1, <1>4 DEF InStep, Syncing, Releasing, Released, Fresh, Enrolling, Linking, Provided,
                    Closing
<1> QED
  BY <1>1, <1>4, <1>5, <1>6, Begun

\* An enrolment begins.
LEMMA EnrollStudentsAlone ==
    ASSUME ChatInv, AloneInv, NEW w \in Workers, NEW c \in Classes, NEW students \in SUBSET Students,
           EnrollStudents(w, c, students)
    PROVE  AloneInv'
<1> DEFINE r == [Idle EXCEPT !.pc = IF students = {} THEN "reload" ELSE "check",
                             !.class = c, !.todo = students, !.then = "sync"]
<1>1. Begin(w, r) /\ UNCHANGED channels
  BY DEF EnrollStudents
<1>2. r \in Requests /\ r.pc \in {"reload", "check"} /\ r.then = "sync" /\ r.result = "none"
  BY DEF Idle, Requests, Steps, Copying, NoLink, People
<1> HIDE DEF r
<1>3. InStep(r, classes', enrolled', channels')
  BY <1>2 DEF InStep, Syncing, Releasing, Enrolling, Linking, Provided, Closing
<1> QED
  BY <1>1, <1>2, <1>3, Begun

\* The removal of one begins.
LEMMA UnenrollStudentAlone ==
    ASSUME ChatInv, AloneInv, NEW w \in Workers, NEW e \in enrolled, UnenrollStudent(w, e)
    PROVE  AloneInv'
<1> DEFINE r == [Idle EXCEPT !.pc = "remove", !.class = e.class, !.row = e.id, !.then = "sync"]
<1>1. Begin(w, r) /\ UNCHANGED channels
  BY DEF UnenrollStudent
<1>2. e.class \in Classes /\ e.id \in Nat
  BY DEF ChatInv
<1>3. r \in Requests /\ r.pc = "remove" /\ r.then = "sync" /\ r.result = "none"
  BY <1>2 DEF Idle, Requests, Steps, Copying, NoLink, People
<1> HIDE DEF r
<1>4. InStep(r, classes', enrolled', channels')
  BY <1>3 DEF InStep, Syncing, Releasing, Enrolling, Linking, Provided, Closing
<1> QED
  BY <1>1, <1>3, <1>4, Begun

\* updateClass goes on with the row it has written.
LEMMA WriteClassAlone ==
    ASSUME ChatInv, AloneInv, NEW w \in Workers, WriteClass(w)
    PROVE  AloneInv'
<1> DEFINE r == req[w]
           Hooked(pc, then) == [r EXCEPT !.obj = r.obj, !.pc = pc, !.then = then]
<1>1. r.pc = "write" /\ UNCHANGED <<enrolled, channels>> /\ r \in Requests /\ r.result = "none"
      /\ TeamOnly(channels')
  BY Known DEF WriteClass
<1>2. \/ Answer(w, r, "none")
      \/ /\ CanWrite(r.class, r.obj)
         /\ classes' = [classes EXCEPT ![r.class] = r.obj]
         /\ r.obj.link = NoLink /\ Answer(w, r, "finished")
      \/ /\ CanWrite(r.class, r.obj)
         /\ classes' = [classes EXCEPT ![r.class] = r.obj]
         /\ \/ r.obj.link # NoLink /\ Continue(w, Hooked("close", "closed"))
            \/ Continue(w, Hooked("students", "sync"))
  BY DEF WriteClass, Stored
<1>3. CASE Answer(w, r, "none")
  BY <1>1, <1>3, Answered
<1>4. CASE /\ CanWrite(r.class, r.obj)
           /\ classes' = [classes EXCEPT ![r.class] = r.obj]
           /\ r.obj.link = NoLink /\ Answer(w, r, "finished")
  <2>1. \A d \in DOMAIN classes' :
           /\ d \in DOMAIN classes
           /\ classes'[d] = IF d = r.class THEN r.obj ELSE classes[d]
    BY <1>4 DEF ChatInv, RowsFit
  <2>2. \A d \in DOMAIN classes : RowFits(classes[d], channels)
    BY DEF ChatInv, RowsFit
  <2>3. Unlinked(r.class, r.ch, classes', channels')
    BY <1>1, <1>4, <2>1, <2>2 DEF Unlinked, RowFits
  <2> QED
    BY <1>1, <1>4, <2>3, Answered
<1>5. CASE /\ CanWrite(r.class, r.obj)
           /\ classes' = [classes EXCEPT ![r.class] = r.obj]
           /\ \/ r.obj.link # NoLink /\ Continue(w, Hooked("close", "closed"))
              \/ Continue(w, Hooked("students", "sync"))
  <2>1. r.class \in DOMAIN classes' /\ classes'[r.class] = r.obj
    BY <1>5 DEF CanWrite
  <2>2. ASSUME NEW pc, NEW then
        PROVE  /\ Hooked(pc, then).pc = pc /\ Hooked(pc, then).then = then
               /\ Hooked(pc, then).obj = r.obj /\ Hooked(pc, then).class = r.class
               /\ Hooked(pc, then).lone = r.lone /\ Hooked(pc, then).result = "none"
    BY <1>1 DEF Requests
  <2> HIDE DEF Hooked
  <2>3. CASE r.obj.link # NoLink /\ Continue(w, Hooked("close", "closed"))
    <3>1. InStep(Hooked("close", "closed"), classes', enrolled', channels')
      BY <2>1, <2>2, <2>3 DEF InStep, Syncing, Releasing, Fresh, Enrolling, Linking, Provided, Closing
    <3> QED
      BY <1>1, <2>2, <2>3, <3>1, GoesOn
  <2>4. CASE Continue(w, Hooked("students", "sync"))
    <3>1. InStep(Hooked("students", "sync"), classes', enrolled', channels')
      BY <2>1, <2>2 DEF InStep, Syncing, Releasing, Fresh, Enrolling, Linking, Provided, Closing
    <3> QED
      BY <1>1, <2>2, <2>4, <3>1, GoesOn
  <2> QED
    BY <1>5, <2>3, <2>4
<1> QED
  BY <1>2, <1>3, <1>4, <1>5

\* deleteClass ends: the row goes after its channel.
LEMMA DropClassAlone ==
    ASSUME ChatInv, AloneInv, NEW w \in Workers, DropClass(w)
    PROVE  AloneInv'
<1> DEFINE r == req[w]
<1>1. r.pc = "drop" /\ channels' = channels /\ r \in Requests /\ TeamOnly(channels')
  BY Known DEF DropClass
<1>2. CASE Answer(w, r, "none")
  BY <1>1, <1>2, Answered
<1>3. CASE /\ classes' = [d \in DOMAIN classes \ {r.class} |-> classes[d]]
           /\ Answer(w, r, "closed")
  <2>1. r.lone /\ r.sound => Released(r.class, r.ch, classes, channels)
    BY <1>1, Known DEF InStep, Releasing
  <2>2. \A d \in DOMAIN classes' : d \in DOMAIN classes /\ classes'[d] = classes[d]
    BY <1>3
  <2>3. r.lone /\ r.sound => Released(r.class, r.ch, classes', channels')
    BY <1>1, <2>1, <2>2 DEF Released
  <2> QED
    BY <1>1, <1>3, <2>3, Answered
<1> QED
  BY <1>2, <1>3 DEF DropClass

\* The next student of an enrolment.
LEMMA CheckEnrolmentAlone ==
    ASSUME ChatInv, AloneInv, NEW w \in Workers, NEW s \in Students, CheckEnrolment(w, s)
    PROVE  AloneInv'
<1> DEFINE r == req[w]
           Rest == r.todo \ {s}
           skipped == [r EXCEPT !.todo = Rest, !.pc = IF Rest = {} THEN "reload" ELSE "check"]
           chosen == [r EXCEPT !.pc = "save", !.students = {s}]
           unread == [Failed(w) EXCEPT !.pc = "save", !.students = {s}]
<1>1. /\ r.pc = "check" /\ r \in Requests /\ r.result = "none" /\ TeamOnly(channels')
      /\ Continue(w, skipped) \/ Continue(w, chosen) \/ Continue(w, unread)
  BY Known DEF CheckEnrolment
<1>2. r.lone /\ r.sound => r.then = "sync"
  BY <1>1, Known DEF InStep, Syncing, Enrolling
<1>3. /\ skipped.pc \in {"reload", "check"} /\ skipped.then = r.then /\ skipped.lone = r.lone
      /\ skipped.sound = r.sound /\ skipped.result = "none"
  BY <1>1 DEF Requests
<1>4. /\ chosen.pc = "save" /\ chosen.then = r.then /\ chosen.lone = r.lone
      /\ chosen.sound = r.sound /\ chosen.result = "none"
  BY <1>1 DEF Requests
<1>5. ~unread.sound /\ unread.lone = r.lone /\ unread.result = "none"
  BY <1>1 DEF Requests, Failed
<1>6. \A q : q.pc \in {"reload", "check", "save"} /\ q.then = "sync"
                => InStep(q, classes', enrolled', channels')
  BY DEF InStep, Syncing, Releasing, Enrolling, Linking, Provided, Closing
<1> HIDE DEF skipped, chosen, unread
<1>7. CASE Continue(w, skipped)
  BY <1>1, <1>2, <1>3, <1>6, <1>7, GoesOn
<1>8. CASE Continue(w, chosen)
  BY <1>1, <1>2, <1>4, <1>6, <1>8, GoesOn
<1>9. CASE Continue(w, unread)
  BY <1>1, <1>5, <1>9, GoesOn
<1> QED
  BY <1>1, <1>7, <1>8, <1>9

\* An enrolment is saved.
LEMMA SaveEnrolmentAlone ==
    ASSUME ChatInv, AloneInv, NEW w \in Workers, SaveEnrolment(w)
    PROVE  AloneInv'
<1> DEFINE r == req[w]
           Rest == r.todo \ r.students
           q == [r EXCEPT !.todo = Rest, !.students = {},
                          !.pc = IF Rest = {} THEN "reload" ELSE "check"]
<1>1. /\ r.pc = "save" /\ r \in Requests /\ r.result = "none" /\ TeamOnly(channels')
      /\ Continue(w, q) \/ Answer(w, r, "none")
  BY Known DEF SaveEnrolment
<1>2. r.lone /\ r.sound => r.then = "sync"
  BY <1>1, Known DEF InStep, Syncing, Enrolling
<1>3. /\ q.pc \in {"reload", "check"} /\ q.then = r.then /\ q.lone = r.lone
      /\ q.sound = r.sound /\ q.result = "none"
  BY <1>1 DEF Requests
<1> HIDE DEF q
<1>4. q.then = "sync" => InStep(q, classes', enrolled', channels')
  BY <1>3 DEF InStep, Syncing, Releasing, Enrolling, Linking, Provided, Closing
<1>5. CASE Continue(w, q)
  BY <1>1, <1>2, <1>3, <1>4, <1>5, GoesOn
<1>6. CASE Answer(w, r, "none")
  BY <1>1, <1>6, Answered
<1> QED
  BY <1>1, <1>5, <1>6

\* An enrolment is deleted.
LEMMA RemoveEnrolmentAlone ==
    ASSUME ChatInv, AloneInv, NEW w \in Workers, RemoveEnrolment(w)
    PROVE  AloneInv'
<1> DEFINE r == req[w]
           q == [r EXCEPT !.pc = "reload", !.row = 0]
<1>1. /\ r.pc = "remove" /\ r \in Requests /\ r.result = "none" /\ TeamOnly(channels')
      /\ Continue(w, q) \/ Answer(w, r, "none")
  BY Known DEF RemoveEnrolment
<1>2. r.lone /\ r.sound => r.then = "sync"
  BY <1>1, Known DEF InStep, Syncing, Enrolling
<1>3. /\ q.pc = "reload" /\ q.then = r.then /\ q.lone = r.lone
      /\ q.sound = r.sound /\ q.result = "none"
  BY <1>1 DEF Requests
<1> HIDE DEF q
<1>4. q.then = "sync" => InStep(q, classes', enrolled', channels')
  BY <1>3 DEF InStep, Syncing, Releasing, Enrolling, Linking, Provided, Closing
<1>5. CASE Continue(w, q)
  BY <1>1, <1>2, <1>3, <1>4, <1>5, GoesOn
<1>6. CASE Answer(w, r, "none")
  BY <1>1, <1>6, Answered
<1> QED
  BY <1>1, <1>5, <1>6

\* The class is read again.
LEMMA ReloadClassAlone ==
    ASSUME ChatInv, AloneInv, NEW w \in Workers, ReloadClass(w)
    PROVE  AloneInv'
<1> DEFINE r == req[w]
           q == [r EXCEPT !.pc = "students", !.obj = classes[r.class]]
<1>1. /\ r.pc = "reload" /\ r \in Requests /\ r.result = "none" /\ TeamOnly(channels')
      /\ \/ r.class \in DOMAIN classes /\ Continue(w, q)
         \/ Answer(w, r, "none")
      /\ UNCHANGED classes
  BY Known DEF ReloadClass
<1>2. r.lone /\ r.sound => r.then = "sync"
  BY <1>1, Known DEF InStep, Syncing, Enrolling
<1>3. /\ q.pc = "students" /\ q.then = r.then /\ q.lone = r.lone
      /\ q.sound = r.sound /\ q.result = "none"
      /\ q.class = r.class /\ q.obj = classes[r.class]
  BY <1>1 DEF Requests
<1> HIDE DEF q
<1>5. CASE r.class \in DOMAIN classes /\ Continue(w, q)
  <2>1. q.then = "sync" => InStep(q, classes', enrolled', channels')
    BY <1>1, <1>3, <1>5 DEF InStep, Syncing, Releasing, Fresh, Enrolling, Linking, Provided, Closing
  <2> QED
    BY <1>1, <1>2, <1>3, <1>5, <2>1, GoesOn
<1>6. CASE Answer(w, r, "none")
  BY <1>1, <1>6, Answered
<1> QED
  BY <1>1, <1>5, <1>6

\* Its students are read.
LEMMA ReadStudentsAlone ==
    ASSUME ChatInv, AloneInv, NEW w \in Workers, ReadStudents(w)
    PROVE  AloneInv'
<1> DEFINE r == req[w]
           q == [r EXCEPT !.pc = "ensure", !.students = StudentsOf(r.class)]
           f == [Failed(w) EXCEPT !.pc = "ensure"]
<1>1. /\ r.pc = "students" /\ r \in Requests /\ r.result = "none" /\ TeamOnly(channels')
      /\ Continue(w, q) \/ Continue(w, f)
      /\ UNCHANGED <<classes, enrolled>>
  BY Known DEF ReadStudents
<1>2. r.lone /\ r.sound => r.then \in {"sync", "none"} /\ Fresh(r, classes)
  BY <1>1, Known DEF InStep, Syncing, Linking
<1>3. /\ q.pc = "ensure" /\ q.then = r.then /\ q.lone = r.lone
      /\ q.sound = r.sound /\ q.result = "none"
      /\ q.class = r.class /\ q.obj = r.obj /\ q.students = StudentsOf(r.class)
  BY <1>1 DEF Requests
<1>4. ~f.sound /\ f.lone = r.lone /\ f.result = "none"
  BY <1>1 DEF Requests, Failed
<1>5. StudentsOf(r.class) = EnrolledIn(enrolled, r.class)
  BY DEF StudentsOf, EnrolledIn
<1> HIDE DEF q, f
<1>6. CASE Continue(w, q)
  <2>1. q.lone /\ q.sound => InStep(q, classes', enrolled', channels')
    BY <1>1, <1>2, <1>3, <1>5
    DEF InStep, Syncing, Releasing, Fresh, Enrolling, Linking, Provided, Closing
  <2> QED
    BY <1>1, <1>3, <1>6, <2>1, GoesOn
<1>7. CASE Continue(w, f)
  BY <1>1, <1>4, <1>7, GoesOn
<1> QED
  BY <1>1, <1>6, <1>7

\* EnsureClassChannel has found the channel of the row, or not.
LEMMA ResolveChannelAlone ==
    ASSUME ChatInv, AloneInv, NEW w \in Workers, ResolveChannel(w)
    PROVE  AloneInv'
<1> DEFINE r == req[w]
           a == [r EXCEPT !.ch = r.obj.link]
           b == [r EXCEPT !.pc = "provide"]
           f == [Failed(w) EXCEPT !.pc = "provide"]
<1>1. /\ r.pc = "ensure" /\ r \in Requests /\ r.result = "none" /\ TeamOnly(channels')
      /\ \/ Live(r.obj.link) /\ Go(w, a)
         \/ Continue(w, b)
         \/ Continue(w, f)
      /\ UNCHANGED <<classes, enrolled, channels>>
  BY Known DEF ResolveChannel
<1>2. r.lone /\ r.sound => /\ r.then \in {"sync", "none"} /\ Fresh(r, classes)
                           /\ r.then = "sync" => r.students = EnrolledIn(enrolled, r.class)
  BY <1>1, Known DEF InStep, Syncing, Linking
<1>3. r.obj.link \in Nat
  BY <1>1, Known DEF RequestFits, Copying, ClassRow
<1>4. /\ a \in Requests /\ a.then = r.then /\ a.lone = r.lone /\ a.sound = r.sound
      /\ a.result = "none" /\ a.class = r.class /\ a.obj = r.obj /\ a.students = r.students
      /\ a.ch = r.obj.link
  BY <1>1, <1>3 DEF Requests
<1>5. /\ b.pc = "provide" /\ b.then = r.then /\ b.lone = r.lone /\ b.sound = r.sound
      /\ b.result = "none" /\ b.class = r.class /\ b.obj = r.obj /\ b.students = r.students
  BY <1>1 DEF Requests
<1>6. ~f.sound /\ f.lone = r.lone /\ f.result = "none"
  BY <1>1 DEF Requests, Failed
<1> HIDE DEF a, b, f
<1>7. CASE Live(r.obj.link) /\ Go(w, a)
  <2>1. a.lone /\ a.sound => PartDone(a, classes', enrolled', channels')
    BY <1>1, <1>2, <1>4, <1>7 DEF PartDone, Fresh, LiveIn, Live
  <2> QED
    BY <1>1, <1>4, <1>7, <2>1, GoneOn
<1>8. CASE Continue(w, b)
  <2>1. b.lone /\ b.sound => InStep(b, classes', enrolled', channels')
    BY <1>1, <1>2, <1>5
    DEF InStep, Syncing, Releasing, Fresh, Enrolling, Linking, Provided, Closing
  <2> QED
    BY <1>1, <1>5, <1>8, <2>1, GoesOn
<1>9. CASE Continue(w, f)
  BY <1>1, <1>6, <1>9, GoesOn
<1> QED
  BY <1>1, <1>7, <1>8, <1>9

\* A request that knows its class comes to hold a live channel.
LEMMA Seeds ==
    ASSUME ChatInv, AloneInv, NEW w \in Workers, req[w].pc \in {"provide", "lookup"},
           TeamOnly(channels'), UNCHANGED <<classes, enrolled>>,
           NEW ch \in DOMAIN channels', channels'[ch].state = "live",
           Continue(w, [req[w] EXCEPT !.pc = "seed", !.ch = ch])
    PROVE  AloneInv'
<1> DEFINE r == req[w]
           q == [r EXCEPT !.pc = "seed", !.ch = ch]
<1>1. r \in Requests /\ r.result = "none"
  BY Known
<1>2. r.lone /\ r.sound => /\ r.then \in {"sync", "none"} /\ Fresh(r, classes)
                           /\ r.then = "sync" => r.students = EnrolledIn(enrolled, r.class)
  BY Known DEF InStep, Syncing, Linking
<1>3. /\ q.pc = "seed" /\ q.then = r.then /\ q.lone = r.lone /\ q.sound = r.sound
      /\ q.result = "none" /\ q.class = r.class /\ q.obj = r.obj /\ q.students = r.students
      /\ q.ch = ch
  BY <1>1 DEF Requests
<1>4. Continue(w, q)
  OBVIOUS
<1> HIDE DEF q
<1>5. q.lone /\ q.sound => InStep(q, classes', enrolled', channels')
  BY <1>2, <1>3 DEF InStep, Syncing, Releasing, Fresh, LiveIn, Enrolling, Linking, Provided, Closing
<1> QED
  BY <1>3, <1>4, <1>5, GoesOn

\* CreateChannel, or a look at the name.
LEMMA ProvideChannelAlone ==
    ASSUME ChatInv, AloneInv, NEW w \in Workers, ProvideChannel(w)
    PROVE  AloneInv'
<1> DEFINE r == req[w]
           new == [name |-> nameOf[r.obj.code], state |-> "live", members |-> {},
                   lent |-> FALSE]
           b == [r EXCEPT !.pc = "lookup"]
           f == [Failed(w) EXCEPT !.pc = "lookup"]
<1>1. /\ r.pc = "provide" /\ r \in Requests /\ r.result = "none" /\ TeamOnly(channels)
      /\ \/ /\ channels' = Append(channels, new)
            /\ Continue(w, [r EXCEPT !.pc = "seed", !.ch = Len(channels')])
         \/ /\ UNCHANGED channels
            /\ Continue(w, b) \/ Continue(w, f) \/ Answer(w, r, "none")
      /\ UNCHANGED <<classes, enrolled>>
  BY Known DEF ProvideChannel
<1>2. r.lone /\ r.sound => /\ r.then \in {"sync", "none"} /\ Fresh(r, classes)
                           /\ r.then = "sync" => r.students = EnrolledIn(enrolled, r.class)
  BY <1>1, Known DEF InStep, Syncing, Linking
<1>3. /\ b.pc = "lookup" /\ b.then = r.then /\ b.lone = r.lone /\ b.sound = r.sound
      /\ b.result = "none" /\ b.class = r.class /\ b.obj = r.obj /\ b.students = r.students
  BY <1>1 DEF Requests
<1>4. ~f.sound /\ f.lone = r.lone /\ f.result = "none"
  BY <1>1 DEF Requests, Failed
<1>5. CASE /\ channels' = Append(channels, new)
           /\ Continue(w, [r EXCEPT !.pc = "seed", !.ch = Len(channels')])
  <2>1. new.state = "live" /\ new.members = {}
    OBVIOUS
  <2> HIDE DEF new
  <2>2. channels \in Seq(ChannelRows) /\ Len(channels) \in Nat
    BY DEF ChatInv
  <2>3. /\ DOMAIN channels' = DOMAIN channels \cup {Len(channels) + 1}
        /\ Len(channels') = Len(channels) + 1
        /\ channels'[Len(channels) + 1] = new
        /\ \A ch \in DOMAIN channels : channels'[ch] = channels[ch]
    BY <1>5, <2>2
  <2>4. TeamOnly(channels')
    BY <1>1, <2>1, <2>3 DEF TeamOnly
  <2>5. Len(channels') \in DOMAIN channels' /\ channels'[Len(channels')].state = "live"
    BY <2>1, <2>3
  <2> QED
    BY <1>1, <1>5, <2>4, <2>5, Seeds
<1> HIDE DEF b, f
<1>6. CASE UNCHANGED channels /\ Continue(w, b)
  <2>1. b.lone /\ b.sound => InStep(b, classes', enrolled', channels')
    BY <1>1, <1>2, <1>3
    DEF InStep, Syncing, Releasing, Fresh, Enrolling, Linking, Provided, Closing
  <2> QED
    BY <1>1, <1>3, <1>6, <2>1, GoesOn
<1>7. CASE UNCHANGED channels /\ Continue(w, f)
  BY <1>1, <1>4, <1>7, GoesOn
<1>8. CASE UNCHANGED channels /\ Answer(w, r, "none")
  BY <1>1, <1>8, Answered
<1> QED
  BY <1>1, <1>5, <1>6, <1>7, <1>8

\* GetChannelByName finds a live channel or none.
LEMMA LookUpChannelAlone ==
    ASSUME ChatInv, AloneInv, NEW w \in Workers, LookUpChannel(w)
    PROVE  AloneInv'
<1>1. /\ req[w].pc = "lookup" /\ req[w] \in Requests /\ TeamOnly(channels')
      /\ UNCHANGED <<classes, enrolled, channels>>
  BY Known DEF LookUpChannel
<1>2. CASE Answer(w, req[w], "none")
  BY <1>1, <1>2, Answered
<1>3. ASSUME NEW ch, Live(ch), Continue(w, [req[w] EXCEPT !.pc = "seed", !.ch = ch])
      PROVE  AloneInv'
  BY <1>1, <1>3, Seeds DEF Live
<1> QED
  BY <1>2, <1>3 DEF LookUpChannel

\* The members of a live channel are set; the rest of it stays.
LEMMA MembersNow ==
    ASSUME ChatInv, TeamOnly(channels), NEW ch, NEW people \in SUBSET TeamMembers,
           SetMembers(ch, people)
    PROVE  /\ TeamOnly(channels')
           /\ LiveIn(channels, ch) => LiveIn(channels', ch) /\ channels'[ch].members = people
<1>1. CASE Live(ch)
  <2> DEFINE new == [channels[ch] EXCEPT !.members = people]
  <2>1. ch \in DOMAIN channels /\ channels[ch] \in ChannelRows /\ channels[ch].state = "live"
    BY <1>1 DEF Live, ChatInv
  <2>2. new.members = people /\ new.state = channels[ch].state
    BY <2>1 DEF ChannelRows
  <2>3. channels' = [channels EXCEPT ![ch] = new]
    BY <1>1 DEF SetMembers
  <2> HIDE DEF new
  <2>4. /\ DOMAIN channels' = DOMAIN channels
        /\ \A x \in DOMAIN channels : channels'[x] = IF x = ch THEN new ELSE channels[x]
    BY <2>1, <2>3 DEF ChatInv
  <2> QED
    BY <2>1, <2>2, <2>4 DEF TeamOnly, LiveIn
<1>2. CASE ~Live(ch)
  BY <1>2 DEF SetMembers, Live, LiveIn
<1> QED
  BY <1>1, <1>2

\* Members are members of the team.
LEMMA MembersInTeam ==
    ASSUME TeamOnly(channels), NEW ch
    PROVE  /\ Members(ch) \subseteq TeamMembers
           /\ LiveIn(channels, ch) => Members(ch) = channels[ch].members
BY DEF Members, TeamOnly, Live, LiveIn

\* The missing are added: all of them, unless a call fails.
LEMMA AddMembersAlone ==
    ASSUME ChatInv, AloneInv, NEW w \in Workers, AddMembers(w)
    PROVE  AloneInv'
<1> DEFINE r == req[w]
<1>1. /\ r.pc \in {"seed", "sync"} /\ r \in Requests /\ r.result = "none" /\ TeamOnly(channels)
      /\ UNCHANGED <<classes, enrolled>>
  BY Known DEF AddMembers
<1>2. PICK admins \in {TeamAdmins, {}} :
        \E added \in SUBSET (Wanted(r, admins) \cap TeamMembers) :
          LET exact == admins = TeamAdmins /\ added = Wanted(r, admins) \cap TeamMembers
          IN  /\ SetMembers(r.ch, Members(r.ch) \cup added)
              /\ Continue(w, [r EXCEPT !.want = Wanted(r, admins), !.sound = @ /\ exact,
                                       !.pc = Cleanup(@)])
  BY DEF AddMembers
<1> DEFINE want == Wanted(r, admins)
<1>3. PICK added \in SUBSET (want \cap TeamMembers), exact \in BOOLEAN :
        /\ exact <=> admins = TeamAdmins /\ added = want \cap TeamMembers
        /\ SetMembers(r.ch, Members(r.ch) \cup added)
        /\ Continue(w, [r EXCEPT !.want = want, !.sound = r.sound /\ exact,
                                 !.pc = Cleanup(r.pc)])
  BY <1>2
<1> DEFINE q == [r EXCEPT !.want = want, !.sound = r.sound /\ exact, !.pc = Cleanup(r.pc)]
<1>4. /\ r.pc = "seed" => Cleanup(r.pc) = "seeded"
      /\ r.pc = "sync" => Cleanup(r.pc) = "synced"
  BY DEF Cleanup
<1>5. /\ q.pc = Cleanup(r.pc) /\ q.then = r.then /\ q.lone = r.lone /\ q.sound = (r.sound /\ exact)
      /\ q.result = "none" /\ q.class = r.class /\ q.obj = r.obj /\ q.students = r.students
      /\ q.ch = r.ch /\ q.want = want
  BY <1>1 DEF Requests
<1>6. r.pc = "sync" /\ admins = TeamAdmins
         => want = {r.obj.teacher} \cup TeamAdmins \cup r.students
  BY DEF Wanted
<1>7. Continue(w, q)
  BY <1>3
<1> HIDE DEF q, want
<1>8. Members(r.ch) \cup added \in SUBSET TeamMembers
  BY <1>1, MembersInTeam
<1>9. /\ TeamOnly(channels')
      /\ LiveIn(channels, r.ch) => LiveIn(channels', r.ch)
                                   /\ channels'[r.ch].members = Members(r.ch) \cup added
  BY <1>1, <1>3, <1>8, MembersNow
<1>10. r.lone /\ r.sound =>
          /\ r.then \in {"sync", "none"} /\ Fresh(r, classes) /\ LiveIn(channels, r.ch)
          /\ r.then = "sync" => r.students = EnrolledIn(enrolled, r.class)
          /\ r.pc = "sync" => r.then = "sync" /\ r.obj.link = r.ch
  BY <1>1, Known DEF InStep, Syncing, Linking, Provided
<1>11. ASSUME q.lone, q.sound PROVE InStep(q, classes', enrolled', channels')
  <2>1. r.lone /\ r.sound /\ admins = TeamAdmins /\ added = want \cap TeamMembers
    BY <1>3, <1>5, <1>11
  <2>2. q.pc = "synced" => /\ q.want = {q.obj.teacher} \cup TeamAdmins \cup q.students
                           /\ q.want \cap TeamMembers \subseteq channels'[q.ch].members
    BY <1>1, <1>4, <1>5, <1>6, <1>9, <1>10, <2>1
  <2>3. q.pc \in {"seeded", "synced"} /\ (q.pc = "synced" => r.pc = "sync")
    BY <1>1, <1>4, <1>5
  <2>4. Fresh(q, classes') /\ LiveIn(channels', q.ch)
    BY <1>1, <1>5, <1>9, <1>10, <2>1 DEF Fresh
  <2>5. Syncing(q, classes', enrolled', channels')
    BY <1>1, <1>5, <1>10, <2>1, <2>2, <2>3, <2>4 DEF Syncing, Enrolling
  <2>6. Releasing(q, classes', channels')
    BY <2>3 DEF Releasing, Closing
  <2> QED
    BY <2>5, <2>6 DEF InStep
<1> QED
  BY <1>1, <1>5, <1>7, <1>9, <1>11, GoesOn

\* Everybody else is removed, unless a call fails; then the channel has the
\* members the class wants.
LEMMA RemoveOthersAlone ==
    ASSUME ChatInv, AloneInv, NEW w \in Workers, RemoveOthers(w)
    PROVE  AloneInv'
<1> DEFINE o == req[w]
           Others == Members(o.ch) \ o.want
<1>1. /\ o.pc \in {"seeded", "synced"} /\ o \in Requests /\ o.result = "none"
      /\ TeamOnly(channels) /\ UNCHANGED <<classes, enrolled>>
  BY Known DEF RemoveOthers
<1>2. PICK gone \in SUBSET Others :
        LET r == [o EXCEPT !.sound = @ /\ gone = Others, !.want = {}]
        IN  /\ SetMembers(r.ch, Members(r.ch) \ gone)
            /\ IF r.pc = "seeded" THEN Continue(w, [r EXCEPT !.pc = "persist"])
                                  ELSE Answer(w, r, "synced")
  BY DEF RemoveOthers
<1> DEFINE r == [o EXCEPT !.sound = o.sound /\ gone = Others, !.want = {}]
<1>3. /\ SetMembers(r.ch, Members(r.ch) \ gone)
      /\ r.pc = "seeded" => Continue(w, [r EXCEPT !.pc = "persist"])
      /\ r.pc # "seeded" => Answer(w, r, "synced")
  BY <1>2
<1>4. /\ r \in Requests /\ r.pc = o.pc /\ r.then = o.then /\ r.lone = o.lone
      /\ r.sound = (o.sound /\ gone = Others) /\ r.result = "none" /\ r.class = o.class
      /\ r.obj = o.obj /\ r.students = o.students /\ r.ch = o.ch
  <2>1. (o.sound /\ gone = Others) \in BOOLEAN
    OBVIOUS
  <2> QED
    BY <1>1, <2>1 DEF Requests
<1>5. o.lone /\ o.sound => Syncing(o, classes, enrolled, channels)
  BY Known DEF InStep
<1> HIDE DEF r
<1>6. /\ TeamOnly(channels')
      /\ LiveIn(channels, o.ch) => /\ LiveIn(channels', o.ch)
                                   /\ channels'[o.ch].members = Members(o.ch) \ gone
                                   /\ Members(o.ch) = channels[o.ch].members
                                   /\ Members(o.ch) \subseteq TeamMembers
  BY <1>1, <1>3, <1>4, MembersInTeam, MembersNow
<1>7. CASE o.pc = "seeded"
  <2> DEFINE q == [r EXCEPT !.pc = "persist"]
  <2>1. Continue(w, q)
    BY <1>3, <1>4, <1>7
  <2>2. /\ q.pc = "persist" /\ q.then = r.then /\ q.lone = r.lone /\ q.sound = r.sound
        /\ q.result = "none" /\ q.class = r.class /\ q.obj = r.obj /\ q.students = r.students
        /\ q.ch = r.ch
    BY <1>4 DEF Requests
  <2> HIDE DEF q
  <2>3. ASSUME q.lone, q.sound PROVE InStep(q, classes', enrolled', channels')
    <3>1. o.lone /\ o.sound
      BY <1>4, <2>2, <2>3
    <3>2. /\ Fresh(o, classes) /\ LiveIn(channels, o.ch) /\ o.then \in {"sync", "none"}
          /\ o.then = "sync" => o.students = EnrolledIn(enrolled, o.class)
      BY <1>5, <1>7, <3>1 DEF Syncing, Linking, Provided
    <3>3. Fresh(q, classes') /\ LiveIn(channels', q.ch)
      BY <1>1, <1>4, <1>6, <2>2, <3>2 DEF Fresh
    <3> QED
      BY <1>1, <1>4, <2>2, <3>2, <3>3 DEF InStep, Syncing, Releasing, Enrolling, Closing
  <2> QED
    BY <1>1, <1>4, <1>6, <2>1, <2>2, <2>3, GoesOn
<1>8. CASE o.pc = "synced"
  <2>1. Answer(w, r, "synced")
    BY <1>3, <1>4, <1>8
  <2>2. ASSUME r.lone, r.sound PROVE Settled(r.class, classes', enrolled', channels')
    <3>1. o.lone /\ o.sound /\ gone = Others
      BY <1>4, <2>2
    <3>2. /\ Fresh(o, classes) /\ LiveIn(channels, o.ch) /\ o.obj.link = o.ch
          /\ o.students = EnrolledIn(enrolled, o.class)
          /\ o.want = {o.obj.teacher} \cup TeamAdmins \cup o.students
          /\ o.want \cap TeamMembers \subseteq channels[o.ch].members
      BY <1>5, <1>8, <3>1 DEF Syncing, Linking, Provided
    <3>3. channels'[o.ch].members = o.want \cap TeamMembers
      BY <1>6, <3>1, <3>2
    <3> QED
      BY <1>1, <1>4, <1>6, <3>2, <3>3 DEF Settled, Fresh
  <2> QED
    BY <1>1, <1>4, <1>6, <2>1, <2>2, Answered
<1> QED
  BY <1>1, <1>7, <1>8

\* The link is written into the row, and the request's copy has it too.
LEMMA PersistLinkAlone ==
    ASSUME ChatInv, AloneInv, NEW w \in Workers, PersistLink(w)
    PROVE  AloneInv'
<1> DEFINE r == req[w]
           linked == [r.obj EXCEPT !.link = r.ch]
           q == [r EXCEPT !.obj = linked]
<1>1. /\ r.pc = "persist" /\ r \in Requests /\ r.result = "none" /\ r.obj \in ClassRow
      /\ WriteBack(w, linked, q) /\ UNCHANGED <<enrolled, channels>>
  BY Known DEF PersistLink, RequestFits, Copying
<1>2. linked \in ClassRow /\ linked.link = r.ch
  BY <1>1 DEF Requests, ClassRow
<1> HIDE DEF linked
<1>3. /\ q \in Requests /\ q.then = r.then /\ q.lone = r.lone /\ q.sound = r.sound
      /\ q.result = "none" /\ q.class = r.class /\ q.obj = linked /\ q.students = r.students
      /\ q.ch = r.ch
  BY <1>1, <1>2 DEF Requests
<1> HIDE DEF q
<1>4. ASSUME CanWrite(r.class, linked), classes' = [classes EXCEPT ![r.class] = linked],
             q.lone, q.sound
      PROVE  PartDone(q, classes', enrolled', channels')
  <2>1. /\ r.then \in {"sync", "none"} /\ LiveIn(channels, r.ch)
        /\ r.then = "sync" => r.students = EnrolledIn(enrolled, r.class)
    BY <1>1, <1>3, <1>4, Known DEF InStep, Syncing, Linking, Provided
  <2>2. r.class \in DOMAIN classes' /\ classes'[r.class] = linked
    BY <1>4 DEF CanWrite
  <2> QED
    BY <1>1, <1>2, <1>3, <2>1, <2>2 DEF PartDone, Fresh
<1> QED
  BY <1>1, <1>3, <1>4, WrittenBack

\* CloseClassChannel finds its channel there or gone.
LEMMA FindChannelAlone ==
    ASSUME ChatInv, AloneInv, NEW w \in Workers, FindChannel(w)
    PROVE  AloneInv'
<1> DEFINE o == req[w]
           r == [o EXCEPT !.ch = o.obj.link]
           a == [r EXCEPT !.pc = IF r.ch \in DOMAIN channels /\ channels[r.ch].state # "gone"
                                 THEN "erase" ELSE "clear"]
           f == [r EXCEPT !.pc = "clear", !.sound = FALSE]
<1>1. /\ o.pc = "close" /\ o \in Requests /\ o.result = "none" /\ o.obj \in ClassRow
      /\ RowFits(o.obj, channels) /\ TeamOnly(channels')
      /\ Continue(w, a) \/ Continue(w, f)
      /\ UNCHANGED <<classes, enrolled, channels>>
  BY Known DEF FindChannel, RequestFits, Copying
<1>2. /\ r \in Requests /\ r.then = o.then /\ r.lone = o.lone /\ r.sound = o.sound
      /\ r.result = "none" /\ r.class = o.class /\ r.obj = o.obj /\ r.ch = o.obj.link
  BY <1>1 DEF Requests, ClassRow
<1> HIDE DEF r
<1>3. /\ a.then = r.then /\ a.lone = r.lone /\ a.sound = r.sound
      /\ a.result = "none" /\ a.class = r.class /\ a.obj = r.obj /\ a.ch = r.ch
      /\ a.pc = IF r.ch \in DOMAIN channels /\ channels[r.ch].state # "gone"
                THEN "erase" ELSE "clear"
  BY <1>2 DEF Requests
<1>4. ~f.sound /\ f.lone = r.lone /\ f.result = "none"
  BY <1>2 DEF Requests
<1> HIDE DEF a, f
<1>5. CASE Continue(w, a)
  <2>1. ASSUME a.lone, a.sound PROVE InStep(a, classes', enrolled', channels')
    <3>1. Fresh(o, classes) /\ o.obj.link # NoLink /\ o.then \in {"closed", "drop"}
      BY <1>1, <1>2, <1>3, <2>1, Known DEF InStep, Releasing, Closing
    <3>2. o.obj.link \in DOMAIN channels
      BY <1>1, <3>1 DEF RowFits, Bears
    <3>3. a.pc \in {"erase", "clear"} /\ (a.pc = "clear" => channels[a.ch].state = "gone")
      BY <1>2, <1>3, <3>2
    <3>4. Fresh(a, classes')
      BY <1>1, <1>2, <1>3, <3>1 DEF Fresh
    <3> QED
      BY <1>1, <1>2, <1>3, <3>1, <3>3, <3>4
      DEF InStep, Syncing, Releasing, Enrolling, Linking, Provided, Closing
  <2> QED
    BY <1>1, <1>2, <1>3, <1>5, <2>1, GoesOn
<1>6. CASE Continue(w, f)
  BY <1>1, <1>2, <1>4, <1>6, GoesOn
<1> QED
  BY <1>1, <1>5, <1>6

\* PermanentDeleteChannel.
LEMMA EraseChannelAlone ==
    ASSUME ChatInv, AloneInv, NEW w \in Workers, EraseChannel(w)
    PROVE  AloneInv'
<1> DEFINE r == req[w]
           q == [r EXCEPT !.pc = "clear"]
<1>1. /\ r.pc = "erase" /\ r \in Requests /\ r.result = "none" /\ TeamOnly(channels)
      /\ r.obj \in ClassRow /\ RowFits(r.obj, channels) /\ UNCHANGED <<classes, enrolled>>
  BY Known DEF EraseChannel, RequestFits, Copying
<1>2. CASE UNCHANGED channels /\ Go(w, Failed(w))
  <2>1. /\ Failed(w) \in Requests /\ ~Failed(w).sound /\ Failed(w).lone = r.lone
        /\ Failed(w).result = "none"
    BY <1>1 DEF Failed, Requests
  <2> QED
    BY <1>1, <1>2, <2>1, GoneOn
<1>3. CASE /\ channels' = [channels EXCEPT ![r.ch].state = "gone", ![r.ch].members = {}]
           /\ Continue(w, q)
  <2>1. /\ q.pc = "clear" /\ q.then = r.then /\ q.lone = r.lone /\ q.sound = r.sound
        /\ q.result = "none" /\ q.class = r.class /\ q.obj = r.obj /\ q.ch = r.ch
    BY <1>1 DEF Requests
  <2> HIDE DEF q
  <2>2. /\ TeamOnly(channels')
        /\ r.ch \in DOMAIN channels => channels'[r.ch].state = "gone"
    <3>1. CASE r.ch \in DOMAIN channels
      <4> DEFINE new == [channels[r.ch] EXCEPT !.state = "gone", !.members = {}]
      <4>1. channels[r.ch] \in ChannelRows
        BY <3>1 DEF ChatInv
      <4>2. new.state = "gone" /\ new.members = {}
        BY <4>1 DEF ChannelRows
      <4>3. channels' = [channels EXCEPT ![r.ch] = new]
        BY <1>3, <3>1 DEF ChatInv
      <4> HIDE DEF new
      <4>4. /\ DOMAIN channels' = DOMAIN channels
            /\ \A x \in DOMAIN channels : channels'[x] = IF x = r.ch THEN new ELSE channels[x]
        BY <3>1, <4>3 DEF ChatInv
      <4> QED
        BY <1>1, <3>1, <4>2, <4>4 DEF TeamOnly
    <3>2. CASE r.ch \notin DOMAIN channels
      <4>1. channels' = channels
        BY <1>3, <3>2 DEF ChatInv
      <4> QED
        BY <1>1, <3>2, <4>1
    <3> QED
      BY <3>1, <3>2
  <2>3. ASSUME q.lone, q.sound PROVE InStep(q, classes', enrolled', channels')
    <3>1. /\ Fresh(r, classes) /\ r.obj.link # NoLink /\ r.then \in {"closed", "drop"}
          /\ r.ch = r.obj.link
      BY <1>1, <2>1, <2>3, Known DEF InStep, Releasing, Closing
    <3>2. r.ch \in DOMAIN channels
      BY <1>1, <3>1 DEF RowFits, Bears
    <3>3. Fresh(q, classes')
      BY <1>1, <2>1, <3>1 DEF Fresh
    <3> QED
      BY <2>1, <2>2, <3>1, <3>2, <3>3
      DEF InStep, Syncing, Releasing, Enrolling, Linking, Provided, Closing
  <2> QED
    BY <1>1, <1>3, <2>1, <2>2, <2>3, GoesOn
<1> QED
  BY <1>2, <1>3 DEF EraseChannel

\* clearChannelLink: the link that any other class has to the channel fits.
LEMMA ClearLinkAlone ==
    ASSUME ChatInv, AloneInv, NEW w \in Workers, ClearLink(w)
    PROVE  AloneInv'
<1> DEFINE r == req[w]
           cleared == [r.obj EXCEPT !.link = NoLink]
           q == [r EXCEPT !.obj = cleared]
<1>1. /\ r.pc = "clear" /\ r \in Requests /\ r.result = "none" /\ r.obj \in ClassRow
      /\ WriteBack(w, cleared, q) /\ UNCHANGED <<enrolled, channels>>
  BY Known DEF ClearLink, RequestFits, Copying
<1>2. cleared \in ClassRow /\ cleared.link = NoLink
  BY <1>1 DEF Requests, ClassRow, NoLink
<1> HIDE DEF cleared
<1>3. /\ q \in Requests /\ q.then = r.then /\ q.lone = r.lone /\ q.sound = r.sound
      /\ q.result = "none" /\ q.class = r.class /\ q.ch = r.ch
  BY <1>1, <1>2 DEF Requests
<1> HIDE DEF q
<1>4. ASSUME CanWrite(r.class, cleared), classes' = [classes EXCEPT ![r.class] = cleared],
             q.lone, q.sound
      PROVE  PartDone(q, classes', enrolled', channels')
  <2>1. /\ Fresh(r, classes) /\ r.then \in {"closed", "drop"} /\ r.ch = r.obj.link
        /\ channels[r.ch].state = "gone"
    BY <1>1, <1>3, <1>4, Known DEF InStep, Releasing, Closing
  <2>2. ASSUME r.ch # NoLink, NEW d \in DOMAIN classes', classes'[d].link = r.ch
        PROVE  d # r.class /\ Bears(r.ch, classes'[d].code, channels')
    <3>1. DOMAIN classes' = DOMAIN classes /\ r.class \in DOMAIN classes
      BY <1>4, <2>1 DEF Fresh
    <3>2. d # r.class
      BY <1>2, <1>4, <2>2, <3>1
    <3>3. classes'[d] = classes[d] /\ RowFits(classes[d], channels)
      BY <1>4, <3>1, <3>2 DEF ChatInv, RowsFit
    <3> QED
      BY <1>1, <2>2, <3>2, <3>3 DEF RowFits
  <2>3. Released(q.class, q.ch, classes', channels')
    BY <1>1, <1>3, <2>1, <2>2 DEF Released
  <2> QED
    BY <1>3, <2>1, <2>3 DEF PartDone
<1> QED
  BY <1>1, <1>3, <1>4, WrittenBack

\* An archiving disturbs every request.
LEMMA ArchiveChannelAlone ==
    ASSUME ChatInv, AloneInv, NEW ch \in DOMAIN channels, ArchiveChannel(ch)
    PROVE  AloneInv'
<1> DEFINE new == [channels[ch] EXCEPT !.state = "archived"]
<1>1. channels[ch] \in ChannelRows
  BY DEF ChatInv
<1>2. new.members = channels[ch].members
  BY <1>1 DEF ChannelRows
<1>3. channels' = [channels EXCEPT ![ch] = new]
  BY DEF ArchiveChannel
<1> HIDE DEF new
<1>4. TeamOnly(channels')
  BY <1>2, <1>3 DEF TeamOnly, ChatInv, AloneInv
<1>5. \A v \in Workers : req'[v] = Overlapped(v)
  BY DEF ArchiveChannel
<1>6. \A v \in Workers : /\ ~req'[v].lone /\ req'[v].result = "none"
                         /\ Stands(req'[v], classes', enrolled', channels')
  BY <1>5, OverlappedStands
<1> QED
  BY <1>4, <1>6 DEF AloneInv

\* No request and no archiving breaks what undisturbed requests know.
LEMMA AloneNext ==
    ASSUME ChatInv, AloneInv, [Next]_vars
    PROVE  AloneInv'
<1>1. CASE UNCHANGED vars
  BY <1>1 DEF vars, AloneInv
<1>2. ASSUME NEW ch \in DOMAIN channels, ArchiveChannel(ch)
      PROVE  AloneInv'
  BY <1>2, ArchiveChannelAlone
<1>3. ASSUME NEW w \in Workers, NEW c \in Classes,
             \/ \E code \in Codes, t \in Teachers : CreateClass(w, c, code, t)
             \/ UpdateClass(w, c)
             \/ DeleteClass(w, c)
             \/ \E students \in SUBSET Students : EnrollStudents(w, c, students)
      PROVE  AloneInv'
  BY <1>3, CreateClassAlone, UpdateClassAlone, DeleteClassAlone, EnrollStudentsAlone
<1>4. ASSUME NEW w \in Workers,
             \/ \E e \in enrolled : UnenrollStudent(w, e)
             \/ WriteClass(w) \/ DropClass(w)
             \/ \E s \in Students : CheckEnrolment(w, s)
             \/ SaveEnrolment(w) \/ RemoveEnrolment(w)
             \/ ReloadClass(w) \/ ReadStudents(w)
      PROVE  AloneInv'
  BY <1>4, UnenrollStudentAlone, WriteClassAlone, DropClassAlone, CheckEnrolmentAlone,
     SaveEnrolmentAlone, RemoveEnrolmentAlone, ReloadClassAlone, ReadStudentsAlone
<1>5. ASSUME NEW w \in Workers,
             \/ ResolveChannel(w) \/ ProvideChannel(w) \/ LookUpChannel(w)
             \/ AddMembers(w) \/ RemoveOthers(w) \/ PersistLink(w)
             \/ FindChannel(w) \/ EraseChannel(w) \/ ClearLink(w)
      PROVE  AloneInv'
  BY <1>5, ResolveChannelAlone, ProvideChannelAlone, LookUpChannelAlone, AddMembersAlone,
     RemoveOthersAlone, PersistLinkAlone, FindChannelAlone, EraseChannelAlone,
     ClearLinkAlone
<1> QED
  BY <1>1, <1>2, <1>3, <1>4, <1>5 DEF Next

\* Nobody is at work at first.
LEMMA AloneInit == Init => AloneInv
BY IdleStands DEF Init, AloneInv, TeamOnly

\* Both invariants hold in every behaviour.
LEMMA AloneInvariance == Spec => [](ChatInv /\ AloneInv)
<1>1. Init => ChatInv /\ AloneInv
  BY InitFits, AloneInit
<1>2. (ChatInv /\ AloneInv) /\ [Next]_vars => (ChatInv /\ AloneInv)'
  BY StepKeeps, AloneNext
<1> QED
  BY <1>1, <1>2, PTL DEF Spec

\* A change of a class or of its enrolments that nothing disturbs leaves the
\* class with a channel of exactly the members it should have, whatever
\* earlier requests, failures, archivings and renamings left behind
\* (SyncClassChannelMembership, chat.go:286-301).
THEOREM SyncAlwaysSettles == Spec => []SyncSettles
<1>1. AloneInv => SyncSettles
  <2> SUFFICES ASSUME AloneInv, NEW w \in Workers, req[w].result = "synced"
               PROVE  LET c == req[w].class
                      IN  /\ c \in DOMAIN classes
                          /\ Live(classes[c].link)
                          /\ Members(classes[c].link) =
                                ({classes[c].teacher} \cup TeamAdmins \cup StudentsOf(c))
                                   \cap TeamMembers
    BY DEF SyncSettles
  <2>1. Settled(req[w].class, classes, enrolled, channels)
    BY DEF AloneInv, Stands
  <2> QED
    BY <2>1 DEF Settled, LiveIn, Live, Members, EnrolledIn, StudentsOf
<1> QED
  BY <1>1, AloneInvariance, PTL

\* A class that is deleted or finished, undisturbed, keeps no link to the
\* channel it had; of the other classes only those keep one that have the same
\* channel name, unless a client has sent the link with another code; and the
\* channel is gone, unless the update that finished the class did not send the
\* link (CloseClassChannel, chat.go:307-326; updateClass, class.go:149).
THEOREM ClosingAlwaysReleases == Spec => []ClosingReleases
<1>1. AloneInv => ClosingReleases
  <2> SUFFICES ASSUME AloneInv, NEW w \in Workers,
                      req[w].result \in {"closed", "finished"}, req[w].ch # NoLink
               PROVE  /\ \/ channels[req[w].ch].state = "gone"
                         \/ req[w].result = "finished"
                      /\ \A c \in DOMAIN classes : classes[c].link = req[w].ch =>
                            /\ c # req[w].class
                            /\ \/ nameOf[classes[c].code] = channels[req[w].ch].name
                               \/ channels[req[w].ch].lent
    BY DEF ClosingReleases
  <2>1. \/ Released(req[w].class, req[w].ch, classes, channels)
        \/ /\ req[w].result = "finished"
           /\ Unlinked(req[w].class, req[w].ch, classes, channels)
    BY DEF AloneInv, Stands
  <2> QED
    BY <2>1 DEF Released, Unlinked, Bears
<1> QED
  BY <1>1, AloneInvariance, PTL
=============================================================================
