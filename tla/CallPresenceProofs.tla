------------------------- MODULE CallPresenceProofs -------------------------
(***************************************************************************)
(* PresenceSettled for any number of participants, requests and flags.     *)
(* The invariant follows every pair of a session and a flag that is not    *)
(* contested: at most one request is writing it, and how far that request  *)
(* has come says which of the three places already have the new value.     *)
(***************************************************************************)
EXTENDS CallPresence, CallStateOpsProofs

-----------------------------------------------------------------------------
(***************************************************************************)
(* The inductive invariant                                                 *)
(***************************************************************************)

\* The maps have the shape of the Go structures.
Shapes ==
    /\ DOMAIN cs = Fields
    /\ DOMAIN flags = DOMAIN cs.sessions
    /\ DOMAIN flags \subseteq Conns
    /\ \A s \in DOMAIN flags : DOMAIN flags[s] = Flags
    /\ \A s \in DOMAIN sfu : DOMAIN sfu[s] = {"flags", "seq"}
    /\ \A s \in DOMAIN sfu : DOMAIN sfu[s].flags = Flags
    /\ DOMAIN told = Conns
    /\ \A s \in Conns : DOMAIN told[s] = Flags
    /\ joins \in [Conns -> Nat]

\* A thread's locals have the fields of Idle.
Locals(l) == DOMAIN l = {"pc", "sid", "f", "on", "todo"}
Threaded == DOMAIN th = Threads /\ \A t \in Threads : Locals(th[t])

\* A session's number is that of the last join on its connection, and no
\* media leg is from a later one.
Numbered ==
    /\ \A s \in DOMAIN cs.sessions : cs.sessions[s].seq = joins[s]
    /\ \A s \in DOMAIN sfu : s \in Conns /\ sfu[s].seq \in Nat /\ sfu[s].seq <= joins[s]

\* What a thread writes exists; a join runs on its own connection's read
\* pump, and until it has reached the SFU no leg serves it.
Handling(t) ==
    /\ th[t].pc \in {"send", "mutate", "publish"} => th[t].sid \in Conns /\ th[t].f \in Flags
    /\ th[t].pc = "sweep" \/ th[t].todo # {} => "unmuted" \in Flags
    /\ th[t].todo \subseteq Conns
    /\ th[t].pc \in {"link", "sfuJoin"} =>
          /\ th[t].sid \in Conns
          /\ t = WS(th[t].sid)
          /\ th[t].sid \in DOMAIN sfu => sfu[th[t].sid].seq < joins[th[t].sid]

\* The SFU serves the session's present participation with this flag.
Heard(s, f) == f \in MediaFlags /\ s \in DOMAIN sfu /\ sfu[s].seq = joins[s]

HeardAs(s, f, on) == Heard(s, f) => sfu[s].flags[f] = on

\* The three places agree.
Agree(s, f) == told[s][f] = flags[s][f] /\ HeardAs(s, f, flags[s][f])

\* How far the only writer of a flag has come.
Midway(t, s, f) ==
    /\ th[t].pc = "send" => Agree(s, f)
    /\ th[t].pc = "mutate" => HeardAs(s, f, th[t].on)
    /\ th[t].pc = "publish" => flags[s][f] = th[t].on /\ HeardAs(s, f, th[t].on)
    /\ th[t].pc \in {"link", "sfuJoin"} => flags[s][f] = FreshFlags[f]

Writer(t, s, f) == <<s, f>> \in Writing(t)

\* A flag nobody writes agrees; a flag somebody writes is under way.
Followed(s, f) ==
    /\ (\A t \in Threads : ~Writer(t, s, f)) => Agree(s, f)
    /\ \A t \in Threads : Writer(t, s, f) => Midway(t, s, f)

PresenceInv ==
    /\ Shapes
    /\ Threaded
    /\ Numbered
    /\ \A t \in Threads : Handling(t)
    /\ Contest \subseteq contested
    /\ \A s \in DOMAIN flags, f \in Flags : <<s, f>> \notin contested => Followed(s, f)

-----------------------------------------------------------------------------
(***************************************************************************)
(* One thread moves                                                        *)
(***************************************************************************)

\* The thread t moves to l and the history takes note.
Moves(t, l) ==
    /\ t \in Threads
    /\ Locals(l)
    /\ th' = [th EXCEPT ![t] = l]
    /\ Observe

\* Who writes a pair, spelled out.
LEMMA WriterIs ==
    ASSUME NEW t, NEW s, NEW f
    PROVE  Writer(t, s, f) <=>
              \/ th[t].pc \in {"send", "mutate", "publish"} /\ s = th[t].sid /\ f = th[t].f
              \/ th[t].pc \in {"link", "sfuJoin"} /\ s = th[t].sid /\ f \in Flags
  BY DEF Writer, Writing

LEMMA WriterIsNext ==
    ASSUME NEW t, NEW s, NEW f
    PROVE  Writer(t, s, f)' <=>
              \/ th'[t].pc \in {"send", "mutate", "publish"} /\ s = th'[t].sid /\ f = th'[t].f
              \/ th'[t].pc \in {"link", "sfuJoin"} /\ s = th'[t].sid /\ f \in Flags
  BY DEF Writer, Writing

\* Two writers make a contest.
LEMMA ContestIs ==
    ASSUME NEW s \in Conns, NEW f \in Flags
    PROVE  <<s, f>> \in Contest <=>
              \E t, u \in Threads : t # u /\ Writer(t, s, f) /\ Writer(u, s, f)
  BY DEF Contest, Writer

LEMMA ContestIsNext ==
    ASSUME NEW s \in Conns, NEW f \in Flags
    PROVE  <<s, f>> \in Contest' <=>
              \E t, u \in Threads : t # u /\ Writer(t, s, f)' /\ Writer(u, s, f)'
  BY DEF Contest, Writer

\* Only the thread that moves writes something else than before.
LEMMA OthersKeep ==
    ASSUME Threaded, NEW t, NEW l, Moves(t, l)
    PROVE  /\ th'[t] = l
           /\ \A u \in Threads : u # t => th'[u] = th[u]
           /\ Threaded'
           /\ \A u \in Threads : u # t => \A s, f : Writer(u, s, f)' <=> Writer(u, s, f)
<1>1. /\ th'[t] = l
      /\ \A u \in Threads : u # t => th'[u] = th[u]
      /\ DOMAIN th' = Threads
  BY DEF Threaded, Moves
<1>2. Threaded'
  BY <1>1 DEF Threaded, Moves
<1>3. ASSUME NEW u \in Threads, NEW s, NEW f, u # t
      PROVE  Writer(u, s, f)' <=> Writer(u, s, f)
  BY <1>1, <1>3, WriterIs, WriterIsNext
<1> QED
  BY <1>1, <1>2, <1>3

\* A pair is no longer contested: nobody but the mover writes it with the
\* mover, and it was contested before only if the mover has just passed.
LEMMA Uncontested ==
    ASSUME PresenceInv, NEW t, NEW l, Moves(t, l),
           NEW s \in Conns, NEW f \in Flags, <<s, f>> \notin contested'
    PROVE  /\ (Writer(t, s, f) /\ <<s, f>> \notin contested) \/ Writer(t, s, f)'
                 => \A u \in Threads : u # t => ~Writer(u, s, f)
           /\ l.pc \notin {"mutate", "link"} \/ ~Writer(t, s, f)'
                 => <<s, f>> \notin contested
<1>1. /\ th'[t] = l
      /\ \A u \in Threads : u # t => th'[u] = th[u]
      /\ \A u \in Threads : u # t => (Writer(u, s, f)' <=> Writer(u, s, f))
      /\ t \in Threads
  BY OthersKeep DEF PresenceInv, Moves
<1>2. <<s, f>> \notin Contest' /\ (<<s, f>> \in contested => <<s, f>> \in Passed' \ Passed)
  BY DEF Moves, Observe
<1>3. ASSUME Writer(t, s, f)'
      PROVE  \A u \in Threads : u # t => ~Writer(u, s, f)
  BY <1>1, <1>2, <1>3, ContestIsNext
<1>4. ASSUME Writer(t, s, f), <<s, f>> \notin contested
      PROVE  \A u \in Threads : u # t => ~Writer(u, s, f)
  <2>1. <<s, f>> \notin Contest
    BY <1>4 DEF PresenceInv
  <2> QED
    BY <1>1, <1>4, <2>1, ContestIs
<1>5. ASSUME <<s, f>> \in contested
      PROVE  l.pc \in {"mutate", "link"} /\ Writer(t, s, f)'
  <2>1. <<s, f>> \in Passed' /\ <<s, f>> \notin Passed
    BY <1>2, <1>5
  <2>2. PICK u \in Threads : th'[u].pc \in {"mutate", "link"} /\ Writer(u, s, f)'
    BY <2>1 DEF Passed, Writer
  <2>3. \A v \in Threads : ~(th[v].pc \in {"mutate", "link"} /\ Writer(v, s, f))
    BY <2>1 DEF Passed, Writer
  <2> QED
    BY <1>1, <2>2, <2>3
<1> QED
  BY <1>3, <1>4, <1>5

\* Nothing about a pair changes but, perhaps, that its leg goes.
Untouched(s, f) ==
    /\ flags'[s][f] = flags[s][f]
    /\ told'[s][f] = told[s][f]
    /\ Heard(s, f)' => Heard(s, f) /\ sfu'[s].flags[f] = sfu[s].flags[f]

LEMMA AgreeKept ==
    ASSUME NEW s, NEW f, Untouched(s, f)
    PROVE  /\ Agree(s, f) => Agree(s, f)'
           /\ \A on : HeardAs(s, f, on) => HeardAs(s, f, on)'
  BY DEF Untouched, Agree, HeardAs

\* A pair that is untouched and that the mover neither wrote nor writes is
\* followed as before.
LEMMA BystanderFollowed ==
    ASSUME PresenceInv, NEW t, NEW l, Moves(t, l),
           NEW s \in DOMAIN flags, NEW f \in Flags, <<s, f>> \notin contested',
           ~Writer(t, s, f), ~Writer(t, s, f)', Untouched(s, f)
    PROVE  Followed(s, f)'
<1>1. s \in Conns
  BY DEF PresenceInv, Shapes
<1>2. <<s, f>> \notin contested
  BY <1>1, Uncontested
<1>3. Followed(s, f)
  BY <1>2 DEF PresenceInv
<1>4. /\ \A u \in Threads : u # t => th'[u] = th[u]
      /\ \A u \in Threads : u # t => (Writer(u, s, f)' <=> Writer(u, s, f))
  BY OthersKeep DEF PresenceInv
<1>5. (\A u \in Threads : ~Writer(u, s, f)') => Agree(s, f)'
  BY <1>3, <1>4, AgreeKept DEF Followed
<1>6. ASSUME NEW u \in Threads, Writer(u, s, f)'
      PROVE  Midway(u, s, f)'
  <2>1. u # t /\ th'[u] = th[u] /\ Midway(u, s, f)
    BY <1>3, <1>4, <1>6 DEF Followed
  <2> QED
    BY <2>1, AgreeKept DEF Midway, Untouched
<1> QED
  BY <1>5, <1>6 DEF Followed

\* A pair whose only writer is the mover is followed when the mover's own
\* account of it holds.
LEMMA MoverFollowed ==
    ASSUME PresenceInv, NEW t, NEW l, Moves(t, l),
           NEW s \in Conns, NEW f \in Flags, <<s, f>> \notin contested',
           \/ Writer(t, s, f)' /\ Midway(t, s, f)'
           \/ Writer(t, s, f) /\ l.pc \notin {"mutate", "link"} /\ ~Writer(t, s, f)' /\ Agree(s, f)'
    PROVE  Followed(s, f)'
<1>1. /\ \A u \in Threads : u # t => (Writer(u, s, f)' <=> Writer(u, s, f))
      /\ t \in Threads
  BY OthersKeep DEF PresenceInv, Moves
<1>2. \A u \in Threads : u # t => ~Writer(u, s, f)
  BY Uncontested
<1> QED
  BY <1>1, <1>2 DEF Followed

-----------------------------------------------------------------------------
(***************************************************************************)
(* What a step has to show                                                 *)
(***************************************************************************)

\* The records that threads move to.
LEMMA LocalsIdle ==
    Locals(Idle) /\ Idle.pc = "idle" /\ Idle.todo = {}
  BY DEF Locals, Idle

LEMMA LocalsGoto ==
    ASSUME Threaded, NEW t \in Threads, NEW pc
    PROVE  LET l == [th[t] EXCEPT !.pc = pc]
           IN  /\ Locals(l) /\ l.pc = pc
               /\ l.sid = th[t].sid /\ l.f = th[t].f
               /\ l.on = th[t].on /\ l.todo = th[t].todo
  BY DEF Locals, Threaded

\* No leg comes to serve a join that is under way.
LegsBehind ==
    \A s \in Conns :
        (s \in DOMAIN sfu => sfu[s].seq < joins[s]) =>
            (s \in DOMAIN sfu' => sfu'[s].seq < joins'[s])

\* A step preserves the invariant when the mover's part and the pairs it
\* touches are shown.
LEMMA StepFollowed ==
    ASSUME PresenceInv, NEW t, NEW l, Moves(t, l), Shapes', Numbered', Handling(t)',
           \A u \in Threads \ {t} : Handling(u)',
           \A s \in DOMAIN flags', f \in Flags :
               <<s, f>> \notin contested' => Followed(s, f)'
    PROVE  PresenceInv'
<1>1. Threaded'
  BY OthersKeep DEF PresenceInv
<1>2. (Contest \subseteq contested)'
  BY DEF Moves, Observe
<1>3. \A u \in Threads : Handling(u)'
  OBVIOUS
<1> QED
  BY <1>1, <1>2, <1>3 DEF PresenceInv

\* The others handle on, unless a leg comes.
LEMMA OthersHandle ==
    ASSUME PresenceInv, NEW t, NEW l, Moves(t, l), LegsBehind
    PROVE  \A u \in Threads \ {t} : Handling(u)'
<1> SUFFICES ASSUME NEW u \in Threads \ {t}
             PROVE  Handling(u)'
  OBVIOUS
<1>1. th'[u] = th[u] /\ Handling(u)
  BY OthersKeep DEF PresenceInv
<1> QED
  BY <1>1 DEF Handling, LegsBehind

\* Steps that leave the three places alone.
LEMMA QuietStep ==
    ASSUME PresenceInv, NEW t, NEW l, Moves(t, l),
           UNCHANGED <<flags, sfu, told, joins>>,
           DOMAIN cs' = Fields, DOMAIN cs'.sessions = DOMAIN cs.sessions,
           \A s \in DOMAIN cs.sessions : cs'.sessions[s].seq = cs.sessions[s].seq,
           Handling(t)',
           \A s \in DOMAIN flags, f \in Flags :
               <<s, f>> \notin contested' /\ (Writer(t, s, f) \/ Writer(t, s, f)')
                   => Followed(s, f)'
    PROVE  PresenceInv'
<1>1. Shapes' /\ Numbered'
  BY DEF PresenceInv, Shapes, Numbered
<1>2. \A u \in Threads \ {t} : Handling(u)'
  BY OthersHandle DEF LegsBehind
<1>3. ASSUME NEW s \in DOMAIN flags, NEW f \in Flags, <<s, f>> \notin contested'
      PROVE  Followed(s, f)'
  <2>1. Untouched(s, f)
    BY DEF Untouched, Heard
  <2>2. CASE ~Writer(t, s, f) /\ ~Writer(t, s, f)'
    BY <1>3, <2>1, <2>2, BystanderFollowed
  <2>3. CASE Writer(t, s, f) \/ Writer(t, s, f)'
    BY <1>3, <2>3
  <2> QED
    BY <2>2, <2>3
<1> QED
  BY <1>1, <1>2, <1>3, StepFollowed

\* ... and that write nothing afterwards and wrote nothing before.
LEMMA IdleStep ==
    ASSUME PresenceInv, NEW t, NEW l, Moves(t, l),
           UNCHANGED <<flags, sfu, told, joins>>,
           DOMAIN cs' = Fields, DOMAIN cs'.sessions = DOMAIN cs.sessions,
           \A s \in DOMAIN cs.sessions : cs'.sessions[s].seq = cs.sessions[s].seq,
           th[t].pc \notin {"send", "mutate", "publish", "link", "sfuJoin"},
           l.pc \notin {"send", "mutate", "publish", "link", "sfuJoin"},
           l.todo \subseteq Conns,
           l.pc = "sweep" \/ l.todo # {} => "unmuted" \in Flags
    PROVE  PresenceInv'
<1>1. th'[t] = l
  BY OthersKeep DEF PresenceInv
<1>2. Handling(t)'
  BY <1>1 DEF Handling
<1>3. \A s, f : ~Writer(t, s, f) /\ ~Writer(t, s, f)'
  BY <1>1, WriterIs, WriterIsNext
<1> QED
  BY <1>2, <1>3, QuietStep

\* A request begins to write a flag.
LEMMA WriteBegins ==
    ASSUME PresenceInv, NEW t, NEW l, Moves(t, l),
           UNCHANGED <<flags, sfu, told, joins, cs>>,
           th[t].pc \notin {"send", "mutate", "publish", "link", "sfuJoin"},
           l.pc = IF l.f \in MediaFlags THEN "send" ELSE "mutate",
           l.sid \in Conns, l.f \in Flags,
           l.todo \subseteq Conns, l.todo # {} => "unmuted" \in Flags
    PROVE  PresenceInv'
<1>1. th'[t] = l
  BY OthersKeep DEF PresenceInv
<1>2. Handling(t)'
  BY <1>1 DEF Handling
<1>3. \A s, f : ~Writer(t, s, f)
  BY WriterIs
<1>4. ASSUME NEW s \in DOMAIN flags, NEW f \in Flags, <<s, f>> \notin contested',
             Writer(t, s, f)'
      PROVE  Followed(s, f)'
  <2>1. s \in Conns
    BY DEF PresenceInv, Shapes
  <2>2. f = l.f
    BY <1>1, <1>4, WriterIsNext
  <2>3. CASE f \in MediaFlags
    <3>1. l.pc = "send"
      BY <2>2, <2>3
    <3>2. <<s, f>> \notin contested /\ \A u \in Threads : u # t => ~Writer(u, s, f)
      BY <1>4, <2>1, <3>1, Uncontested
    <3>3. Agree(s, f)
      BY <1>3, <3>2 DEF PresenceInv, Followed
    <3>4. Agree(s, f)'
      BY <3>3 DEF Agree, HeardAs, Heard
    <3>5. Midway(t, s, f)'
      BY <1>1, <3>1, <3>4 DEF Midway
    <3> QED
      BY <1>4, <2>1, <3>5, MoverFollowed
  <2>4. CASE f \notin MediaFlags
    <3>1. l.pc = "mutate"
      BY <2>2, <2>4
    <3>2. Midway(t, s, f)'
      BY <1>1, <3>1, <2>4 DEF Midway, HeardAs, Heard
    <3> QED
      BY <1>4, <2>1, <3>2, MoverFollowed
  <2> QED
    BY <2>3, <2>4
<1>5. DOMAIN cs' = Fields
  BY DEF PresenceInv, Shapes
<1> QED
  BY <1>2, <1>3, <1>4, <1>5, QuietStep

-----------------------------------------------------------------------------
(***************************************************************************)
(* Steps that leave the three places alone                                 *)
(***************************************************************************)

\* The mover of an action, from how the action moves it.
LEMMA MoverOf ==
    ASSUME NEW t \in Threads, NEW l, Locals(l), Becomes(t, l)
    PROVE  Moves(t, l)
  BY DEF Moves, Becomes

LEMMA LeaveKeeps ==
    ASSUME PresenceInv, NEW c \in Conns, Leave(c)
    PROVE  PresenceInv'
<1> DEFINE l == [Idle EXCEPT !.pc = "remove", !.sid = cs.byConn[c].sid]
<1>1. Locals(l) /\ l.pc = "remove" /\ l.todo = {}
  BY DEF Locals, Idle
<1>2. Becomes(WS(c), l) /\ th[WS(c)].pc = "idle" /\ UNCHANGED state /\ WS(c) \in Threads
  BY DEF Leave, BeginTeardown, Begin, At, Threads
<1> HIDE DEF l
<1>3. Moves(WS(c), l)
  BY <1>1, <1>2, MoverOf
<1> QED
  BY <1>1, <1>2, <1>3, IdleStep DEF state, PresenceInv, Shapes

LEMMA ToggleKeeps ==
    ASSUME PresenceInv, NEW c \in Conns, NEW f \in Flags, NEW on \in BOOLEAN, Toggle(c, f, on)
    PROVE  PresenceInv'
<1> DEFINE l == Writes(c, f, on)
<1>1. /\ Locals(l) /\ l.sid = c /\ l.f = f /\ l.todo = {}
      /\ l.pc = IF f \in MediaFlags THEN "send" ELSE "mutate"
  BY DEF Locals, Idle, Writes
<1>2. Becomes(WS(c), l) /\ th[WS(c)].pc = "idle" /\ UNCHANGED state /\ WS(c) \in Threads
  BY DEF Toggle, Begin, At, Threads
<1> HIDE DEF l
<1>3. Moves(WS(c), l)
  BY <1>1, <1>2, MoverOf
<1> QED
  BY <1>1, <1>2, <1>3, WriteBegins DEF state

LEMMA HostControlKeeps ==
    ASSUME PresenceInv, NEW user, NEW sid \in Conns, NEW control, NEW f,
           HostControl(user, sid, control, f)
    PROVE  PresenceInv'
<1> DEFINE l == Writes(sid, f, FALSE)
<1>1. /\ Locals(l) /\ l.sid = sid /\ l.f = f /\ l.todo = {}
      /\ l.pc = IF f \in MediaFlags THEN "send" ELSE "mutate"
  BY DEF Locals, Idle, Writes
<1>2. /\ Becomes(Rest, l) /\ th[Rest].pc = "idle" /\ UNCHANGED state
      /\ Rest \in Threads /\ f \in Flags
  BY DEF HostControl, Begin, At, Threads
<1> HIDE DEF l
<1>3. Moves(Rest, l)
  BY <1>1, <1>2, MoverOf
<1> QED
  BY <1>1, <1>2, <1>3, WriteBegins DEF state

LEMMA MuteOthersKeeps ==
    ASSUME PresenceInv, NEW user, MuteOthers(user)
    PROVE  PresenceInv'
<1> DEFINE todo == {s \in DOMAIN flags : flags[s]["unmuted"] /\ userOf[s] # user}
           l == [Idle EXCEPT !.pc = "sweep", !.todo = todo]
<1>1. Locals(l) /\ l.pc = "sweep" /\ l.todo = todo
  BY DEF Locals, Idle
<1>2. /\ Becomes(Rest, l) /\ th[Rest].pc = "idle" /\ UNCHANGED state
      /\ Rest \in Threads /\ "unmuted" \in Flags
  BY DEF MuteOthers, Begin, At, Threads
<1>3. todo \subseteq Conns
  BY DEF PresenceInv, Shapes
<1> HIDE DEF l, todo
<1>4. Moves(Rest, l)
  BY <1>1, <1>2, MoverOf
<1> QED
  BY <1>1, <1>2, <1>3, <1>4, IdleStep DEF state, PresenceInv, Shapes

LEMMA SweepNextKeeps ==
    ASSUME PresenceInv, NEW t \in Threads, SweepNext(t)
    PROVE  PresenceInv'
<1>1. PICK sid \in th[t].todo :
          LET rest == th[t].todo \ {sid}
          IN  IF Present(sid)
              THEN Becomes(t, [Writes(sid, "unmuted", FALSE) EXCEPT !.todo = rest])
              ELSE Becomes(t, [th[t] EXCEPT !.todo = rest])
  BY DEF SweepNext, Continue
<1>2. th[t].pc = "sweep" /\ UNCHANGED state
  BY DEF SweepNext, At
<1>3. /\ "unmuted" \in Flags /\ th[t].todo \subseteq Conns /\ Locals(th[t])
      /\ DOMAIN cs = Fields
  BY <1>2 DEF PresenceInv, Handling, Threaded, Shapes
<1> DEFINE rest == th[t].todo \ {sid}
           w == [Writes(sid, "unmuted", FALSE) EXCEPT !.todo = rest]
           n == [th[t] EXCEPT !.todo = rest]
<1>4. /\ Locals(w) /\ w.sid = sid /\ w.f = "unmuted" /\ w.todo = rest
      /\ w.pc = IF w.f \in MediaFlags THEN "send" ELSE "mutate"
  BY DEF Locals, Idle, Writes
<1>5. Locals(n) /\ n.pc = "sweep" /\ n.todo = rest
  BY <1>2, <1>3 DEF Locals
<1>6. rest \subseteq Conns /\ sid \in Conns
  BY <1>3
<1> HIDE DEF w, n, rest
<1>7. CASE Present(sid)
  <2>1. Moves(t, w)
    BY <1>1, <1>4, <1>7, MoverOf DEF w, rest
  <2> QED
    BY <1>2, <1>3, <1>4, <1>6, <2>1, WriteBegins DEF state
<1>8. CASE ~Present(sid)
  <2>1. Moves(t, n)
    BY <1>1, <1>5, <1>8, MoverOf DEF n, rest
  <2> QED
    BY <1>2, <1>3, <1>5, <1>6, <2>1, IdleStep DEF state
<1> QED
  BY <1>7, <1>8

LEMMA SweepDoneKeeps ==
    ASSUME PresenceInv, NEW t \in Threads, SweepDone(t)
    PROVE  PresenceInv'
<1>1. Locals(Idle) /\ Idle.pc = "idle" /\ Idle.todo = {}
  BY LocalsIdle
<1>2. Becomes(t, Idle) /\ th[t].pc = "sweep" /\ UNCHANGED state
  BY DEF SweepDone, Return, Continue, At
<1>3. Moves(t, Idle)
  BY <1>1, <1>2, MoverOf
<1> QED
  BY <1>1, <1>2, <1>3, IdleStep DEF state, PresenceInv, Shapes

LEMMA HostRemoveKeeps ==
    ASSUME PresenceInv, NEW user, NEW sid \in Conns, HostRemove(user, sid)
    PROVE  PresenceInv'
<1> DEFINE l == [Idle EXCEPT !.pc = "remove", !.sid = sid]
<1>1. Locals(l) /\ l.pc = "remove" /\ l.todo = {}
  BY DEF Locals, Idle
<1>2. /\ Becomes(Rest, l) /\ th[Rest].pc = "idle" /\ Rest \in Threads
      /\ UNCHANGED <<flags, sfu, told, joins>> /\ cs' = markRemoved(cs, sid)
  BY DEF HostRemove, BeginTeardown, Begin, At, Threads
<1> HIDE DEF l
<1>3. Moves(Rest, l)
  BY <1>1, <1>2, MoverOf
<1>4. /\ DOMAIN cs' = Fields
      /\ DOMAIN cs'.sessions = DOMAIN cs.sessions
      /\ \A s \in DOMAIN cs.sessions : cs'.sessions[s].seq = cs.sessions[s].seq
  BY <1>2 DEF markRemoved, PresenceInv, Shapes, Fields
<1> QED
  BY <1>1, <1>2, <1>3, <1>4, IdleStep

LEMMA TeardownUnlinkKeeps ==
    ASSUME PresenceInv, NEW t \in Threads, TeardownUnlink(t)
    PROVE  PresenceInv'
<1> DEFINE l == [th[t] EXCEPT !.pc = "sfuLeave"]
<1>1. Locals(l) /\ l.pc = "sfuLeave" /\ l.todo = th[t].todo
  BY LocalsGoto DEF PresenceInv
<1>2. Becomes(t, l) /\ th[t].pc = "unlink" /\ UNCHANGED <<cs, flags, sfu, told, joins>>
  BY DEF TeardownUnlink, Goto, Continue, At
<1> HIDE DEF l
<1>3. Moves(t, l)
  BY <1>1, <1>2, MoverOf
<1>4. th[t].todo \subseteq Conns /\ (th[t].todo # {} => "unmuted" \in Flags)
  BY DEF PresenceInv, Handling
<1> QED
  BY <1>1, <1>2, <1>3, <1>4, IdleStep DEF PresenceInv, Shapes

\* Where a finished write goes: to rest, or on with its sweep.
Finished(l) ==
    /\ Locals(l)
    /\ l.pc \in {"idle", "sweep"}
    /\ l.todo \subseteq Conns
    /\ l.pc = "sweep" \/ l.todo # {} => "unmuted" \in Flags

LEMMA DoneBecomes ==
    ASSUME PresenceInv, NEW t \in Threads, Done(t)
    PROVE  \E l : Finished(l) /\ Becomes(t, l)
<1>1. th[t].todo \subseteq Conns /\ (th[t].todo # {} => "unmuted" \in Flags)
  BY DEF PresenceInv, Handling
<1> DEFINE l == [Idle EXCEPT !.pc = "sweep", !.todo = th[t].todo]
<1>2. CASE th[t].todo = {}
  <2>1. Becomes(t, Idle)
    BY <1>2 DEF Done, Continue
  <2>2. Finished(Idle)
    BY LocalsIdle DEF Finished
  <2> QED
    BY <2>1, <2>2
<1>3. CASE th[t].todo # {}
  <2>1. Becomes(t, l)
    BY <1>3 DEF Done, Continue
  <2>2. Locals(l) /\ l.pc = "sweep" /\ l.todo = th[t].todo
    BY DEF Locals, Idle
  <2> HIDE DEF l
  <2>3. Finished(l)
    BY <1>1, <1>3, <2>2 DEF Finished
  <2> QED
    BY <2>1, <2>3
<1> QED
  BY <1>2, <1>3

\* A failed message to the SFU ends the write before it changed anything.
LEMMA SendFailsKeeps ==
    ASSUME PresenceInv, NEW t \in Threads, SendFails(t)
    PROVE  PresenceInv'
<1>1. PICK l : Finished(l) /\ Becomes(t, l)
  BY DoneBecomes DEF SendFails
<1>2. th[t].pc = "send" /\ UNCHANGED state
  BY DEF SendFails, At
<1>3. Moves(t, l) /\ th'[t] = l
  BY <1>1, MoverOf, OthersKeep DEF Finished, PresenceInv
<1>4. Handling(t)' /\ \A s, f : ~Writer(t, s, f)'
  BY <1>1, <1>3, WriterIsNext DEF Finished, Handling
<1>5. ASSUME NEW s \in DOMAIN flags, NEW f \in Flags, <<s, f>> \notin contested',
             Writer(t, s, f)
      PROVE  Followed(s, f)'
  <2>1. s \in Conns
    BY DEF PresenceInv, Shapes
  <2>2. <<s, f>> \notin contested
    BY <1>3, <1>4, <1>5, <2>1, Uncontested
  <2>3. Agree(s, f)
    BY <1>2, <1>5, <2>2 DEF PresenceInv, Followed, Midway
  <2>4. Agree(s, f)'
    BY <1>2, <2>3 DEF Agree, HeardAs, Heard, state
  <2>5. l.pc \notin {"mutate", "link"}
    BY <1>1 DEF Finished
  <2> QED
    BY <1>3, <1>4, <1>5, <2>1, <2>4, <2>5, MoverFollowed
<1>6. DOMAIN cs' = Fields
  BY <1>2 DEF PresenceInv, Shapes, state
<1> QED
  BY <1>2, <1>3, <1>4, <1>5, <1>6, QuietStep DEF state

\* The session is registered; its flags are still the fresh ones.
LEMMA JoinLinkKeeps ==
    ASSUME PresenceInv, NEW t \in Threads, JoinLink(t)
    PROVE  PresenceInv'
<1> DEFINE l == [th[t] EXCEPT !.pc = "sfuJoin"]
<1>1. /\ Locals(l) /\ l.pc = "sfuJoin" /\ l.sid = th[t].sid
      /\ l.todo = th[t].todo
  BY LocalsGoto DEF PresenceInv
<1>2. Becomes(t, l) /\ th[t].pc = "link" /\ UNCHANGED <<cs, flags, sfu, told, joins>>
  BY DEF JoinLink, Goto, Continue, At
<1> HIDE DEF l
<1>3. Moves(t, l)
  BY <1>1, <1>2, MoverOf
<1>4. th'[t] = l
  BY <1>3, OthersKeep DEF PresenceInv
<1>5. Handling(t)'
  BY <1>1, <1>2, <1>4 DEF PresenceInv, Handling
<1>6. \A s, f : Writer(t, s, f)' <=> Writer(t, s, f)
  BY <1>1, <1>2, <1>4, WriterIs, WriterIsNext
<1>7. ASSUME NEW s \in DOMAIN flags, NEW f \in Flags, <<s, f>> \notin contested',
             Writer(t, s, f)
      PROVE  Followed(s, f)'
  <2>1. s \in Conns
    BY DEF PresenceInv, Shapes
  <2>2. <<s, f>> \notin contested
    BY <1>1, <1>3, <1>7, <2>1, Uncontested
  <2>3. Midway(t, s, f)
    BY <1>7, <2>2 DEF PresenceInv, Followed
  <2>4. Midway(t, s, f)'
    BY <1>1, <1>2, <1>4, <2>3 DEF Midway
  <2> QED
    BY <1>3, <1>6, <1>7, <2>1, <2>4, MoverFollowed
<1>8. DOMAIN cs' = Fields
  BY <1>2 DEF PresenceInv, Shapes
<1> QED
  BY <1>2, <1>3, <1>5, <1>6, <1>7, <1>8, QuietStep

-----------------------------------------------------------------------------
(***************************************************************************)
(* Steps that write one of the three places                                *)
(***************************************************************************)

\* The SFU gets the new value of one flag.
LEMMA SendKeeps ==
    ASSUME PresenceInv, NEW t \in Threads, Send(t)
    PROVE  PresenceInv'
<1> DEFINE l == [th[t] EXCEPT !.pc = "mutate"]
<1>1. /\ Locals(l) /\ l.pc = "mutate" /\ l.sid = th[t].sid
      /\ l.f = th[t].f /\ l.on = th[t].on /\ l.todo = th[t].todo
  BY LocalsGoto DEF PresenceInv
<1>2. /\ Becomes(t, l) /\ th[t].pc = "send" /\ UNCHANGED <<cs, flags, told, joins>>
      /\ sfu' = IF th[t].sid \in DOMAIN sfu
                THEN [sfu EXCEPT ![th[t].sid].flags[th[t].f] = th[t].on] ELSE sfu
  BY DEF Send, Goto, Continue, At
<1> HIDE DEF l
<1>3. Moves(t, l)
  BY <1>1, <1>2, MoverOf
<1>4. th'[t] = l
  BY <1>3, OthersKeep DEF PresenceInv
<1>5. /\ th[t].sid \in Conns /\ th[t].f \in Flags
      /\ th[t].todo \subseteq Conns /\ (th[t].todo # {} => "unmuted" \in Flags)
  BY <1>2 DEF PresenceInv, Handling
<1>6. /\ DOMAIN sfu' = DOMAIN sfu
      /\ \A s \in DOMAIN sfu :
            /\ DOMAIN sfu'[s] = {"flags", "seq"}
            /\ DOMAIN sfu'[s].flags = Flags
            /\ sfu'[s].seq = sfu[s].seq
            /\ \A f \in Flags : sfu'[s].flags[f] = IF s = th[t].sid /\ f = th[t].f
                                                   THEN th[t].on ELSE sfu[s].flags[f]
  BY <1>2, <1>5 DEF PresenceInv, Shapes
<1>7. Shapes' /\ Numbered'
  BY <1>2, <1>6 DEF PresenceInv, Shapes, Numbered
<1>8. Handling(t)'
  BY <1>1, <1>4, <1>5 DEF Handling
<1>9. \A u \in Threads \ {t} : Handling(u)'
  BY <1>2, <1>3, <1>6, OthersHandle DEF LegsBehind
<1>10. ASSUME NEW s \in DOMAIN flags', NEW f \in Flags, <<s, f>> \notin contested'
       PROVE  Followed(s, f)'
  <2>1. s \in Conns /\ s \in DOMAIN flags
    BY <1>2 DEF PresenceInv, Shapes
  <2>2. /\ Writer(t, s, f) <=> (s = th[t].sid /\ f = th[t].f)
        /\ Writer(t, s, f)' <=> (s = th[t].sid /\ f = th[t].f)
    BY <1>1, <1>2, <1>4, WriterIs, WriterIsNext
  <2>3. CASE s = th[t].sid /\ f = th[t].f
    <3>1. HeardAs(s, f, th[t].on)'
      BY <1>1, <1>4, <1>6, <2>3 DEF HeardAs, Heard
    <3>2. Midway(t, s, f)'
      BY <1>1, <1>4, <3>1 DEF Midway
    <3> QED
      BY <1>3, <1>10, <2>1, <2>2, <2>3, <3>2, MoverFollowed
  <2>4. CASE ~(s = th[t].sid /\ f = th[t].f)
    <3>1. Untouched(s, f)
      BY <1>2, <1>6, <2>4 DEF Untouched, Heard
    <3> QED
      BY <1>3, <1>10, <2>1, <2>2, <2>4, <3>1, BystanderFollowed
  <2> QED
    BY <2>3, <2>4
<1> QED
  BY <1>3, <1>7, <1>8, <1>9, <1>10, StepFollowed

\* The session gets the new value the SFU already has.
LEMMA MutateKeeps ==
    ASSUME PresenceInv, NEW t \in Threads, Mutate(t)
    PROVE  PresenceInv'
<1> DEFINE l == [th[t] EXCEPT !.pc = "publish"]
<1>1. /\ Locals(l) /\ l.pc = "publish" /\ l.sid = th[t].sid
      /\ l.f = th[t].f /\ l.on = th[t].on /\ l.todo = th[t].todo
  BY LocalsGoto DEF PresenceInv
<1>2. /\ Becomes(t, l) /\ th[t].pc = "mutate" /\ UNCHANGED <<cs, sfu, told, joins>>
      /\ flags' = IF th[t].sid \in DOMAIN flags
                  THEN [flags EXCEPT ![th[t].sid][th[t].f] = th[t].on] ELSE flags
  BY DEF Mutate, Goto, Continue, At
<1> HIDE DEF l
<1>3. Moves(t, l)
  BY <1>1, <1>2, MoverOf
<1>4. th'[t] = l
  BY <1>3, OthersKeep DEF PresenceInv
<1>5. /\ th[t].sid \in Conns /\ th[t].f \in Flags
      /\ th[t].todo \subseteq Conns /\ (th[t].todo # {} => "unmuted" \in Flags)
  BY <1>2 DEF PresenceInv, Handling
<1>6. /\ DOMAIN flags' = DOMAIN flags
      /\ \A s \in DOMAIN flags :
            /\ DOMAIN flags'[s] = Flags
            /\ \A f \in Flags : flags'[s][f] = IF s = th[t].sid /\ f = th[t].f
                                               THEN th[t].on ELSE flags[s][f]
  BY <1>2, <1>5 DEF PresenceInv, Shapes
<1>7. Shapes' /\ Numbered'
  BY <1>2, <1>6 DEF PresenceInv, Shapes, Numbered
<1>8. Handling(t)'
  BY <1>1, <1>4, <1>5 DEF Handling
<1>9. \A u \in Threads \ {t} : Handling(u)'
  BY <1>2, <1>3, OthersHandle DEF LegsBehind
<1>10. ASSUME NEW s \in DOMAIN flags', NEW f \in Flags, <<s, f>> \notin contested'
       PROVE  Followed(s, f)'
  <2>1. s \in Conns /\ s \in DOMAIN flags
    BY <1>6 DEF PresenceInv, Shapes
  <2>2. /\ Writer(t, s, f) <=> (s = th[t].sid /\ f = th[t].f)
        /\ Writer(t, s, f)' <=> (s = th[t].sid /\ f = th[t].f)
    BY <1>1, <1>2, <1>4, WriterIs, WriterIsNext
  <2>3. CASE s = th[t].sid /\ f = th[t].f
    <3>1. <<s, f>> \notin contested
      BY <1>1, <1>3, <1>10, <2>1, Uncontested
    <3>2. HeardAs(s, f, th[t].on)
      BY <1>2, <2>1, <2>2, <2>3, <3>1 DEF PresenceInv, Followed, Midway
    <3>3. HeardAs(s, f, th[t].on)' /\ flags'[s][f] = th[t].on
      BY <1>1, <1>2, <1>4, <1>6, <2>1, <2>3, <3>2 DEF HeardAs, Heard
    <3>4. Midway(t, s, f)'
      BY <1>1, <1>4, <3>3 DEF Midway, HeardAs, Heard
    <3> QED
      BY <1>3, <1>10, <2>1, <2>2, <2>3, <3>4, MoverFollowed
  <2>4. CASE ~(s = th[t].sid /\ f = th[t].f)
    <3>1. Untouched(s, f)
      BY <1>2, <1>6, <2>1, <2>4 DEF Untouched, Heard
    <3> QED
      BY <1>3, <1>10, <2>1, <2>2, <2>4, <3>1, BystanderFollowed
  <2> QED
    BY <2>3, <2>4
<1> QED
  BY <1>3, <1>7, <1>8, <1>9, <1>10, StepFollowed

\* The channel is told what the session and the SFU already have.
LEMMA PublishKeeps ==
    ASSUME PresenceInv, NEW t \in Threads, Publish(t)
    PROVE  PresenceInv'
<1>1. PICK l : Finished(l) /\ Becomes(t, l)
  BY DoneBecomes DEF Publish
<1>2. /\ th[t].pc = "publish" /\ UNCHANGED <<cs, flags, sfu, joins>>
      /\ told' = [told EXCEPT ![th[t].sid][th[t].f] = th[t].on]
  BY DEF Publish, At
<1>3. Moves(t, l) /\ th'[t] = l
  BY <1>1, MoverOf, OthersKeep DEF Finished, PresenceInv
<1>4. Handling(t)' /\ \A s, f : ~Writer(t, s, f)'
  BY <1>1, <1>3, WriterIsNext DEF Finished, Handling
<1>5. th[t].sid \in Conns /\ th[t].f \in Flags
  BY <1>2 DEF PresenceInv, Handling
<1>6. /\ DOMAIN told' = Conns
      /\ \A s \in Conns :
            /\ DOMAIN told'[s] = Flags
            /\ \A f \in Flags : told'[s][f] = IF s = th[t].sid /\ f = th[t].f
                                              THEN th[t].on ELSE told[s][f]
  BY <1>2, <1>5 DEF PresenceInv, Shapes
<1>7. Shapes' /\ Numbered'
  BY <1>2, <1>6 DEF PresenceInv, Shapes, Numbered
<1>8. \A u \in Threads \ {t} : Handling(u)'
  BY <1>2, <1>3, OthersHandle DEF LegsBehind
<1>9. ASSUME NEW s \in DOMAIN flags', NEW f \in Flags, <<s, f>> \notin contested'
      PROVE  Followed(s, f)'
  <2>1. s \in Conns /\ s \in DOMAIN flags
    BY <1>2 DEF PresenceInv, Shapes
  <2>2. Writer(t, s, f) <=> (s = th[t].sid /\ f = th[t].f)
    BY <1>2, WriterIs
  <2>3. CASE s = th[t].sid /\ f = th[t].f
    <3>1. <<s, f>> \notin contested
      BY <1>3, <1>4, <1>9, <2>1, Uncontested
    <3>2. flags[s][f] = th[t].on /\ HeardAs(s, f, th[t].on)
      BY <1>2, <2>1, <2>2, <2>3, <3>1 DEF PresenceInv, Followed, Midway
    <3>3. Agree(s, f)'
      BY <1>2, <1>6, <2>1, <2>3, <3>2 DEF Agree, HeardAs, Heard
    <3>4. l.pc \notin {"mutate", "link"}
      BY <1>1 DEF Finished
    <3> QED
      BY <1>3, <1>4, <1>9, <2>1, <2>2, <2>3, <3>3, <3>4, MoverFollowed
  <2>4. CASE ~(s = th[t].sid /\ f = th[t].f)
    <3>1. Untouched(s, f)
      BY <1>2, <1>6, <2>1, <2>4 DEF Untouched, Heard
    <3> QED
      BY <1>3, <1>4, <1>9, <2>1, <2>2, <2>4, <3>1, BystanderFollowed
  <2> QED
    BY <2>3, <2>4
<1> QED
  BY <1>3, <1>4, <1>7, <1>8, <1>9, StepFollowed

-----------------------------------------------------------------------------
(***************************************************************************)
(* Joins and teardowns                                                     *)
(***************************************************************************)

\* A session enters the call with fresh flags, and its join is their writer.
LEMMA JoinInsertKeeps ==
    ASSUME PresenceInv, NEW c \in Conns, JoinInsert(c)
    PROVE  PresenceInv'
<1> DEFINE l == [Idle EXCEPT !.pc = "link", !.sid = c]
           t == WS(c)
<1>1. Locals(l) /\ l.pc = "link" /\ l.sid = c /\ l.todo = {}
  BY DEF Locals, Idle
<1>2. /\ Becomes(t, l) /\ th[t].pc = "idle" /\ t \in Threads
      /\ UNCHANGED <<sfu, told>>
      /\ joins' = [joins EXCEPT ![c] = @ + 1]
      /\ flags' = Put(flags, c, FreshFlags)
  BY DEF JoinInsert, Begin, At, Threads
<1>3. PICK now \in Times : cs' = addSession(cs, c, NewSession(c, joins'[c], now))
  BY DEF JoinInsert
<1> HIDE DEF l, t
<1>4. Moves(t, l)
  BY <1>1, <1>2, MoverOf
<1>5. th'[t] = l
  BY <1>4, OthersKeep DEF PresenceInv
<1>6. /\ joins' \in [Conns -> Nat]
      /\ joins'[c] = joins[c] + 1
      /\ \A s \in Conns : s # c => joins'[s] = joins[s]
      /\ joins[c] \in Nat
  BY <1>2 DEF PresenceInv, Shapes
<1>7. /\ DOMAIN cs' = Fields
      /\ DOMAIN cs'.sessions = DOMAIN cs.sessions \cup {c}
      /\ \A s \in DOMAIN cs'.sessions :
            cs'.sessions[s].seq = IF s = c THEN joins'[c] ELSE cs.sessions[s].seq
  <2> DEFINE new == NewSession(c, joins'[c], now)
  <2>1. Added(cs', cs, c, new)
    BY <1>3, AddSessionFields DEF PresenceInv, Shapes
  <2>2. new.seq = joins'[c]
    BY DEF NewSession
  <2> HIDE DEF new
  <2> QED
    BY <2>1, <2>2 DEF Added
<1>8. /\ DOMAIN flags' = DOMAIN flags \cup {c}
      /\ flags'[c] = FreshFlags
      /\ \A s \in DOMAIN flags : s # c => flags'[s] = flags[s]
  BY <1>2 DEF Put
<1>9. DOMAIN FreshFlags = Flags
  BY DEF FreshFlags
<1>10. Shapes'
  BY <1>2, <1>6, <1>7, <1>8, <1>9 DEF PresenceInv, Shapes
<1>11. Numbered'
  BY <1>2, <1>6, <1>7 DEF PresenceInv, Numbered, Shapes
<1>12. c \in DOMAIN sfu' => sfu'[c].seq < joins'[c]
  BY <1>2, <1>6 DEF PresenceInv, Numbered
<1>13. Handling(t)'
  BY <1>1, <1>5, <1>12 DEF Handling, t
<1>14. LegsBehind
  BY <1>2, <1>6, <1>12 DEF LegsBehind
<1>15. \A u \in Threads \ {t} : Handling(u)'
  BY <1>4, <1>14, OthersHandle
<1>16. ASSUME NEW s \in DOMAIN flags', NEW f \in Flags, <<s, f>> \notin contested'
       PROVE  Followed(s, f)'
  <2>1. ~Writer(t, s, f) /\ (Writer(t, s, f)' <=> s = c)
    BY <1>1, <1>2, <1>5, WriterIs, WriterIsNext
  <2>2. CASE s = c
    <3>1. Midway(t, s, f)'
      BY <1>1, <1>5, <1>8, <2>2 DEF Midway
    <3> QED
      BY <1>4, <1>16, <2>1, <2>2, <3>1, MoverFollowed
  <2>3. CASE s # c
    <3>1. s \in DOMAIN flags /\ s \in Conns
      BY <1>8, <2>3 DEF PresenceInv, Shapes
    <3>2. Untouched(s, f)
      BY <1>2, <1>6, <1>8, <2>3, <3>1 DEF Untouched, Heard
    <3> QED
      BY <1>4, <1>16, <2>1, <2>3, <3>1, <3>2, BystanderFollowed
  <2> QED
    BY <2>2, <2>3
<1> QED
  BY <1>4, <1>10, <1>11, <1>13, <1>15, <1>16, StepFollowed

\* The SFU registers the join, or fails and serves an older one; either way
\* the channel is told of a fresh participant.
LEMMA JoinSFUKeeps ==
    ASSUME PresenceInv, NEW t \in Threads, JoinSFU(t)
    PROVE  PresenceInv'
<1> DEFINE sid == th[t].sid
           leg == [flags |-> FreshFlags, seq |-> joins[sid]]
<1>1. Locals(Idle) /\ Idle.pc = "idle" /\ Idle.todo = {}
  BY LocalsIdle
<1>2. /\ Becomes(t, Idle) /\ th[t].pc = "sfuJoin" /\ UNCHANGED <<cs, flags, joins>>
      /\ sfu' = Put(sfu, sid, leg) \/ sfu' = sfu
      /\ told' = [told EXCEPT ![sid] = FreshFlags]
  BY DEF JoinSFU, Return, Continue, At
<1>3. Moves(t, Idle)
  BY <1>1, <1>2, MoverOf
<1>4. th'[t] = Idle
  BY <1>3, OthersKeep DEF PresenceInv
<1>5. /\ sid \in Conns /\ t = WS(sid)
      /\ sid \in DOMAIN sfu => sfu[sid].seq < joins[sid]
  BY <1>2 DEF PresenceInv, Handling
<1>6. DOMAIN FreshFlags = Flags
  BY DEF FreshFlags
<1>7. DOMAIN leg = {"flags", "seq"} /\ leg.flags = FreshFlags /\ leg.seq = joins[sid]
  OBVIOUS
<1> HIDE DEF leg
<1>8. /\ \A s \in DOMAIN sfu' : s # sid => s \in DOMAIN sfu /\ sfu'[s] = sfu[s]
      /\ sid \in DOMAIN sfu' => sfu'[sid] = leg \/ (sid \in DOMAIN sfu /\ sfu'[sid] = sfu[sid])
  BY <1>2 DEF Put
<1>9. /\ DOMAIN told' = Conns
      /\ told'[sid] = FreshFlags
      /\ \A s \in Conns : s # sid => told'[s] = told[s]
  BY <1>2, <1>5 DEF PresenceInv, Shapes
<1>10. joins[sid] \in Nat
  BY <1>5 DEF PresenceInv, Shapes
<1> HIDE DEF sid
<1>11. Shapes'
  BY <1>2, <1>6, <1>7, <1>8, <1>9 DEF PresenceInv, Shapes
<1>12. Numbered'
  BY <1>2, <1>5, <1>7, <1>8, <1>10 DEF PresenceInv, Numbered
<1>13. Handling(t)'
  BY <1>1, <1>4 DEF Handling
<1>14. ASSUME NEW u \in Threads \ {t}
       PROVE  Handling(u)'
  <2>1. th'[u] = th[u] /\ Handling(u)
    BY <1>3, OthersKeep DEF PresenceInv
  <2>2. ASSUME th[u].pc \in {"link", "sfuJoin"}
        PROVE  th[u].sid # sid
    BY <1>5, <2>1, <2>2 DEF Handling
  <2> QED
    BY <1>2, <1>8, <2>1, <2>2 DEF Handling
<1>15. ASSUME NEW s \in DOMAIN flags', NEW f \in Flags, <<s, f>> \notin contested'
       PROVE  Followed(s, f)'
  <2>1. s \in Conns /\ s \in DOMAIN flags
    BY <1>2 DEF PresenceInv, Shapes
  <2>2. ~Writer(t, s, f)' /\ (Writer(t, s, f) <=> s = sid)
    BY <1>1, <1>2, <1>4, WriterIs, WriterIsNext DEF sid
  <2>3. CASE s = sid
    <3>1. <<s, f>> \notin contested
      BY <1>1, <1>3, <1>15, <2>1, Uncontested
    <3>2. flags[s][f] = FreshFlags[f]
      BY <1>2, <2>1, <2>2, <2>3, <3>1 DEF PresenceInv, Followed, Midway
    <3>3. HeardAs(s, f, FreshFlags[f])'
      BY <1>2, <1>5, <1>7, <1>8, <1>10, <2>3 DEF HeardAs, Heard, FreshFlags, PresenceInv, Numbered
    <3>4. Agree(s, f)'
      BY <1>2, <1>9, <2>3, <3>2, <3>3 DEF Agree, HeardAs, Heard
    <3> QED
      BY <1>1, <1>3, <1>15, <2>1, <2>2, <2>3, <3>4, MoverFollowed
  <2>4. CASE s # sid
    <3>1. Untouched(s, f)
      BY <1>2, <1>8, <1>9, <2>1, <2>4 DEF Untouched, Heard
    <3> QED
      BY <1>3, <1>15, <2>1, <2>2, <2>4, <3>1, BystanderFollowed
  <2> QED
    BY <2>3, <2>4
<1> QED
  BY <1>3, <1>11, <1>12, <1>13, <1>14, <1>15, StepFollowed

\* The session leaves the call with its flags; if it is gone already,
\* nothing happens.
LEMMA TeardownRemoveKeeps ==
    ASSUME PresenceInv, NEW t \in Threads, TeardownRemove(t)
    PROVE  PresenceInv'
<1> DEFINE sid == th[t].sid
<1>1. th[t].pc = "remove" /\ UNCHANGED <<sfu, told, joins>>
  BY DEF TeardownRemove, At
<1>2. CASE ~Present(sid)
  <2>1. Becomes(t, Idle) /\ UNCHANGED <<cs, flags>>
    BY <1>2 DEF TeardownRemove, Return, Continue
  <2>2. Locals(Idle) /\ Idle.pc = "idle" /\ Idle.todo = {}
    BY LocalsIdle
  <2>3. Moves(t, Idle)
    BY <2>1, <2>2, MoverOf
  <2> QED
    BY <1>1, <2>1, <2>2, <2>3, IdleStep DEF PresenceInv, Shapes
<1>3. CASE Present(sid)
  <2> DEFINE l == [th[t] EXCEPT !.pc = "unlink"]
  <2>1. Locals(l) /\ l.pc = "unlink" /\ l.todo = th[t].todo
    BY LocalsGoto DEF PresenceInv
  <2>2. Becomes(t, l) /\ cs' = removeSession(cs, sid) /\ flags' = Del(flags, sid)
    BY <1>3 DEF TeardownRemove, Goto, Continue
  <2> HIDE DEF l
  <2>3. Moves(t, l)
    BY <2>1, <2>2, MoverOf
  <2>4. th'[t] = l
    BY <2>3, OthersKeep DEF PresenceInv
  <2>5. th[t].todo \subseteq Conns /\ (th[t].todo # {} => "unmuted" \in Flags)
    BY DEF PresenceInv, Handling
  <2>6. /\ DOMAIN cs' = Fields
        /\ DOMAIN cs'.sessions = DOMAIN cs.sessions \ {sid}
        /\ \A s \in DOMAIN cs'.sessions : cs'.sessions[s] = cs.sessions[s]
    BY <2>2, RemoveSessionFields DEF PresenceInv, Shapes
  <2>7. /\ DOMAIN flags' = DOMAIN flags \ {sid}
        /\ \A s \in DOMAIN flags' : flags'[s] = flags[s]
    BY <2>2 DEF Del
  <2> HIDE DEF sid
  <2>8. Shapes' /\ Numbered'
    BY <1>1, <2>6, <2>7 DEF PresenceInv, Shapes, Numbered
  <2>9. Handling(t)'
    BY <2>1, <2>4, <2>5 DEF Handling
  <2>10. \A u \in Threads \ {t} : Handling(u)'
    BY <1>1, <2>3, OthersHandle DEF LegsBehind
  <2>11. ASSUME NEW s \in DOMAIN flags', NEW f \in Flags, <<s, f>> \notin contested'
         PROVE  Followed(s, f)'
    <3>1. s \in DOMAIN flags /\ Untouched(s, f)
      BY <1>1, <2>7 DEF Untouched, Heard
    <3>2. ~Writer(t, s, f) /\ ~Writer(t, s, f)'
      BY <1>1, <2>1, <2>4, WriterIs, WriterIsNext
    <3> QED
      BY <2>3, <2>11, <3>1, <3>2, BystanderFollowed
  <2> QED
    BY <2>3, <2>8, <2>9, <2>10, <2>11, StepFollowed
<1> QED
  BY <1>2, <1>3

\* The SFU lets go of a leg: one place less to agree.
LEMMA TeardownLeaveKeeps ==
    ASSUME PresenceInv, NEW t \in Threads, TeardownLeave(t)
    PROVE  PresenceInv'
<1>1. Locals(Idle) /\ Idle.pc = "idle" /\ Idle.todo = {}
  BY LocalsIdle
<1>2. /\ Becomes(t, Idle) /\ th[t].pc = "sfuLeave" /\ UNCHANGED <<flags, told, joins>>
      /\ sfu' = Del(sfu, th[t].sid) \/ sfu' = sfu
      /\ cs' = markEnded(cs) \/ cs' = cs
  BY DEF TeardownLeave, Return, Continue, At
<1>3. Moves(t, Idle)
  BY <1>1, <1>2, MoverOf
<1>4. th'[t] = Idle
  BY <1>3, OthersKeep DEF PresenceInv
<1>5. \A s \in DOMAIN sfu' : s \in DOMAIN sfu /\ sfu'[s] = sfu[s]
  BY <1>2 DEF Del
<1>6. DOMAIN cs' = Fields /\ cs'.sessions = cs.sessions
  BY <1>2 DEF markEnded, PresenceInv, Shapes, Fields
<1>7. Shapes' /\ Numbered'
  BY <1>2, <1>5, <1>6 DEF PresenceInv, Shapes, Numbered
<1>8. Handling(t)'
  BY <1>1, <1>4 DEF Handling
<1>9. \A u \in Threads \ {t} : Handling(u)'
  BY <1>2, <1>3, <1>5, OthersHandle DEF LegsBehind
<1>10. ASSUME NEW s \in DOMAIN flags', NEW f \in Flags, <<s, f>> \notin contested'
       PROVE  Followed(s, f)'
  <2>1. s \in DOMAIN flags /\ Untouched(s, f)
    BY <1>2, <1>5 DEF Untouched, Heard
  <2>2. ~Writer(t, s, f) /\ ~Writer(t, s, f)'
    BY <1>1, <1>2, <1>4, WriterIs, WriterIsNext
  <2> QED
    BY <1>3, <1>10, <2>1, <2>2, BystanderFollowed
<1> QED
  BY <1>3, <1>7, <1>8, <1>9, <1>10, StepFollowed

-----------------------------------------------------------------------------
(***************************************************************************)
(* The theorem                                                             *)
(***************************************************************************)

LEMMA InitFollowed ==
    ASSUME Init
    PROVE  PresenceInv
<1>1. DOMAIN cs.sessions = {} /\ DOMAIN cs = Fields
  BY NewShape DEF Init, CallShape
<1>2. DOMAIN flags = {} /\ DOMAIN sfu = {}
  BY DEF Init, EmptyMap
<1>3. Shapes
  BY <1>1, <1>2 DEF Init, Shapes, FreshFlags
<1>4. Numbered
  BY <1>1, <1>2 DEF Numbered
<1>5. /\ DOMAIN th = Threads
      /\ \A t \in Threads : th[t] = Idle
  BY DEF Init
<1>6. Threaded
  BY <1>5, LocalsIdle DEF Threaded
<1>7. \A t \in Threads : Handling(t)
  BY <1>5, LocalsIdle DEF Handling
<1>8. \A t \in Threads : \A s, f : ~Writer(t, s, f)
  BY <1>5, LocalsIdle, WriterIs
<1>9. Contest = {}
  BY <1>8 DEF Contest, Writer
<1> QED
  BY <1>2, <1>3, <1>4, <1>6, <1>7, <1>9 DEF PresenceInv

LEMMA StutterFollowed ==
    ASSUME PresenceInv, UNCHANGED vars
    PROVE  PresenceInv'
<1>1. UNCHANGED <<cs, flags, sfu, told, joins, th, contested>>
  BY DEF vars, state
<1>2. Shapes' /\ Threaded' /\ Numbered' /\ (\A t \in Threads : Handling(t)')
  BY <1>1 DEF PresenceInv, Shapes, Threaded, Numbered, Handling
<1>3. (Contest \subseteq contested)'
  BY <1>1 DEF PresenceInv, Contest, Writing
<1>4. \A s, f : Followed(s, f) => Followed(s, f)'
  BY <1>1 DEF Followed, Writer, Writing, Midway, Agree, HeardAs, Heard
<1> QED
  BY <1>1, <1>2, <1>3, <1>4 DEF PresenceInv

LEMMA NextFollowed ==
    ASSUME PresenceInv, [Next]_vars
    PROVE  PresenceInv'
<1>1. ASSUME NEW t \in Threads, Step(t)
      PROVE  PresenceInv'
  BY <1>1, JoinLinkKeeps, JoinSFUKeeps, TeardownRemoveKeeps, TeardownUnlinkKeeps,
     TeardownLeaveKeeps, SweepNextKeeps, SweepDoneKeeps, SendKeeps, SendFailsKeeps,
     MutateKeeps, PublishKeeps DEF Step
<1>2. ASSUME NEW c \in Conns, JoinInsert(c) \/ Leave(c)
      PROVE  PresenceInv'
  BY <1>2, JoinInsertKeeps, LeaveKeeps
<1>3. ASSUME NEW c \in Conns, NEW f \in Flags, NEW on \in BOOLEAN, Toggle(c, f, on)
      PROVE  PresenceInv'
  BY <1>3, ToggleKeeps
<1>4. ASSUME NEW user \in Users, NEW sid \in Conns,
             \/ HostControl(user, sid, "mute", "unmuted")
             \/ HostControl(user, sid, "screenOff", "screenOn")
             \/ HostControl(user, sid, "lowerHand", "hand")
             \/ HostRemove(user, sid)
      PROVE  PresenceInv'
  BY <1>4, HostControlKeeps, HostRemoveKeeps
<1>5. ASSUME NEW user \in Users, MuteOthers(user)
      PROVE  PresenceInv'
  BY <1>5, MuteOthersKeeps
<1>6. CASE UNCHANGED vars
  BY <1>6, StutterFollowed
<1> QED
  BY <1>1, <1>2, <1>3, <1>4, <1>5, <1>6 DEF Next

\* When no request is under way nobody writes, so what is followed agrees.
LEMMA FollowedSettles ==
    ASSUME PresenceInv
    PROVE  PresenceSettled
<1> SUFFICES ASSUME Quiescent, NEW s \in DOMAIN flags, NEW f \in Flags,
                    <<s, f>> \notin contested
             PROVE  /\ told[s][f] = flags[s][f]
                    /\ (f \in MediaFlags /\ Served(s)) => sfu[s].flags[f] = flags[s][f]
  BY DEF PresenceSettled
<1>1. \A t \in Threads : ~Writer(t, s, f)
  BY WriterIs DEF Quiescent, At
<1>2. Agree(s, f)
  BY <1>1 DEF PresenceInv, Followed
<1>3. cs.sessions[s].seq = joins[s]
  BY DEF PresenceInv, Shapes, Numbered
<1> QED
  BY <1>2, <1>3 DEF Agree, HeardAs, Heard, Served

\* For any number of participants, flags, requests and host controls, and
\* whichever messages to the SFU fail: when everything has come to rest, the
\* session's field, the SFU and the channel agree on every flag that no two
\* requests wrote at once (handleMuteToggle, muteOne, handleJoin).
THEOREM PresenceAlwaysSettles == Spec => []PresenceSettled
<1>1. Init => PresenceInv
  BY InitFollowed
<1>2. PresenceInv /\ [Next]_vars => PresenceInv'
  BY NextFollowed
<1>3. PresenceInv => PresenceSettled
  BY FollowedSettles
<1> QED
  BY <1>1, <1>2, <1>3, PTL DEF Spec
=============================================================================
