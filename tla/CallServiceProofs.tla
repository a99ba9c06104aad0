------------------------- MODULE CallServiceProofs --------------------------
(***************************************************************************)
(* The calls control plane is correct for any number of connections,       *)
(* channels, calls and joins, any participant limit, and any of the causes *)
(* and faults: one live call per channel, registered while it has          *)
(* participants, ended, recorded and announced at most once.               *)
(*                                                                         *)
(* The argument is about what the registries show every goroutine.  Shared *)
(* is that view; most steps leave it alone, so the proof of a step is that *)
(* the moving goroutine fits the view again (QuietMove), and only the      *)
(* seven steps that change the view are argued one by one.                 *)
(***************************************************************************)
EXTENDS CallService, CallStateOpsProofs

-----------------------------------------------------------------------------
(***************************************************************************)
(* The inductive invariant                                                 *)
(***************************************************************************)

Creating == {"save", "register"}                      \* not yet registered
Holding == Creating \cup {"announce"}                 \* holds a start lock
Starting == Holding \cup {"start"}
Seating == {"addIfLive", "insert", "link", "saveSession", "sfuJoin", "repoint"}
Leaving == {"remove", "unlink", "leave", "lastOut", "armed"}
Unrecorded == {"snapshot", "unshard", "unregister", "load", "persist"}
Ending == Unrecorded \cup {"close", "broadcast"}      \* has won markEnded

\* Who calls StartCall: the REST handler, and the joins of the read pumps.
Starters == {Rest} \cup {WS(c) : c \in Conns}

Locals == [pc : PCs, ch : Channels \cup {""}, g : Nat,
           sid : Conns \cup {NoConn}, seq : Nat, conn : Conns \cup {NoConn},
           tries : Nat, ids : SUBSET Conns, owned : BOOLEAN]

\* What every goroutine sees of the calls.
Shared == [known |-> DOMAIN calls, live |-> {g \in DOMAIN calls : Live(g)},
           chan |-> chanOf, shards |-> shards, reg |-> channelCalls,
           lock |-> startLock]

\* The registries: a channel's entry is a call of that channel, and a live
\* registered call is in its shard.
Sound(s) ==
    /\ \E n \in 0..MaxCalls : s.known = 1..n
    /\ s.live \subseteq s.known
    /\ s.chan \in [s.known -> Channels]
    /\ s.shards \subseteq s.known
    /\ s.reg \in [Channels -> s.known \cup {NoCall}]
    /\ s.lock \in [Channels -> Threads \cup {NoThread}]
    /\ \A ch \in Channels : s.reg[ch] # NoCall => s.chan[s.reg[ch]] = ch
    /\ \A ch \in Channels : s.reg[ch] \in s.live => s.reg[ch] \in s.shards

\* Goroutine t with locals r fits the view s.  Whoever creates a call holds
\* the channel's start lock and knows the channel has no live call; whoever
\* is about to join a live call found it registered; whoever is past
\* markEnded works on a call that has ended.
Fits(t, r, s) ==
    /\ r \in Locals
    /\ r.g \in s.known \cup {NoCall}
    /\ r.pc \notin {"idle", "start"} => r.g \in s.known
    /\ r.pc \in Starting \cup {"addIfLive"} => (r.ch \in Channels /\ t \in Starters)
    /\ r.pc \in Starting => (t = Rest \/ (r.sid \in Conns /\ r.conn \in Conns))
    /\ r.pc \in Seating => (r.sid \in Conns /\ r.conn \in Conns)
    /\ r.pc \in Leaving => r.sid \in Conns
    /\ r.pc \in Holding => (s.lock[r.ch] = t /\ s.chan[r.g] = r.ch)
    /\ r.pc \in Creating => s.reg[r.ch] \notin s.live
    /\ (r.pc \in Creating /\ r.g \in s.live) => r.g \in s.shards
    /\ (r.pc \in {"announce", "addIfLive", "insert"} /\ r.g \in s.live)
          => s.reg[s.chan[r.g]] = r.g
    /\ r.pc \in Ending => r.g \notin s.live

\* A live call in its shard is registered, or its creator is on the way to
\* register it.
Covered(s, thr) ==
    \A g \in s.shards \cap s.live :
        \/ s.reg[s.chan[g]] = g
        \/ \E t \in Threads : thr[t].pc \in Creating /\ thr[t].g = g

\* One goroutine at most ends a call, and what it has yet to write has not
\* been written.
EndersApart(s, thr, stats, ends) ==
    /\ \A t, u \in Threads :
          (thr[t].pc \in Ending /\ thr[u].pc \in Ending /\ thr[t].g = thr[u].g)
              => t = u
    /\ stats \in [CallIds -> {0, 1}]
    /\ ends \in [CallIds -> {0, 1}]
    /\ \A g \in CallIds : stats[g] = 1 =>
          /\ g \in s.known /\ g \notin s.live
          /\ \A t \in Threads : thr[t].pc \in Unrecorded => thr[t].g # g
    /\ \A g \in CallIds : ends[g] = 1 =>
          /\ g \in s.known /\ g \notin s.live
          /\ \A t \in Threads : thr[t].pc \in Ending => thr[t].g # g

\* The call states: within the limit, and registered while live and joined.
CallFits(g, cs, s) ==
    /\ CallShape(cs)
    /\ Limit > 0 => participants(cs) <= Limit
    /\ (g \in s.live /\ DOMAIN cs.sessions # {}) => s.reg[s.chan[g]] = g

CallsFit == \A g \in DOMAIN calls : CallFits(g, calls[g], Shared)

IndexFits(m, known) == DOMAIN m \subseteq Conns /\ \A c \in DOMAIN m : m[c] \in known

\* The session registry, the websockets, the database and the SFU.
OutsideFits ==
    /\ IndexFits(bySession, DOMAIN calls)
    /\ IndexFits(byConn, DOMAIN calls)
    /\ ws \in [Conns -> {"up", "replaced", "down", "gone"}]
    /\ lost \subseteq Conns
    /\ joins \in [Conns -> Nat]
    /\ DOMAIN callRow \subseteq DOMAIN calls
    /\ openRows \subseteq (DOMAIN calls) \X Conns
    /\ sfu \subseteq (DOMAIN calls) \X Conns

ThreadsFit(thr, s) ==
    /\ DOMAIN thr = Threads
    /\ thr = [t \in Threads |-> thr[t]]
    /\ \A t \in Threads : Fits(t, thr[t], s)

ServiceInv ==
    /\ Sound(Shared)
    /\ ThreadsFit(th, Shared)
    /\ Covered(Shared, th)
    /\ EndersApart(Shared, th, statRows, callEnds)
    /\ CallsFit
    /\ OutsideFits

-----------------------------------------------------------------------------
(***************************************************************************)
(* What every proof of a step uses                                         *)
(***************************************************************************)

\* What a step may make of the goroutine that takes it while the view stays
\* as it is: a creator goes on creating, nobody joins the enders.
Onward(p, r) ==
    /\ p.pc \in Creating => (r.pc \in Creating /\ r.g = p.g)
    /\ r.pc \in Unrecorded => (p.pc \in Unrecorded /\ r.g = p.g)
    /\ r.pc \in Ending => (p.pc \in Ending /\ r.g = p.g)

\* What is proved of every step: it keeps the invariant, and a channel sees
\* it as a step of ChannelCalls or not at all.
Kept == ServiceInv' /\ [Abstract!Next]_(Abstract!vars)

\* What a channel sees, in terms of the shared view.
PhaseIn(s) ==
    [g \in CallIds |-> IF g \notin s.known THEN "none"
                       ELSE IF g \notin s.live THEN "ended"
                       ELSE IF g \in s.shards THEN "live" ELSE "void"]
ChannelIn(s) == [g \in CallIds |-> IF g \in s.known THEN s.chan[g] ELSE ""]

\* The refinement mapping depends on the shared view alone.
LEMMA Mapped ==
    /\ Phase = PhaseIn(Shared) /\ Phase' = PhaseIn(Shared')
    /\ ChannelOf = ChannelIn(Shared) /\ ChannelOf' = ChannelIn(Shared')
BY DEF Phase, ChannelOf, PhaseIn, ChannelIn, Shared, Live

\* A step that keeps every call's phase, and records and announces nothing,
\* is one no channel sees.
LEMMA Unseen ==
    ASSUME PhaseIn(Shared') = PhaseIn(Shared), ChannelIn(Shared') = ChannelIn(Shared),
           UNCHANGED <<statRows, callEnds>>
    PROVE  [Abstract!Next]_(Abstract!vars)
BY Mapped DEF Abstract!vars

\* The sentinel that marks a free start lock is no goroutine.
LEMMA NoThreadApart == NoThread \notin Threads
BY DEF NoThread, Threads, WS, Grace, Rest, SFU, Reaper

\* The read pump and the grace timer of a connection are goroutines, and so
\* are the REST handler, the SFU pump and the reaper.
LEMMA ThreadsAre ==
    /\ \A c \in Conns : WS(c) \in Threads /\ Grace(c) \in Threads
    /\ Rest \in Threads /\ SFU \in Threads /\ Reaper \in Threads
BY DEF Threads

\* A grace timer starts no call.
LEMMA GraceStartsNothing == \A c \in Conns : Grace(c) \notin Starters
BY DEF Grace, Starters, WS, Rest

\* The sentinel for "no call" is not a call's id.
LEMMA NoCallApart ==
    ASSUME NEW s, Sound(s)
    PROVE  NoCall \notin s.known /\ s.known \subseteq CallIds
BY ServiceAssumption DEF Sound, NoCall, CallIds

\* An idle goroutine fits every view.
LEMMA IdleFits == \A t, s : Fits(t, Idle, s)
BY DEF Fits, Idle, Locals, PCs, Starting, Holding, Creating, Seating, Leaving,
       Ending, Unrecorded, NoCall

\* A goroutine that returns leaves no call half created or half ended, when
\* it was not creating one.
LEMMA IdleOnward == \A p : p.pc \notin Creating => Onward(p, Idle)
BY DEF Onward, Idle, Creating, Unrecorded, Ending

\* Moving the program counter leaves the other locals alone.
LEMMA PcMoved ==
    ASSUME NEW r \in Locals, NEW pc \in PCs
    PROVE  LET q == [r EXCEPT !.pc = pc]
           IN  /\ q \in Locals
               /\ q.pc = pc /\ q.ch = r.ch /\ q.g = r.g /\ q.sid = r.sid
               /\ q.conn = r.conn /\ q.ids = r.ids /\ q.owned = r.owned
BY DEF Locals

\* The shared view depends on four registries and on which calls have ended.
LEMMA SharedKept ==
    ASSUME UNCHANGED <<memory, startLock>>
    PROVE  Shared' = Shared /\ (CallsFit => CallsFit')
<1>1. Shared' = Shared
  BY DEF memory, Shared, Live
<1> QED
  BY <1>1 DEF CallsFit, memory

\* The session registry, the websockets and the tables stay well formed
\* when nothing touches them.
LEMMA OutsideKept ==
    ASSUME OutsideFits, DOMAIN calls' = DOMAIN calls,
           UNCHANGED <<index, wsVars, callRow, openRows, sfu>>
    PROVE  OutsideFits'
BY DEF OutsideFits, IndexFits, index, wsVars

\* A step that leaves the shared view alone keeps the invariant when the
\* goroutine that takes it fits the view again.
LEMMA QuietMove ==
    ASSUME ServiceInv, NEW t \in Threads, NEW r,
           th' = [th EXCEPT ![t] = r], Shared' = Shared,
           Fits(t, r, Shared), Onward(th[t], r),
           UNCHANGED <<statRows, callEnds>>, CallsFit', OutsideFits'
    PROVE  Kept
<1>1. /\ Sound(Shared)
      /\ ThreadsFit(th, Shared)
      /\ Covered(Shared, th)
      /\ EndersApart(Shared, th, statRows, callEnds)
  BY DEF ServiceInv
<1> DEFINE s == Shared
           new == [th EXCEPT ![t] = r]
<1>2. /\ new[t] = r
      /\ \A u \in Threads : u # t => new[u] = th[u]
      /\ DOMAIN new = Threads /\ new = [u \in Threads |-> new[u]]
  BY <1>1 DEF ThreadsFit
<1> HIDE DEF s, new
<1>3. ThreadsFit(new, s)
  BY <1>1, <1>2 DEF ThreadsFit, s
<1>4. Covered(s, new)
  <2> SUFFICES ASSUME NEW g \in s.shards \cap s.live, s.reg[s.chan[g]] # g
               PROVE  \E u \in Threads : new[u].pc \in Creating /\ new[u].g = g
    BY DEF Covered
  <2>1. PICK u \in Threads : th[u].pc \in Creating /\ th[u].g = g
    BY <1>1 DEF Covered, s
  <2>2. new[u].pc \in Creating /\ new[u].g = g
    BY <1>2, <2>1 DEF Onward
  <2> QED
    BY <2>2
<1>5. EndersApart(s, new, statRows, callEnds)
  <2>1. \A u \in Threads :
           /\ new[u].pc \in Unrecorded => (th[u].pc \in Unrecorded /\ new[u].g = th[u].g)
           /\ new[u].pc \in Ending => (th[u].pc \in Ending /\ new[u].g = th[u].g)
    BY <1>2 DEF Onward
  <2> QED
    BY <1>1, <2>1 DEF EndersApart, s
<1>6. [Abstract!Next]_(Abstract!vars)
  BY Unseen
<1> QED
  BY <1>1, <1>3, <1>4, <1>5, <1>6 DEF Kept, ServiceInv, s, new

\* The same for a step that changes no call state at all.
LEMMA QuietStep ==
    ASSUME ServiceInv, NEW t \in Threads, NEW r,
           th' = [th EXCEPT ![t] = r], Fits(t, r, Shared), Onward(th[t], r),
           UNCHANGED <<memory, startLock, statRows, callEnds>>, OutsideFits'
    PROVE  Kept
<1>1. Shared' = Shared /\ CallsFit'
  BY SharedKept DEF ServiceInv
<1> QED
  BY <1>1, QuietMove

\* The same for a step that returns.
LEMMA QuietReturn ==
    ASSUME ServiceInv, NEW t \in Threads, Return(t), th[t].pc \notin Creating,
           UNCHANGED <<memory, startLock, statRows, callEnds>>, OutsideFits'
    PROVE  Kept
<1>1. th' = [th EXCEPT ![t] = Idle] /\ Fits(t, Idle, Shared) /\ Onward(th[t], Idle)
  BY IdleFits, IdleOnward DEF Return
<1> QED
  BY <1>1, QuietStep

\* A step that rewrites one call state, short of ending the call: sessions
\* are added to a live call only while it is registered.
LEMMA CallMove ==
    ASSUME ServiceInv, NEW t \in Threads, NEW r, NEW g \in DOMAIN calls, NEW cs,
           th' = [th EXCEPT ![t] = r], Fits(t, r, Shared), Onward(th[t], r),
           calls' = [calls EXCEPT ![g] = cs], Shaped(cs, calls[g], Limit),
           \/ DOMAIN cs.sessions \subseteq DOMAIN calls[g].sessions
           \/ Live(g) => channelCalls[chanOf[g]] = g,
           UNCHANGED <<chanOf, shards, channelCalls, startLock, statRows, callEnds>>,
           OutsideFits'
    PROVE  Kept
<1>1. DOMAIN calls' = DOMAIN calls /\ calls'[g] = cs
      /\ \A h \in DOMAIN calls : h # g => calls'[h] = calls[h]
  OBVIOUS
<1>2. \A h \in DOMAIN calls : calls'[h].ended = calls[h].ended
  BY <1>1 DEF Shaped
<1>3. Shared' = Shared
  BY <1>1, <1>2 DEF Shared, Live
<1>4. CallsFit'
  <2>1. CallFits(g, calls[g], Shared)
    BY DEF ServiceInv, CallsFit
  <2>2. CallFits(g, cs, Shared)
    <3>1. CallShape(cs)
      BY DEF Shaped
    <3>2. Limit > 0 => participants(cs) <= Limit
      BY <2>1 DEF CallFits, Shaped
    <3>3. ASSUME g \in Shared.live, DOMAIN cs.sessions # {}
          PROVE  Shared.reg[Shared.chan[g]] = g
      BY <2>1, <3>3 DEF CallFits, Shared
    <3> QED
      BY <3>1, <3>2, <3>3 DEF CallFits
  <2>3. \A h \in DOMAIN calls : CallFits(h, calls'[h], Shared)
    BY <1>1, <2>2 DEF ServiceInv, CallsFit
  <2> QED
    BY <1>1, <1>3, <2>3 DEF CallsFit
<1> QED
  BY <1>3, <1>4, QuietMove

\* What the invariant says of one goroutine.
LEMMA Mine ==
    ASSUME ServiceInv, NEW t \in Threads
    PROVE  /\ Fits(t, th[t], Shared)
           /\ th[t] \in Locals
           /\ th[t].pc \notin {"idle", "start"} => th[t].g \in DOMAIN calls
BY DEF ServiceInv, ThreadsFit, Fits, Shared

\* A goroutine in the middle of a handler that moves on within its phase
\* still fits.
LEMMA PcFits ==
    ASSUME NEW t, NEW s, NEW r, Fits(t, r, s), NEW pc \in PCs,
           r.pc \notin {"idle", "start"},
           pc \notin Starting \cup {"addIfLive", "insert"},
           pc \in Seating => r.pc \in Seating,
           pc \in Leaving => r.pc \in Leaving,
           pc \in Ending => r.pc \in Ending
    PROVE  Fits(t, [r EXCEPT !.pc = pc], s)
<1> DEFINE q == [r EXCEPT !.pc = pc]
<1>1. /\ q \in Locals
      /\ q.pc = pc /\ q.ch = r.ch /\ q.g = r.g /\ q.sid = r.sid /\ q.conn = r.conn
  BY PcMoved DEF Fits
<1> HIDE DEF q
<1> SUFFICES Fits(t, q, s)
  BY DEF q
<1> QED
  BY <1>1 DEF Fits, Starting, Holding, Creating

-----------------------------------------------------------------------------
(***************************************************************************)
(* StartCall                                                               *)
(***************************************************************************)

\* A start that finds the channel's live call goes on with it.
LEMMA StartReuseInv ==
    ASSUME ServiceInv, NEW t \in Threads, StartReuse(t)
    PROVE  Kept
<1> DEFINE ch == th[t].ch
           g == channelCalls[ch]
           q == [th[t] EXCEPT !.pc = "addIfLive", !.g = g]
<1>1. /\ Fits(t, th[t], Shared) /\ th[t] \in Locals /\ th[t].pc = "start"
      /\ OutsideFits'
      /\ UNCHANGED <<memory, startLock, statRows, callEnds>>
  <2>1. OutsideFits'
    BY OutsideKept DEF StartReuse, memory, store, outside, ServiceInv
  <2> QED
    BY <2>1, Mine DEF StartReuse, At, store, outside
<1>2. CASE t = Rest
  <2>1. Return(t)
    BY <1>2 DEF StartReuse, Started
  <2> QED
    BY <1>1, <2>1, QuietReturn DEF Creating
<1>3. CASE t # Rest
  <2>1. th' = [th EXCEPT ![t] = q]
    BY <1>3 DEF StartReuse, Started
  <2>2. /\ ch \in Channels /\ th[t].sid \in Conns /\ th[t].conn \in Conns
        /\ t \in Starters
        /\ g \in DOMAIN calls /\ g \in Nat /\ chanOf[g] = ch
    <3>1. /\ ch \in Channels /\ th[t].sid \in Conns /\ th[t].conn \in Conns
          /\ t \in Starters
      BY <1>1, <1>3 DEF Fits, Starting
    <3>2. g # NoCall
      BY DEF StartReuse, LiveCallOf
    <3>3. Sound(Shared)
      BY DEF ServiceInv
    <3>4. g \in DOMAIN calls /\ chanOf[g] = ch
      BY <3>1, <3>2, <3>3 DEF Sound, Shared
    <3>5. DOMAIN calls \subseteq CallIds
      BY <3>3, NoCallApart DEF Shared
    <3> QED
      BY <3>1, <3>4, <3>5 DEF CallIds
  <2>3. /\ q \in Locals /\ q.pc = "addIfLive" /\ q.g = g /\ q.ch = ch
        /\ q.sid = th[t].sid /\ q.conn = th[t].conn
    BY <1>1, <2>2 DEF Locals, PCs
  <2> HIDE DEF q, g, ch
  <2>4. Fits(t, q, Shared)
    BY <2>2, <2>3 DEF Fits, Shared, Starting, Holding, Creating, Seating, Leaving,
                      Ending, Unrecorded, g
  <2>5. Onward(th[t], q)
    BY <1>1, <2>3 DEF Onward, Creating, Unrecorded, Ending
  <2> QED
    BY <1>1, <2>1, <2>4, <2>5, QuietStep
<1> QED
  BY <1>2, <1>3

\* A start without a host returns.
LEMMA StartNoHostInv ==
    ASSUME ServiceInv, NEW t \in Threads, StartNoHost(t)
    PROVE  Kept
<1>1. OutsideFits'
  BY OutsideKept DEF StartNoHost, memory, store, outside, ServiceInv
<1> QED
  BY <1>1, QuietReturn DEF StartNoHost, At, store, outside, Creating

\* The row of a new call is saved.
LEMMA StartSaveInv ==
    ASSUME ServiceInv, NEW t \in Threads, StartSave(t)
    PROVE  Kept
<1> DEFINE q == [th[t] EXCEPT !.pc = "register"]
<1>1. Fits(t, th[t], Shared) /\ th[t] \in Locals /\ th[t].pc = "save"
      /\ th[t].g \in DOMAIN calls
  BY Mine DEF StartSave, At
<1>2. th' = [th EXCEPT ![t] = q]
  BY DEF StartSave, Goto
<1>3. /\ q \in Locals /\ q.pc = "register" /\ q.ch = th[t].ch /\ q.g = th[t].g
      /\ q.sid = th[t].sid /\ q.conn = th[t].conn
  BY <1>1 DEF Locals, PCs
<1>4. OutsideFits'
  BY <1>1 DEF StartSave, Put, OutsideFits, IndexFits, memory, index, wsVars, outside,
              ServiceInv
<1> HIDE DEF q
<1>5. Fits(t, q, Shared)
  BY <1>1, <1>3 DEF Fits, Starting, Holding, Creating, Seating, Leaving,
                    Ending, Unrecorded
<1>6. Onward(th[t], q)
  BY <1>1, <1>3 DEF Onward, Creating, Unrecorded, Ending
<1> QED
  BY <1>2, <1>4, <1>5, <1>6, QuietStep DEF StartSave, outside

-----------------------------------------------------------------------------
(***************************************************************************)
(* handleJoin                                                              *)
(***************************************************************************)

\* A join that passes the fast path calls StartCall.
LEMMA JoinBeginInv ==
    ASSUME ServiceInv, NEW c \in Conns, NEW ch \in Channels, JoinBegin(c, ch)
    PROVE  Kept
<1> DEFINE q == [Idle EXCEPT !.pc = "start", !.ch = ch, !.sid = c, !.conn = c,
                             !.tries = 1]
<1>1. /\ q \in Locals /\ q.pc = "start" /\ q.ch = ch /\ q.g = NoCall
      /\ q.sid = c /\ q.conn = c
  BY DEF Idle, Locals, PCs, NoCall, NoConn
<1>2. th' = [th EXCEPT ![WS(c)] = q] /\ th[WS(c)].pc = "idle" /\ WS(c) \in Threads
  BY ThreadsAre DEF JoinBegin, At
<1>3. OutsideFits'
  BY DEF JoinBegin, OutsideFits, IndexFits, memory, index, wsVars, store, outside,
         ServiceInv
<1> HIDE DEF q
<1>4. Fits(WS(c), q, Shared)
  BY <1>1 DEF Fits, Starters, Starting, Holding, Creating, Seating, Leaving, Ending, Unrecorded
<1>5. Onward(th[WS(c)], q)
  BY <1>1, <1>2 DEF Onward, Creating, Unrecorded, Ending
<1> QED
  BY <1>2, <1>3, <1>4, <1>5, QuietStep DEF JoinBegin, store, outside

\* A join goes on to insert its session, starts over, or gives up.
LEMMA JoinCheckLiveInv ==
    ASSUME ServiceInv, NEW t \in Threads, JoinCheckLive(t)
    PROVE  Kept
<1> DEFINE insert == [th[t] EXCEPT !.pc = "insert"]
           again == [th[t] EXCEPT !.pc = "start", !.tries = th[t].tries + 1]
<1>1. Fits(t, th[t], Shared) /\ th[t] \in Locals /\ th[t].pc = "addIfLive"
  BY Mine DEF JoinCheckLive, At
<1>2. PICK r \in {insert, again, Idle} : th' = [th EXCEPT ![t] = r]
  <2>1. CASE th[t].g \in shards /\ Live(th[t].g)
    BY <2>1 DEF JoinCheckLive, Goto
  <2>2. CASE ~(th[t].g \in shards /\ Live(th[t].g)) /\ th[t].tries < MaxAttempts
    BY <2>2 DEF JoinCheckLive
  <2>3. CASE ~(th[t].g \in shards /\ Live(th[t].g)) /\ ~(th[t].tries < MaxAttempts)
    BY <2>3 DEF JoinCheckLive, Return
  <2> QED
    BY <2>1, <2>2, <2>3
<1>3. OutsideFits'
  BY OutsideKept DEF JoinCheckLive, memory, store, outside, ServiceInv
<1>4. Fits(t, insert, Shared) /\ Onward(th[t], insert)
  <2>1. /\ insert \in Locals /\ insert.pc = "insert" /\ insert.ch = th[t].ch
        /\ insert.g = th[t].g /\ insert.sid = th[t].sid /\ insert.conn = th[t].conn
    BY <1>1 DEF Locals, PCs
  <2> HIDE DEF insert
  <2> QED
    BY <1>1, <2>1 DEF Fits, Starting, Holding, Creating, Seating, Leaving, Ending,
                      Unrecorded, Onward
<1>5. Fits(t, again, Shared) /\ Onward(th[t], again)
  <2>1. /\ again \in Locals /\ again.pc = "start" /\ again.ch = th[t].ch
        /\ again.g = th[t].g /\ again.sid = th[t].sid /\ again.conn = th[t].conn
    <3>1. ASSUME NEW n \in Nat
          PROVE  LET q == [th[t] EXCEPT !.pc = "start", !.tries = n]
                 IN  /\ q \in Locals /\ q.pc = "start" /\ q.ch = th[t].ch
                     /\ q.g = th[t].g /\ q.sid = th[t].sid /\ q.conn = th[t].conn
      BY <1>1 DEF Locals, PCs
    <3>2. th[t].tries \in Nat
      BY <1>1 DEF Locals
    <3>3. th[t].tries + 1 \in Nat
      BY <3>2
    <3> QED
      BY <3>1, <3>3
  <2> HIDE DEF again
  <2> QED
    BY <1>1, <2>1 DEF Fits, Starting, Holding, Creating, Seating, Leaving, Ending,
                      Unrecorded, Onward
<1>6. Fits(t, r, Shared) /\ Onward(th[t], r)
  <2>1. Fits(t, Idle, Shared) /\ Onward(th[t], Idle)
    BY <1>1, IdleFits, IdleOnward DEF Creating
  <2> QED
    BY <1>2, <1>4, <1>5, <2>1
<1> QED
  BY <1>2, <1>3, <1>6, QuietStep DEF JoinCheckLive, store, outside

\* A session is inserted only while its call is registered or has ended,
\* and never past the limit.
LEMMA JoinInsertInv ==
    ASSUME ServiceInv, NEW t \in Threads, JoinInsert(t)
    PROVE  Kept
<1> DEFINE g == th[t].g
           sid == th[t].sid
           q == [th[t] EXCEPT !.pc = "link"]
<1>1. /\ Fits(t, th[t], Shared) /\ th[t] \in Locals /\ th[t].pc = "insert"
      /\ g \in DOMAIN calls
  BY Mine DEF JoinInsert, At
<1>2. CASE AtLimit(calls[g], sid, Limit)
  <2>1. Return(t) /\ UNCHANGED <<memory, startLock, statRows, callEnds>>
    BY <1>2 DEF JoinInsert, memory, store, outside
  <2>2. OutsideFits'
    BY <1>2, OutsideKept DEF JoinInsert, store, outside, ServiceInv
  <2> QED
    BY <1>1, <2>1, <2>2, QuietReturn DEF Creating
<1>3. CASE ~AtLimit(calls[g], sid, Limit)
  <2>1. PICK now \in Times :
           calls' = [calls EXCEPT ![g] =
                        addSession(@, sid, NewSession(sid, joins[sid], now))]
    BY <1>3 DEF JoinInsert
  <2> DEFINE cs == addSession(calls[g], sid, NewSession(sid, joins[sid], now))
  <2>2. calls' = [calls EXCEPT ![g] = cs]
    BY <2>1
  <2>3. sid \in Conns /\ joins[sid] \in Nat /\ Limit \in Nat /\ CallShape(calls[g])
    <3>1. sid \in Conns
      BY <1>1 DEF Fits, Seating
    <3> QED
      BY <1>1, <3>1, ServiceAssumption
         DEF ServiceInv, OutsideFits, CallsFit, CallFits
  <2>4. Shaped(cs, calls[g], Limit)
    BY <1>3, <2>3, AddShape
  <2> HIDE DEF cs
  <2>5. Live(g) => channelCalls[chanOf[g]] = g
    BY <1>1 DEF Fits, Shared
  <2>6. th' = [th EXCEPT ![t] = q]
    BY <1>3 DEF JoinInsert, Goto
  <2>7. Fits(t, q, Shared)
    BY <1>1, PcFits DEF Starting, Holding, Creating, Seating, Leaving, Ending,
                        Unrecorded, PCs
  <2>8. Onward(th[t], q)
    <3>1. q.pc = "link"
      BY <1>1 DEF Locals
    <3> QED
      BY <1>1, <3>1 DEF Onward, Creating, Unrecorded, Ending
  <2>9. OutsideFits'
    BY <2>2, OutsideKept DEF JoinInsert, store, outside, ServiceInv
  <2>10. UNCHANGED <<chanOf, shards, channelCalls, startLock, statRows, callEnds>>
    BY DEF JoinInsert, store, outside
  <2> HIDE DEF q, g, sid
  <2> QED
    BY <1>1, <2>2, <2>4, <2>5, <2>6, <2>7, <2>8, <2>9, <2>10, CallMove
<1> QED
  BY <1>2, <1>3

\* A goroutine that moves its program counter and writes nothing a call
\* depends on.
LEMMA GotoInv ==
    ASSUME ServiceInv, NEW t \in Threads, NEW pc \in PCs, Goto(t, pc),
           UNCHANGED <<memory, startLock, statRows, callEnds>>, OutsideFits',
           th[t].pc \notin Creating \cup {"idle", "start"},
           pc \notin Starting \cup {"addIfLive", "insert"},
           pc \in Seating => th[t].pc \in Seating,
           pc \in Leaving => th[t].pc \in Leaving,
           pc \in Unrecorded => th[t].pc \in Unrecorded,
           pc \in Ending => th[t].pc \in Ending
    PROVE  Kept
<1> DEFINE q == [th[t] EXCEPT !.pc = pc]
<1>1. Fits(t, th[t], Shared) /\ th[t] \in Locals
  BY Mine
<1>2. Fits(t, q, Shared)
  BY <1>1, PcFits
<1>3. Onward(th[t], q)
  <2>1. q.pc = pc /\ q.g = th[t].g
    BY <1>1 DEF Locals
  <2> QED
    BY <2>1 DEF Onward
<1>4. th' = [th EXCEPT ![t] = q]
  BY DEF Goto
<1> QED
  BY <1>2, <1>3, <1>4, QuietStep

\* The session registry learns of the session.
LEMMA JoinLinkInv ==
    ASSUME ServiceInv, NEW t \in Threads, JoinLink(t)
    PROVE  Kept
<1>1. th[t].pc = "link" /\ th[t].g \in DOMAIN calls
      /\ th[t].sid \in Conns /\ th[t].conn \in Conns
  BY Mine DEF JoinLink, At, Fits, Seating
<1>2. OutsideFits'
  BY <1>1 DEF JoinLink, Put, OutsideFits, IndexFits, memory, wsVars, store, outside,
              ServiceInv
<1> QED
  BY <1>1, <1>2, GotoInv DEF JoinLink, store, outside, Starting, Holding, Creating,
                             Seating, Leaving, Ending, Unrecorded, PCs

\* The session's row is saved, or not.
LEMMA JoinSaveInv ==
    ASSUME ServiceInv, NEW t \in Threads, JoinSave(t)
    PROVE  Kept
<1>1. th[t].pc = "saveSession" /\ th[t].g \in DOMAIN calls /\ th[t].sid \in Conns
  BY Mine DEF JoinSave, At, Fits, Seating
<1>2. OutsideFits'
  BY <1>1 DEF JoinSave, OutsideFits, IndexFits, memory, index, wsVars, outside,
              ServiceInv
<1> QED
  BY <1>1, <1>2, GotoInv DEF JoinSave, outside, Starting, Holding, Creating, Seating,
                             Leaving, Ending, Unrecorded, PCs

\* The SFU holds the session, or not, and the join is answered.
LEMMA JoinSFUInv ==
    ASSUME ServiceInv, NEW t \in Threads, JoinSFU(t)
    PROVE  Kept
<1>1. th[t].pc = "sfuJoin" /\ th[t].g \in DOMAIN calls /\ th[t].sid \in Conns
  BY Mine DEF JoinSFU, At, Fits, Seating
<1>2. OutsideFits'
  BY <1>1 DEF JoinSFU, OutsideFits, IndexFits, memory, index, wsVars, store,
              ServiceInv
<1> QED
  BY <1>1, <1>2, QuietReturn DEF JoinSFU, store, Creating

-----------------------------------------------------------------------------
(***************************************************************************)
(* The steps that change what everybody sees                               *)
(***************************************************************************)

\* One goroutine moves, the others stay where they are.
LEMMA OneMoves ==
    ASSUME ServiceInv, NEW t \in Threads, NEW r, NEW s,
           th' = [th EXCEPT ![t] = r], Fits(t, r, s),
           \A u \in Threads : u # t => Fits(u, th[u], s)
    PROVE  /\ ThreadsFit(th', s)
           /\ th'[t] = r
           /\ \A u \in Threads : u # t => th'[u] = th[u]
<1>1. DOMAIN th = Threads /\ th = [u \in Threads |-> th[u]]
  BY DEF ServiceInv, ThreadsFit
<1>2. /\ th'[t] = r
      /\ \A u \in Threads : u # t => th'[u] = th[u]
      /\ DOMAIN th' = Threads /\ th' = [u \in Threads |-> th'[u]]
  BY <1>1
<1> QED
  BY <1>2 DEF ThreadsFit

\* A goroutine outside endCallState moves to a place outside it: the enders
\* stay apart when no call comes back to life.
LEMMA EndersStay ==
    ASSUME NEW s, NEW new, NEW stats, NEW ends, NEW thr, NEW thr2, NEW t \in Threads,
           EndersApart(s, thr, stats, ends),
           s.known \subseteq new.known,
           \A g \in s.known : g \in new.live => g \in s.live,
           thr2[t].pc \notin Ending,
           \A u \in Threads : u # t => thr2[u] = thr[u]
    PROVE  EndersApart(new, thr2, stats, ends)
<1>1. \A u \in Threads : thr2[u].pc \in Ending => u # t /\ thr2[u] = thr[u]
  OBVIOUS
<1>2. \A pc \in Unrecorded : pc \in Ending
  BY DEF Ending
<1> QED
  BY <1>1, <1>2 DEF EndersApart

\* The id of a new call is fresh.
LEMMA FreshId ==
    ASSUME Sound(Shared), Cardinality(DOMAIN calls) + 1 \in CallIds
    PROVE  LET g == Cardinality(DOMAIN calls) + 1
           IN  /\ g \notin DOMAIN calls
               /\ \E n \in 0..MaxCalls : DOMAIN calls \cup {g} = 1..n
<1>1. PICK n \in 0..MaxCalls : DOMAIN calls = 1..n
  BY DEF Sound, Shared
<1>2. Cardinality(1..n) = n
  <2>1. Cardinality(1..n) = IF 1 > n THEN 0 ELSE n - 1 + 1
    BY FS_Interval
  <2> QED
    BY <2>1
<1>3. n + 1 \in 0..MaxCalls /\ DOMAIN calls \cup {n + 1} = 1..(n + 1)
  BY <1>1, <1>2, ServiceAssumption DEF CallIds
<1> QED
  BY <1>1, <1>2, <1>3

\* A new call: its creator takes the free start lock of a channel that has
\* no live call.
LEMMA StartCreateInv ==
    ASSUME ServiceInv, NEW t \in Threads, StartCreate(t)
    PROVE  Kept
<1> DEFINE g == Cardinality(DOMAIN calls) + 1
           ch == th[t].ch
           s == Shared
           new == Shared'
           q == [th[t] EXCEPT !.pc = "save", !.g = g]
<1>1. /\ Sound(s) /\ Fits(t, th[t], s) /\ th[t] \in Locals /\ th[t].pc = "start"
      /\ ch \in Channels
  BY Mine DEF ServiceInv, StartCreate, At, Fits, Starting
<1>2. /\ g \in CallIds /\ g \in Nat /\ g \notin DOMAIN calls
      /\ \E n \in 0..MaxCalls : DOMAIN calls \cup {g} = 1..n
  BY <1>1, FreshId DEF StartCreate, CallIds
<1>3. /\ DOMAIN calls' = DOMAIN calls \cup {g}
      /\ calls'[g] = newCallState
      /\ \A h \in DOMAIN calls : calls'[h] = calls[h]
      /\ DOMAIN chanOf' = DOMAIN chanOf \cup {g}
      /\ chanOf' = [h \in DOMAIN chanOf \cup {g} |-> IF h = g THEN ch ELSE chanOf[h]]
      /\ startLock' = [startLock EXCEPT ![ch] = t]
      /\ startLock[ch] = NoThread
      /\ shards' = shards \cup {g}
      /\ channelCalls' = channelCalls
      /\ th' = [th EXCEPT ![t] = q]
  BY <1>2 DEF StartCreate, Put
<1>4. /\ new.known = s.known \cup {g}
      /\ new.live = s.live \cup {g}
      /\ new.chan = [h \in s.known \cup {g} |-> IF h = g THEN ch ELSE s.chan[h]]
      /\ new.shards = s.shards \cup {g}
      /\ new.reg = s.reg
      /\ new.lock = [s.lock EXCEPT ![ch] = t]
      /\ s.lock[ch] = NoThread
      /\ g \notin s.known
      /\ \E n \in 0..MaxCalls : new.known = 1..n
  <2>1. newCallState.ended = FALSE
    BY DEF newCallState
  <2>2. DOMAIN chanOf = DOMAIN calls
    BY <1>1 DEF Sound, Shared
  <2> QED
    BY <1>2, <1>3, <2>1, <2>2 DEF Shared, Live
<1>5. s.reg[ch] \notin s.live
  BY <1>1, NoCallApart DEF StartCreate, LiveCallOf, Shared, Sound
<1>6. /\ q \in Locals /\ q.pc = "save" /\ q.g = g /\ q.ch = ch
      /\ q.sid = th[t].sid /\ q.conn = th[t].conn
  BY <1>1, <1>2 DEF Locals, PCs
<1>7. g # NoCall
  BY <1>2 DEF CallIds, NoCall
<1> HIDE DEF g, ch, s, new, q
<1>8. Sound(new)
  <2>1. new.reg \in [Channels -> new.known \cup {NoCall}]
    BY <1>1, <1>4 DEF Sound
  <2>2. new.lock \in [Channels -> Threads \cup {NoThread}]
    BY <1>1, <1>4 DEF Sound
  <2>3. new.chan \in [new.known -> Channels]
    BY <1>1, <1>4 DEF Sound
  <2>4. \A c \in Channels : new.reg[c] # NoCall => new.chan[new.reg[c]] = c
    BY <1>1, <1>4 DEF Sound
  <2>5. \A c \in Channels : new.reg[c] \in new.live => new.reg[c] \in new.shards
    BY <1>1, <1>4 DEF Sound
  <2>6. new.live \subseteq new.known /\ new.shards \subseteq new.known
    BY <1>1, <1>4 DEF Sound
  <2> QED
    BY <1>4, <2>1, <2>2, <2>3, <2>4, <2>5, <2>6 DEF Sound
<1>9. ASSUME NEW u \in Threads, u # t PROVE Fits(u, th[u], new)
  <2> DEFINE r == th[u]
  <2>1. Fits(u, r, s)
    BY Mine DEF s
  <2> HIDE DEF r
  <2>2. r.pc \in Holding => (r.ch \in Channels /\ r.ch # ch /\ r.g \in s.known)
    BY <1>4, <2>1, NoThreadApart DEF Fits, Starting, Holding, Creating
  <2>3. r.pc \in Holding => (new.lock[r.ch] = u /\ new.chan[r.g] = r.ch)
    BY <1>1, <1>4, <2>1, <2>2 DEF Fits, Sound
  <2>4. r.pc \in Creating => new.reg[r.ch] \notin new.live
    <3>1. \A c \in Channels : s.reg[c] # g
      BY <1>1, <1>4, <1>7 DEF Sound
    <3> QED
      BY <1>4, <2>1, <2>2, <3>1 DEF Fits, Holding
  <2>5. (r.pc \in Creating /\ r.g \in new.live) => r.g \in new.shards
    BY <1>4, <2>1 DEF Fits
  <2>6. (r.pc \in {"announce", "addIfLive", "insert"} /\ r.g \in new.live)
           => new.reg[new.chan[r.g]] = r.g
    BY <1>4, <2>1 DEF Fits
  <2>7. r.pc \in Ending => r.g \notin new.live
    BY <1>4, <2>1 DEF Fits, Ending, Unrecorded
  <2> QED
    BY <1>4, <2>1, <2>3, <2>4, <2>5, <2>6, <2>7 DEF Fits, r
<1>10. Fits(t, q, new)
  <2>1. new.lock[ch] = t /\ new.chan[g] = ch /\ new.reg[ch] \notin new.live
    BY <1>1, <1>4, <1>5, <1>7 DEF Sound
  <2>2. t = Rest \/ (q.sid \in Conns /\ q.conn \in Conns)
    BY <1>1, <1>6 DEF Fits, Starting
  <2> QED
    BY <1>1, <1>4, <1>6, <2>1, <2>2 DEF Fits, Starting, Holding, Creating, Seating,
                                        Leaving, Ending, Unrecorded
<1>11. /\ ThreadsFit(th', new)
       /\ th'[t] = q
       /\ \A u \in Threads : u # t => th'[u] = th[u]
  BY <1>3, <1>9, <1>10, OneMoves
<1>12. Covered(new, th')
  <2> SUFFICES ASSUME NEW h \in new.shards \cap new.live
               PROVE  \/ new.reg[new.chan[h]] = h
                      \/ \E u \in Threads : th'[u].pc \in Creating /\ th'[u].g = h
    BY DEF Covered
  <2>1. CASE h = g
    BY <1>6, <1>11, <2>1 DEF Creating
  <2>2. CASE h # g
    <3>1. Covered(s, th) /\ h \in s.shards \cap s.live
      BY <1>4, <2>2 DEF ServiceInv, s
    <3>2. CASE s.reg[s.chan[h]] = h
      BY <1>1, <1>4, <2>2, <3>1, <3>2 DEF Sound
    <3>3. CASE \E u \in Threads : th[u].pc \in Creating /\ th[u].g = h
      BY <1>1, <1>11, <3>3 DEF Creating
    <3> QED
      BY <3>1, <3>2, <3>3 DEF Covered
  <2> QED
    BY <2>1, <2>2
<1>13. EndersApart(new, th', statRows, callEnds)
  <2>1. EndersApart(s, th, statRows, callEnds)
    BY DEF ServiceInv, s
  <2>2. th'[t].pc \notin Ending
    BY <1>6, <1>11 DEF Ending, Unrecorded
  <2>3. s.known \subseteq new.known /\ \A h \in s.known : h \in new.live => h \in s.live
    BY <1>4
  <2> QED
    BY <1>11, <2>1, <2>2, <2>3, EndersStay
<1>14. CallsFit'
  <2>1. CallFits(g, newCallState, new)
    BY NewShape, ServiceAssumption DEF CallFits
  <2>2. ASSUME NEW h \in DOMAIN calls PROVE CallFits(h, calls[h], new)
    <3>1. CallFits(h, calls[h], s) /\ h # g /\ h \in s.known
      BY <1>2 DEF ServiceInv, CallsFit, s, Shared
    <3> QED
      BY <1>4, <3>1 DEF CallFits
  <2> QED
    BY <1>3, <2>1, <2>2 DEF CallsFit, new
<1>15. OutsideFits'
  BY <1>3 DEF StartCreate, OutsideFits, IndexFits, index, wsVars, store, outside,
              ServiceInv
<1>16. Abstract!Start(g, ch)
  <2>1. Phase[g] = "none"
    BY <1>2 DEF Phase
  <2>2. ASSUME NEW h \in CallIds, Phase[h] = "live" PROVE ChannelOf[h] # ch
    <3>1. h \in s.shards \cap s.live /\ h \in s.known /\ ChannelOf[h] = s.chan[h]
      BY <2>2 DEF Phase, ChannelOf, Shared, s
    <3>2. CASE s.reg[s.chan[h]] = h
      BY <1>5, <3>1, <3>2
    <3>3. CASE \E u \in Threads : th[u].pc \in Creating /\ th[u].g = h
      <4>1. PICK u \in Threads : th[u].pc \in Creating /\ th[u].g = h
        BY <3>3
      <4>2. s.lock[s.chan[h]] = u
        BY <4>1, Mine DEF Fits, Holding, s
      <4> QED
        BY <1>4, <3>1, <4>2, NoThreadApart
    <3> QED
      BY <3>1, <3>2, <3>3 DEF ServiceInv, Covered, s
  <2>3. Phase' = [Phase EXCEPT ![g] = "live"]
    <3>1. PhaseIn(new) = [PhaseIn(s) EXCEPT ![g] = "live"]
      BY <1>2, <1>4 DEF PhaseIn
    <3> QED
      BY <3>1, Mapped DEF s, new
  <2>4. ChannelOf' = [ChannelOf EXCEPT ![g] = ch]
    <3>1. ChannelIn(new) = [ChannelIn(s) EXCEPT ![g] = ch]
      BY <1>2, <1>4 DEF ChannelIn
    <3> QED
      BY <3>1, Mapped DEF s, new
  <2> QED
    BY <2>1, <2>2, <2>3, <2>4 DEF Abstract!Start, StartCreate, store, outside
<1>17. Abstract!Next
  BY <1>1, <1>2, <1>16 DEF Abstract!Next
<1> QED
  BY <1>8, <1>11, <1>12, <1>13, <1>14, <1>15, <1>17
     DEF Kept, ServiceInv, new, StartCreate, store, outside

\* Two goroutines that hold start locks work on different channels, and so
\* on different calls.
LEMMA HoldersApart ==
    ASSUME ServiceInv, NEW t \in Threads, NEW u \in Threads, u # t,
           th[t].pc \in Holding, th[u].pc \in Holding
    PROVE  th[u].ch # th[t].ch /\ th[u].g # th[t].g
<1>1. Fits(t, th[t], Shared) /\ Fits(u, th[u], Shared)
  BY Mine
<1> QED
  BY <1>1 DEF Fits

\* A failed save takes the new call back: nobody but its creator knew it,
\* or it has ended meanwhile.
LEMMA StartSaveFailsInv ==
    ASSUME ServiceInv, NEW t \in Threads, StartSaveFails(t)
    PROVE  Kept
<1> DEFINE g == th[t].g
           ch == th[t].ch
           s == Shared
           new == Shared'
<1>1. /\ Sound(s) /\ Fits(t, th[t], s) /\ th[t] \in Locals /\ th[t].pc = "save"
      /\ ch \in Channels /\ g \in s.known /\ s.lock[ch] = t /\ s.chan[g] = ch
      /\ s.reg[ch] \notin s.live
  BY Mine DEF ServiceInv, StartSaveFails, At, Fits, Starting, Holding, Creating
<1>2. /\ new.known = s.known /\ new.live = s.live /\ new.chan = s.chan
      /\ new.reg = s.reg
      /\ new.shards = s.shards \ {g}
      /\ new.lock = [s.lock EXCEPT ![ch] = NoThread]
      /\ th' = [th EXCEPT ![t] = Idle]
  BY DEF StartSaveFails, Shared, Live, Return
<1>3. ASSUME NEW u \in Threads, u # t, th[u].pc \in Holding
      PROVE  th[u].ch # ch /\ th[u].g # g
  BY <1>1, <1>3, HoldersApart DEF Holding, Creating
<1> HIDE DEF g, ch, s, new
<1>4. Sound(new)
  <2>1. new.lock \in [Channels -> Threads \cup {NoThread}]
    BY <1>1, <1>2 DEF Sound
  <2>2. \A c \in Channels : new.reg[c] \in new.live => new.reg[c] \in new.shards
    <3> SUFFICES ASSUME NEW c \in Channels, s.reg[c] \in s.live
                 PROVE  s.reg[c] \in s.shards /\ s.reg[c] # g
      BY <1>2
    <3>1. s.reg[c] \in s.shards /\ s.reg[c] # NoCall
      BY <1>1, NoCallApart DEF Sound
    <3> QED
      BY <1>1, <3>1 DEF Sound
  <2> QED
    BY <1>1, <1>2, <2>1, <2>2 DEF Sound
<1>5. ASSUME NEW u \in Threads, u # t PROVE Fits(u, th[u], new)
  <2>1. Fits(u, th[u], s)
    BY Mine DEF s
  <2>2. th[u].pc \in Holding => new.lock[th[u].ch] = u
    BY <1>1, <1>2, <1>3, <1>5, <2>1 DEF Fits, Sound, Starting
  <2>3. (th[u].pc \in Creating /\ th[u].g \in new.live) => th[u].g \in new.shards
    BY <1>2, <1>3, <1>5, <2>1 DEF Fits, Holding
  <2> QED
    BY <1>2, <2>1, <2>2, <2>3 DEF Fits
<1>6. /\ ThreadsFit(th', new)
      /\ th'[t] = Idle
      /\ \A u \in Threads : u # t => th'[u] = th[u]
  BY <1>2, <1>5, IdleFits, OneMoves
<1>7. Covered(new, th')
  <2> SUFFICES ASSUME NEW h \in new.shards \cap new.live, new.reg[new.chan[h]] # h
               PROVE  \E u \in Threads : th'[u].pc \in Creating /\ th'[u].g = h
    BY DEF Covered
  <2>1. PICK u \in Threads : th[u].pc \in Creating /\ th[u].g = h
    BY <1>2 DEF ServiceInv, Covered, s
  <2>2. u # t
    BY <1>2, <2>1 DEF g
  <2> QED
    BY <1>6, <2>1, <2>2
<1>8. EndersApart(new, th', statRows, callEnds)
  <2>1. EndersApart(s, th, statRows, callEnds)
    BY DEF ServiceInv, s
  <2>2. th'[t].pc \notin Ending
    <3>1. Idle.pc \notin Ending
      BY DEF Ending, Unrecorded, Idle
    <3> QED
      BY <1>6, <3>1
  <2>3. s.known \subseteq new.known /\ \A h \in s.known : h \in new.live => h \in s.live
    BY <1>2
  <2> QED
    BY <1>6, <2>1, <2>2, <2>3, EndersStay
<1>9. CallsFit'
  <2>1. \A h \in DOMAIN calls : CallFits(h, calls[h], s)
    BY DEF ServiceInv, CallsFit, s
  <2>2. \A h \in DOMAIN calls : CallFits(h, calls[h], new)
    BY <1>2, <2>1 DEF CallFits
  <2> QED
    BY <2>2 DEF CallsFit, StartSaveFails, new
<1>10. OutsideFits'
  BY OutsideKept DEF StartSaveFails, store, outside, ServiceInv
<1>11. [Abstract!Next]_(Abstract!vars)
  <2>1. g \in CallIds
    BY <1>1, NoCallApart
  <2>2. UNCHANGED <<statRows, callEnds>> /\ ChannelOf' = ChannelOf
    <3>1. ChannelIn(new) = ChannelIn(s)
      BY <1>2 DEF ChannelIn
    <3> QED
      BY <3>1, Mapped DEF StartSaveFails, store, outside, s, new
  <2>3. CASE g \in s.live
    <3>1. Phase[g] = "live"
      <4>1. PhaseIn(s)[g] = "live"
        BY <1>1, <2>1, <2>3 DEF PhaseIn, Fits, Creating, g
      <4> QED
        BY <4>1, Mapped DEF s
    <3>2. Phase' = [Phase EXCEPT ![g] = "void"]
      <4>1. PhaseIn(new) = [PhaseIn(s) EXCEPT ![g] = "void"]
        BY <1>1, <1>2, <2>1, <2>3 DEF PhaseIn
      <4> QED
        BY <4>1, Mapped DEF s, new
    <3> QED
      BY <2>1, <2>2, <3>1, <3>2 DEF Abstract!Next, Abstract!RollBack
  <2>4. CASE g \notin s.live
    <3>1. PhaseIn(new) = PhaseIn(s)
      BY <1>2, <2>4 DEF PhaseIn
    <3>2. Phase' = Phase
      BY <3>1, Mapped DEF s, new
    <3> QED
      BY <2>2, <3>2 DEF Abstract!vars
  <2> QED
    BY <2>3, <2>4
<1> QED
  BY <1>4, <1>6, <1>7, <1>8, <1>9, <1>10, <1>11
     DEF Kept, ServiceInv, new, StartSaveFails, store, outside

\* The new call becomes the channel's: the entry it replaces is of a call
\* that has ended.
LEMMA StartRegisterInv ==
    ASSUME ServiceInv, NEW t \in Threads, StartRegister(t)
    PROVE  Kept
<1> DEFINE g == th[t].g
           ch == th[t].ch
           s == Shared
           new == Shared'
           q == [th[t] EXCEPT !.pc = "announce"]
<1>1. /\ Sound(s) /\ Fits(t, th[t], s) /\ th[t] \in Locals /\ th[t].pc = "register"
      /\ ch \in Channels /\ g \in s.known /\ s.lock[ch] = t /\ s.chan[g] = ch
      /\ s.reg[ch] \notin s.live
      /\ g \in s.live => g \in s.shards
  BY Mine DEF ServiceInv, StartRegister, At, Fits, Starting, Holding, Creating
<1>2. /\ new.known = s.known /\ new.live = s.live /\ new.chan = s.chan
      /\ new.reg = [s.reg EXCEPT ![ch] = g]
      /\ new.shards = s.shards /\ new.lock = s.lock
      /\ th' = [th EXCEPT ![t] = q]
  BY DEF StartRegister, Shared, Live, Goto
<1>3. ASSUME NEW u \in Threads, u # t, th[u].pc \in Holding
      PROVE  th[u].ch # ch
  BY <1>1, <1>3, HoldersApart DEF Holding, Creating
<1>4. /\ q \in Locals /\ q.pc = "announce" /\ q.g = g /\ q.ch = ch
      /\ q.sid = th[t].sid /\ q.conn = th[t].conn
  BY <1>1 DEF Locals, PCs
<1> HIDE DEF g, ch, s, new, q
<1>5. new.reg[ch] = g /\ \A c \in Channels : c # ch => new.reg[c] = s.reg[c]
  BY <1>1, <1>2 DEF Sound
<1>6. Sound(new)
  <2>1. new.reg \in [Channels -> new.known \cup {NoCall}]
    BY <1>1, <1>2 DEF Sound
  <2>2. \A c \in Channels : new.reg[c] # NoCall => new.chan[new.reg[c]] = c
    BY <1>1, <1>2, <1>5 DEF Sound
  <2>3. \A c \in Channels : new.reg[c] \in new.live => new.reg[c] \in new.shards
    BY <1>1, <1>2, <1>5 DEF Sound
  <2> QED
    BY <1>1, <1>2, <2>1, <2>2, <2>3 DEF Sound
<1>7. \* A live registered call stays registered.
      ASSUME NEW h \in s.live, s.reg[s.chan[h]] = h
      PROVE  new.reg[new.chan[h]] = h
  <2>1. h \in s.known /\ s.chan[h] \in Channels
    BY <1>1, <1>7 DEF Sound
  <2>2. s.chan[h] # ch
    BY <1>1, <1>7
  <2> QED
    BY <1>2, <1>5, <1>7, <2>1, <2>2
<1>8. ASSUME NEW u \in Threads, u # t PROVE Fits(u, th[u], new)
  <2>1. Fits(u, th[u], s)
    BY Mine DEF s
  <2>2. th[u].pc \in Creating => new.reg[th[u].ch] \notin new.live
    BY <1>2, <1>3, <1>5, <1>8, <2>1 DEF Fits, Holding, Starting
  <2>3. (th[u].pc \in {"announce", "addIfLive", "insert"} /\ th[u].g \in new.live)
           => new.reg[new.chan[th[u].g]] = th[u].g
    BY <1>2, <1>7, <2>1 DEF Fits
  <2> QED
    BY <1>2, <2>1, <2>2, <2>3 DEF Fits
<1>9. Fits(t, q, new)
  <2>1. t = Rest \/ (q.sid \in Conns /\ q.conn \in Conns)
    BY <1>1, <1>4 DEF Fits, Starting, Holding, Creating
  <2> QED
    BY <1>1, <1>2, <1>4, <1>5, <2>1
       DEF Fits, Starting, Holding, Creating, Seating, Leaving, Ending, Unrecorded
<1>10. /\ ThreadsFit(th', new)
       /\ th'[t] = q
       /\ \A u \in Threads : u # t => th'[u] = th[u]
  BY <1>2, <1>8, <1>9, OneMoves
<1>11. Covered(new, th')
  <2> SUFFICES ASSUME NEW h \in new.shards \cap new.live, new.reg[new.chan[h]] # h
               PROVE  \E u \in Threads : th'[u].pc \in Creating /\ th'[u].g = h
    BY DEF Covered
  <2>1. h \in s.shards \cap s.live /\ s.reg[s.chan[h]] # h
    BY <1>2, <1>7
  <2>2. PICK u \in Threads : th[u].pc \in Creating /\ th[u].g = h
    BY <2>1 DEF ServiceInv, Covered, s
  <2>3. u # t
    BY <1>1, <1>2, <1>5, <2>2 DEF g
  <2> QED
    BY <1>10, <2>2, <2>3
<1>12. EndersApart(new, th', statRows, callEnds)
  <2>1. EndersApart(s, th, statRows, callEnds)
    BY DEF ServiceInv, s
  <2>2. th'[t].pc \notin Ending
    BY <1>4, <1>10 DEF Ending, Unrecorded
  <2>3. s.known \subseteq new.known /\ \A h \in s.known : h \in new.live => h \in s.live
    BY <1>2
  <2> QED
    BY <1>10, <2>1, <2>2, <2>3, EndersStay
<1>13. CallsFit'
  <2>1. \A h \in DOMAIN calls : CallFits(h, calls[h], s)
    BY DEF ServiceInv, CallsFit, s
  <2>2. \A h \in DOMAIN calls : CallFits(h, calls[h], new)
    BY <1>2, <1>7, <2>1 DEF CallFits
  <2> QED
    BY <2>2 DEF CallsFit, StartRegister, new
<1>14. OutsideFits'
  BY OutsideKept DEF StartRegister, store, outside, ServiceInv
<1>15. [Abstract!Next]_(Abstract!vars)
  <2>1. PhaseIn(new) = PhaseIn(s) /\ ChannelIn(new) = ChannelIn(s)
    BY <1>2 DEF PhaseIn, ChannelIn
  <2>2. UNCHANGED <<statRows, callEnds>>
    BY DEF StartRegister, store, outside
  <2> QED
    BY <2>1, <2>2, Unseen DEF s, new
<1> QED
  BY <1>6, <1>10, <1>11, <1>12, <1>13, <1>14, <1>15
     DEF Kept, ServiceInv, new, StartRegister, store, outside

\* The start lock is released once the call is registered.
LEMMA StartAnnounceInv ==
    ASSUME ServiceInv, NEW t \in Threads, StartAnnounce(t)
    PROVE  Kept
<1> DEFINE g == th[t].g
           ch == th[t].ch
           s == Shared
           new == Shared'
           q == [th[t] EXCEPT !.pc = "addIfLive", !.g = th[t].g]
           r == IF t = Rest THEN Idle ELSE q
<1>1. /\ Sound(s) /\ Fits(t, th[t], s) /\ th[t] \in Locals /\ th[t].pc = "announce"
      /\ ch \in Channels /\ g \in s.known /\ s.lock[ch] = t /\ s.chan[g] = ch
  BY Mine DEF ServiceInv, StartAnnounce, At, Fits, Starting, Holding
<1>2. /\ new.known = s.known /\ new.live = s.live /\ new.chan = s.chan
      /\ new.reg = s.reg /\ new.shards = s.shards
      /\ new.lock = [s.lock EXCEPT ![ch] = NoThread]
  BY DEF StartAnnounce, Shared, Live, memory
<1>3. th' = [th EXCEPT ![t] = r]
  BY DEF StartAnnounce, Started, Return
<1>4. ASSUME NEW u \in Threads, u # t, th[u].pc \in Holding
      PROVE  th[u].ch # ch
  BY <1>1, <1>4, HoldersApart DEF Holding
<1>5. /\ q \in Locals /\ q.pc = "addIfLive" /\ q.g = g /\ q.ch = ch
      /\ q.sid = th[t].sid /\ q.conn = th[t].conn
  BY <1>1 DEF Locals, PCs
<1> HIDE DEF g, ch, s, new, q
<1>6. Sound(new)
  <2>1. new.lock \in [Channels -> Threads \cup {NoThread}]
    BY <1>1, <1>2 DEF Sound
  <2> QED
    BY <1>1, <1>2, <2>1 DEF Sound
<1>7. ASSUME NEW u \in Threads, u # t PROVE Fits(u, th[u], new)
  <2>1. Fits(u, th[u], s)
    BY Mine DEF s
  <2>2. th[u].pc \in Holding => new.lock[th[u].ch] = u
    BY <1>1, <1>2, <1>4, <1>7, <2>1 DEF Fits, Sound, Starting
  <2> QED
    BY <1>2, <2>1, <2>2 DEF Fits
<1>8. Fits(t, r, new) /\ r.pc \notin Ending
  <2>1. CASE t = Rest
    BY <2>1, IdleFits DEF Idle, Ending, Unrecorded
  <2>2. CASE t # Rest
    <3>1. q.sid \in Conns /\ q.conn \in Conns
      BY <1>1, <1>5, <2>2 DEF Fits, Starting, Holding
    <3>2. g \in s.live => s.reg[s.chan[g]] = g
      BY <1>1 DEF Fits, g
    <3> QED
      BY <1>1, <1>2, <1>5, <2>2, <3>1, <3>2
         DEF Fits, Starting, Holding, Creating, Seating, Leaving, Ending, Unrecorded
  <2> QED
    BY <2>1, <2>2
<1> HIDE DEF r
<1>9. /\ ThreadsFit(th', new)
      /\ th'[t] = r
      /\ \A u \in Threads : u # t => th'[u] = th[u]
  BY <1>3, <1>7, <1>8, OneMoves
<1>10. Covered(new, th')
  <2> SUFFICES ASSUME NEW h \in new.shards \cap new.live, new.reg[new.chan[h]] # h
               PROVE  \E u \in Threads : th'[u].pc \in Creating /\ th'[u].g = h
    BY DEF Covered
  <2>1. PICK u \in Threads : th[u].pc \in Creating /\ th[u].g = h
    BY <1>2 DEF ServiceInv, Covered, s
  <2>2. u # t
    BY <1>1, <2>1 DEF Creating
  <2> QED
    BY <1>9, <2>1, <2>2
<1>11. EndersApart(new, th', statRows, callEnds)
  <2>1. EndersApart(s, th, statRows, callEnds)
    BY DEF ServiceInv, s
  <2> QED
    BY <1>2, <1>8, <1>9, <2>1, EndersStay
<1>12. CallsFit'
  <2>1. \A h \in DOMAIN calls : CallFits(h, calls[h], s)
    BY DEF ServiceInv, CallsFit, s
  <2>2. \A h \in DOMAIN calls : CallFits(h, calls[h], new)
    BY <1>2, <2>1 DEF CallFits
  <2> QED
    BY <2>2 DEF CallsFit, StartAnnounce, memory, new
<1>13. OutsideFits'
  BY DEF StartAnnounce, OutsideFits, IndexFits, memory, index, wsVars, outside,
         ServiceInv
<1>14. [Abstract!Next]_(Abstract!vars)
  <2>1. PhaseIn(new) = PhaseIn(s) /\ ChannelIn(new) = ChannelIn(s)
    BY <1>2 DEF PhaseIn, ChannelIn
  <2>2. UNCHANGED <<statRows, callEnds>>
    BY DEF StartAnnounce, store, outside
  <2> QED
    BY <2>1, <2>2, Unseen DEF s, new
<1> QED
  BY <1>6, <1>9, <1>10, <1>11, <1>12, <1>13, <1>14
     DEF Kept, ServiceInv, new, StartAnnounce, outside

-----------------------------------------------------------------------------
(***************************************************************************)
(* endCallState                                                            *)
(***************************************************************************)

\* Whoever fits goes on fitting when a call ends.
LEMMA EndedFits ==
    ASSUME NEW s, NEW new, NEW t, NEW r, Fits(t, r, s),
           new.known = s.known, new.live \subseteq s.live, new.chan = s.chan,
           new.reg = s.reg, new.shards = s.shards, new.lock = s.lock
    PROVE  Fits(t, r, new)
BY DEF Fits

\* A goroutine moves on within endCallState: the enders stay apart.
LEMMA EndersGoOn ==
    ASSUME NEW s, NEW new, NEW stats, NEW ends, NEW thr, NEW thr2, NEW t \in Threads,
           EndersApart(s, thr, stats, ends),
           new.known = s.known, new.live = s.live,
           Onward(thr[t], thr2[t]),
           \A u \in Threads : u # t => thr2[u] = thr[u]
    PROVE  EndersApart(new, thr2, stats, ends)
<1>1. \A u \in Threads :
         /\ thr2[u].pc \in Unrecorded => (thr[u].pc \in Unrecorded /\ thr2[u].g = thr[u].g)
         /\ thr2[u].pc \in Ending => (thr[u].pc \in Ending /\ thr2[u].g = thr[u].g)
  BY DEF Onward
<1> QED
  BY <1>1 DEF EndersApart

\* markEnded: the first ender goes on, everybody else returns.
LEMMA EndMarkInv ==
    ASSUME ServiceInv, NEW t \in Threads, EndMark(t)
    PROVE  Kept
<1> DEFINE g == th[t].g
           s == Shared
           new == Shared'
           q == [th[t] EXCEPT !.pc = "snapshot"]
<1>1. /\ Sound(s) /\ Fits(t, th[t], s) /\ th[t] \in Locals /\ th[t].pc = "end"
      /\ g \in DOMAIN calls
  BY Mine DEF ServiceInv, EndMark, At
<1>2. CASE ~markEndedWins(calls[g])
  <2>1. Return(t) /\ UNCHANGED <<memory, startLock, statRows, callEnds>>
    BY <1>2 DEF EndMark, memory, store, outside
  <2>2. OutsideFits'
    BY <1>2, OutsideKept DEF EndMark, store, outside, ServiceInv
  <2> QED
    BY <1>1, <2>1, <2>2, QuietReturn DEF Creating
<1>3. CASE markEndedWins(calls[g])
  <2>1. /\ calls' = [calls EXCEPT ![g] = markEnded(calls[g])]
        /\ th' = [th EXCEPT ![t] = q]
        /\ g \in s.live
    BY <1>1, <1>3 DEF EndMark, Goto, markEndedWins, Shared, Live
  <2>2. /\ DOMAIN calls' = DOMAIN calls
        /\ calls'[g] = markEnded(calls[g])
        /\ \A h \in DOMAIN calls : h # g => calls'[h] = calls[h]
    BY <1>1, <2>1
  <2>3. /\ CallShape(markEnded(calls[g]))
        /\ markEnded(calls[g]).ended = TRUE
        /\ markEnded(calls[g]).sessions = calls[g].sessions
    BY <1>1, EndShape DEF ServiceInv, CallsFit, CallFits
  <2>4. /\ new.known = s.known /\ new.live = s.live \ {g} /\ new.chan = s.chan
        /\ new.reg = s.reg /\ new.shards = s.shards /\ new.lock = s.lock
    BY <2>2, <2>3 DEF EndMark, Shared, Live
  <2>5. q \in Locals /\ q.pc = "snapshot" /\ q.g = g
    BY <1>1 DEF Locals, PCs
  <2>6. g \in s.known
    BY <1>1 DEF Shared
  <2> HIDE DEF g, s, new, q
  <2>7. Sound(new)
    BY <1>1, <2>4 DEF Sound
  <2>8. Fits(t, q, new)
    BY <2>4, <2>5, <2>6 DEF Fits, Starting, Holding, Creating, Seating, Leaving
  <2>9. \A u \in Threads : u # t => Fits(u, th[u], new)
    BY <2>4, Mine, EndedFits DEF s
  <2>10. /\ ThreadsFit(th', new)
         /\ th'[t] = q
         /\ \A u \in Threads : u # t => th'[u] = th[u]
    BY <2>1, <2>8, <2>9, OneMoves
  <2>11. Covered(new, th')
    <3> SUFFICES ASSUME NEW h \in new.shards \cap new.live, new.reg[new.chan[h]] # h
                 PROVE  \E u \in Threads : th'[u].pc \in Creating /\ th'[u].g = h
      BY DEF Covered
    <3>1. PICK u \in Threads : th[u].pc \in Creating /\ th[u].g = h
      BY <2>4 DEF ServiceInv, Covered, s
    <3>2. u # t
      BY <1>1, <3>1 DEF Creating
    <3> QED
      BY <2>10, <3>1, <3>2
  <2>12. EndersApart(new, th', statRows, callEnds)
    <3>1. EndersApart(s, th, statRows, callEnds)
      BY DEF ServiceInv, s
    <3>2. \A u \in Threads : th[u].pc \in Ending => th[u].g # g
      BY <2>1, Mine DEF Fits, s
    <3>3. \A h \in CallIds : (statRows[h] = 1 \/ callEnds[h] = 1) => h # g
      BY <2>1, <3>1 DEF EndersApart
    <3>4. \A u \in Threads : th'[u].pc \in Unrecorded => th'[u].pc \in Ending
      BY DEF Ending
    <3>5. \A u, v \in Threads :
             (th'[u].pc \in Ending /\ th'[v].pc \in Ending /\ th'[u].g = th'[v].g)
                 => u = v
      BY <2>5, <2>10, <3>1, <3>2 DEF EndersApart
    <3>6. \A h \in CallIds : statRows[h] = 1 =>
             /\ h \in new.known /\ h \notin new.live
             /\ \A u \in Threads : th'[u].pc \in Unrecorded => th'[u].g # h
      BY <2>4, <2>5, <2>10, <3>1, <3>3 DEF EndersApart
    <3>7. \A h \in CallIds : callEnds[h] = 1 =>
             /\ h \in new.known /\ h \notin new.live
             /\ \A u \in Threads : th'[u].pc \in Ending => th'[u].g # h
      BY <2>4, <2>5, <2>10, <3>1, <3>3 DEF EndersApart
    <3> QED
      BY <3>1, <3>5, <3>6, <3>7 DEF EndersApart
  <2>13. CallsFit'
    <3>1. ASSUME NEW h \in DOMAIN calls PROVE CallFits(h, calls'[h], new)
      <4>1. CallFits(h, calls[h], s)
        BY DEF ServiceInv, CallsFit, s
      <4>2. CASE h # g
        BY <2>2, <2>4, <4>1, <4>2 DEF CallFits
      <4>3. CASE h = g
        BY <2>2, <2>3, <2>4, <4>1, <4>3 DEF CallFits, participants
      <4> QED
        BY <4>2, <4>3
    <3> QED
      BY <2>2, <3>1 DEF CallsFit, new
  <2>14. OutsideFits'
    BY <2>2, OutsideKept DEF EndMark, store, outside, ServiceInv
  <2>15. g \in CallIds /\ Abstract!Finish(g)
    <3>1. g \in CallIds
      BY <1>1, <2>6, NoCallApart
    <3>2. Phase[g] \in {"live", "void"}
      <4>1. PhaseIn(s)[g] \in {"live", "void"}
        BY <2>1, <2>6, <3>1 DEF PhaseIn
      <4> QED
        BY <4>1, Mapped DEF s
    <3>3. Phase' = [Phase EXCEPT ![g] = "ended"]
      <4>1. PhaseIn(new) = [PhaseIn(s) EXCEPT ![g] = "ended"]
        BY <2>4, <2>6, <3>1 DEF PhaseIn
      <4> QED
        BY <4>1, Mapped DEF s, new
    <3>4. ChannelOf' = ChannelOf
      <4>1. ChannelIn(new) = ChannelIn(s)
        BY <2>4 DEF ChannelIn
      <4> QED
        BY <4>1, Mapped DEF s, new
    <3> QED
      BY <3>1, <3>2, <3>3, <3>4 DEF Abstract!Finish, EndMark, store, outside
  <2>16. Abstract!Next
    BY <2>15 DEF Abstract!Next
  <2> QED
    BY <2>7, <2>10, <2>11, <2>12, <2>13, <2>14, <2>16
       DEF Kept, ServiceInv, new, EndMark, store, outside
<1> QED
  BY <1>2, <1>3

\* The ender remembers the sessions it will close.
LEMMA EndSnapshotInv ==
    ASSUME ServiceInv, NEW t \in Threads, EndSnapshot(t)
    PROVE  Kept
<1> DEFINE ids == DOMAIN calls[th[t].g].sessions
           q == [th[t] EXCEPT !.pc = "unshard", !.ids = ids]
<1>1. /\ Fits(t, th[t], Shared) /\ th[t] \in Locals /\ th[t].pc = "snapshot"
      /\ th[t].g \in DOMAIN calls
  BY Mine DEF EndSnapshot, At
<1>2. th' = [th EXCEPT ![t] = q]
  BY DEF EndSnapshot
<1>3. ids \subseteq Conns
  BY <1>1 DEF ServiceInv, CallsFit, CallFits, CallShape
<1> HIDE DEF ids
<1>4. /\ q \in Locals /\ q.pc = "unshard" /\ q.g = th[t].g
  BY <1>1, <1>3 DEF Locals, PCs
<1>5. OutsideFits'
  BY OutsideKept DEF EndSnapshot, memory, store, outside, ServiceInv
<1> HIDE DEF q
<1>6. Fits(t, q, Shared) /\ Onward(th[t], q)
  BY <1>1, <1>4 DEF Fits, Starting, Holding, Creating, Seating, Leaving, Ending,
                    Unrecorded, Onward
<1> QED
  BY <1>2, <1>5, <1>6, QuietStep DEF EndSnapshot, store, outside

\* The ended call leaves its shard.
LEMMA EndUnshardInv ==
    ASSUME ServiceInv, NEW t \in Threads, EndUnshard(t)
    PROVE  Kept
<1> DEFINE g == th[t].g
           s == Shared
           new == Shared'
           q == [th[t] EXCEPT !.pc = "unregister"]
<1>1. /\ Sound(s) /\ Fits(t, th[t], s) /\ th[t] \in Locals /\ th[t].pc = "unshard"
      /\ g \notin s.live
  BY Mine DEF ServiceInv, EndUnshard, At, Fits, Ending, Unrecorded
<1>2. /\ new.known = s.known /\ new.live = s.live /\ new.chan = s.chan
      /\ new.reg = s.reg /\ new.lock = s.lock
      /\ new.shards = s.shards \ {g}
      /\ th' = [th EXCEPT ![t] = q]
  BY DEF EndUnshard, Shared, Live, Goto
<1>3. Fits(t, q, s)
  BY <1>1, PcFits DEF Starting, Holding, Creating, Seating, Leaving, Ending,
                      Unrecorded, PCs
<1>4. q.pc = "unregister" /\ q.g = g
  BY <1>1 DEF Locals
<1> HIDE DEF g, s, new, q
<1>5. Sound(new)
  BY <1>1, <1>2 DEF Sound
<1>6. ASSUME NEW u \in Threads, NEW r, Fits(u, r, s) PROVE Fits(u, r, new)
  BY <1>1, <1>2, <1>6 DEF Fits
<1>7. /\ ThreadsFit(th', new)
      /\ th'[t] = q
      /\ \A u \in Threads : u # t => th'[u] = th[u]
  BY <1>2, <1>3, <1>6, Mine, OneMoves DEF s
<1>8. Covered(new, th')
  <2> SUFFICES ASSUME NEW h \in new.shards \cap new.live, new.reg[new.chan[h]] # h
               PROVE  \E u \in Threads : th'[u].pc \in Creating /\ th'[u].g = h
    BY DEF Covered
  <2>1. PICK u \in Threads : th[u].pc \in Creating /\ th[u].g = h
    BY <1>2 DEF ServiceInv, Covered, s
  <2>2. u # t
    BY <1>1, <2>1 DEF Creating
  <2> QED
    BY <1>7, <2>1, <2>2
<1>9. EndersApart(new, th', statRows, callEnds)
  <2>1. EndersApart(s, th, statRows, callEnds)
    BY DEF ServiceInv, s
  <2>2. Onward(th[t], th'[t])
    BY <1>1, <1>4, <1>7 DEF Onward, Creating, Unrecorded, Ending, g
  <2>3. new.known = s.known /\ new.live = s.live
    BY <1>2
  <2> QED
    BY <1>7, <2>1, <2>2, <2>3, EndersGoOn
<1>10. CallsFit'
  <2>1. \A h \in DOMAIN calls : CallFits(h, calls[h], s)
    BY DEF ServiceInv, CallsFit, s
  <2>2. \A h \in DOMAIN calls : CallFits(h, calls[h], new)
    BY <1>2, <2>1 DEF CallFits
  <2> QED
    BY <2>2 DEF CallsFit, EndUnshard, new
<1>11. OutsideFits'
  BY OutsideKept DEF EndUnshard, store, outside, ServiceInv
<1>12. [Abstract!Next]_(Abstract!vars)
  <2>1. PhaseIn(new) = PhaseIn(s) /\ ChannelIn(new) = ChannelIn(s)
    BY <1>1, <1>2 DEF PhaseIn, ChannelIn
  <2>2. UNCHANGED <<statRows, callEnds>>
    BY DEF EndUnshard, store, outside
  <2> QED
    BY <2>1, <2>2, Unseen DEF s, new
<1> QED
  BY <1>5, <1>7, <1>8, <1>9, <1>10, <1>11, <1>12
     DEF Kept, ServiceInv, new, EndUnshard, store, outside

\* The ended call's own registry entry goes, never that of a live call.
LEMMA EndUnregisterInv ==
    ASSUME ServiceInv, NEW t \in Threads, EndUnregister(t)
    PROVE  Kept
<1> DEFINE g == th[t].g
           s == Shared
           new == Shared'
           mine == channelCalls[chanOf[g]] = g
           q == [th[t] EXCEPT !.pc = "load", !.owned = mine]
<1>1. /\ Sound(s) /\ Fits(t, th[t], s) /\ th[t] \in Locals /\ th[t].pc = "unregister"
      /\ g \in s.known /\ g \notin s.live
  BY Mine DEF ServiceInv, EndUnregister, At, Fits, Ending, Unrecorded
<1>2. /\ new.known = s.known /\ new.live = s.live /\ new.chan = s.chan
      /\ new.lock = s.lock /\ new.shards = s.shards
      /\ new.reg = IF s.reg[s.chan[g]] = g
                   THEN [s.reg EXCEPT ![s.chan[g]] = NoCall] ELSE s.reg
  BY DEF EndUnregister, Shared, Live
<1>3. th' = [th EXCEPT ![t] = q]
  BY DEF EndUnregister
<1>4. q \in Locals /\ q.pc = "load" /\ q.g = g
  <2>1. mine \in BOOLEAN
    OBVIOUS
  <2> HIDE DEF mine
  <2> QED
    BY <1>1, <2>1 DEF Locals, PCs
<1> HIDE DEF g, s, new, q
<1>5. /\ s.chan[g] \in Channels
      /\ \A c \in Channels : new.reg[c] = s.reg[c] \/ (s.reg[c] = g /\ new.reg[c] = NoCall)
  BY <1>1, <1>2 DEF Sound
<1>6. NoCall \notin s.live
  BY <1>1, NoCallApart DEF Sound
<1>7. ASSUME NEW h \in s.live, s.reg[s.chan[h]] = h PROVE new.reg[new.chan[h]] = h
  <2>1. s.chan[h] \in Channels
    BY <1>1 DEF Sound
  <2> QED
    BY <1>1, <1>2, <1>5, <1>7, <2>1
<1>8. Sound(new)
  <2>1. new.reg \in [Channels -> new.known \cup {NoCall}]
    BY <1>1, <1>2, <1>5 DEF Sound
  <2>2. \A c \in Channels : new.reg[c] # NoCall => new.chan[new.reg[c]] = c
    BY <1>1, <1>2, <1>5 DEF Sound
  <2>3. \A c \in Channels : new.reg[c] \in new.live => new.reg[c] \in new.shards
    BY <1>1, <1>2, <1>5, <1>6 DEF Sound
  <2> QED
    BY <1>1, <1>2, <2>1, <2>2, <2>3 DEF Sound
<1>9. ASSUME NEW u \in Threads PROVE Fits(u, th[u], new)
  <2>1. Fits(u, th[u], s)
    BY Mine DEF s
  <2>2. th[u].pc \in Creating => new.reg[th[u].ch] \notin new.live
    BY <1>2, <1>5, <1>6, <2>1 DEF Fits, Starting, Holding
  <2>3. (th[u].pc \in {"announce", "addIfLive", "insert"} /\ th[u].g \in new.live)
           => new.reg[new.chan[th[u].g]] = th[u].g
    BY <1>2, <1>7, <2>1 DEF Fits
  <2> QED
    BY <1>2, <2>1, <2>2, <2>3 DEF Fits
<1>10. Fits(t, q, new)
  BY <1>1, <1>2, <1>4 DEF Fits, Starting, Holding, Creating, Seating, Leaving
<1>11. /\ ThreadsFit(th', new)
       /\ th'[t] = q
       /\ \A u \in Threads : u # t => th'[u] = th[u]
  BY <1>3, <1>9, <1>10, OneMoves
<1>12. Covered(new, th')
  <2> SUFFICES ASSUME NEW h \in new.shards \cap new.live, new.reg[new.chan[h]] # h
               PROVE  \E u \in Threads : th'[u].pc \in Creating /\ th'[u].g = h
    BY DEF Covered
  <2>1. h \in s.shards \cap s.live /\ s.reg[s.chan[h]] # h
    BY <1>2, <1>7
  <2>2. PICK u \in Threads : th[u].pc \in Creating /\ th[u].g = h
    BY <2>1 DEF ServiceInv, Covered, s
  <2>3. u # t
    BY <1>1, <2>2 DEF Creating
  <2> QED
    BY <1>11, <2>2, <2>3
<1>13. EndersApart(new, th', statRows, callEnds)
  <2>1. EndersApart(s, th, statRows, callEnds)
    BY DEF ServiceInv, s
  <2>2. Onward(th[t], th'[t])
    BY <1>1, <1>4, <1>11 DEF Onward, Creating, Unrecorded, Ending, g
  <2>3. new.known = s.known /\ new.live = s.live
    BY <1>2
  <2> QED
    BY <1>11, <2>1, <2>2, <2>3, EndersGoOn
<1>14. CallsFit'
  <2>1. \A h \in DOMAIN calls : CallFits(h, calls[h], s)
    BY DEF ServiceInv, CallsFit, s
  <2>2. \A h \in DOMAIN calls : CallFits(h, calls[h], new)
    BY <1>2, <1>7, <2>1 DEF CallFits
  <2> QED
    BY <2>2 DEF CallsFit, EndUnregister, new
<1>15. OutsideFits'
  BY OutsideKept DEF EndUnregister, store, outside, ServiceInv
<1>16. [Abstract!Next]_(Abstract!vars)
  <2>1. PhaseIn(new) = PhaseIn(s) /\ ChannelIn(new) = ChannelIn(s)
    BY <1>2 DEF PhaseIn, ChannelIn
  <2>2. UNCHANGED <<statRows, callEnds>>
    BY DEF EndUnregister, store, outside
  <2> QED
    BY <2>1, <2>2, Unseen DEF s, new
<1> QED
  BY <1>8, <1>11, <1>12, <1>13, <1>14, <1>15, <1>16
     DEF Kept, ServiceInv, new, EndUnregister, store, outside

\* The call's row is loaded, or not.
LEMMA EndLoadInv ==
    ASSUME ServiceInv, NEW t \in Threads, EndLoad(t)
    PROVE  Kept
<1>1. th[t].pc = "load" /\ UNCHANGED <<memory, startLock, statRows, callEnds>>
  BY DEF EndLoad, At, store, outside
<1>2. OutsideFits'
  BY OutsideKept DEF EndLoad, memory, store, outside, ServiceInv
<1>3. ASSUME NEW pc \in {"persist", "close"}, Goto(t, pc) PROVE Kept
  BY <1>1, <1>2, <1>3, GotoInv DEF Starting, Holding, Creating, Seating, Leaving,
                                   Ending, Unrecorded, PCs
<1> QED
  BY <1>3 DEF EndLoad

\* The one ender writes the stats row, which is not there yet.
LEMMA EndPersistInv ==
    ASSUME ServiceInv, NEW t \in Threads, EndPersist(t)
    PROVE  Kept
<1> DEFINE g == th[t].g
           q == [th[t] EXCEPT !.pc = "close"]
<1>1. /\ Sound(Shared) /\ Fits(t, th[t], Shared) /\ th[t] \in Locals
      /\ th[t].pc = "persist" /\ g \in Shared.known /\ g \notin Shared.live
  BY Mine DEF ServiceInv, EndPersist, At, Fits, Ending, Unrecorded
<1>2. th' = [th EXCEPT ![t] = q]
  BY DEF EndPersist, Goto
<1>3. Shared' = Shared /\ CallsFit'
  BY SharedKept DEF EndPersist, ServiceInv
<1>4. q.pc = "close" /\ q.g = g
  BY <1>1 DEF Locals
<1>5. Fits(t, q, Shared)
  BY <1>1, PcFits DEF Starting, Holding, Creating, Seating, Leaving, Ending,
                      Unrecorded, PCs
<1> HIDE DEF g, q
<1>6. /\ ThreadsFit(th', Shared)
      /\ th'[t] = q
      /\ \A u \in Threads : u # t => th'[u] = th[u]
  BY <1>2, <1>5, Mine, OneMoves
<1>7. Covered(Shared, th')
  <2> SUFFICES ASSUME NEW h \in Shared.shards \cap Shared.live,
                      Shared.reg[Shared.chan[h]] # h
               PROVE  \E u \in Threads : th'[u].pc \in Creating /\ th'[u].g = h
    BY DEF Covered
  <2>1. PICK u \in Threads : th[u].pc \in Creating /\ th[u].g = h
    BY DEF ServiceInv, Covered
  <2>2. u # t
    BY <1>1, <2>1 DEF Creating
  <2> QED
    BY <1>6, <2>1, <2>2
<1>8. EndersApart(Shared, th', statRows', callEnds')
  <2>1. EndersApart(Shared, th, statRows, callEnds)
    BY DEF ServiceInv
  <2>2. Onward(th[t], th'[t])
    BY <1>1, <1>4, <1>6 DEF Onward, Creating, Unrecorded, Ending, g
  <2>3. EndersApart(Shared, th', statRows, callEnds)
    BY <1>6, <2>1, <2>2, EndersGoOn
  <2>4. statRows' = statRows \/ statRows' = [statRows EXCEPT ![g] = @ + 1]
    BY DEF EndPersist, g
  <2>5. callEnds' = callEnds
    BY DEF EndPersist, outside
  <2>6. CASE statRows' = statRows
    BY <2>3, <2>5, <2>6
  <2>7. CASE statRows' = [statRows EXCEPT ![g] = @ + 1]
    <3>1. g \in CallIds /\ statRows[g] = 0
      <4>1. g \in CallIds
        BY <1>1, NoCallApart
      <4>2. statRows[g] # 1
        BY <1>1, <2>1, <4>1 DEF EndersApart, Unrecorded, g
      <4> QED
        BY <2>1, <4>1, <4>2 DEF EndersApart
    <3>2. statRows' = [statRows EXCEPT ![g] = 1]
      BY <2>7, <3>1
    <3>3. ASSUME NEW u \in Threads, th'[u].pc \in Unrecorded PROVE th'[u].g # g
      <4>1. u # t
        BY <1>4, <1>6, <3>3 DEF Unrecorded
      <4>2. th[u].pc \in Ending /\ th[t].pc \in Ending /\ th'[u] = th[u]
        BY <1>1, <1>6, <3>3, <4>1 DEF Ending, Unrecorded
      <4> QED
        BY <2>1, <4>1, <4>2 DEF EndersApart, g
    <3>4. statRows' \in [CallIds -> {0, 1}]
      BY <2>3, <3>2 DEF EndersApart
    <3>5. \A h \in CallIds : statRows'[h] = 1 =>
             /\ h \in Shared.known /\ h \notin Shared.live
             /\ \A u \in Threads : th'[u].pc \in Unrecorded => th'[u].g # h
      BY <1>1, <2>3, <3>2, <3>3 DEF EndersApart
    <3> QED
      BY <2>3, <2>5, <3>4, <3>5 DEF EndersApart
  <2> QED
    BY <2>4, <2>6, <2>7
<1>9. OutsideFits'
  BY DEF EndPersist, OutsideFits, IndexFits, memory, index, wsVars, outside, ServiceInv
<1>10. [Abstract!Next]_(Abstract!vars)
  <2>1. Phase' = Phase /\ ChannelOf' = ChannelOf /\ callEnds' = callEnds
    BY <1>3, Mapped DEF EndPersist, store, outside
  <2>2. statRows' = statRows \/ statRows' = [statRows EXCEPT ![g] = @ + 1]
    BY DEF EndPersist, g
  <2>3. CASE statRows' = statRows
    BY <2>1, <2>3 DEF Abstract!vars
  <2>4. CASE statRows' = [statRows EXCEPT ![g] = @ + 1]
    <3>1. g \in CallIds /\ Phase[g] = "ended"
      <4>1. g \in CallIds
        BY <1>1, NoCallApart
      <4>2. PhaseIn(Shared)[g] = "ended"
        BY <1>1, <4>1 DEF PhaseIn
      <4> QED
        BY <4>1, <4>2, Mapped
    <3>2. statRows[g] = 0 /\ statRows' = [statRows EXCEPT ![g] = 1]
      <4>1. statRows[g] = 0
        BY <1>1, <3>1 DEF ServiceInv, EndersApart, Unrecorded, Ending, g
      <4> QED
        BY <2>4, <4>1
    <3> QED
      BY <2>1, <3>1, <3>2 DEF Abstract!Next, Abstract!Record
  <2> QED
    BY <2>2, <2>3, <2>4
<1> QED
  BY <1>1, <1>3, <1>6, <1>7, <1>8, <1>9, <1>10 DEF Kept, ServiceInv

\* One session of the ended call is closed.
LEMMA EndCloseSessionInv ==
    ASSUME ServiceInv, NEW t \in Threads, NEW sid \in Conns, EndCloseSession(t, sid)
    PROVE  Kept
<1> DEFINE q == [th[t] EXCEPT !.ids = @ \ {sid}]
<1>1. Fits(t, th[t], Shared) /\ th[t] \in Locals /\ th[t].pc = "close"
  BY Mine DEF EndCloseSession, At
<1>2. th' = [th EXCEPT ![t] = q]
  BY DEF EndCloseSession
<1>3. q \in Locals /\ q.pc = "close" /\ q.g = th[t].g
  BY <1>1 DEF Locals
<1>4. OutsideFits'
  BY DEF EndCloseSession, Unlink, Del, OutsideFits, IndexFits, memory, wsVars, store,
         ServiceInv
<1> HIDE DEF q
<1>5. Fits(t, q, Shared) /\ Onward(th[t], q)
  BY <1>1, <1>3 DEF Fits, Starting, Holding, Creating, Seating, Leaving, Ending,
                    Unrecorded, Onward
<1> QED
  BY <1>2, <1>4, <1>5, QuietStep DEF EndCloseSession, store

\* The rows of the ended call's sessions are closed, or not.
LEMMA EndCloseRowsInv ==
    ASSUME ServiceInv, NEW t \in Threads, EndCloseRows(t)
    PROVE  Kept
<1>1. th[t].pc = "close"
  BY DEF EndCloseRows, At
<1>2. OutsideFits'
  BY DEF EndCloseRows, OutsideFits, IndexFits, memory, index, wsVars, outside,
         ServiceInv
<1> QED
  BY <1>1, <1>2, GotoInv DEF EndCloseRows, outside, Starting, Holding, Creating,
                             Seating, Leaving, Ending, Unrecorded, PCs

\* The one ender announces the end, which has not been announced yet.
LEMMA EndBroadcastInv ==
    ASSUME ServiceInv, NEW t \in Threads, EndBroadcast(t)
    PROVE  Kept
<1> DEFINE g == th[t].g
<1>1. /\ Sound(Shared) /\ Fits(t, th[t], Shared)
      /\ th[t].pc = "broadcast" /\ g \in Shared.known /\ g \notin Shared.live
  BY Mine DEF ServiceInv, EndBroadcast, At, Fits, Ending, Unrecorded
<1>2. th' = [th EXCEPT ![t] = Idle]
  BY DEF EndBroadcast, Return
<1>3. Shared' = Shared /\ CallsFit'
  BY SharedKept DEF EndBroadcast, ServiceInv
<1> HIDE DEF g
<1>4. /\ ThreadsFit(th', Shared)
      /\ th'[t] = Idle
      /\ \A u \in Threads : u # t => th'[u] = th[u]
  BY <1>2, IdleFits, Mine, OneMoves
<1>5. Covered(Shared, th')
  <2> SUFFICES ASSUME NEW h \in Shared.shards \cap Shared.live,
                      Shared.reg[Shared.chan[h]] # h
               PROVE  \E u \in Threads : th'[u].pc \in Creating /\ th'[u].g = h
    BY DEF Covered
  <2>1. PICK u \in Threads : th[u].pc \in Creating /\ th[u].g = h
    BY DEF ServiceInv, Covered
  <2>2. u # t
    BY <1>1, <2>1 DEF Creating
  <2> QED
    BY <1>4, <2>1, <2>2
<1>6. EndersApart(Shared, th', statRows', callEnds')
  <2>1. EndersApart(Shared, th, statRows, callEnds)
    BY DEF ServiceInv
  <2>2. Onward(th[t], th'[t])
    BY <1>1, <1>4, IdleOnward DEF Creating
  <2>3. EndersApart(Shared, th', statRows, callEnds)
    BY <1>4, <2>1, <2>2, EndersGoOn
  <2>4. callEnds' = callEnds \/ callEnds' = [callEnds EXCEPT ![g] = @ + 1]
    BY DEF EndBroadcast, g
  <2>5. statRows' = statRows
    BY DEF EndBroadcast, store
  <2>6. CASE callEnds' = callEnds
    BY <2>3, <2>5, <2>6
  <2>7. CASE callEnds' = [callEnds EXCEPT ![g] = @ + 1]
    <3>1. g \in CallIds /\ callEnds[g] = 0
      <4>1. g \in CallIds
        BY <1>1, NoCallApart
      <4>2. callEnds[g] # 1
        BY <1>1, <2>1, <4>1 DEF EndersApart, Ending, g
      <4> QED
        BY <2>1, <4>1, <4>2 DEF EndersApart
    <3>2. callEnds' = [callEnds EXCEPT ![g] = 1]
      BY <2>7, <3>1
    <3>3. ASSUME NEW u \in Threads, th'[u].pc \in Ending PROVE th'[u].g # g
      <4>1. Idle.pc \notin Ending
        BY DEF Idle, Ending, Unrecorded
      <4>2. u # t
        BY <1>4, <3>3, <4>1
      <4>3. th[u].pc \in Ending /\ th[t].pc \in Ending /\ th'[u] = th[u]
        BY <1>1, <1>4, <3>3, <4>2 DEF Ending
      <4> QED
        BY <2>1, <4>2, <4>3 DEF EndersApart, g
    <3>4. callEnds' \in [CallIds -> {0, 1}]
      BY <2>3, <3>2 DEF EndersApart
    <3>5. \A h \in CallIds : callEnds'[h] = 1 =>
             /\ h \in Shared.known /\ h \notin Shared.live
             /\ \A u \in Threads : th'[u].pc \in Ending => th'[u].g # h
      BY <1>1, <2>3, <3>2, <3>3 DEF EndersApart
    <3> QED
      BY <2>3, <2>5, <3>4, <3>5 DEF EndersApart
  <2> QED
    BY <2>4, <2>6, <2>7
<1>7. OutsideFits'
  BY OutsideKept DEF EndBroadcast, memory, store, ServiceInv
<1>8. [Abstract!Next]_(Abstract!vars)
  <2>1. Phase' = Phase /\ ChannelOf' = ChannelOf /\ statRows' = statRows
    BY <1>3, Mapped DEF EndBroadcast, store, outside
  <2>2. callEnds' = callEnds \/ callEnds' = [callEnds EXCEPT ![g] = @ + 1]
    BY DEF EndBroadcast, g
  <2>3. CASE callEnds' = callEnds
    BY <2>1, <2>3 DEF Abstract!vars
  <2>4. CASE callEnds' = [callEnds EXCEPT ![g] = @ + 1]
    <3>1. g \in CallIds /\ Phase[g] = "ended"
      <4>1. g \in CallIds
        BY <1>1, NoCallApart
      <4>2. PhaseIn(Shared)[g] = "ended"
        BY <1>1, <4>1 DEF PhaseIn
      <4> QED
        BY <4>1, <4>2, Mapped
    <3>2. callEnds[g] = 0 /\ callEnds' = [callEnds EXCEPT ![g] = 1]
      <4>1. callEnds[g] = 0
        BY <1>1, <3>1 DEF ServiceInv, EndersApart, Unrecorded, Ending, g
      <4> QED
        BY <2>4, <4>1
    <3> QED
      BY <2>1, <3>1, <3>2 DEF Abstract!Next, Abstract!Announce
  <2> QED
    BY <2>2, <2>3, <2>4
<1> QED
  BY <1>1, <1>3, <1>4, <1>5, <1>6, <1>7, <1>8 DEF Kept, ServiceInv

-----------------------------------------------------------------------------
(***************************************************************************)
(* teardownSession and its callers                                         *)
(***************************************************************************)

\* A teardown begins on a known call and a session id.
LEMMA BeginFits ==
    ASSUME ServiceInv, NEW t \in Threads, NEW g \in DOMAIN calls, NEW sid \in Conns
    PROVE  LET q == [Idle EXCEPT !.pc = "remove", !.g = g, !.sid = sid]
           IN  Fits(t, q, Shared) /\ (\A p : p.pc \notin Creating => Onward(p, q))
<1> DEFINE q == [Idle EXCEPT !.pc = "remove", !.g = g, !.sid = sid]
<1>1. g \in Nat /\ g \in Shared.known
  <2>1. DOMAIN calls \subseteq CallIds
    BY NoCallApart DEF ServiceInv, Shared
  <2> QED
    BY <2>1 DEF CallIds, Shared
<1>2. q \in Locals /\ q.pc = "remove" /\ q.g = g /\ q.sid = sid
  BY <1>1 DEF Idle, Locals, PCs, NoConn
<1> HIDE DEF q
<1> SUFFICES Fits(t, q, Shared) /\ (\A p : p.pc \notin Creating => Onward(p, q))
  BY DEF q
<1> QED
  BY <1>1, <1>2 DEF Fits, Starting, Holding, Creating, Seating, Leaving, Ending,
                    Unrecorded, Onward

\* A step that only begins a teardown.
LEMMA BeginInv ==
    ASSUME ServiceInv, NEW t \in Threads, NEW g \in DOMAIN calls, NEW sid \in Conns,
           th[t].pc \notin Creating, BeginTeardown(t, g, sid),
           UNCHANGED <<memory, startLock, statRows, callEnds>>, OutsideFits'
    PROVE  Kept
<1> DEFINE q == [Idle EXCEPT !.pc = "remove", !.g = g, !.sid = sid]
<1>1. Fits(t, q, Shared) /\ Onward(th[t], q)
  BY BeginFits
<1>2. th' = [th EXCEPT ![t] = q]
  BY DEF BeginTeardown
<1> QED
  BY <1>1, <1>2, QuietStep

\* The session is removed, unless somebody has removed it.
LEMMA TeardownRemoveInv ==
    ASSUME ServiceInv, NEW t \in Threads, TeardownRemove(t)
    PROVE  Kept
<1> DEFINE g == th[t].g
           sid == th[t].sid
<1>1. /\ Fits(t, th[t], Shared) /\ th[t] \in Locals /\ th[t].pc = "remove"
      /\ g \in DOMAIN calls /\ sid \in Conns /\ CallShape(calls[g])
      /\ g \in Shared.known
  BY Mine DEF TeardownRemove, At, Fits, Leaving, ServiceInv, CallsFit, CallFits, Shared
<1>2. CASE sid \notin DOMAIN calls[g].sessions
  <2>1. Return(t) /\ UNCHANGED <<memory, startLock, statRows, callEnds>>
    BY <1>2 DEF TeardownRemove, memory, store, outside
  <2>2. OutsideFits'
    BY <1>2, OutsideKept DEF TeardownRemove, store, outside, ServiceInv
  <2> QED
    BY <1>1, <2>1, <2>2, QuietReturn DEF Creating
<1>3. CASE sid \in DOMAIN calls[g].sessions
  <2> DEFINE conn == connIDFor(calls[g], sid)
             q == [th[t] EXCEPT !.pc = "unlink", !.conn = conn]
             cs == removeSession(calls[g], sid)
  <2>1. calls' = [calls EXCEPT ![g] = cs] /\ th' = [th EXCEPT ![t] = q]
    BY <1>3 DEF TeardownRemove
  <2>2. conn \in Conns
    BY <1>1, <1>3 DEF connIDFor, CallShape, Session
  <2>3. /\ Shaped(cs, calls[g], Limit)
        /\ DOMAIN cs.sessions \subseteq DOMAIN calls[g].sessions
    BY <1>1, <1>3, RemoveShape, ServiceAssumption
  <2> HIDE DEF conn, cs
  <2>4. q \in Locals /\ q.pc = "unlink" /\ q.g = g /\ q.sid = sid
    BY <1>1, <2>2 DEF Locals, PCs
  <2> HIDE DEF q
  <2>5. Fits(t, q, Shared) /\ Onward(th[t], q)
    BY <1>1, <2>4 DEF Fits, Starting, Holding, Creating, Seating, Leaving, Ending,
                      Unrecorded, Onward
  <2>6. OutsideFits'
    BY <2>1, OutsideKept DEF TeardownRemove, store, outside, ServiceInv
  <2>7. UNCHANGED <<chanOf, shards, channelCalls, startLock, statRows, callEnds>>
    BY DEF TeardownRemove, store, outside
  <2> HIDE DEF g, sid
  <2> QED
    BY <1>1, <2>1, <2>3, <2>5, <2>6, <2>7, CallMove
<1> QED
  BY <1>2, <1>3

\* The session leaves the session registry.
LEMMA TeardownUnlinkInv ==
    ASSUME ServiceInv, NEW t \in Threads, TeardownUnlink(t)
    PROVE  Kept
<1>1. th[t].pc = "unlink"
  BY DEF TeardownUnlink, At
<1>2. OutsideFits'
  BY DEF TeardownUnlink, Unlink, Del, OutsideFits, IndexFits, memory, wsVars, store,
         outside, ServiceInv
<1> QED
  BY <1>1, <1>2, GotoInv DEF TeardownUnlink, store, outside, Starting, Holding,
                             Creating, Seating, Leaving, Ending, Unrecorded, PCs

\* The SFU and the database are told, or not.
LEMMA TeardownLeaveInv ==
    ASSUME ServiceInv, NEW t \in Threads, TeardownLeave(t)
    PROVE  Kept
<1>1. th[t].pc = "leave"
  BY DEF TeardownLeave, At
<1>2. OutsideFits'
  BY DEF TeardownLeave, OutsideFits, IndexFits, memory, index, wsVars, ServiceInv
<1> QED
  BY <1>1, <1>2, GotoInv DEF TeardownLeave, Starting, Holding, Creating, Seating,
                             Leaving, Ending, Unrecorded, PCs

\* The last participant out goes on to end the call.
LEMMA TeardownLastOutInv ==
    ASSUME ServiceInv, NEW t \in Threads, TeardownLastOut(t)
    PROVE  Kept
<1>1. th[t].pc = "lastOut" /\ UNCHANGED <<memory, startLock, statRows, callEnds>>
  BY DEF TeardownLastOut, At, store, outside
<1>2. OutsideFits'
  BY OutsideKept DEF TeardownLastOut, memory, store, outside, ServiceInv
<1>3. ASSUME Goto(t, "end") PROVE Kept
  BY <1>1, <1>2, <1>3, GotoInv DEF Starting, Holding, Creating, Seating, Leaving,
                                   Ending, Unrecorded, PCs
<1>4. ASSUME Return(t) PROVE Kept
  BY <1>1, <1>2, <1>4, QuietReturn DEF Creating
<1> QED
  BY <1>3, <1>4 DEF TeardownLastOut

\* The connection index of a call leads to session ids.
LEMMA IndexedSession ==
    ASSUME ServiceInv, NEW g \in DOMAIN calls, NEW c, findByConn(calls[g], c)
    PROVE  calls[g].byConn[c] \in Ref /\ calls[g].byConn[c].sid \in Conns
<1>1. calls[g].byConn[c] \in Ref
  BY DEF ServiceInv, CallsFit, CallFits, CallShape, findByConn
<1> QED
  BY <1>1 DEF Ref

\* handleLeave
LEMMA LeaveInv ==
    ASSUME ServiceInv, NEW c \in Conns, NEW ch \in Channels, Leave(c, ch)
    PROVE  Kept
<1> DEFINE g == channelCalls[ch]
           sid == calls[g].byConn[c].sid
<1>1. /\ WS(c) \in Threads /\ th[WS(c)].pc = "idle"
      /\ BeginTeardown(WS(c), g, sid)
      /\ UNCHANGED <<memory, startLock, statRows, callEnds>>
  BY ThreadsAre DEF Leave, At, store, outside
<1>2. g \in DOMAIN calls
  BY DEF Leave, ServiceInv, Sound, Shared
<1>3. sid \in Conns
  BY <1>2, IndexedSession DEF Leave
<1>4. OutsideFits'
  BY OutsideKept DEF Leave, memory, store, outside, ServiceInv
<1> HIDE DEF g, sid
<1> QED
  BY <1>1, <1>2, <1>3, <1>4, BeginInv DEF Creating

\* handleReconnect: the session moves to the new connection.
LEMMA ReconnectInv ==
    ASSUME ServiceInv, NEW c \in Conns, NEW ch \in Channels, NEW sid \in Conns,
           Reconnect(c, ch, sid)
    PROVE  Kept
<1> DEFINE g == channelCalls[ch]
           t == WS(c)
           cs == setConn(calls[g], sid, c)
           q == [Idle EXCEPT !.pc = "repoint", !.g = g, !.sid = sid, !.conn = c]
<1>1. /\ t \in Threads /\ th[t].pc = "idle"
      /\ th' = [th EXCEPT ![t] = q]
      /\ calls' = [calls EXCEPT ![g] = cs]
      /\ sid \in DOMAIN calls[g].sessions
      /\ UNCHANGED <<chanOf, shards, channelCalls, startLock, statRows, callEnds>>
  BY ThreadsAre DEF Reconnect, At, store, outside
<1>2. g \in DOMAIN calls /\ g \in Nat /\ g \in Shared.known /\ CallShape(calls[g])
  <2>1. g \in DOMAIN calls
    BY DEF Reconnect, ServiceInv, Sound, Shared
  <2>2. DOMAIN calls \subseteq CallIds
    BY NoCallApart DEF ServiceInv, Shared
  <2> QED
    BY <2>1, <2>2 DEF CallIds, Shared, ServiceInv, CallsFit, CallFits
<1>3. /\ Shaped(cs, calls[g], Limit)
      /\ DOMAIN cs.sessions \subseteq DOMAIN calls[g].sessions
  BY <1>1, <1>2, SetConnShape
<1>4. q \in Locals /\ q.pc = "repoint" /\ q.g = g /\ q.sid = sid /\ q.conn = c
  BY <1>2 DEF Idle, Locals, PCs
<1>5. OutsideFits'
  <2>1. ws' \in [Conns -> {"up", "replaced", "down", "gone"}]
    BY DEF Reconnect, ServiceInv, OutsideFits
  <2> QED
    BY <1>1, <2>1 DEF Reconnect, OutsideFits, IndexFits, index, store, outside,
                      ServiceInv
<1> HIDE DEF g, t, cs, q
<1>6. Fits(t, q, Shared) /\ Onward(th[t], q)
  BY <1>1, <1>2, <1>4 DEF Fits, Starting, Holding, Creating, Seating, Leaving, Ending,
                          Unrecorded, Onward
<1> QED
  BY <1>1, <1>2, <1>3, <1>5, <1>6, CallMove

\* The session registry follows the session to its new connection.
LEMMA ReconnectRepointInv ==
    ASSUME ServiceInv, NEW t \in Threads, ReconnectRepoint(t)
    PROVE  Kept
<1>1. th[t].pc = "repoint" /\ th[t].g \in DOMAIN calls
      /\ th[t].sid \in Conns /\ th[t].conn \in Conns
  BY Mine DEF ReconnectRepoint, At, Fits, Seating
<1>2. OutsideFits'
  BY <1>1 DEF ReconnectRepoint, Put, Del, OutsideFits, IndexFits, memory, wsVars,
              store, outside, ServiceInv
<1> QED
  BY <1>1, <1>2, QuietReturn DEF ReconnectRepoint, store, outside, Creating

\* Steps that no goroutine takes and no call sees.
LEMMA NobodyMoves ==
    ASSUME ServiceInv, UNCHANGED <<memory, startLock, statRows, callEnds, th>>,
           OutsideFits'
    PROVE  Kept
<1>1. Shared' = Shared /\ CallsFit'
  BY SharedKept DEF ServiceInv
<1>2. [Abstract!Next]_(Abstract!vars)
  BY <1>1, Unseen
<1> QED
  BY <1>1, <1>2 DEF Kept, ServiceInv

\* A websocket dies or comes back.
LEMMA ConnInv ==
    ASSUME ServiceInv, NEW c \in Conns, ConnDrops(c) \/ ConnRevives(c)
    PROVE  Kept
<1>1. UNCHANGED <<memory, startLock, statRows, callEnds, th>>
  BY DEF ConnDrops, ConnRevives, store, outside
<1>2. OutsideFits'
  BY DEF ConnDrops, ConnRevives, OutsideFits, IndexFits, memory, index, store, outside,
         ServiceInv
<1> QED
  BY <1>1, <1>2, NobodyMoves

\* The grace timer is armed with the session of the dead connection.
LEMMA HandleWSDisconnectInv ==
    ASSUME ServiceInv, NEW c \in Conns, HandleWSDisconnect(c)
    PROVE  Kept
<1> DEFINE g == byConn[c]
           sess == calls[g].byConn[c]
           q == [Idle EXCEPT !.pc = "armed", !.g = g, !.sid = sess.sid,
                             !.seq = sess.seq]
<1>1. OutsideFits'
  BY DEF HandleWSDisconnect, OutsideFits, IndexFits, memory, index, store, outside,
         ServiceInv
<1>2. UNCHANGED <<memory, startLock, statRows, callEnds>>
  BY DEF HandleWSDisconnect, store, outside
<1>3. CASE UNCHANGED th
  BY <1>1, <1>2, <1>3, NobodyMoves
<1>4. CASE ~UNCHANGED th
  <2>1. /\ c \in DOMAIN byConn /\ findByConn(calls[g], c)
        /\ th' = [th EXCEPT ![Grace(c)] = q]
    BY <1>4 DEF HandleWSDisconnect
  <2>2. g \in DOMAIN calls /\ g \in Nat /\ g \in Shared.known
    <3>1. DOMAIN calls \subseteq CallIds
      BY NoCallApart DEF ServiceInv, Shared
    <3> QED
      BY <2>1, <3>1 DEF ServiceInv, OutsideFits, IndexFits, CallIds, Shared
  <2>3. sess \in Ref /\ sess.sid \in Conns /\ sess.seq \in Nat
    BY <2>1, <2>2, IndexedSession DEF Ref
  <2> HIDE DEF g, sess
  <2>4. q \in Locals /\ q.pc = "armed" /\ q.g = g /\ q.sid \in Conns
    BY <2>2, <2>3 DEF Idle, Locals, PCs, NoConn
  <2> HIDE DEF q
  <2>5. Fits(Grace(c), q, Shared)
    BY <2>2, <2>4 DEF Fits, Starting, Holding, Creating, Seating, Leaving, Ending,
                      Unrecorded
  <2>6. Grace(c) \in Threads
    BY ThreadsAre
  <2>7. Onward(th[Grace(c)], q)
    <3>1. th[Grace(c)].pc \notin Creating
      BY <2>6, Mine, GraceStartsNothing DEF Fits, Starting, Holding
    <3> QED
      BY <2>4, <3>1 DEF Onward, Ending, Unrecorded
  <2> QED
    BY <1>1, <1>2, <2>1, <2>5, <2>6, <2>7, QuietStep
<1> QED
  BY <1>3, <1>4

\* The grace timer fires.
LEMMA GraceExpiresInv ==
    ASSUME ServiceInv, NEW c \in Conns, GraceExpires(c)
    PROVE  Kept
<1> DEFINE t == Grace(c)
<1>1. /\ t \in Threads /\ th[t].pc = "armed" /\ th[t].g \in DOMAIN calls
      /\ th[t].sid \in Conns
  BY ThreadsAre, Mine DEF GraceExpires, At, Fits, Leaving
<1>2. OutsideFits' /\ UNCHANGED <<memory, startLock, statRows, callEnds>>
  BY OutsideKept DEF GraceExpires, memory, store, outside, ServiceInv
<1>3. BeginTeardown(t, th[t].g, th[t].sid) \/ Return(t)
  BY DEF GraceExpires
<1> HIDE DEF t
<1>4. CASE BeginTeardown(t, th[t].g, th[t].sid)
  BY <1>1, <1>2, <1>4, BeginInv DEF Creating
<1>5. CASE Return(t)
  BY <1>1, <1>2, <1>5, QuietReturn DEF Creating
<1> QED
  BY <1>3, <1>4, <1>5

\* The SFU closes a media session: the first notice of it is taken up.
LEMMA SFUCloseInv ==
    ASSUME ServiceInv, NEW g \in DOMAIN calls, NEW sid \in Conns, SFUClose(g, sid)
    PROVE  Kept
<1> DEFINE h == bySession[sid]
           cs == markRTCclosed(calls[h], sid)
           q == [Idle EXCEPT !.pc = "remove", !.g = h, !.sid = sid]
           first == /\ sid \in DOMAIN bySession
                    /\ sid \in DOMAIN calls[h].sessions
                    /\ ~calls[h].sessions[sid].rtcClosed
<1>1. SFU \in Threads /\ th[SFU].pc = "idle"
  BY ThreadsAre DEF SFUClose, At
<1>2. CASE ~first
  <2>1. UNCHANGED <<memory, startLock, statRows, callEnds, th>>
    BY <1>2 DEF SFUClose, memory, store
  <2>2. OutsideFits'
    BY <2>1 DEF SFUClose, OutsideFits, IndexFits, memory, index, wsVars, store,
                ServiceInv
  <2> QED
    BY <2>1, <2>2, NobodyMoves
<1>3. CASE first
  <2>1. /\ calls' = [calls EXCEPT ![h] = cs]
        /\ th' = [th EXCEPT ![SFU] = q]
        /\ UNCHANGED <<chanOf, shards, channelCalls, startLock, statRows, callEnds>>
    BY <1>3 DEF SFUClose, BeginTeardown, store
  <2>2. h \in DOMAIN calls /\ CallShape(calls[h])
    BY <1>3 DEF ServiceInv, OutsideFits, IndexFits, CallsFit, CallFits
  <2>3. Shaped(cs, calls[h], Limit) /\ DOMAIN cs.sessions \subseteq DOMAIN calls[h].sessions
    BY <1>3, <2>2, MarkShape
  <2>4. Fits(SFU, q, Shared) /\ Onward(th[SFU], q)
    BY <1>1, <2>2, BeginFits DEF Creating
  <2>5. OutsideFits'
    <3>1. DOMAIN calls' = DOMAIN calls
      BY <2>1
    <3> QED
      BY <3>1 DEF SFUClose, OutsideFits, IndexFits, index, wsVars, store, ServiceInv
  <2> HIDE DEF h, cs, q
  <2> QED
    BY <1>1, <2>1, <2>2, <2>3, <2>4, <2>5, CallMove
<1> QED
  BY <1>2, <1>3

\* The host removes a participant.
LEMMA RestRemoveInv ==
    ASSUME ServiceInv, NEW g \in DOMAIN calls, NEW sid \in Conns, RestRemove(g, sid)
    PROVE  Kept
<1> DEFINE cs == markRemoved(calls[g], sid)
           q == [Idle EXCEPT !.pc = "remove", !.g = g, !.sid = sid]
<1>1. /\ Rest \in Threads /\ th[Rest].pc = "idle"
      /\ sid \in DOMAIN calls[g].sessions
      /\ calls' = [calls EXCEPT ![g] = cs]
      /\ th' = [th EXCEPT ![Rest] = q]
      /\ UNCHANGED <<chanOf, shards, channelCalls, startLock, statRows, callEnds>>
  BY ThreadsAre DEF RestRemove, At, BeginTeardown, store, outside
<1>2. CallShape(calls[g])
  BY DEF ServiceInv, CallsFit, CallFits
<1>3. Shaped(cs, calls[g], Limit) /\ DOMAIN cs.sessions \subseteq DOMAIN calls[g].sessions
  BY <1>1, <1>2, MarkShape
<1>4. Fits(Rest, q, Shared) /\ Onward(th[Rest], q)
  BY <1>1, BeginFits DEF Creating
<1>5. OutsideFits'
  BY <1>1, OutsideKept DEF RestRemove, store, outside, ServiceInv
<1> HIDE DEF cs, q
<1> QED
  BY <1>1, <1>3, <1>4, <1>5, CallMove

\* POST /calls/start
LEMMA RestStartInv ==
    ASSUME ServiceInv, NEW ch \in Channels, RestStart(ch)
    PROVE  Kept
<1> DEFINE q == [Idle EXCEPT !.pc = "start", !.ch = ch]
<1>1. /\ Rest \in Threads /\ th[Rest].pc = "idle"
      /\ th' = [th EXCEPT ![Rest] = q]
      /\ UNCHANGED <<memory, startLock, statRows, callEnds>>
  BY ThreadsAre DEF RestStart, At, store, outside
<1>2. q \in Locals /\ q.pc = "start" /\ q.ch = ch /\ q.g = NoCall
  BY DEF Idle, Locals, PCs, NoCall
<1>3. OutsideFits'
  BY OutsideKept DEF RestStart, memory, store, outside, ServiceInv
<1> HIDE DEF q
<1>4. Fits(Rest, q, Shared) /\ Onward(th[Rest], q)
  BY <1>1, <1>2 DEF Fits, Starters, Starting, Holding, Creating, Seating, Leaving,
                    Ending, Unrecorded, Onward
<1> QED
  BY <1>1, <1>3, <1>4, QuietStep

\* EndCall, and the reaper's visit: a goroutine goes on to end a call.
LEMMA EndBeginsInv ==
    ASSUME ServiceInv, NEW g \in DOMAIN calls, RestEnd(g) \/ ReaperVisit(g)
    PROVE  Kept
<1> DEFINE q == [Idle EXCEPT !.pc = "end", !.g = g]
<1>1. PICK t \in {Rest, Reaper} : th[t].pc = "idle" /\ th' = [th EXCEPT ![t] = q]
  BY DEF RestEnd, ReaperVisit, At
<1>2. UNCHANGED <<memory, startLock, statRows, callEnds>>
  BY DEF RestEnd, ReaperVisit, store, outside
<1>3. OutsideFits'
  BY OutsideKept DEF RestEnd, ReaperVisit, memory, store, outside, ServiceInv
<1>4. g \in Nat /\ g \in Shared.known
  <2>1. DOMAIN calls \subseteq CallIds
    BY NoCallApart DEF ServiceInv, Shared
  <2> QED
    BY <2>1 DEF CallIds, Shared
<1>5. q \in Locals /\ q.pc = "end" /\ q.g = g
  BY <1>4 DEF Idle, Locals, PCs
<1> HIDE DEF q
<1>6. Fits(t, q, Shared) /\ Onward(th[t], q)
  BY <1>1, <1>4, <1>5 DEF Fits, Starting, Holding, Creating, Seating, Leaving,
                          Ending, Unrecorded, Onward
<1> QED
  BY <1>1, <1>2, <1>3, <1>6, ThreadsAre, QuietStep

-----------------------------------------------------------------------------
(***************************************************************************)
(* The invariant holds                                                     *)
(***************************************************************************)

\* A server that has just started.
LEMMA InitInv == Init => ServiceInv
<1> SUFFICES ASSUME Init PROVE ServiceInv
  OBVIOUS
<1> DEFINE s == Shared
<1>1. DOMAIN calls = {} /\ DOMAIN chanOf = {} /\ shards = {}
      /\ chanOf = [g \in {} |-> g]
  BY DEF Init, EmptyMap
<1>2. /\ s.known = {} /\ s.live = {} /\ s.shards = {}
      /\ s.chan = [g \in {} |-> g]
      /\ s.reg = [ch \in Channels |-> NoCall]
      /\ s.lock = [ch \in Channels |-> NoThread]
  BY <1>1 DEF Shared, Init
<1>3. /\ DOMAIN th = Threads
      /\ th = [t \in Threads |-> Idle]
      /\ \A t \in Threads : th[t] = Idle /\ th[t].pc = "idle"
  BY DEF Init, Idle
<1> HIDE DEF s
<1>4. Sound(s)
  <2>1. 0 \in 0..MaxCalls /\ 1..0 = {}
    BY ServiceAssumption
  <2>2. s.chan \in [{} -> Channels]
    BY <1>2
  <2> QED
    BY <1>2, <2>1, <2>2 DEF Sound
<1>5. ThreadsFit(th, s)
  BY <1>3, IdleFits DEF ThreadsFit
<1>6. Covered(s, th)
  BY <1>2 DEF Covered
<1>7. EndersApart(s, th, statRows, callEnds)
  <2>1. statRows = [g \in CallIds |-> 0] /\ callEnds = [g \in CallIds |-> 0]
    BY DEF Init
  <2>2. \A t \in Threads : th[t].pc \notin Ending
    BY <1>3 DEF Ending, Unrecorded
  <2> QED
    BY <2>1, <2>2 DEF EndersApart
<1>8. CallsFit
  BY <1>1 DEF CallsFit
<1>9. OutsideFits
  BY <1>1 DEF Init, EmptyMap, OutsideFits, IndexFits
<1> QED
  BY <1>4, <1>5, <1>6, <1>7, <1>8, <1>9 DEF ServiceInv, s

\* A step of a handler that has begun.
LEMMA StepInv ==
    ASSUME ServiceInv, NEW t \in Threads, Step(t)
    PROVE  Kept
<1>1. CASE StartCall(t)
  BY <1>1, StartReuseInv, StartNoHostInv, StartCreateInv, StartSaveInv,
     StartSaveFailsInv, StartRegisterInv, StartAnnounceInv DEF StartCall
<1>2. CASE Join(t)
  BY <1>2, JoinCheckLiveInv, JoinInsertInv, JoinLinkInv, JoinSaveInv, JoinSFUInv
     DEF Join
<1>3. CASE EndCallState(t)
  BY <1>3, EndMarkInv, EndSnapshotInv, EndUnshardInv, EndUnregisterInv, EndLoadInv,
     EndPersistInv, EndCloseSessionInv, EndCloseRowsInv, EndBroadcastInv
     DEF EndCallState
<1>4. CASE Teardown(t)
  BY <1>4, TeardownRemoveInv, TeardownUnlinkInv, TeardownLeaveInv, TeardownLastOutInv
     DEF Teardown
<1>5. CASE ReconnectRepoint(t)
  BY <1>5, ReconnectRepointInv
<1> QED
  BY <1>1, <1>2, <1>3, <1>4, <1>5 DEF Step

\* Every step of every goroutine keeps the invariant, and a channel sees it
\* as a step of ChannelCalls or not at all.
LEMMA NextKept == ServiceInv /\ [Next]_vars => Kept
<1> SUFFICES ASSUME ServiceInv, [Next]_vars PROVE Kept
  OBVIOUS
<1>1. CASE UNCHANGED vars
  <2>1. UNCHANGED <<memory, startLock, statRows, callEnds, th>>
    BY <1>1 DEF vars, memory
  <2>2. OutsideFits'
    BY <1>1, OutsideKept DEF vars, index, wsVars, ServiceInv
  <2> QED
    BY <2>1, <2>2, NobodyMoves
<1>2. ASSUME NEW t \in Threads, Step(t) PROVE Kept
  BY <1>2, StepInv
<1>3. ASSUME NEW c \in Conns, NEW ch \in Channels,
             \/ JoinBegin(c, ch)
             \/ Leave(c, ch)
             \/ \E sid \in Conns : Reconnect(c, ch, sid)
      PROVE  Kept
  BY <1>3, JoinBeginInv, LeaveInv, ReconnectInv
<1>4. ASSUME NEW c \in Conns,
             ConnDrops(c) \/ ConnRevives(c) \/ HandleWSDisconnect(c) \/ GraceExpires(c)
      PROVE  Kept
  BY <1>4, ConnInv, HandleWSDisconnectInv, GraceExpiresInv
<1>5. ASSUME NEW g \in DOMAIN calls, NEW sid \in Conns,
             SFUClose(g, sid) \/ RestRemove(g, sid)
      PROVE  Kept
  BY <1>5, SFUCloseInv, RestRemoveInv
<1>6. ASSUME NEW ch \in Channels, RestStart(ch) PROVE Kept
  BY <1>6, RestStartInv
<1>7. ASSUME NEW g \in DOMAIN calls, RestEnd(g) \/ ReaperVisit(g) PROVE Kept
  BY <1>7, EndBeginsInv
<1> QED
  BY <1>1, <1>2, <1>3, <1>4, <1>5, <1>6, <1>7 DEF Next

\* The invariant is one.
LEMMA Invariance == Spec => []ServiceInv
<1>1. ServiceInv /\ [Next]_vars => ServiceInv'
  BY NextKept DEF Kept
<1> QED
  BY InitInv, <1>1, PTL DEF Spec

-----------------------------------------------------------------------------
(***************************************************************************)
(* What follows                                                            *)
(***************************************************************************)

\* Every variable of the calls service has its type, always.
THEOREM TypesHold == Spec => []TypeOK
<1>1. ServiceInv => TypeOK
  <2> SUFFICES ASSUME ServiceInv PROVE TypeOK
    OBVIOUS
  <2>1. /\ DOMAIN calls \subseteq CallIds
        /\ chanOf \in [DOMAIN calls -> Channels]
        /\ shards \subseteq DOMAIN calls
        /\ channelCalls \in [Channels -> DOMAIN calls \cup {NoCall}]
        /\ startLock \in [Channels -> Threads \cup {NoThread}]
    BY NoCallApart DEF ServiceInv, Sound, Shared
  <2>2. \A t \in Threads : th[t].pc \in PCs /\ th[t].g \in DOMAIN calls \cup {NoCall}
    BY Mine DEF Fits, Locals, Shared
  <2> QED
    BY <2>1, <2>2 DEF TypeOK, ServiceInv, OutsideFits, IndexFits
<1> QED
  BY <1>1, Invariance, PTL

\* A channel never has two live calls in the registry, however many starts,
\* joins and teardowns run at once (StartCall).
THEOREM OneLiveCallAlways == Spec => []OneLiveCall
<1>1. ServiceInv => OneLiveCall
  <2> SUFFICES ASSUME ServiceInv,
                      NEW g \in shards, NEW h \in shards,
                      Live(g), Live(h), chanOf[g] = chanOf[h]
               PROVE  g = h
    BY DEF OneLiveCall
  <2> DEFINE s == Shared
  <2>1. /\ g \in s.shards \cap s.live /\ h \in s.shards \cap s.live
        /\ s.chan[g] = s.chan[h]
        /\ Covered(s, th)
    BY DEF ServiceInv, Sound, Shared
  <2>2. ASSUME NEW x \in s.live, NEW y \in s.live, s.chan[x] = s.chan[y],
               s.reg[s.chan[x]] = x,
               NEW u \in Threads, th[u].pc \in Creating, th[u].g = y
        PROVE  FALSE
    BY <2>2, Mine DEF Fits, Holding
  <2>3. ASSUME NEW t \in Threads, NEW u \in Threads,
               th[t].pc \in Creating, th[t].g = g, th[u].pc \in Creating, th[u].g = h
        PROVE  g = h
    <3>1. s.lock[s.chan[g]] = t /\ s.lock[s.chan[h]] = u
      BY <2>3, Mine DEF Fits, Holding
    <3> QED
      BY <2>1, <2>3, <3>1
  <2> HIDE DEF s
  <2> QED
    BY <2>1, <2>2, <2>3 DEF Covered
<1> QED
  BY <1>1, Invariance, PTL

\* A live call with participants is the call its channel and its shard
\* resolve to: no late teardown unregisters it (channelIndex.deleteIf).
THEOREM LiveCallAlwaysRegistered == Spec => []LiveCallRegistered
<1>1. ServiceInv => LiveCallRegistered
  <2> SUFFICES ASSUME ServiceInv, NEW g \in DOMAIN calls, Live(g),
                      DOMAIN calls[g].sessions # {}
               PROVE  g \in shards /\ channelCalls[chanOf[g]] = g
    BY DEF LiveCallRegistered
  <2>1. channelCalls[chanOf[g]] = g
    BY DEF ServiceInv, CallsFit, CallFits, Shared
  <2>2. chanOf[g] \in Channels
    BY DEF ServiceInv, Sound, Shared
  <2> QED
    BY <2>1, <2>2 DEF ServiceInv, Sound, Shared
<1> QED
  BY <1>1, Invariance, PTL

\* However many leave, end, grace, SFU and reaper teardowns race, a call has
\* at most one stats row and one call_end (EndCall).
THEOREM EndedOnceAlways == Spec => []EndedOnce
<1>1. ServiceInv => EndedOnce
  <2> SUFFICES ASSUME ServiceInv, NEW g \in CallIds
               PROVE  statRows[g] <= 1 /\ callEnds[g] <= 1
    BY DEF EndedOnce
  <2>1. statRows[g] \in {0, 1} /\ callEnds[g] \in {0, 1}
    BY DEF ServiceInv, EndersApart
  <2> QED
    BY <2>1
<1> QED
  BY <1>1, Invariance, PTL

\* No interleaving of joins exceeds the participant limit (addSession).
THEOREM LimitAlwaysHeld == Spec => []LimitHeld
<1>1. ServiceInv => LimitHeld
  BY DEF ServiceInv, CallsFit, CallFits, LimitHeld
<1> QED
  BY <1>1, Invariance, PTL

\* The goroutines, locks and registries implement what ChannelCalls promises
\* a channel: calls come one at a time, each ends once, and its end is
\* recorded and announced at most once.
THEOREM ServiceImplementsChannelCalls == Spec => ImplementsChannelCalls
<1>1. Init => Abstract!Init
  <2> SUFFICES ASSUME Init PROVE Abstract!Init
    OBVIOUS
  <2>1. DOMAIN calls = {} /\ statRows = [g \in CallIds |-> 0]
        /\ callEnds = [g \in CallIds |-> 0]
    BY DEF Init, EmptyMap
  <2> QED
    BY <2>1 DEF Abstract!Init, Phase, ChannelOf
<1>2. ServiceInv /\ [Next]_vars => [Abstract!Next]_(Abstract!vars)
  BY NextKept DEF Kept
<1> QED
  BY <1>1, <1>2, Invariance, PTL DEF Spec, ImplementsChannelCalls, Abstract!Spec
=============================================================================
