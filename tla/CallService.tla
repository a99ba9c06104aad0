---------------------------- MODULE CallService -----------------------------
(***************************************************************************)
(* The calls control plane (server/channels/calls): the life of every call *)
(* of a server, from StartCall to endCallState, with all the goroutines    *)
(* that drive it.                                                          *)
(*                                                                         *)
(* Every goroutine is a thread with a program counter; a step is one       *)
(* critical section or one call to the database or the SFU, so threads     *)
(* interleave exactly where the code releases its locks:                   *)
(*   <<"ws", c>>      the read pump of connection c: join, leave, reconnect *)
(*   <<"grace", c>>   the time.AfterFunc of HandleWSDisconnect(c)          *)
(*   <<"rest", 0>>    a REST request: start, end or host-remove            *)
(*   <<"sfu", 0>>     the rtcd message pump: session closed                *)
(*   <<"reaper", 0>>  the idle-call reaper                                 *)
(***************************************************************************)
EXTENDS CallStateOps

CONSTANTS Channels,    \* channel ids
          Limit,       \* MaxCallParticipants; 0 is unlimited
          MaxCalls,    \* bound: calls ever created
          MaxJoins,    \* bound: join messages of one connection
          Sources,     \* which of the causes below occur
          Faults       \* which of "db", "sfu" calls may fail

ASSUME ServiceAssumption ==
    /\ Limit \in Nat
    /\ MaxCalls \in Nat
    /\ MaxJoins \in Nat
    /\ Sources \subseteq {"start", "end", "remove", "sfu", "reaper", "drop",
                            "reuse"}
    /\ Faults \subseteq {"db", "sfu"}

VARIABLES
    calls,        \* call id -> callState, for every call ever created
    chanOf,       \* call id -> its channel
    shards,       \* the call ids the shard registry holds
    channelCalls, \* channelIndex: channel -> registered call, or NoCall
    startLock,    \* channelLockTable: the thread holding a channel's lock
    bySession,    \* sessionRegistry.bySession: session id -> call
    byConn,       \* sessionRegistry.byConn: connection id -> call
    ws,           \* connection -> "up", "replaced", "down" or "gone"
    lost,         \* dead connections whose HandleWSDisconnect has yet to run
    joins,        \* join messages each connection has sent
    callRow,      \* the calls table: call id -> is its EndAt set?
    statRows,     \* the call_stats table: call id -> number of rows
    openRows,     \* call_sessions rows with endat = 0: <<call, session>>
    sfu,          \* media sessions the SFU holds: <<call, session>>
    callEnds,     \* call_end broadcasts sent: call id -> number
    th            \* thread -> its program counter and locals

vars == <<calls, chanOf, shards, channelCalls, startLock, bySession, byConn, ws,
          lost, joins, callRow, statRows, openRows, sfu, callEnds, th>>

memory == <<calls, chanOf, shards, channelCalls>>
index  == <<bySession, byConn>>
wsVars == <<ws, lost, joins>>
store  == <<callRow, statRows, openRows>>
outside == <<sfu, callEnds>>

NoCall == 0
CallIds == 1..MaxCalls

WS(c) == <<"ws", c>>
Grace(c) == <<"grace", c>>
Rest == <<"rest", 0>>
SFU == <<"sfu", 0>>
Reaper == <<"reaper", 0>>
Threads == {WS(c) : c \in Conns} \cup {Grace(c) : c \in Conns}
               \cup {Rest, SFU, Reaper}
NoThread == <<"none", 0>>

\* A thread's locals: the channel, call, session and connection it works
\* on, its attempts at joining, what endCallState remembers.
Idle == [pc |-> "idle", ch |-> "", g |-> NoCall, sid |-> NoConn, seq |-> 0,
         conn |-> NoConn, tries |-> 0, ids |-> {}, owned |-> FALSE]

At(t, pc) == th[t].pc = pc
Goto(t, pc) == th' = [th EXCEPT ![t].pc = pc]
Return(t) == th' = [th EXCEPT ![t] = Idle]

Live(g) == ~calls[g].ended

Init ==
    /\ calls = EmptyMap
    /\ chanOf = EmptyMap
    /\ shards = {}
    /\ channelCalls = [ch \in Channels |-> NoCall]
    /\ startLock = [ch \in Channels |-> NoThread]
    /\ bySession = EmptyMap
    /\ byConn = EmptyMap
    /\ ws = [c \in Conns |-> "up"]
    /\ lost = {}
    /\ joins = [c \in Conns |-> 0]
    /\ callRow = EmptyMap
    /\ statRows = [g \in CallIds |-> 0]
    /\ openRows = {}
    /\ sfu = {}
    /\ callEnds = [g \in CallIds |-> 0]
    /\ th = [t \in Threads |-> Idle]

-----------------------------------------------------------------------------
(***************************************************************************)
(* StartCall, called by a join or by the REST endpoint                     *)
(***************************************************************************)

\* channelIndex.getLive
LiveCallOf(ch) ==
    channelCalls[ch] # NoCall /\ Live(channelCalls[ch])

\* Where StartCall goes once it has its call: a join goes on to insert its
\* session, the REST endpoint answers.
Started(t, g) ==
    IF t = Rest THEN Return(t)
    ELSE th' = [th EXCEPT ![t].pc = "addIfLive", ![t].g = g]

\* The start lock is free and the channel has a live call: return it.
StartReuse(t) ==
    /\ At(t, "start")
    /\ startLock[th[t].ch] = NoThread
    /\ LiveCallOf(th[t].ch)
    /\ Started(t, channelCalls[th[t].ch])
    /\ UNCHANGED <<memory, startLock, index, wsVars, store, outside>>

\* No live call and no healthy SFU host: the start fails.
StartNoHost(t) ==
    /\ At(t, "start")
    /\ startLock[th[t].ch] = NoThread
    /\ ~LiveCallOf(th[t].ch)
    /\ Return(t)
    /\ UNCHANGED <<memory, startLock, index, wsVars, store, outside>>

\* Mutant: the start lock is not waited for.
StartCreateUnlocked(t) ==
    LET g == Cardinality(DOMAIN calls) + 1
        ch == th[t].ch
    IN  /\ At(t, "start")
        /\ g \in CallIds
        /\ ~LiveCallOf(ch)
        /\ startLock' = [startLock EXCEPT ![ch] = t]
        /\ calls' = Put(calls, g, newCallState)
        /\ chanOf' = Put(chanOf, g, ch)
        /\ shards' = shards \cup {g}
        /\ th' = [th EXCEPT ![t].pc = "save", ![t].g = g]
        /\ UNCHANGED <<channelCalls, index, wsVars, store, outside>>

\* Mutant: the new state does not know its channel.
StartCreateNoChannel(t) ==
    LET g == Cardinality(DOMAIN calls) + 1
        ch == th[t].ch
    IN  /\ At(t, "start")
        /\ g \in CallIds
        /\ startLock[ch] = NoThread
        /\ ~LiveCallOf(ch)
        /\ startLock' = [startLock EXCEPT ![ch] = t]
        /\ calls' = Put(calls, g, newCallState)
        /\ shards' = shards \cup {g}
        /\ th' = [th EXCEPT ![t].pc = "save", ![t].g = g]
        /\ UNCHANGED <<chanOf, channelCalls, index, wsVars, store, outside>>

\* No live call: take a fresh id and put its state in its shard, keeping
\* the channel's start lock.
StartCreate(t) ==
    LET g == Cardinality(DOMAIN calls) + 1
        ch == th[t].ch
    IN  /\ At(t, "start")
        /\ g \in CallIds
        /\ startLock[ch] = NoThread
        /\ ~LiveCallOf(ch)
        /\ startLock' = [startLock EXCEPT ![ch] = t]
        /\ calls' = Put(calls, g, newCallState)
        /\ chanOf' = Put(chanOf, g, ch)
        /\ shards' = shards \cup {g}
        /\ th' = [th EXCEPT ![t].pc = "save", ![t].g = g]
        /\ UNCHANGED <<channelCalls, index, wsVars, store, outside>>

\* store.Call().Save
StartSave(t) ==
    /\ At(t, "save")
    /\ callRow' = Put(callRow, th[t].g, FALSE)
    /\ Goto(t, "register")
    /\ UNCHANGED <<memory, startLock, index, wsVars, statRows, openRows, outside>>

\* Save failed: roll the shard back and give up.
StartSaveFails(t) ==
    /\ "db" \in Faults
    /\ At(t, "save")
    /\ shards' = shards \ {th[t].g}
    /\ startLock' = [startLock EXCEPT ![th[t].ch] = NoThread]
    /\ Return(t)
    /\ UNCHANGED <<calls, chanOf, channelCalls, index, wsVars, store, outside>>

\* channelCalls.set, after the durable boundary
StartRegister(t) ==
    /\ At(t, "register")
    /\ channelCalls' = [channelCalls EXCEPT ![th[t].ch] = th[t].g]
    /\ Goto(t, "announce")
    /\ UNCHANGED <<calls, chanOf, shards, startLock, index, wsVars, store, outside>>

\* Mutant: the start lock is not released.
StartAnnounceKeepsLock(t) ==
    /\ At(t, "announce")
    /\ Started(t, th[t].g)
    /\ UNCHANGED <<memory, startLock, index, wsVars, store, outside>>

\* The announcement post, if it could be created, is stored with an Update
\* of the whole row as StartCall built it (EndAt = 0); then call_start is
\* broadcast and the lock released.
StartAnnounce(t) ==
    /\ At(t, "announce")
    /\ \/ callRow' = [callRow EXCEPT ![th[t].g] = FALSE]
       \/ UNCHANGED callRow
    /\ startLock' = [startLock EXCEPT ![th[t].ch] = NoThread]
    /\ Started(t, th[t].g)
    /\ UNCHANGED <<memory, index, wsVars, statRows, openRows, outside>>

StartCall(t) ==
    \/ StartReuse(t)
    \/ StartNoHost(t)
    \/ StartCreate(t)
    \/ StartSave(t)
    \/ StartSaveFails(t)
    \/ StartRegister(t)
    \/ StartAnnounce(t)

-----------------------------------------------------------------------------
(***************************************************************************)
(* handleJoin                                                              *)
(***************************************************************************)

MaxAttempts == 3

\* The fast-path limit check; the limit is enforced again at the insert.
JoinBegin(c, ch) ==
    /\ At(WS(c), "idle")
    /\ ws[c] = "up"
    /\ joins[c] < MaxJoins
    /\ \A g \in DOMAIN calls :
          Live(g) /\ findByConn(calls[g], c) => calls[g].byConn[c].sid = c
    /\ ~(/\ Limit > 0
         /\ channelCalls[ch] # NoCall
         /\ participants(calls[channelCalls[ch]]) >= Limit)
    /\ joins' = [joins EXCEPT ![c] = @ + 1]
    /\ th' = [th EXCEPT ![WS(c)] = [Idle EXCEPT !.pc = "start", !.ch = ch,
                                         !.sid = c, !.conn = c, !.tries = 1]]
    /\ UNCHANGED <<memory, startLock, index, ws, lost, store, outside>>

\* addSessionIfLive, first half: the shard lock is taken and the liveness
\* of the call checked.  A dead call sends the join back to StartCall.
JoinCheckLive(t) ==
    /\ At(t, "addIfLive")
    /\ IF th[t].g \in shards /\ Live(th[t].g) THEN Goto(t, "insert")
       ELSE IF th[t].tries < MaxAttempts
            THEN th' = [th EXCEPT ![t].pc = "start", ![t].tries = @ + 1]
            ELSE Return(t)
    /\ UNCHANGED <<memory, startLock, index, wsVars, store, outside>>

\* The shard lock is held between the two halves of addSessionIfLive.
ShardLocked(g) == \E t \in Threads : At(t, "insert") /\ th[t].g = g

\* Mutant: only the fast path checks the limit.
JoinInsertUnchecked(t) ==
    LET g == th[t].g
        sid == th[t].sid
    IN  /\ At(t, "insert")
        /\ \E now \in Times :
              calls' = [calls EXCEPT ![g] =
                           addSession(@, sid, NewSession(sid, joins[sid], now))]
        /\ Goto(t, "link")
        /\ UNCHANGED <<chanOf, shards, channelCalls, startLock, index, wsVars,
                       store, outside>>

\* addSessionIfLive, second half: the insert, or ErrMaxParticipants.  The
\* start time was read before any lock, so it may be any clock value.
JoinInsert(t) ==
    LET g == th[t].g
        sid == th[t].sid
    IN  /\ At(t, "insert")
        /\ IF AtLimit(calls[g], sid, Limit)
           THEN Return(t) /\ UNCHANGED calls
           ELSE /\ \E now \in Times :
                      calls' = [calls EXCEPT ![g] =
                                   addSession(@, sid, NewSession(sid, joins[sid], now))]
                /\ Goto(t, "link")
        /\ UNCHANGED <<chanOf, shards, channelCalls, startLock, index, wsVars,
                       store, outside>>

\* Mutant: the connection is not indexed.
JoinLinkNoConn(t) ==
    /\ At(t, "link")
    /\ bySession' = Put(bySession, th[t].sid, th[t].g)
    /\ Goto(t, "saveSession")
    /\ UNCHANGED <<memory, byConn, startLock, wsVars, store, outside>>

\* sessionRegistry.link
JoinLink(t) ==
    /\ At(t, "link")
    /\ bySession' = Put(bySession, th[t].sid, th[t].g)
    /\ byConn' = Put(byConn, th[t].conn, th[t].g)
    /\ Goto(t, "saveSession")
    /\ UNCHANGED <<memory, startLock, wsVars, store, outside>>

\* store.CallSession().Save; a failure is logged and the join goes on
JoinSave(t) ==
    /\ At(t, "saveSession")
    /\ \/ openRows' = openRows \cup {<<th[t].g, th[t].sid>>}
       \/ "db" \in Faults /\ UNCHANGED openRows
    /\ Goto(t, "sfuJoin")
    /\ UNCHANGED <<memory, startLock, index, wsVars, callRow, statRows, outside>>

\* The SFU Join, then the ack, user_joined and call_state events; a Join
\* that cannot be sent is logged.
JoinSFU(t) ==
    /\ At(t, "sfuJoin")
    /\ \/ sfu' = sfu \cup {<<th[t].g, th[t].sid>>}
       \/ "sfu" \in Faults /\ UNCHANGED sfu
    /\ Return(t)
    /\ UNCHANGED <<memory, startLock, index, wsVars, store, callEnds>>

Join(t) ==
    \/ JoinCheckLive(t)
    \/ JoinInsert(t)
    \/ JoinLink(t)
    \/ JoinSave(t)
    \/ JoinSFU(t)

-----------------------------------------------------------------------------
(***************************************************************************)
(* endCallState                                                            *)
(***************************************************************************)

\* Mutant: every ender goes on.
EndMarkAlways(t) ==
    LET g == th[t].g
    IN  /\ At(t, "end")
        /\ calls' = [calls EXCEPT ![g] = markEnded(@)]
        /\ Goto(t, "snapshot")
        /\ UNCHANGED <<chanOf, shards, channelCalls, startLock, index, wsVars,
                       store, outside>>

\* markEnded: only the first ender goes on
EndMark(t) ==
    LET g == th[t].g
    IN  /\ At(t, "end")
        /\ IF markEndedWins(calls[g])
           THEN calls' = [calls EXCEPT ![g] = markEnded(@)] /\ Goto(t, "snapshot")
           ELSE UNCHANGED calls /\ Return(t)
        /\ UNCHANGED <<chanOf, shards, channelCalls, startLock, index, wsVars,
                       store, outside>>

\* snapshot, sessionIDs and peak: what the teardown will close and report
EndSnapshot(t) ==
    /\ At(t, "snapshot")
    /\ th' = [th EXCEPT ![t].pc = "unshard",
                        ![t].ids = DOMAIN calls[th[t].g].sessions]
    /\ UNCHANGED <<memory, startLock, index, wsVars, store, outside>>

\* shards.deleteIf waits for the shard lock.  Ids are fresh, so the slot
\* holds this call or nothing.
EndUnshard(t) ==
    /\ At(t, "unshard")
    /\ ~ShardLocked(th[t].g)
    /\ shards' = shards \ {th[t].g}
    /\ Goto(t, "unregister")
    /\ UNCHANGED <<calls, chanOf, channelCalls, startLock, index, wsVars, store,
                   outside>>

\* Mutant: whatever call the channel has is unregistered.
EndUnregisterAny(t) ==
    LET g == th[t].g
    IN  /\ At(t, "unregister")
        /\ channelCalls' = [channelCalls EXCEPT ![chanOf[g]] = NoCall]
        /\ th' = [th EXCEPT ![t].pc = "load", ![t].owned = TRUE]
        /\ UNCHANGED <<calls, chanOf, shards, startLock, index, wsVars, store,
                       outside>>

\* channelCalls.deleteIf: only this generation's own entry
EndUnregister(t) ==
    LET g == th[t].g
        owned == channelCalls[chanOf[g]] = g
    IN  /\ At(t, "unregister")
        /\ channelCalls' = IF owned
                           THEN [channelCalls EXCEPT ![chanOf[g]] = NoCall]
                           ELSE channelCalls
        /\ th' = [th EXCEPT ![t].pc = "load", ![t].owned = owned]
        /\ UNCHANGED <<calls, chanOf, shards, startLock, index, wsVars, store,
                       outside>>

\* store.Call().Get: without the row neither EndAt nor stats are written
EndLoad(t) ==
    /\ At(t, "load")
    /\ \/ /\ th[t].g \in DOMAIN callRow
          /\ Goto(t, "persist")
       \/ /\ th[t].g \notin DOMAIN callRow \/ "db" \in Faults
          /\ Goto(t, "close")
    /\ UNCHANGED <<memory, startLock, index, wsVars, store, outside>>

\* Update with EndAt, the stats row, and the announcement post marked ended
EndPersist(t) ==
    LET g == th[t].g
    IN  /\ At(t, "persist")
        /\ \/ callRow' = [callRow EXCEPT ![g] = TRUE]
           \/ "db" \in Faults /\ UNCHANGED callRow
        /\ \/ statRows' = [statRows EXCEPT ![g] = @ + 1]
           \/ "db" \in Faults /\ UNCHANGED statRows
        /\ Goto(t, "close")
        /\ UNCHANGED <<memory, startLock, index, wsVars, openRows, outside>>

\* sessionRegistry.unlink
Unlink(sid, conn) ==
    /\ bySession' = Del(bySession, sid)
    /\ byConn' = Del(byConn, conn)

\* Each session of the snapshot: SFU Leave and its index entries.
EndCloseSession(t, sid) ==
    LET g == th[t].g
    IN  /\ At(t, "close")
        /\ sid \in th[t].ids
        /\ sfu' = sfu \ {<<g, sid>>} \/ ("sfu" \in Faults /\ UNCHANGED sfu)
        /\ Unlink(sid, connIDFor(calls[g], sid))
        /\ th' = [th EXCEPT ![t].ids = @ \ {sid}]
        /\ UNCHANGED <<memory, startLock, wsVars, store, callEnds>>

\* store.CallSession().EndOpenSessions
EndCloseRows(t) ==
    /\ At(t, "close")
    /\ th[t].ids = {}
    /\ \/ openRows' = {r \in openRows : r[1] # th[t].g}
       \/ "db" \in Faults /\ UNCHANGED openRows
    /\ Goto(t, "broadcast")
    /\ UNCHANGED <<memory, startLock, index, wsVars, callRow, statRows, outside>>

\* call_end, only by the teardown that removed the channel's entry
EndBroadcast(t) ==
    /\ At(t, "broadcast")
    /\ callEnds' = IF th[t].owned
                   THEN [callEnds EXCEPT ![th[t].g] = @ + 1] ELSE callEnds
    /\ Return(t)
    /\ UNCHANGED <<memory, startLock, index, wsVars, store, sfu>>

EndCallState(t) ==
    \/ EndMark(t)
    \/ EndSnapshot(t)
    \/ EndUnshard(t)
    \/ EndUnregister(t)
    \/ EndLoad(t)
    \/ EndPersist(t)
    \/ \E sid \in Conns : EndCloseSession(t, sid)
    \/ EndCloseRows(t)
    \/ EndBroadcast(t)

-----------------------------------------------------------------------------
(***************************************************************************)
(* teardownSession and its callers                                         *)
(***************************************************************************)

BeginTeardown(t, g, sid) ==
    th' = [th EXCEPT ![t] = [Idle EXCEPT !.pc = "remove", !.g = g, !.sid = sid]]

\* removeSession: whoever finds the session gone returns
TeardownRemove(t) ==
    LET g == th[t].g
        sid == th[t].sid
    IN  /\ At(t, "remove")
        /\ IF sid \in DOMAIN calls[g].sessions
           THEN /\ calls' = [calls EXCEPT ![g] = removeSession(@, sid)]
                /\ th' = [th EXCEPT ![t].pc = "unlink",
                                    ![t].conn = connIDFor(calls[g], sid)]
           ELSE UNCHANGED calls /\ Return(t)
        /\ UNCHANGED <<chanOf, shards, channelCalls, startLock, index, wsVars,
                       store, outside>>

TeardownUnlink(t) ==
    /\ At(t, "unlink")
    /\ Unlink(th[t].sid, th[t].conn)
    /\ Goto(t, "leave")
    /\ UNCHANGED <<memory, startLock, wsVars, store, outside>>

\* SFU Leave, store.CallSession().EndSession, user_left
TeardownLeave(t) ==
    LET leg == <<th[t].g, th[t].sid>>
    IN  /\ At(t, "leave")
        /\ sfu' = sfu \ {leg} \/ ("sfu" \in Faults /\ UNCHANGED sfu)
        /\ \/ openRows' = openRows \ {leg}
           \/ "db" \in Faults /\ UNCHANGED openRows
        /\ Goto(t, "lastOut")
        /\ UNCHANGED <<memory, startLock, index, wsVars, callRow, statRows, callEnds>>

\* The last participant out ends the call.
TeardownLastOut(t) ==
    /\ At(t, "lastOut")
    /\ IF participants(calls[th[t].g]) = 0 THEN Goto(t, "end") ELSE Return(t)
    /\ UNCHANGED <<memory, startLock, index, wsVars, store, outside>>

Teardown(t) ==
    \/ TeardownRemove(t)
    \/ TeardownUnlink(t)
    \/ TeardownLeave(t)
    \/ TeardownLastOut(t)

\* handleLeave: the channel's call, then the connection's session in it
Leave(c, ch) ==
    LET g == channelCalls[ch]
    IN  /\ At(WS(c), "idle")
        /\ ws[c] = "up"
        /\ g # NoCall
        /\ findByConn(calls[g], c)
        /\ BeginTeardown(WS(c), g, calls[g].byConn[c].sid)
        /\ UNCHANGED <<memory, startLock, index, wsVars, store, outside>>

\* handleReconnect on connection c for the session sid: setConn.  The
\* client knows sid from the ack that ends its join, has moved to c, which
\* carries no other session, and sends nothing more on its old connection.
Reconnect(c, ch, sid) ==
    LET g == channelCalls[ch]
        old == calls[g].sessions[sid].conn
    IN  /\ At(WS(c), "idle")
        /\ At(WS(sid), "idle")
        /\ ws[c] = "up"
        /\ g # NoCall
        /\ sid \in DOMAIN calls[g].sessions
        /\ userOf[sid] = userOf[c]
        /\ c = old \/ (joins[c] = 0 /\ \A h \in DOMAIN calls : ~findByConn(calls[h], c))
        /\ calls' = [calls EXCEPT ![g] = setConn(@, sid, c)]
        /\ ws' = IF c = old THEN ws
                 ELSE [ws EXCEPT ![old] = IF @ = "up" THEN "replaced" ELSE "gone"]
        /\ th' = [th EXCEPT ![WS(c)] = [Idle EXCEPT !.pc = "repoint", !.g = g,
                                                    !.sid = sid, !.conn = c]]
        /\ UNCHANGED <<chanOf, shards, channelCalls, startLock, index, lost, joins,
                       store, outside>>

\* sessionRegistry.repoint from the ORIGINAL connection, which is the
\* session id; then the SFU Reconnect and call_state.
ReconnectRepoint(t) ==
    /\ At(t, "repoint")
    /\ byConn' = Put(Del(byConn, th[t].sid), th[t].conn, th[t].g)
    /\ bySession' = Put(bySession, th[t].sid, th[t].g)
    /\ Return(t)
    /\ UNCHANGED <<memory, startLock, wsVars, store, outside>>

\* The platform: a websocket dies once its read pump is done with the
\* message it was handling.
ConnDrops(c) ==
    /\ "drop" \in Sources
    /\ ws[c] \in {"up", "replaced"}
    /\ At(WS(c), "idle")
    /\ At(Grace(c), "idle")
    /\ c \notin lost
    /\ ws' = [ws EXCEPT ![c] = IF @ = "up" THEN "down" ELSE "gone"]
    /\ lost' = lost \cup {c}
    /\ UNCHANGED <<memory, startLock, index, joins, store, outside, th>>

\* The platform: a client that comes back soon keeps its connection id.
ConnRevives(c) ==
    /\ "reuse" \in Sources
    /\ ws[c] = "down"
    /\ ws' = [ws EXCEPT ![c] = "up"]
    /\ UNCHANGED <<memory, startLock, index, lost, joins, store, outside, th>>

\* HandleWSDisconnect: resolve the session, arm the grace timer with it.
HandleWSDisconnect(c) ==
    /\ c \in lost
    /\ lost' = lost \ {c}
    /\ IF /\ c \in DOMAIN byConn
          /\ findByConn(calls[byConn[c]], c)
       THEN LET g == byConn[c]
                sess == calls[g].byConn[c]
            IN  th' = [th EXCEPT ![Grace(c)] = [Idle EXCEPT !.pc = "armed",
                           !.g = g, !.sid = sess.sid, !.seq = sess.seq]]
       ELSE UNCHANGED th
    /\ UNCHANGED <<memory, startLock, index, ws, joins, store, outside>>

\* The timer fires: only the very session it was armed with, still bound
\* to this connection, in a call that has not ended, is torn down.
GraceExpires(c) ==
    LET t == Grace(c)
        cs == calls[th[t].g]
    IN  /\ At(t, "armed")
        /\ IF /\ findByConn(cs, c)
              /\ cs.byConn[c] = [sid |-> th[t].sid, seq |-> th[t].seq]
              /\ ~cs.ended
           THEN BeginTeardown(t, th[t].g, th[t].sid)
           ELSE Return(t)
        /\ UNCHANGED <<memory, startLock, index, wsVars, store, outside>>

\* handleRTCDMessage: the SFU closed a media session it held.
SFUClose(g, sid) ==
    LET known == sid \in DOMAIN bySession
        h     == bySession[sid]
    IN  /\ "sfu" \in Sources
        /\ At(SFU, "idle")
        /\ <<g, sid>> \in sfu
        /\ sfu' = sfu \ {<<g, sid>>}
        /\ IF /\ known
              /\ sid \in DOMAIN calls[h].sessions
              /\ ~calls[h].sessions[sid].rtcClosed
           THEN /\ calls' = [calls EXCEPT ![h] = markRTCclosed(@, sid)]
                /\ BeginTeardown(SFU, h, sid)
           ELSE UNCHANGED <<calls, th>>
        /\ UNCHANGED <<chanOf, shards, channelCalls, startLock, index, wsVars,
                       store, callEnds>>

\* POST /calls/start
RestStart(ch) ==
    /\ "start" \in Sources
    /\ At(Rest, "idle")
    /\ th' = [th EXCEPT ![Rest] = [Idle EXCEPT !.pc = "start", !.ch = ch]]
    /\ UNCHANGED <<memory, startLock, index, wsVars, store, outside>>

\* EndCall and EndCallByHost.  The API layer admits the host and, as the
\* host, any system admin, so some requester can end any registered call.
RestEnd(g) ==
    /\ "end" \in Sources
    /\ At(Rest, "idle")
    /\ g \in shards
    /\ th' = [th EXCEPT ![Rest] = [Idle EXCEPT !.pc = "end", !.g = g]]
    /\ UNCHANGED <<memory, startLock, index, wsVars, store, outside>>

\* RemoveSession by the host (or an admin, who acts as the host).
RestRemove(g, sid) ==
    /\ "remove" \in Sources
    /\ At(Rest, "idle")
    /\ g \in shards
    /\ \E user \in Users : hostUserIs(calls[g], user)
    /\ sid \in DOMAIN calls[g].sessions
    /\ ~calls[g].sessions[sid].removed
    /\ calls' = [calls EXCEPT ![g] = markRemoved(@, sid)]
    /\ BeginTeardown(Rest, g, sid)
    /\ UNCHANGED <<chanOf, shards, channelCalls, startLock, index, wsVars, store,
                   outside>>

\* Mutant: a call nobody ever joined is not reaped.
ReaperVisitJoined(g) ==
    /\ "reaper" \in Sources
    /\ At(Reaper, "idle")
    /\ g \in shards
    /\ Live(g)
    /\ participants(calls[g]) = 0
    /\ calls[g].peak > 0
    /\ th' = [th EXCEPT ![Reaper] = [Idle EXCEPT !.pc = "end", !.g = g]]
    /\ UNCHANGED <<memory, startLock, index, wsVars, store, outside>>

\* reapIdleCalls: a registered call that is live and empty is ended.  The
\* pass works on a list of the registry; what has left the registry since
\* has ended and is skipped, or was rolled back and is known to nobody.
ReaperVisit(g) ==
    /\ "reaper" \in Sources
    /\ At(Reaper, "idle")
    /\ g \in shards
    /\ Live(g)
    /\ participants(calls[g]) = 0
    /\ th' = [th EXCEPT ![Reaper] = [Idle EXCEPT !.pc = "end", !.g = g]]
    /\ UNCHANGED <<memory, startLock, index, wsVars, store, outside>>

-----------------------------------------------------------------------------
\* The steps of a handler that has begun.
Step(t) == StartCall(t) \/ Join(t) \/ EndCallState(t) \/ Teardown(t)
               \/ ReconnectRepoint(t)

Next ==
    \/ \E t \in Threads : Step(t)
    \/ \E c \in Conns, ch \in Channels :
          \/ JoinBegin(c, ch)
          \/ Leave(c, ch)
          \/ \E sid \in Conns : Reconnect(c, ch, sid)
    \/ \E c \in Conns :
          ConnDrops(c) \/ ConnRevives(c) \/ HandleWSDisconnect(c) \/ GraceExpires(c)
    \/ \E g \in DOMAIN calls, sid \in Conns : SFUClose(g, sid) \/ RestRemove(g, sid)
    \/ \E ch \in Channels : RestStart(ch)
    \/ \E g \in DOMAIN calls : RestEnd(g) \/ ReaperVisit(g)

Spec == Init /\ [][Next]_vars

\* A begun handler runs on: goroutines are scheduled, sync.Mutex does not
\* starve its waiters, database and SFU calls return.  Timers fire and the
\* reaper ticks.  Clients, the SFU and the network owe nothing.
Fairness ==
    /\ \A t \in Threads : WF_vars(Step(t))
    /\ \A c \in Conns : WF_vars(HandleWSDisconnect(c)) /\ WF_vars(GraceExpires(c))
    /\ WF_vars(\E g \in DOMAIN calls : ReaperVisit(g))

FairSpec == Spec /\ Fairness

-----------------------------------------------------------------------------
(***************************************************************************)
(* What holds                                                              *)
(***************************************************************************)

PCs == {"idle", "start", "save", "register", "announce", "addIfLive", "insert",
        "link", "saveSession", "sfuJoin", "end", "snapshot", "unshard",
        "unregister", "load", "persist", "close", "broadcast", "remove",
        "unlink", "leave", "lastOut", "repoint", "armed"}

\* Every variable has its type.
TypeOK ==
    /\ DOMAIN calls \subseteq CallIds
    /\ chanOf \in [DOMAIN calls -> Channels]
    /\ shards \subseteq DOMAIN calls
    /\ channelCalls \in [Channels -> DOMAIN calls \cup {NoCall}]
    /\ startLock \in [Channels -> Threads \cup {NoThread}]
    /\ DOMAIN bySession \cup DOMAIN byConn \subseteq Conns
    /\ \A c \in DOMAIN bySession : bySession[c] \in DOMAIN calls
    /\ \A c \in DOMAIN byConn : byConn[c] \in DOMAIN calls
    /\ ws \in [Conns -> {"up", "replaced", "down", "gone"}]
    /\ lost \subseteq Conns
    /\ DOMAIN callRow \subseteq DOMAIN calls
    /\ openRows \cup sfu \subseteq (DOMAIN calls) \X Conns
    /\ \A t \in Threads : th[t].pc \in PCs /\ th[t].g \in DOMAIN calls \cup {NoCall}

\* At most one call of a channel is live in the registry, however many
\* starts, joins and teardowns run at once (StartCall: "concurrent starts
\* on one channel arbitrate to exactly one call").
OneLiveCall ==
    \A g, h \in shards :
        (Live(g) /\ Live(h) /\ chanOf[g] = chanOf[h]) => g = h

\* A live call with participants is always the call its channel and its
\* shard resolve to: no late teardown of an older generation unregisters it
\* (channelIndex.deleteIf, callShard.deleteIf).
LiveCallRegistered ==
    \A g \in DOMAIN calls :
        (Live(g) /\ DOMAIN calls[g].sessions # {})
            => g \in shards /\ channelCalls[chanOf[g]] = g

\* A call has at most one stats row and one call_end, however many leave,
\* end, grace, SFU and reaper teardowns race (EndCall: "exactly one
\* persisted end boundary, one stats row, and one call_end broadcast").
EndedOnce ==
    \A g \in CallIds :
        /\ statRows[g] <= 1
        /\ callEnds[g] <= 1

\* No interleaving of joins exceeds the participant limit.
LimitHeld ==
    Limit > 0 => \A g \in DOMAIN calls : participants(calls[g]) <= Limit

\* What a channel sees of each call.
Phase ==
    [g \in CallIds |-> IF g \notin DOMAIN calls THEN "none"
                       ELSE IF ~Live(g) THEN "ended"
                       ELSE IF g \in shards THEN "live" ELSE "void"]
ChannelOf == [g \in CallIds |-> IF g \in DOMAIN calls THEN chanOf[g] ELSE ""]

\* The service implements the abstract life of a channel's calls.
Abstract == INSTANCE ChannelCalls WITH
    NoChannel <- "",
    phase <- Phase,
    channel <- ChannelOf,
    recorded <- statRows,
    announced <- callEnds

\* Every step of every goroutine is a step of ChannelCalls or changes
\* nothing a channel sees: one live call at a time, ended, recorded and
\* announced at most once (StartCall, EndCall).
ImplementsChannelCalls == Abstract!Spec

\* Every handler, timer and reaper pass that has begun comes to its end:
\* nobody waits forever for a start lock or a shard lock.
HandlersFinish ==
    \A t \in Threads : ~At(t, "idle") ~> At(t, "idle")

\* A participation whose websocket is dead is given up: the session is torn
\* down, or its call ends, or the client re-points it to a live websocket
\* (HandleWSDisconnect's grace timer).
GoneClientReleased ==
    \A g \in CallIds, sid \in Conns :
        LET in == g \in DOMAIN calls /\ Live(g) /\ sid \in DOMAIN calls[g].sessions
            dead == ws[calls[g].sessions[sid].conn] \in {"down", "gone"}
        IN  (in /\ dead) ~> ~(in /\ dead)

\* An empty registered call does not stay: someone joins it, or it is ended
\* or rolled back (reapIdleCalls is the backstop).
EmptyCallsEnd ==
    \A g \in CallIds :
        (g \in shards /\ Live(g) /\ DOMAIN calls[g].sessions = {})
            ~> (g \notin shards \/ DOMAIN calls[g].sessions # {})

-----------------------------------------------------------------------------
(***************************************************************************)
(* What the comments and tests of the repository claim and the code does   *)
(* not keep                                                                *)
(***************************************************************************)

\* api.go endCallState: announce the end "but never when a newer generation
\* is already live on the channel".
CallEndNotOverNewer ==
    [][\A g \in CallIds :
          callEnds'[g] # callEnds[g] => channelCalls[chanOf[g]] \in {NoCall, g}]_vars
=============================================================================
