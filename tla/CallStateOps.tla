---------------------------- MODULE CallStateOps ----------------------------
(***************************************************************************)
(* The operations of callState (channels/calls/state.go): the in-memory    *)
(* state of one call.  Every Go method runs under the call's own lock, so  *)
(* each is one operator from a call state (and its arguments) to the next  *)
(* call state.                                                             *)
(*                                                                         *)
(* A Go map is a function whose DOMAIN is the set of its keys.  Connection *)
(* ids are positive numbers, in the order of the id strings; 0 is "".  A   *)
(* session id IS the connection id that joined.  A *session pointer is the *)
(* pair [sid, seq] of its id and the number of the join that allocated it; *)
(* only the session that `sessions` holds is ever written through.         *)
(***************************************************************************)
EXTENDS Integers, FiniteSets

CONSTANTS Conns,    \* websocket connection ids
          Users,    \* user ids
          userOf,   \* the user who owns a connection
          Times     \* the clock values a join may read

ASSUME ConnsAssumption == Conns \subseteq Nat \ {0}
ASSUME UserOfAssumption == userOf \in [Conns -> Users]
ASSUME TimesAssumption == Times \subseteq Nat

NoConn == 0

EmptyMap == [x \in {} |-> x]
Put(m, k, v) == [x \in DOMAIN m \cup {k} |-> IF x = k THEN v ELSE m[x]]
Del(m, k) == [x \in DOMAIN m \ {k} |-> m[x]]

Session == [seq : Nat, conn : Conns, startAt : Times,
            rtcClosed : BOOLEAN, removed : BOOLEAN]
Ref == [sid : Conns, seq : Nat]

\* Mutant: the session is allocated without its connection.
NewSessionNoConn(sid, seq, now) ==
    [seq |-> seq, conn |-> NoConn, startAt |-> now,
     rtcClosed |-> FALSE, removed |-> FALSE]

\* The session handleJoin allocates; its user is userOf[sid].
NewSession(sid, seq, now) ==
    [seq |-> seq, conn |-> sid, startAt |-> now,
     rtcClosed |-> FALSE, removed |-> FALSE]

newCallState ==
    [sessions |-> EmptyMap, byConn |-> EmptyMap, host |-> NoConn,
     ended |-> FALSE, peak |-> 0]

participants(cs) == Cardinality(DOMAIN cs.sessions)

-----------------------------------------------------------------------------
\* markEnded returns TRUE only for the caller that finds the call not ended.
markEndedWins(cs) == ~cs.ended
markEnded(cs) == [cs EXCEPT !.ended = TRUE]

-----------------------------------------------------------------------------
\* Mutant: the limit is off by one.
AtLimitOffByOne(cs, sid, limit) ==
    /\ sid \notin DOMAIN cs.sessions
    /\ limit > 0
    /\ participants(cs) > limit

\* The condition under which addSession returns ErrMaxParticipants.
AtLimit(cs, sid, limit) ==
    /\ sid \notin DOMAIN cs.sessions
    /\ limit > 0
    /\ participants(cs) >= limit

\* addSession past the limit check: insert or replace, first one hosts.
addSession(cs, sid, s) ==
    LET added == Put(cs.sessions, sid, s)
        n     == Cardinality(DOMAIN added)
    IN  [cs EXCEPT !.sessions = added,
                   !.byConn = Put(@, s.conn, [sid |-> sid, seq |-> s.seq]),
                   !.host = IF @ = NoConn THEN sid ELSE @,
                   !.peak = IF n > @ THEN n ELSE @]

\* Mutant: the comparison of the election is the wrong way round.
ShorterTenured(sessions, a, b) ==
    \/ sessions[a].startAt > sessions[b].startAt
    \/ sessions[a].startAt = sessions[b].startAt /\ a <= b

\* a precedes b in the order that elects the next host.
LongerTenured(sessions, a, b) ==
    \/ sessions[a].startAt < sessions[b].startAt
    \/ sessions[a].startAt = sessions[b].startAt /\ a <= b

\* The loop of removeSession that elects the next host.
Successor(sessions) ==
    IF DOMAIN sessions = {} THEN NoConn
    ELSE CHOOSE a \in DOMAIN sessions :
            \A b \in DOMAIN sessions : LongerTenured(sessions, a, b)

\* Mutant: the host who leaves stays host.
removeSessionKeepsHost(cs, sid) ==
    [cs EXCEPT !.sessions = Del(@, sid),
               !.byConn = Del(@, cs.sessions[sid].conn)]

\* removeSession of a session that is present.
removeSession(cs, sid) ==
    LET rest == Del(cs.sessions, sid)
    IN  [cs EXCEPT !.sessions = rest,
                   !.byConn = Del(@, cs.sessions[sid].conn),
                   !.host = IF @ = sid THEN Successor(rest) ELSE @]

\* Mutant: the old connection stays indexed.
setConnKeepsOld(cs, sid, conn) ==
    [cs EXCEPT !.sessions[sid].conn = conn,
               !.byConn = Put(@, conn, [sid |-> sid, seq |-> cs.sessions[sid].seq])]

\* setConn of a session that is present: forget the old connection first.
setConn(cs, sid, conn) ==
    [cs EXCEPT !.sessions[sid].conn = conn,
               !.byConn = Put(Del(@, cs.sessions[sid].conn), conn,
                              [sid |-> sid, seq |-> cs.sessions[sid].seq])]

connIDFor(cs, sid) ==
    IF sid \in DOMAIN cs.sessions THEN cs.sessions[sid].conn ELSE NoConn

\* findByConn hits: the connection is indexed.
findByConn(cs, conn) == conn \in DOMAIN cs.byConn

\* The sessions setHostByUser may pick: Go's map order is unspecified.
SessionsOfUser(cs, user) == {sid \in DOMAIN cs.sessions : userOf[sid] = user}
setHost(cs, sid) == [cs EXCEPT !.host = sid]

\* hostUserID() == user: with no host it is "", which is no user's id.
hostUserIs(cs, user) ==
    cs.host \in DOMAIN cs.sessions /\ userOf[cs.host] = user

markRTCclosed(cs, sid) == [cs EXCEPT !.sessions[sid].rtcClosed = TRUE]
markRemoved(cs, sid) == [cs EXCEPT !.sessions[sid].removed = TRUE]
=============================================================================
