-------------------------- MODULE CallStateProofs ---------------------------
(***************************************************************************)
(* Proofs about CallState for every set of connections, every participant  *)
(* limit and every number of joins.                                        *)
(***************************************************************************)
EXTENDS CallState, CallStateOpsProofs

-----------------------------------------------------------------------------
(***************************************************************************)
(* The inductive invariant                                                 *)
(***************************************************************************)

\* A session is found under its connection.
LEMMA IndexedUnderConn ==
    ASSUME ConnIndexExact, NEW sid \in DOMAIN cs.sessions
    PROVE  /\ cs.sessions[sid].conn \in DOMAIN cs.byConn
           /\ cs.byConn[cs.sessions[sid].conn].sid = sid
<1> DEFINE r == cs.byConn[cs.sessions[sid].conn]
<1>1. r = [sid |-> sid, seq |-> cs.sessions[sid].seq]
  BY DEF ConnIndexExact
<1>2. r.sid = sid
  BY <1>1
<1> QED
  BY <1>2 DEF ConnIndexExact

\* A new call satisfies the invariant.
LEMMA InitIInv == Init => IInv
<1> SUFFICES ASSUME Init PROVE IInv
  OBVIOUS
<1>1. /\ cs = newCallState
      /\ DOMAIN cs.sessions = {} /\ DOMAIN cs.byConn = {}
      /\ cs.host = NoConn /\ cs.ended = FALSE /\ cs.peak = 0
  BY DEF Init, newCallState, EmptyMap
<1>2. IsFiniteSet({}) /\ Cardinality({}) = 0
  BY FS_EmptySet
<1>3. TypeOK
  BY <1>1, <1>2 DEF TypeOK, Init, newCallState
<1>4. HostInCall
  BY <1>1 DEF HostInCall
<1>5. LimitRespected
  BY <1>1, <1>2, LimitAssumption DEF LimitRespected, participants
<1>6. ConnIndexExact /\ MovedIsReplaced
  BY <1>1 DEF ConnIndexExact, MovedIsReplaced
<1> QED
  BY <1>3, <1>4, <1>5, <1>6 DEF IInv

\* A join: the limit is checked together with the insert, and the joining
\* connection carries no session but its own.
LEMMA JoinIInv ==
    ASSUME IInv, NEW c \in Conns, NEW now \in Times, Join(c, now)
    PROVE  IInv'
<1> DEFINE s == NewSession(c, joins'[c], now)
<1> USE DEF IInv
<1>1. joins'[c] \in Nat /\ joins' \in [Conns -> Nat]
  BY DEF Join, TypeOK
<1>2. s \in Session /\ s.conn = c /\ s.seq = joins'[c]
  BY <1>1 DEF NewSession, Session
<1>3. cs' = addSession(cs, c, s) /\ replaced' = replaced
  BY DEF Join
<1>4. DOMAIN cs = Fields
  BY DEF TypeOK, Fields
<1> HIDE DEF s
<1> DEFINE n == Cardinality(DOMAIN cs.sessions \cup {c})
<1>5. /\ DOMAIN cs' = Fields
      /\ DOMAIN cs'.sessions = DOMAIN cs.sessions \cup {c}
      /\ \A x \in DOMAIN cs'.sessions :
            cs'.sessions[x] = IF x = c THEN s ELSE cs.sessions[x]
      /\ DOMAIN cs'.byConn = DOMAIN cs.byConn \cup {c}
      /\ \A x \in DOMAIN cs'.byConn :
            cs'.byConn[x] = IF x = c THEN [sid |-> c, seq |-> s.seq]
                                     ELSE cs.byConn[x]
      /\ cs'.host = IF cs.host = NoConn THEN c ELSE cs.host
      /\ cs'.ended = cs.ended
      /\ cs'.peak = IF n > cs.peak THEN n ELSE cs.peak
  <2>1. Added(cs', cs, c, s)
    BY <1>3, <1>4, AddSessionFields
  <2> QED
    BY <1>2, <2>1 DEF Added
<1>6. /\ IsFiniteSet(DOMAIN cs.sessions \cup {c})
      /\ Cardinality(DOMAIN cs.sessions) \in Nat
      /\ Cardinality(DOMAIN cs.sessions \cup {c}) \in Nat
      /\ Cardinality(DOMAIN cs.sessions \cup {c}) =
            IF c \in DOMAIN cs.sessions THEN Cardinality(DOMAIN cs.sessions)
                                        ELSE Cardinality(DOMAIN cs.sessions) + 1
  <2>1. IsFiniteSet(DOMAIN cs.sessions)
    BY DEF TypeOK
  <2> QED
    BY <2>1, FS_AddElement, FS_CardinalityType
<1>7. TypeOK'
  <2>1. [sid |-> c, seq |-> s.seq] \in Ref
    BY <1>1, <1>2 DEF Ref
  <2>2. /\ DOMAIN cs'.sessions \subseteq Conns
        /\ \A x \in DOMAIN cs'.sessions : cs'.sessions[x] \in Session
    BY <1>2, <1>5 DEF TypeOK
  <2>3. /\ DOMAIN cs'.byConn \subseteq Conns
        /\ \A x \in DOMAIN cs'.byConn : cs'.byConn[x] \in Ref
    BY <1>5, <2>1 DEF TypeOK
  <2>4. cs'.host \in Conns \cup {NoConn} /\ cs'.peak \in Nat
    BY <1>5, <1>6 DEF TypeOK
  <2> QED
    BY <1>1, <1>3, <1>5, <1>6, <2>2, <2>3, <2>4 DEF TypeOK, Fields
<1>8. HostInCall'
  <2>1. c # NoConn
    BY ConnsAssumption DEF NoConn
  <2> QED
    BY <1>5, <2>1 DEF HostInCall
<1>9. LimitRespected'
  <2>1. ~AtLimit(cs, c, Limit)
    BY DEF Join
  <2>2. cs.peak \in Nat /\ Limit \in Nat
    BY LimitAssumption DEF TypeOK
  <2>3. CASE c \in DOMAIN cs.sessions
    BY <1>5, <1>6, <2>2, <2>3 DEF LimitRespected, participants
  <2>4. CASE c \notin DOMAIN cs.sessions
    BY <1>5, <1>6, <2>1, <2>2, <2>4 DEF LimitRespected, participants, AtLimit
  <2> QED
    BY <2>3, <2>4
<1>10. \A x \in DOMAIN cs.sessions : cs.sessions[x].conn = c <=> x = c
  <2> SUFFICES ASSUME NEW x \in DOMAIN cs.sessions
               PROVE  cs.sessions[x].conn = c <=> x = c
    OBVIOUS
  <2>1. ASSUME x = c PROVE cs.sessions[x].conn = c
    BY <2>1 DEF Join, MovedIsReplaced
  <2>2. ASSUME cs.sessions[x].conn = c PROVE x = c
    <3>1. c \in DOMAIN cs.byConn /\ cs.byConn[c].sid = x
      BY <2>2, IndexedUnderConn
    <3> QED
      BY <3>1 DEF Join, findByConn
  <2> QED
    BY <2>1, <2>2
<1>11. ConnIndexExact'
  <2>1. ASSUME NEW x \in DOMAIN cs'.sessions
        PROVE  /\ cs'.sessions[x].conn \in DOMAIN cs'.byConn
               /\ cs'.byConn[cs'.sessions[x].conn] =
                      [sid |-> x, seq |-> cs'.sessions[x].seq]
    <3>1. CASE x = c
      BY <1>2, <1>5, <3>1
    <3>2. CASE x # c
      BY <1>5, <1>10, <3>2 DEF ConnIndexExact
    <3> QED
      BY <3>1, <3>2
  <2>2. ASSUME NEW y \in DOMAIN cs'.byConn
        PROVE  /\ cs'.byConn[y].sid \in DOMAIN cs'.sessions
               /\ cs'.sessions[cs'.byConn[y].sid].conn = y
    <3>1. CASE y = c
      BY <1>2, <1>5, <3>1
    <3>2. CASE y # c
      <4>1. /\ cs'.byConn[y] = cs.byConn[y]
            /\ cs.byConn[y].sid \in DOMAIN cs.sessions
            /\ cs.sessions[cs.byConn[y].sid].conn = y
        BY <1>5, <3>2 DEF ConnIndexExact
      <4>2. cs.byConn[y].sid # c
        BY <1>10, <3>2, <4>1
      <4> QED
        BY <1>5, <4>1, <4>2
    <3> QED
      BY <3>1, <3>2
  <2> QED
    BY <2>1, <2>2 DEF ConnIndexExact
<1>12. MovedIsReplaced'
  BY <1>2, <1>3, <1>5 DEF MovedIsReplaced
<1> QED
  BY <1>7, <1>8, <1>9, <1>11, <1>12

\* A leave: the next host is elected among those who stay.
LEMMA LeaveIInv ==
    ASSUME IInv, NEW sid \in Conns, Leave(sid)
    PROVE  IInv'
<1> USE DEF IInv
<1>1. sid \in DOMAIN cs.sessions /\ joins' = joins /\ replaced' = replaced
  BY DEF Leave
<1>2. DOMAIN cs = Fields /\ cs' = removeSession(cs, sid)
  BY DEF Leave, TypeOK, Fields
<1>3. /\ DOMAIN cs' = Fields
      /\ DOMAIN cs'.sessions = DOMAIN cs.sessions \ {sid}
      /\ \A x \in DOMAIN cs'.sessions : cs'.sessions[x] = cs.sessions[x]
      /\ DOMAIN cs'.byConn = DOMAIN cs.byConn \ {cs.sessions[sid].conn}
      /\ \A c \in DOMAIN cs'.byConn : cs'.byConn[c] = cs.byConn[c]
      /\ cs'.host = IF cs.host = sid THEN Successor(cs'.sessions) ELSE cs.host
      /\ cs'.ended = cs.ended
      /\ cs'.peak = cs.peak
  BY <1>2, RemoveSessionFields
<1>4. /\ IsFiniteSet(DOMAIN cs'.sessions)
      /\ Cardinality(DOMAIN cs'.sessions) \in Nat
      /\ Cardinality(DOMAIN cs.sessions) \in Nat
      /\ Cardinality(DOMAIN cs'.sessions) = Cardinality(DOMAIN cs.sessions) - 1
  <2>1. IsFiniteSet(DOMAIN cs.sessions)
    BY DEF TypeOK
  <2>2. /\ IsFiniteSet(DOMAIN cs'.sessions)
        /\ Cardinality(DOMAIN cs'.sessions) = Cardinality(DOMAIN cs.sessions) - 1
    BY <1>1, <1>3, <2>1, FS_RemoveElement
  <2> QED
    BY <2>1, <2>2, FS_CardinalityType
<1>5. /\ DOMAIN cs'.sessions \subseteq Conns
      /\ \A x \in DOMAIN cs'.sessions : cs'.sessions[x] \in Session
  BY <1>3 DEF TypeOK
<1>6. HostInCall'
  <2>1. CASE DOMAIN cs'.sessions = {}
    BY <1>1, <1>3, <2>1 DEF HostInCall, Successor
  <2>2. CASE DOMAIN cs'.sessions # {} /\ cs.host = sid
    BY <1>3, <1>5, <2>2, SuccessorElected DEF HostInCall
  <2>3. CASE DOMAIN cs'.sessions # {} /\ cs.host # sid
    BY <1>3, <2>3 DEF HostInCall
  <2> QED
    BY <2>1, <2>2, <2>3
<1>7. TypeOK'
  <2>1. cs'.host \in Conns \cup {NoConn}
    BY <1>5, <1>6 DEF HostInCall
  <2> QED
    BY <1>1, <1>3, <1>4, <1>5, <2>1 DEF TypeOK, Fields
<1>8. LimitRespected'
  <2>1. cs.peak \in Nat
    BY DEF TypeOK
  <2> QED
    BY <1>3, <1>4, <2>1 DEF LimitRespected, participants
<1>9. ConnIndexExact'
  <2>1. ASSUME NEW x \in DOMAIN cs'.sessions
        PROVE  /\ cs'.sessions[x].conn \in DOMAIN cs'.byConn
               /\ cs'.byConn[cs'.sessions[x].conn] =
                      [sid |-> x, seq |-> cs'.sessions[x].seq]
    <3>1. /\ x # sid /\ x \in DOMAIN cs.sessions
          /\ cs.byConn[cs.sessions[x].conn].sid = x
          /\ cs.byConn[cs.sessions[sid].conn].sid = sid
      BY <1>1, <1>3, IndexedUnderConn
    <3>2. cs.sessions[x].conn # cs.sessions[sid].conn
      BY <3>1
    <3> QED
      BY <1>3, <3>1, <3>2 DEF ConnIndexExact
  <2>2. ASSUME NEW c \in DOMAIN cs'.byConn
        PROVE  /\ cs'.byConn[c].sid \in DOMAIN cs'.sessions
               /\ cs'.sessions[cs'.byConn[c].sid].conn = c
    BY <1>3 DEF ConnIndexExact
  <2> QED
    BY <2>1, <2>2 DEF ConnIndexExact
<1>10. MovedIsReplaced'
  BY <1>1, <1>3 DEF MovedIsReplaced
<1> QED
  BY <1>6, <1>7, <1>8, <1>9, <1>10

\* A reconnect: the session moves to a connection no other session uses.
LEMMA ReconnectIInv ==
    ASSUME IInv, NEW sid \in Conns, NEW c \in Conns, Reconnect(sid, c)
    PROVE  IInv'
<1> DEFINE old == cs.sessions[sid].conn
<1> USE DEF IInv
<1>1. /\ sid \in DOMAIN cs.sessions
      /\ c \notin replaced
      /\ c = old \/ c \notin DOMAIN cs.byConn
      /\ replaced' = (replaced \cup {old}) \ {c}
      /\ joins' = joins
  BY DEF Reconnect, findByConn
<1>2. cs.sessions[sid] \in Session /\ DOMAIN cs = Fields
  BY <1>1 DEF TypeOK, Fields
<1>3. /\ DOMAIN cs' = Fields
      /\ DOMAIN cs'.sessions = DOMAIN cs.sessions
      /\ \A x \in DOMAIN cs'.sessions : x # sid => cs'.sessions[x] = cs.sessions[x]
      /\ cs'.sessions[sid] = [cs.sessions[sid] EXCEPT !.conn = c]
      /\ DOMAIN cs'.byConn = (DOMAIN cs.byConn \ {old}) \cup {c}
      /\ \A y \in DOMAIN cs'.byConn :
            cs'.byConn[y] = IF y = c THEN [sid |-> sid, seq |-> cs.sessions[sid].seq]
                                     ELSE cs.byConn[y]
      /\ cs'.host = cs.host
      /\ cs'.ended = cs.ended
      /\ cs'.peak = cs.peak
  <2>1. cs' = setConn(cs, sid, c)
    BY DEF Reconnect
  <2> QED
    BY <1>1, <1>2, <2>1, SetConnFields
<1>4. /\ cs'.sessions[sid] \in Session
      /\ cs'.sessions[sid].conn = c
      /\ cs'.sessions[sid].seq = cs.sessions[sid].seq
  BY <1>2, <1>3 DEF Session
<1>5. TypeOK'
  <2>1. [sid |-> sid, seq |-> cs.sessions[sid].seq] \in Ref
    BY <1>2 DEF Session, Ref
  <2>2. \A y \in DOMAIN cs'.byConn : cs'.byConn[y] \in Ref
    BY <1>3, <2>1 DEF TypeOK
  <2>3. \A x \in DOMAIN cs'.sessions : cs'.sessions[x] \in Session
    BY <1>3, <1>4 DEF TypeOK
  <2>4. old \in Conns
    BY <1>2 DEF Session
  <2> QED
    BY <1>1, <1>3, <2>2, <2>3, <2>4 DEF TypeOK, Fields
<1>6. HostInCall' /\ LimitRespected'
  BY <1>3 DEF HostInCall, LimitRespected, participants
<1>7. \A x \in DOMAIN cs.sessions : x # sid =>
            cs.sessions[x].conn # c /\ cs.sessions[x].conn # old
  <2> SUFFICES ASSUME NEW x \in DOMAIN cs.sessions, x # sid
               PROVE  cs.sessions[x].conn # c /\ cs.sessions[x].conn # old
    OBVIOUS
  <2>1. /\ cs.sessions[x].conn \in DOMAIN cs.byConn
        /\ cs.byConn[cs.sessions[x].conn].sid = x
        /\ cs.byConn[old].sid = sid
    BY <1>1, IndexedUnderConn
  <2>2. cs.sessions[x].conn # old
    BY <2>1
  <2> QED
    BY <1>1, <2>1, <2>2
<1>8. ConnIndexExact'
  <2>1. ASSUME NEW x \in DOMAIN cs'.sessions
        PROVE  /\ cs'.sessions[x].conn \in DOMAIN cs'.byConn
               /\ cs'.byConn[cs'.sessions[x].conn] =
                      [sid |-> x, seq |-> cs'.sessions[x].seq]
    <3>1. CASE x = sid
      BY <1>3, <1>4, <3>1
    <3>2. CASE x # sid
      BY <1>3, <1>7, <3>2 DEF ConnIndexExact
    <3> QED
      BY <3>1, <3>2
  <2>2. ASSUME NEW y \in DOMAIN cs'.byConn
        PROVE  /\ cs'.byConn[y].sid \in DOMAIN cs'.sessions
               /\ cs'.sessions[cs'.byConn[y].sid].conn = y
    <3>1. CASE y = c
      <4>1. cs'.byConn[y].sid = sid
        BY <1>3, <3>1
      <4> QED
        BY <1>1, <1>3, <1>4, <3>1, <4>1
    <3>2. CASE y # c
      <4>1. /\ y \in DOMAIN cs.byConn /\ y # old
            /\ cs'.byConn[y] = cs.byConn[y]
            /\ cs.byConn[y].sid \in DOMAIN cs.sessions
            /\ cs.sessions[cs.byConn[y].sid].conn = y
        BY <1>3, <3>2 DEF ConnIndexExact
      <4>2. cs.byConn[y].sid # sid
        BY <4>1
      <4> QED
        BY <1>3, <4>1, <4>2
    <3> QED
      BY <3>1, <3>2
  <2> QED
    BY <2>1, <2>2 DEF ConnIndexExact
<1>9. MovedIsReplaced'
  <2> SUFFICES ASSUME NEW x \in DOMAIN cs'.sessions, cs'.sessions[x].conn # x
               PROVE  x \in replaced'
    BY DEF MovedIsReplaced
  <2>1. CASE x = sid
    BY <1>1, <1>3, <1>4, <2>1 DEF MovedIsReplaced
  <2>2. CASE x # sid
    BY <1>1, <1>3, <2>2 DEF MovedIsReplaced
  <2> QED
    BY <2>1, <2>2
<1> QED
  BY <1>5, <1>6, <1>8, <1>9

\* A step that leaves the sessions' connections, the index and the counts
\* alone and puts the host role on a participant or leaves it.
LEMMA FlagsIInv ==
    ASSUME IInv,
           DOMAIN cs' = Fields,
           DOMAIN cs'.sessions = DOMAIN cs.sessions,
           \A x \in DOMAIN cs.sessions :
              /\ cs'.sessions[x] \in Session
              /\ cs'.sessions[x].conn = cs.sessions[x].conn
              /\ cs'.sessions[x].seq = cs.sessions[x].seq,
           cs'.byConn = cs.byConn,
           cs'.host = cs.host \/ cs'.host \in DOMAIN cs.sessions,
           cs'.ended \in BOOLEAN,
           cs'.peak = cs.peak,
           joins' = joins,
           replaced' = replaced
    PROVE  IInv'
<1> USE DEF IInv
<1>1. TypeOK'
  BY DEF TypeOK, Fields
<1>2. HostInCall' /\ LimitRespected'
  BY DEF HostInCall, LimitRespected, participants
<1>3. ConnIndexExact'
  BY DEF ConnIndexExact
<1>4. MovedIsReplaced'
  BY DEF MovedIsReplaced
<1> QED
  BY <1>1, <1>2, <1>3, <1>4

\* Every step of the call state preserves the invariant.
LEMMA NextIInv == IInv /\ [Next]_vars => IInv'
<1> SUFFICES ASSUME IInv, [Next]_vars PROVE IInv'
  OBVIOUS
<1>1. ASSUME NEW c \in Conns, NEW now \in Times, Join(c, now) PROVE IInv'
  BY <1>1, JoinIInv
<1>2. ASSUME NEW sid \in Conns, Leave(sid) PROVE IInv'
  BY <1>2, LeaveIInv
<1>3. ASSUME NEW sid \in Conns, NEW c \in Conns, Reconnect(sid, c) PROVE IInv'
  BY <1>3, ReconnectIInv
<1> DEFINE TypedCall == /\ DOMAIN cs = Fields
                        /\ \A x \in DOMAIN cs.sessions : cs.sessions[x] \in Session
                        /\ cs.ended \in BOOLEAN
<1>4. TypedCall
  BY DEF IInv, TypeOK, Fields
<1>5. ASSUME NEW user \in Users, MakeHost(user) PROVE IInv'
  <2>1. PICK sid \in SessionsOfUser(cs, user) : cs' = setHost(cs, sid)
    BY <1>5 DEF MakeHost
  <2>2. /\ DOMAIN cs' = Fields /\ cs'.sessions = cs.sessions
        /\ cs'.byConn = cs.byConn /\ cs'.host = sid
        /\ cs'.ended = cs.ended /\ cs'.peak = cs.peak
    BY <1>4, <2>1 DEF setHost, Fields
  <2>3. sid \in DOMAIN cs.sessions /\ joins' = joins /\ replaced' = replaced
    BY <1>5 DEF SessionsOfUser, MakeHost
  <2> QED
    BY <1>4, <2>2, <2>3, FlagsIInv
<1>6. ASSUME End PROVE IInv'
  <2>1. /\ DOMAIN cs' = Fields /\ cs'.sessions = cs.sessions
        /\ cs'.byConn = cs.byConn /\ cs'.host = cs.host
        /\ cs'.ended \in BOOLEAN /\ cs'.peak = cs.peak
        /\ joins' = joins /\ replaced' = replaced
    BY <1>4, <1>6 DEF End, markEnded, Fields
  <2> QED
    BY <1>4, <2>1, FlagsIInv
<1>7. ASSUME NEW sid \in Conns, MarkClosed(sid) PROVE IInv'
  <2>1. /\ sid \in DOMAIN cs.sessions
        /\ DOMAIN cs' = Fields /\ DOMAIN cs'.sessions = DOMAIN cs.sessions
        /\ \A x \in DOMAIN cs.sessions : x # sid => cs'.sessions[x] = cs.sessions[x]
        /\ cs'.sessions[sid] = [cs.sessions[sid] EXCEPT !.rtcClosed = TRUE]
        /\ cs'.byConn = cs.byConn /\ cs'.host = cs.host
        /\ cs'.ended = cs.ended /\ cs'.peak = cs.peak
        /\ joins' = joins /\ replaced' = replaced
    BY <1>4, <1>7 DEF MarkClosed, markRTCclosed, Fields
  <2>2. /\ cs'.sessions[sid] \in Session
        /\ cs'.sessions[sid].conn = cs.sessions[sid].conn
        /\ cs'.sessions[sid].seq = cs.sessions[sid].seq
    BY <1>4, <2>1 DEF Session
  <2>3. \A x \in DOMAIN cs.sessions :
           /\ cs'.sessions[x] \in Session
           /\ cs'.sessions[x].conn = cs.sessions[x].conn
           /\ cs'.sessions[x].seq = cs.sessions[x].seq
    BY <1>4, <2>1, <2>2
  <2> QED
    BY <1>4, <2>1, <2>3, FlagsIInv
<1>8. ASSUME NEW sid \in Conns, MarkRemoved(sid) PROVE IInv'
  <2>1. /\ sid \in DOMAIN cs.sessions
        /\ DOMAIN cs' = Fields /\ DOMAIN cs'.sessions = DOMAIN cs.sessions
        /\ \A x \in DOMAIN cs.sessions : x # sid => cs'.sessions[x] = cs.sessions[x]
        /\ cs'.sessions[sid] = [cs.sessions[sid] EXCEPT !.removed = TRUE]
        /\ cs'.byConn = cs.byConn /\ cs'.host = cs.host
        /\ cs'.ended = cs.ended /\ cs'.peak = cs.peak
        /\ joins' = joins /\ replaced' = replaced
    BY <1>4, <1>8 DEF MarkRemoved, markRemoved, Fields
  <2>2. /\ cs'.sessions[sid] \in Session
        /\ cs'.sessions[sid].conn = cs.sessions[sid].conn
        /\ cs'.sessions[sid].seq = cs.sessions[sid].seq
    BY <1>4, <2>1 DEF Session
  <2>3. \A x \in DOMAIN cs.sessions :
           /\ cs'.sessions[x] \in Session
           /\ cs'.sessions[x].conn = cs.sessions[x].conn
           /\ cs'.sessions[x].seq = cs.sessions[x].seq
    BY <1>4, <2>1, <2>2
  <2> QED
    BY <1>4, <2>1, <2>3, FlagsIInv
<1>9. CASE UNCHANGED vars
  <2>1. cs' = cs /\ joins' = joins /\ replaced' = replaced
    BY <1>9 DEF vars
  <2> QED
    BY <1>4, <2>1, FlagsIInv
<1> QED
  BY <1>1, <1>2, <1>3, <1>5, <1>6, <1>7, <1>8, <1>9 DEF Next

-----------------------------------------------------------------------------
(***************************************************************************)
(* The theorems                                                            *)
(***************************************************************************)

\* The invariant holds in every reachable state.
THEOREM Invariance == Spec => []IInv
<1> QED
  BY InitIInv, NextIInv, PTL DEF Spec

\* Type correctness of the call state (state.go callState).
THEOREM TypeCorrect == Spec => []TypeOK
<1>1. IInv => TypeOK
  BY DEF IInv
<1> QED
  BY <1>1, Invariance, PTL

\* A call with participants has one of them as host (state.go addSession,
\* removeSession, setHostByUser).
THEOREM HostAlwaysInCall == Spec => []HostInCall
<1>1. IInv => HostInCall
  BY DEF IInv
<1> QED
  BY <1>1, Invariance, PTL

\* The participant limit holds for every limit and every number of clients
\* (state.go addSession).
THEOREM LimitNeverExceeded == Spec => []LimitRespected
<1>1. IInv => LimitRespected
  BY DEF IInv
<1> QED
  BY <1>1, Invariance, PTL

\* The connection index and the sessions agree (state.go byConn).
THEOREM ConnIndexAlwaysExact == Spec => []ConnIndexExact
<1>1. IInv => ConnIndexExact
  BY DEF IInv
<1> QED
  BY <1>1, Invariance, PTL

\* A host who leaves is succeeded by the longest tenured participant, and a
\* host who stays is replaced only by a transfer (state.go removeSession).
THEOREM SuccessionAlwaysByTenure == Spec => SuccessionByTenure
<1> DEFINE Succession ==
      /\ (cs.host # NoConn /\ cs.host \notin DOMAIN cs'.sessions)
            => \A b \in DOMAIN cs'.sessions :
                  cs'.sessions[cs'.host].startAt <= cs'.sessions[b].startAt
      /\ (cs.host \in DOMAIN cs'.sessions /\ cs'.host # cs.host)
            => DOMAIN cs'.sessions = DOMAIN cs.sessions
<1>1. IInv /\ IInv' /\ Next => Succession
  <2> SUFFICES ASSUME IInv, IInv', Next PROVE Succession
    OBVIOUS
  <2>1. /\ DOMAIN cs = Fields
        /\ cs.host # NoConn => cs.host \in DOMAIN cs.sessions
        /\ NoConn \notin DOMAIN cs.sessions
    BY ConnsAssumption DEF IInv, TypeOK, HostInCall, Fields, NoConn
  <2>2. ASSUME NEW c \in Conns, NEW now \in Times, Join(c, now) PROVE Succession
    <3> DEFINE s == NewSession(c, joins'[c], now)
    <3>1. Added(cs', cs, c, s)
      BY <2>1, <2>2, AddSessionFields DEF Join
    <3>2. /\ DOMAIN cs'.sessions = DOMAIN cs.sessions \cup {c}
          /\ cs'.host = IF cs.host = NoConn THEN c ELSE cs.host
      BY <3>1 DEF Added
    <3>3. NoConn \notin DOMAIN cs'.sessions
      BY ConnsAssumption DEF IInv, TypeOK, NoConn
    <3> QED
      BY <2>1, <3>2, <3>3
  <2>3. ASSUME NEW sid \in Conns, Leave(sid) PROVE Succession
    <3>1. /\ sid \in DOMAIN cs.sessions
          /\ DOMAIN cs'.sessions = DOMAIN cs.sessions \ {sid}
          /\ cs'.host = IF cs.host = sid THEN Successor(cs'.sessions) ELSE cs.host
      <4>1. sid \in DOMAIN cs.sessions /\ cs' = removeSession(cs, sid)
        BY <2>3 DEF Leave
      <4> QED
        BY <2>1, <4>1, RemoveSessionFields
    <3>2. CASE cs.host # sid
      BY <2>1, <3>1, <3>2
    <3>3. CASE cs.host = sid
      <4>1. /\ DOMAIN cs'.sessions \subseteq Conns
            /\ \A x \in DOMAIN cs'.sessions : cs'.sessions[x] \in Session
        BY DEF IInv, TypeOK
      <4>2. ASSUME NEW b \in DOMAIN cs'.sessions
            PROVE  cs'.sessions[cs'.host].startAt <= cs'.sessions[b].startAt
        <5>1. /\ cs'.host \in DOMAIN cs'.sessions
              /\ LongerTenured(cs'.sessions, cs'.host, b)
          BY <3>1, <3>3, <4>1, <4>2, SuccessorElected
        <5>2. /\ cs'.sessions[cs'.host].startAt \in Nat
              /\ cs'.sessions[b].startAt \in Nat
          BY <4>1, <5>1, TimesAssumption DEF Session
        <5> QED
          BY <5>1, <5>2 DEF LongerTenured
      <4> QED
        BY <3>1, <3>3, <4>2
    <3> QED
      BY <3>2, <3>3
  <2>4. ASSUME DOMAIN cs'.sessions = DOMAIN cs.sessions PROVE Succession
    BY <2>1, <2>4
  <2>5. ASSUME NEW sid \in Conns, NEW c \in Conns, Reconnect(sid, c) PROVE Succession
    BY <2>1, <2>4, <2>5 DEF Reconnect, setConn, Fields
  <2>6. ASSUME NEW user \in Users, MakeHost(user) PROVE Succession
    BY <2>1, <2>4, <2>6 DEF MakeHost, setHost, Fields
  <2>7. CASE End
    BY <2>1, <2>4, <2>7 DEF End, markEnded, Fields
  <2>8. ASSUME NEW sid \in Conns, MarkClosed(sid) PROVE Succession
    BY <2>1, <2>4, <2>8 DEF MarkClosed, markRTCclosed, Fields
  <2>9. ASSUME NEW sid \in Conns, MarkRemoved(sid) PROVE Succession
    BY <2>1, <2>4, <2>9 DEF MarkRemoved, markRemoved, Fields
  <2> QED
    BY <2>2, <2>3, <2>5, <2>6, <2>7, <2>8, <2>9 DEF Next
<1>2. IInv /\ IInv' /\ [Next]_vars => [Succession]_vars
  BY <1>1
<1> QED
  BY <1>2, Invariance, PTL DEF Spec, SuccessionByTenure
=============================================================================
