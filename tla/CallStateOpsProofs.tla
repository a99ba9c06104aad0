------------------------- MODULE CallStateOpsProofs -------------------------
(***************************************************************************)
(* Lemmas about the operations of callState: what each writes, and that    *)
(* each leaves a well-formed state.                                        *)
(***************************************************************************)
EXTENDS CallStateOps, FiniteSetTheorems, WellFoundedInduction, TLAPS

Fields == {"sessions", "byConn", "host", "ended", "peak"}

-----------------------------------------------------------------------------
(***************************************************************************)
(* The election of a host                                                  *)
(***************************************************************************)

\* A nonempty set of numbers has a least element.
LEMMA NatMin ==
    ASSUME NEW T \in SUBSET Nat, T # {}
    PROVE  \E m \in T : \A n \in T : m <= n
<1>1. PICK m \in T : \A n \in T : ~(<<n, m>> \in OpToRel(<, Nat))
  BY NatLessThanWellFounded, WFMin
<1>2. \A n \in T : ~(n < m)
  BY <1>1 DEF OpToRel
<1> QED
  BY <1>2

\* In a nonempty set of sessions one precedes all the others in the order
\* that elects the host, so removeSession's loop elects somebody.
LEMMA SuccessorElected ==
    ASSUME NEW sessions,
           DOMAIN sessions \subseteq Conns,
           \A sid \in DOMAIN sessions : sessions[sid] \in Session,
           DOMAIN sessions # {}
    PROVE  /\ Successor(sessions) \in DOMAIN sessions
           /\ \A b \in DOMAIN sessions : LongerTenured(sessions, Successor(sessions), b)
<1> DEFINE Starts == {sessions[sid].startAt : sid \in DOMAIN sessions}
<1>1. \A sid \in DOMAIN sessions : sessions[sid].startAt \in Nat
  BY TimesAssumption DEF Session
<1>2. PICK first \in Starts : \A n \in Starts : first <= n
  <2>1. Starts \in SUBSET Nat /\ Starts # {}
    BY <1>1
  <2> QED
    BY <2>1, NatMin
<1> DEFINE Eldest == {sid \in DOMAIN sessions : sessions[sid].startAt = first}
<1>3. PICK a \in Eldest : \A b \in Eldest : a <= b
  <2>1. Eldest \in SUBSET Nat
    BY ConnsAssumption
  <2>2. Eldest # {}
    BY <1>2
  <2> QED
    BY <2>1, <2>2, NatMin
<1>4. \A b \in DOMAIN sessions : LongerTenured(sessions, a, b)
  <2> SUFFICES ASSUME NEW b \in DOMAIN sessions
               PROVE  LongerTenured(sessions, a, b)
    OBVIOUS
  <2>1. first <= sessions[b].startAt /\ sessions[a].startAt = first
    BY <1>2, <1>3
  <2>2. first \in Nat /\ sessions[b].startAt \in Nat
    BY <1>1, <1>2
  <2>3. CASE first = sessions[b].startAt
    BY <2>1, <2>3, <1>3 DEF LongerTenured
  <2>4. CASE first < sessions[b].startAt
    BY <2>1, <2>4 DEF LongerTenured
  <2> QED
    BY <2>1, <2>2, <2>3, <2>4
<1> QED
  BY <1>4 DEF Successor

-----------------------------------------------------------------------------
(***************************************************************************)
(* The operations of state.go, field by field                              *)
(***************************************************************************)

\* What addSession writes.
Added(new, st, sid, s) ==
    LET n == Cardinality(DOMAIN st.sessions \cup {sid})
    IN  /\ DOMAIN new = Fields
        /\ DOMAIN new.sessions = DOMAIN st.sessions \cup {sid}
        /\ \A x \in DOMAIN new.sessions :
              new.sessions[x] = IF x = sid THEN s ELSE st.sessions[x]
        /\ DOMAIN new.byConn = DOMAIN st.byConn \cup {s.conn}
        /\ \A c \in DOMAIN new.byConn :
              new.byConn[c] = IF c = s.conn THEN [sid |-> sid, seq |-> s.seq]
                                            ELSE st.byConn[c]
        /\ new.host = IF st.host = NoConn THEN sid ELSE st.host
        /\ new.ended = st.ended
        /\ new.peak = IF n > st.peak THEN n ELSE st.peak

\* addSession, field by field: the insert, the index entry, the first host
\* and the high-water mark.
LEMMA AddSessionFields ==
    ASSUME NEW st, DOMAIN st = Fields, NEW sid, NEW s
    PROVE  Added(addSession(st, sid, s), st, sid, s)
<1> DEFINE added == Put(st.sessions, sid, s)
<1>1. DOMAIN added = DOMAIN st.sessions \cup {sid}
  BY DEF Put
<1> QED
  BY <1>1 DEF addSession, Put, Fields, Added

\* What removeSession writes.
LEMMA RemoveSessionFields ==
    ASSUME NEW st, DOMAIN st = Fields, NEW sid
    PROVE  LET new == removeSession(st, sid)
           IN  /\ DOMAIN new = Fields
               /\ DOMAIN new.sessions = DOMAIN st.sessions \ {sid}
               /\ \A x \in DOMAIN new.sessions : new.sessions[x] = st.sessions[x]
               /\ DOMAIN new.byConn = DOMAIN st.byConn \ {st.sessions[sid].conn}
               /\ \A c \in DOMAIN new.byConn : new.byConn[c] = st.byConn[c]
               /\ new.host = IF st.host = sid THEN Successor(new.sessions) ELSE st.host
               /\ new.ended = st.ended
               /\ new.peak = st.peak
  BY DEF removeSession, Del, Fields

\* What setConn writes.
LEMMA SetConnFields ==
    ASSUME NEW st, DOMAIN st = Fields, NEW sid \in DOMAIN st.sessions, NEW conn,
           st.sessions[sid] \in Session
    PROVE  LET new == setConn(st, sid, conn)
           IN  /\ DOMAIN new = Fields
               /\ DOMAIN new.sessions = DOMAIN st.sessions
               /\ \A x \in DOMAIN new.sessions :
                     x # sid => new.sessions[x] = st.sessions[x]
               /\ new.sessions[sid] = [st.sessions[sid] EXCEPT !.conn = conn]
               /\ DOMAIN new.byConn =
                     (DOMAIN st.byConn \ {st.sessions[sid].conn}) \cup {conn}
               /\ \A c \in DOMAIN new.byConn :
                     new.byConn[c] = IF c = conn
                                     THEN [sid |-> sid, seq |-> st.sessions[sid].seq]
                                     ELSE st.byConn[c]
               /\ new.host = st.host
               /\ new.ended = st.ended
               /\ new.peak = st.peak
  BY DEF setConn, Put, Del, Fields

-----------------------------------------------------------------------------
(***************************************************************************)
(* Well-formed call states                                                 *)
(***************************************************************************)

\* The maps of a call state hold what Go's types say they hold.
CallShape(cs) ==
    /\ DOMAIN cs = Fields
    /\ IsFiniteSet(DOMAIN cs.sessions)
    /\ DOMAIN cs.sessions \subseteq Conns
    /\ \A sid \in DOMAIN cs.sessions : cs.sessions[sid] \in Session
    /\ DOMAIN cs.byConn \subseteq Conns
    /\ \A c \in DOMAIN cs.byConn : cs.byConn[c] \in Ref
    /\ cs.ended \in BOOLEAN

\* What an operation may do to a call state short of ending it: leave it
\* well formed, and no fuller than the limit allows.
Shaped(new, cs, limit) ==
    /\ CallShape(new)
    /\ new.ended = cs.ended
    /\ (limit > 0 /\ participants(cs) <= limit) => participants(new) <= limit

\* newCallState is well formed and empty.
LEMMA NewShape ==
    /\ CallShape(newCallState)
    /\ newCallState.ended = FALSE
    /\ DOMAIN newCallState.sessions = {}
    /\ participants(newCallState) = 0
<1>1. DOMAIN newCallState.sessions = {} /\ DOMAIN newCallState.byConn = {}
  BY DEF newCallState, EmptyMap
<1>2. IsFiniteSet({}) /\ Cardinality({}) = 0
  BY FS_EmptySet
<1> QED
  BY <1>1, <1>2 DEF CallShape, newCallState, Fields, participants

\* A join within the limit: addSession past its limit check.
LEMMA AddShape ==
    ASSUME NEW cs, CallShape(cs), NEW sid \in Conns, NEW seq \in Nat,
           NEW now \in Times, NEW limit \in Nat, ~AtLimit(cs, sid, limit)
    PROVE  LET new == addSession(cs, sid, NewSession(sid, seq, now))
           IN  /\ Shaped(new, cs, limit)
               /\ DOMAIN new.sessions = DOMAIN cs.sessions \cup {sid}
<1> DEFINE s == NewSession(sid, seq, now)
           new == addSession(cs, sid, s)
<1>1. s \in Session /\ s.conn = sid /\ s.seq = seq
  BY DEF NewSession, Session
<1>2. Added(new, cs, sid, s)
  BY AddSessionFields DEF CallShape
<1>3. [sid |-> sid, seq |-> s.seq] \in Ref
  BY <1>1 DEF Ref
<1>4. /\ IsFiniteSet(DOMAIN cs.sessions \cup {sid})
      /\ Cardinality(DOMAIN cs.sessions) \in Nat
      /\ Cardinality(DOMAIN cs.sessions \cup {sid}) =
            IF sid \in DOMAIN cs.sessions THEN Cardinality(DOMAIN cs.sessions)
                                          ELSE Cardinality(DOMAIN cs.sessions) + 1
  BY FS_AddElement, FS_CardinalityType DEF CallShape
<1> HIDE DEF s, new
<1> SUFFICES /\ Shaped(new, cs, limit)
             /\ DOMAIN new.sessions = DOMAIN cs.sessions \cup {sid}
  BY DEF s, new
<1>5. CallShape(new) /\ new.ended = cs.ended
  <2>1. \A x \in DOMAIN new.sessions : new.sessions[x] \in Session
    BY <1>1, <1>2 DEF Added, CallShape
  <2>2. DOMAIN new.byConn \subseteq Conns
    BY <1>1, <1>2 DEF Added, CallShape
  <2>3. \A c \in DOMAIN new.byConn : new.byConn[c] \in Ref
    BY <1>1, <1>2, <1>3 DEF Added, CallShape
  <2> QED
    BY <1>2, <1>4, <2>1, <2>2, <2>3 DEF Added, CallShape
<1>6. ASSUME limit > 0, participants(cs) <= limit
      PROVE  participants(new) <= limit
  BY <1>2, <1>4, <1>6 DEF Added, participants, AtLimit
<1> QED
  BY <1>2, <1>5, <1>6 DEF Shaped, Added

\* removeSession takes one session out.
LEMMA RemoveShape ==
    ASSUME NEW cs, CallShape(cs), NEW sid \in DOMAIN cs.sessions, NEW limit \in Nat
    PROVE  LET new == removeSession(cs, sid)
           IN  /\ Shaped(new, cs, limit)
               /\ DOMAIN new.sessions \subseteq DOMAIN cs.sessions
<1> DEFINE new == removeSession(cs, sid)
<1>1. /\ DOMAIN new = Fields
      /\ DOMAIN new.sessions = DOMAIN cs.sessions \ {sid}
      /\ \A x \in DOMAIN new.sessions : new.sessions[x] = cs.sessions[x]
      /\ DOMAIN new.byConn = DOMAIN cs.byConn \ {cs.sessions[sid].conn}
      /\ \A c \in DOMAIN new.byConn : new.byConn[c] = cs.byConn[c]
      /\ new.ended = cs.ended
  BY RemoveSessionFields DEF CallShape
<1> HIDE DEF new
<1> SUFFICES /\ Shaped(new, cs, limit)
             /\ DOMAIN new.sessions \subseteq DOMAIN cs.sessions
  BY DEF new
<1>2. /\ IsFiniteSet(DOMAIN new.sessions)
      /\ Cardinality(DOMAIN new.sessions) = Cardinality(DOMAIN cs.sessions) - 1
      /\ Cardinality(DOMAIN cs.sessions) \in Nat
  BY <1>1, FS_RemoveElement, FS_CardinalityType DEF CallShape
<1>3. CallShape(new)
  BY <1>1, <1>2 DEF CallShape
<1> QED
  BY <1>1, <1>2, <1>3 DEF Shaped, participants

\* setConn moves a session to another connection.
LEMMA SetConnShape ==
    ASSUME NEW cs, CallShape(cs), NEW sid \in DOMAIN cs.sessions,
           NEW conn \in Conns, NEW limit
    PROVE  LET new == setConn(cs, sid, conn)
           IN  /\ Shaped(new, cs, limit)
               /\ DOMAIN new.sessions = DOMAIN cs.sessions
<1> DEFINE new == setConn(cs, sid, conn)
<1>1. /\ cs.sessions[sid] \in Session
      /\ sid \in Conns
  BY DEF CallShape
<1>2. /\ DOMAIN new = Fields
      /\ DOMAIN new.sessions = DOMAIN cs.sessions
      /\ \A x \in DOMAIN new.sessions : x # sid => new.sessions[x] = cs.sessions[x]
      /\ new.sessions[sid] = [cs.sessions[sid] EXCEPT !.conn = conn]
      /\ DOMAIN new.byConn = (DOMAIN cs.byConn \ {cs.sessions[sid].conn}) \cup {conn}
      /\ \A c \in DOMAIN new.byConn :
            new.byConn[c] = IF c = conn
                            THEN [sid |-> sid, seq |-> cs.sessions[sid].seq]
                            ELSE cs.byConn[c]
      /\ new.ended = cs.ended
  BY <1>1, SetConnFields DEF CallShape
<1>3. [sid |-> sid, seq |-> cs.sessions[sid].seq] \in Ref
  BY <1>1 DEF Ref, Session
<1>4. [cs.sessions[sid] EXCEPT !.conn = conn] \in Session
  BY <1>1 DEF Session
<1> HIDE DEF new
<1> SUFFICES /\ Shaped(new, cs, limit)
             /\ DOMAIN new.sessions = DOMAIN cs.sessions
  BY DEF new
<1>5. CallShape(new)
  <2>1. \A x \in DOMAIN new.sessions : new.sessions[x] \in Session
    BY <1>2, <1>4 DEF CallShape
  <2>2. \A c \in DOMAIN new.byConn : new.byConn[c] \in Ref
    BY <1>2, <1>3 DEF CallShape
  <2> QED
    BY <1>2, <2>1, <2>2 DEF CallShape
<1> QED
  BY <1>2, <1>5 DEF Shaped, participants

\* markRTCclosed and markRemoved set a flag of one session.
LEMMA MarkShape ==
    ASSUME NEW cs, CallShape(cs), NEW sid \in DOMAIN cs.sessions, NEW limit,
           NEW new, new \in {markRTCclosed(cs, sid), markRemoved(cs, sid)}
    PROVE  /\ Shaped(new, cs, limit)
           /\ DOMAIN new.sessions = DOMAIN cs.sessions
<1>1. cs.sessions[sid] \in Session
  BY DEF CallShape
<1>2. /\ DOMAIN new = Fields
      /\ DOMAIN new.sessions = DOMAIN cs.sessions
      /\ \A x \in DOMAIN cs.sessions : x # sid => new.sessions[x] = cs.sessions[x]
      /\ new.sessions[sid] \in {[cs.sessions[sid] EXCEPT !.rtcClosed = TRUE],
                               [cs.sessions[sid] EXCEPT !.removed = TRUE]}
      /\ new.byConn = cs.byConn
      /\ new.ended = cs.ended
  BY DEF markRTCclosed, markRemoved, CallShape, Fields
<1>3. new.sessions[sid] \in Session
  BY <1>1, <1>2 DEF Session
<1>4. \A x \in DOMAIN new.sessions : new.sessions[x] \in Session
  BY <1>2, <1>3 DEF CallShape
<1>5. CallShape(new)
  BY <1>2, <1>4 DEF CallShape
<1> QED
  BY <1>2, <1>5 DEF Shaped, participants

\* markEnded sets ended and nothing else.
LEMMA EndShape ==
    ASSUME NEW cs, CallShape(cs)
    PROVE  /\ CallShape(markEnded(cs))
           /\ markEnded(cs).ended = TRUE
           /\ markEnded(cs).sessions = cs.sessions
  BY DEF markEnded, CallShape, Fields
=============================================================================
