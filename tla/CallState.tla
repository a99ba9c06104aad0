----------------------------- MODULE CallState ------------------------------
(***************************************************************************)
(* One call's callState under every interleaving of its locked operations. *)
(* Handlers, timers and the SFU relay all reach a call through the methods *)
(* of state.go, each of which is atomic (callState.mut); a step here is    *)
(* one such method, called by anyone, in any order, also after the end.    *)
(*                                                                         *)
(* What the module assumes of browsers (lms-fe calls-client.ts): a client  *)
(* holds one websocket at a time, sends a join on it only when that        *)
(* connection does not already carry a re-pointed session, and sends       *)
(* nothing more on a connection it has replaced.                           *)
(***************************************************************************)
EXTENDS CallStateOps

CONSTANTS Limit,     \* MaxCallParticipants; 0 is unlimited
          MaxJoins   \* bound on the joins of one connection

ASSUME LimitAssumption == Limit \in Nat
ASSUME MaxJoinsAssumption == MaxJoins \in Nat

VARIABLES cs,        \* the callState
          joins,     \* how many sessions each connection has allocated
          replaced   \* connections whose client moved to another one

vars == <<cs, joins, replaced>>

Init ==
    /\ cs = newCallState
    /\ joins = [c \in Conns |-> 0]
    /\ replaced = {}

\* handleJoin's insert; startAt was read before the lock was taken, so
\* sessions may arrive with their start times in any order.
Join(c, now) ==
    /\ joins[c] < MaxJoins
    /\ c \notin replaced
    /\ findByConn(cs, c) => cs.byConn[c].sid = c
    /\ ~AtLimit(cs, c, Limit)
    /\ joins' = [joins EXCEPT ![c] = @ + 1]
    /\ cs' = addSession(cs, c, NewSession(c, joins'[c], now))
    /\ UNCHANGED replaced

\* teardownSession's removal, whatever the reason.
Leave(sid) ==
    /\ sid \in DOMAIN cs.sessions
    /\ cs' = removeSession(cs, sid)
    /\ UNCHANGED <<joins, replaced>>

\* handleReconnect's re-point.  The platform may give the client its old
\* connection id back, so c may be the session's present connection.
Reconnect(sid, c) ==
    /\ sid \in DOMAIN cs.sessions
    /\ userOf[sid] = userOf[c]
    /\ c \notin replaced
    /\ c = cs.sessions[sid].conn \/ ~findByConn(cs, c)
    /\ cs' = setConn(cs, sid, c)
    /\ replaced' = (replaced \cup {cs.sessions[sid].conn}) \ {c}
    /\ UNCHANGED joins

\* MakeHost's transfer, to any session of the new host.
MakeHost(user) ==
    /\ \E sid \in SessionsOfUser(cs, user) : cs' = setHost(cs, sid)
    /\ UNCHANGED <<joins, replaced>>

End ==
    /\ markEndedWins(cs)
    /\ cs' = markEnded(cs)
    /\ UNCHANGED <<joins, replaced>>

\* The SFU close callback and the host's removal set their once-only flags.
MarkClosed(sid) ==
    /\ sid \in DOMAIN cs.sessions
    /\ ~cs.sessions[sid].rtcClosed
    /\ cs' = markRTCclosed(cs, sid)
    /\ UNCHANGED <<joins, replaced>>

MarkRemoved(sid) ==
    /\ sid \in DOMAIN cs.sessions
    /\ ~cs.sessions[sid].removed
    /\ cs' = markRemoved(cs, sid)
    /\ UNCHANGED <<joins, replaced>>

Next ==
    \/ \E c \in Conns, now \in Times : Join(c, now)
    \/ \E sid \in Conns : Leave(sid)
    \/ \E sid, c \in Conns : Reconnect(sid, c)
    \/ \E user \in Users : MakeHost(user)
    \/ End
    \/ \E sid \in Conns : MarkClosed(sid)
    \/ \E sid \in Conns : MarkRemoved(sid)

Spec == Init /\ [][Next]_vars

-----------------------------------------------------------------------------
(***************************************************************************)
(* Properties                                                              *)
(***************************************************************************)

\* Every field of the call state has its type.
TypeOK ==
    /\ DOMAIN cs = {"sessions", "byConn", "host", "ended", "peak"}
    /\ DOMAIN cs.sessions \subseteq Conns
    /\ IsFiniteSet(DOMAIN cs.sessions)
    /\ \A sid \in DOMAIN cs.sessions : cs.sessions[sid] \in Session
    /\ DOMAIN cs.byConn \subseteq Conns
    /\ \A c \in DOMAIN cs.byConn : cs.byConn[c] \in Ref
    /\ cs.host \in Conns \cup {NoConn}
    /\ cs.ended \in BOOLEAN
    /\ cs.peak \in Nat
    /\ joins \in [Conns -> Nat]
    /\ replaced \subseteq Conns

\* A call with participants always has a host who is one of them, and an
\* empty call has none: no order of leaving, re-joining and transferring
\* strands the host role (state.go removeSession, setHostByUser).
HostInCall ==
    IF DOMAIN cs.sessions = {} THEN cs.host = NoConn
                               ELSE cs.host \in DOMAIN cs.sessions

\* The participant limit is never exceeded, however joins interleave, and
\* the high-water mark lies between the present count and the limit
\* (state.go addSession: "enforced atomically with the insert").
LimitRespected ==
    /\ participants(cs) <= cs.peak
    /\ Limit > 0 => cs.peak <= Limit

\* The connection index is exact: every session is found under its current
\* connection and under no other, and no entry outlives its session, so a
\* unicast or an inbound message can never reach another participant's
\* session (state.go byConn).
ConnIndexExact ==
    /\ \A sid \in DOMAIN cs.sessions :
          /\ cs.sessions[sid].conn \in DOMAIN cs.byConn
          /\ cs.byConn[cs.sessions[sid].conn] =
                 [sid |-> sid, seq |-> cs.sessions[sid].seq]
    /\ \A c \in DOMAIN cs.byConn :
          /\ cs.byConn[c].sid \in DOMAIN cs.sessions
          /\ cs.sessions[cs.byConn[c].sid].conn = c

\* A session that left the connection it joined on has been replaced there,
\* so its client sends nothing more on that connection (the assumption on
\* browsers, as handleReconnect keeps it).
MovedIsReplaced ==
    \A sid \in DOMAIN cs.sessions : cs.sessions[sid].conn # sid => sid \in replaced

\* What every step preserves.
IInv == TypeOK /\ HostInCall /\ LimitRespected /\ ConnIndexExact /\ MovedIsReplaced

\* When the host leaves, nobody who stays has been in the call longer than
\* the new host; and while the host stays, only MakeHost replaces them.
SuccessionByTenure ==
    [][/\ (cs.host # NoConn /\ cs.host \notin DOMAIN cs'.sessions)
              => \A b \in DOMAIN cs'.sessions :
                    cs'.sessions[cs'.host].startAt <= cs'.sessions[b].startAt
       /\ (cs.host \in DOMAIN cs'.sessions /\ cs'.host # cs.host)
              => DOMAIN cs'.sessions = DOMAIN cs.sessions]_vars
=============================================================================
