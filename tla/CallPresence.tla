---------------------------- MODULE CallPresence ----------------------------
(***************************************************************************)
(* Presence in one call: who is unmuted, shares a screen or a camera, has  *)
(* a hand up.  The same fact is kept in three places, written one after    *)
(* the other and under no common lock:                                     *)
(*   flags   the session's fields in callState (client_messages.go mutate) *)
(*   sfu     what the SFU does with the media of the session               *)
(*   told    the last presence event the channel received                  *)
(* A client toggles its own flags from its read pump, one message at a     *)
(* time; the host mutes, stops screens and lowers hands from a REST        *)
(* request (host_controls.go).                                             *)
(*                                                                         *)
(* Sessions come and go as in CallService; here a session keeps the        *)
(* connection it joined on.                                                *)
(***************************************************************************)
EXTENDS CallStateOps

CONSTANTS Flags,      \* which flags occur
          Controls,   \* which host controls occur
          MaxRequests,\* bound: client messages and host controls altogether
          SFUFaults   \* may messages to the SFU fail?

ASSUME PresenceAssumption ==
    /\ Flags \subseteq {"unmuted", "screenOn", "videoOn", "hand"}
    /\ Controls \subseteq {"mute", "muteOthers", "screenOff", "lowerHand", "remove"}
    /\ MaxRequests \in Nat
    /\ SFUFaults \in BOOLEAN

VARIABLES
    cs,       \* the callState
    flags,    \* session id -> flag -> is it set in the session?
    linked,   \* the sessions the session registry resolves
    sfu,      \* session id -> its media leg: the flags and the join it serves
    told,     \* session id -> flag -> as last announced to the channel
    joins,    \* how often each connection has joined
    requests, \* client messages and host controls so far
    th,       \* thread -> its program counter and locals
    contested \* history: <<session, flag>> two requests wrote at once

state == <<cs, flags, linked, sfu, told, joins>>
vars == <<state, requests, th, contested>>

\* The flags the SFU is told about; a raised hand is the server's alone.
MediaFlags == Flags \ {"hand"}

\* A participant arrives unmuted and with everything else off.
FreshFlags == [f \in Flags |-> f = "unmuted"]

WS(c) == <<"ws", c>>
Rest == <<"rest", 0>>
Threads == {WS(c) : c \in Conns} \cup {Rest}

\* A thread's locals: the session, flag and value it writes; the sessions a
\* mute-others has still to visit.
Idle == [pc |-> "idle", sid |-> NoConn, f |-> "", on |-> FALSE, todo |-> {}]

At(t, pc) == th[t].pc = pc

Present(sid) == sid \in DOMAIN cs.sessions

Init ==
    /\ cs = newCallState
    /\ flags = EmptyMap
    /\ linked = {}
    /\ sfu = EmptyMap
    /\ told = [c \in Conns |-> FreshFlags]
    /\ joins = [c \in Conns |-> 0]
    /\ requests = 0
    /\ th = [t \in Threads |-> Idle]
    /\ contested = {}

-----------------------------------------------------------------------------
(***************************************************************************)
(* The history variable: a flag is contested when two threads have a write *)
(* of it under way at once, and no longer once a later write has passed    *)
(* the SFU alone.  A join writes every flag of its session.                *)
(***************************************************************************)

\* The <<session, flag>> pairs a thread is writing.
Writing(t) ==
    CASE th[t].pc \in {"send", "mutate", "publish"} -> {<<th[t].sid, th[t].f>>}
      [] th[t].pc \in {"link", "sfuJoin"} -> {th[t].sid} \X Flags
      [] OTHER -> {}

Contest == {p \in Conns \X Flags :
               \E t, u \in Threads : t # u /\ p \in Writing(t) \cap Writing(u)}

\* The pairs whose write has passed the SFU, or whose join has begun.
Passed == {p \in Conns \X Flags :
              \E t \in Threads : th[t].pc \in {"mutate", "link"} /\ p \in Writing(t)}

Observe == contested' = (contested \ (Passed' \ Passed)) \cup Contest'

\* A thread goes on with new locals.
Becomes(t, locals) == th' = [th EXCEPT ![t] = locals] /\ Observe

\* A client message or a host control begins.
Begin(t, locals) ==
    /\ At(t, "idle")
    /\ requests < MaxRequests
    /\ requests' = requests + 1
    /\ Becomes(t, locals)

\* A handler goes on.
Continue(t, locals) == Becomes(t, locals) /\ UNCHANGED requests
Goto(t, pc) == Continue(t, [th[t] EXCEPT !.pc = pc])
Return(t) == Continue(t, Idle)

-----------------------------------------------------------------------------
(***************************************************************************)
(* handleJoin and teardownSession, as far as presence goes                 *)
(***************************************************************************)

JoinInsert(c) ==
    /\ ~cs.ended
    /\ joins' = [joins EXCEPT ![c] = @ + 1]
    /\ \E now \in Times : cs' = addSession(cs, c, NewSession(c, joins'[c], now))
    /\ flags' = Put(flags, c, FreshFlags)
    /\ Begin(WS(c), [Idle EXCEPT !.pc = "link", !.sid = c])
    /\ UNCHANGED <<linked, sfu, told>>

JoinLink(t) ==
    /\ At(t, "link")
    /\ linked' = linked \cup {th[t].sid}
    /\ Goto(t, "sfuJoin")
    /\ UNCHANGED <<cs, flags, sfu, told, joins>>

\* The SFU (re-)registers the session; a failure is logged.  Then
\* user_joined, which clients take as a fresh participant.
JoinSFU(t) ==
    LET sid == th[t].sid
    IN  /\ At(t, "sfuJoin")
        /\ \/ sfu' = Put(sfu, sid, [flags |-> FreshFlags, seq |-> joins[sid]])
           \/ SFUFaults /\ UNCHANGED sfu
        /\ told' = [told EXCEPT ![sid] = FreshFlags]
        /\ Return(t)
        /\ UNCHANGED <<cs, flags, linked, joins>>

BeginTeardown(t, sid) == Begin(t, [Idle EXCEPT !.pc = "remove", !.sid = sid])

TeardownRemove(t) ==
    LET sid == th[t].sid
    IN  /\ At(t, "remove")
        /\ IF Present(sid)
           THEN /\ cs' = removeSession(cs, sid)
                /\ flags' = Del(flags, sid)
                /\ Goto(t, "unlink")
           ELSE Return(t) /\ UNCHANGED <<cs, flags>>
        /\ UNCHANGED <<linked, sfu, told, joins>>

TeardownUnlink(t) ==
    /\ At(t, "unlink")
    /\ linked' = linked \ {th[t].sid}
    /\ Goto(t, "sfuLeave")
    /\ UNCHANGED <<cs, flags, sfu, told, joins>>

\* The SFU Leave, user_left; the last one out ends the call.
TeardownLeave(t) ==
    /\ At(t, "sfuLeave")
    /\ sfu' = Del(sfu, th[t].sid) \/ (SFUFaults /\ UNCHANGED sfu)
    /\ cs' = IF participants(cs) = 0 THEN markEnded(cs) ELSE cs
    /\ Return(t)
    /\ UNCHANGED <<flags, linked, told, joins>>

Leave(c) ==
    /\ findByConn(cs, c)
    /\ BeginTeardown(WS(c), cs.byConn[c].sid)
    /\ UNCHANGED state

-----------------------------------------------------------------------------
(***************************************************************************)
(* The toggles of a client and the controls of the host                    *)
(***************************************************************************)

\* A media flag goes to the SFU first, a hand straight to the call state.
Writes(sid, f, on) ==
    [Idle EXCEPT !.pc = IF f \in MediaFlags THEN "send" ELSE "mutate",
                 !.sid = sid, !.f = f, !.on = on]

\* screenSharer returns some session that shares; nobody, or the session
\* itself, does not stand in the way.
MayShare(sid) ==
    LET sharers == {s \in DOMAIN flags : flags[s]["screenOn"]}
    IN  sharers = {} \/ sid \in sharers

\* handleMuteToggle, handleScreenToggle, handleVideoToggle and
\* handleRaiseHand: sessionByConn and, for a screen, the check.
Toggle(c, f, on) ==
    /\ c \in linked
    /\ findByConn(cs, c)
    /\ (f = "screenOn" /\ on) => MayShare(c)
    /\ Begin(WS(c), Writes(c, f, on))
    /\ UNCHANGED state

\* callForHostAction: only the host, or an admin acting as the host.
HostActs(user) == ~cs.ended /\ hostUserIs(cs, user)

\* MuteSession, ScreenOff and LowerHand
HostControl(user, sid, control, f) ==
    /\ control \in Controls
    /\ f \in Flags
    /\ HostActs(user)
    /\ Present(sid)
    /\ Begin(Rest, Writes(sid, f, FALSE))
    /\ UNCHANGED state

\* MuteOthers: the snapshot of the others that are unmuted
MuteOthers(user) ==
    /\ "muteOthers" \in Controls
    /\ "unmuted" \in Flags
    /\ HostActs(user)
    /\ Begin(Rest, [Idle EXCEPT !.pc = "sweep",
                 !.todo = {s \in DOMAIN flags : flags[s]["unmuted"] /\ userOf[s] # user}])
    /\ UNCHANGED state

\* One round of its loop; muteOne skips a session that is gone.
SweepNext(t) ==
    /\ At(t, "sweep")
    /\ \E sid \in th[t].todo :
          LET rest == th[t].todo \ {sid}
          IN  IF Present(sid)
              THEN Continue(t, [Writes(sid, "unmuted", FALSE) EXCEPT !.todo = rest])
              ELSE Continue(t, [th[t] EXCEPT !.todo = rest])
    /\ UNCHANGED state

SweepDone(t) ==
    /\ At(t, "sweep")
    /\ th[t].todo = {}
    /\ Return(t)
    /\ UNCHANGED state

\* RemoveSession
HostRemove(user, sid) ==
    /\ "remove" \in Controls
    /\ HostActs(user)
    /\ Present(sid)
    /\ ~cs.sessions[sid].removed
    /\ cs' = markRemoved(cs, sid)
    /\ BeginTeardown(Rest, sid)
    /\ UNCHANGED <<flags, linked, sfu, told, joins>>

\* A write is done: a mute-others goes on to its next session.
Done(t) ==
    Continue(t, IF th[t].todo = {} THEN Idle
                ELSE [Idle EXCEPT !.pc = "sweep", !.todo = th[t].todo])

\* sendToHost; the SFU ignores what it has no leg for.
Send(t) ==
    LET sid == th[t].sid
    IN  /\ At(t, "send")
        /\ sfu' = IF sid \in DOMAIN sfu
                  THEN [sfu EXCEPT ![sid].flags[th[t].f] = th[t].on] ELSE sfu
        /\ Goto(t, "mutate")
        /\ UNCHANGED <<cs, flags, linked, told, joins>>

\* Mutant: the error is ignored.
SendFailsIgnored(t) ==
    /\ SFUFaults
    /\ At(t, "send")
    /\ Goto(t, "mutate")
    /\ UNCHANGED state

\* The early return: neither the flag nor the event is written.
SendFails(t) ==
    /\ SFUFaults
    /\ At(t, "send")
    /\ Done(t)
    /\ UNCHANGED state

\* callState.mutate; a session that is gone is left alone.
Mutate(t) ==
    LET sid == th[t].sid
    IN  /\ At(t, "mutate")
        /\ flags' = IF sid \in DOMAIN flags
                    THEN [flags EXCEPT ![sid][th[t].f] = th[t].on] ELSE flags
        /\ Goto(t, "publish")
        /\ UNCHANGED <<cs, linked, sfu, told, joins>>

\* user_muted, user_screen_on, user_unraise_hand, ...
Publish(t) ==
    /\ At(t, "publish")
    /\ told' = [told EXCEPT ![th[t].sid][th[t].f] = th[t].on]
    /\ Done(t)
    /\ UNCHANGED <<cs, flags, linked, sfu, joins>>

Step(t) ==
    \/ JoinLink(t) \/ JoinSFU(t)
    \/ TeardownRemove(t) \/ TeardownUnlink(t) \/ TeardownLeave(t)
    \/ SweepNext(t) \/ SweepDone(t)
    \/ Send(t) \/ SendFails(t) \/ Mutate(t) \/ Publish(t)

-----------------------------------------------------------------------------
Next ==
    \/ \E t \in Threads : Step(t)
    \/ \E c \in Conns : JoinInsert(c) \/ Leave(c)
    \/ \E c \in Conns, f \in Flags, on \in BOOLEAN : Toggle(c, f, on)
    \/ \E user \in Users, sid \in Conns :
          \/ HostControl(user, sid, "mute", "unmuted")
          \/ HostControl(user, sid, "screenOff", "screenOn")
          \/ HostControl(user, sid, "lowerHand", "hand")
          \/ HostRemove(user, sid)
    \/ \E user \in Users : MuteOthers(user)

Spec == Init /\ [][Next]_vars

-----------------------------------------------------------------------------
(***************************************************************************)
(* Properties                                                              *)
(***************************************************************************)

\* No request is under way.
Quiescent == \A t \in Threads : At(t, "idle")

\* The SFU serves this very participation of the session.
Served(sid) == sid \in DOMAIN sfu /\ sfu[sid].seq = cs.sessions[sid].seq

\* When everything has come to rest, what the server shows, what the SFU
\* does and what the channel was told agree on every flag no two requests
\* wrote at once, whatever joins, leaves, sweeps, removals and SFU failures
\* came between (handleMuteToggle, muteOne: SFU first, then the flag, then
\* the event).
PresenceSettled ==
    Quiescent => \A sid \in DOMAIN flags, f \in Flags :
        <<sid, f>> \notin contested =>
            /\ told[sid][f] = flags[sid][f]
            /\ (f \in MediaFlags /\ Served(sid)) => sfu[sid].flags[f] = flags[sid][f]
=============================================================================
