---------------------------- MODULE ChannelCalls ----------------------------
(***************************************************************************)
(* What the calls control plane promises a channel, with none of its       *)
(* locks, registries and goroutines: calls come one at a time.  A call is  *)
(* started only while the channel has no live call; it ends once, and its  *)
(* end is recorded and announced at most once, after the fact.             *)
(***************************************************************************)
EXTENDS Naturals

CONSTANTS Channels, CallIds, NoChannel

VARIABLES phase,      \* call -> "none", "live", "ended" or "void"
          channel,    \* call -> its channel, once started
          recorded,   \* call -> rows written for its end
          announced   \* call -> call_end events sent

vars == <<phase, channel, recorded, announced>>

Init ==
    /\ phase = [g \in CallIds |-> "none"]
    /\ channel = [g \in CallIds |-> NoChannel]
    /\ recorded = [g \in CallIds |-> 0]
    /\ announced = [g \in CallIds |-> 0]

Start(g, ch) ==
    /\ phase[g] = "none"
    /\ \A h \in CallIds : phase[h] = "live" => channel[h] # ch
    /\ phase' = [phase EXCEPT ![g] = "live"]
    /\ channel' = [channel EXCEPT ![g] = ch]
    /\ UNCHANGED <<recorded, announced>>

\* A call that could not be persisted is taken back.
RollBack(g) ==
    /\ phase[g] = "live"
    /\ phase' = [phase EXCEPT ![g] = "void"]
    /\ UNCHANGED <<channel, recorded, announced>>

\* A rolled-back call may still be ended by a reaper that had seen it.
Finish(g) ==
    /\ phase[g] \in {"live", "void"}
    /\ phase' = [phase EXCEPT ![g] = "ended"]
    /\ UNCHANGED <<channel, recorded, announced>>

Record(g) ==
    /\ phase[g] = "ended"
    /\ recorded[g] = 0
    /\ recorded' = [recorded EXCEPT ![g] = 1]
    /\ UNCHANGED <<phase, channel, announced>>

Announce(g) ==
    /\ phase[g] = "ended"
    /\ announced[g] = 0
    /\ announced' = [announced EXCEPT ![g] = 1]
    /\ UNCHANGED <<phase, channel, recorded>>

Next ==
    \E g \in CallIds :
        \/ \E ch \in Channels : Start(g, ch)
        \/ RollBack(g)
        \/ Finish(g)
        \/ Record(g)
        \/ Announce(g)

Spec == Init /\ [][Next]_vars
=============================================================================
