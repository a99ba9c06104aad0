---------------------------- MODULE RtcdManager -----------------------------
(***************************************************************************)
(* The SFU client manager of the calls service (service.go): who builds    *)
(* one, who installs it, who closes it.  What a manager does with its      *)
(* hosts is the subject of RtcdHosts.                                      *)
(*                                                                         *)
(* Threads interleave where the code releases a lock or does I/O:          *)
(*   a starter i     a caller of Start; it spawns the round "boot" i       *)
(*   a round         a goroutine of initRTCDManagerWithRetry               *)
(*   the joiner      a handleJoin that found no manager                    *)
(* A manager's id may serve again once it is closed and forgotten.         *)
(***************************************************************************)
EXTENDS Naturals, FiniteSets

CONSTANTS Managers,   \* ids for managers
          Starters,   \* concurrent callers of Start
          NoManager

ASSUME ManagerAssumption == NoManager \notin Managers

VARIABLES
    started,   \* CallService.started
    rtcd,      \* CallService.rtcd: the installed manager or NoManager
    rtcdKick,  \* CallService.rtcdKick
    start,     \* starter -> "idle" or "mark"
    round,     \* round -> program counter and the manager it has built
    joiner,    \* "idle" or "cas"
    open       \* the managers built and not yet closed

service == <<started, rtcd, rtcdKick>>
threads == <<start, round, joiner>>
vars == <<service, threads, open>>

Boot(i) == <<"boot", i>>
Kick == <<"kick", 0>>
Rounds == {Boot(i) : i \in Starters} \cup {Kick}

IdleRound == [pc |-> "idle", m |-> NoManager]

Init ==
    /\ started = FALSE
    /\ rtcd = NoManager
    /\ rtcdKick = FALSE
    /\ start = [i \in Starters |-> "idle"]
    /\ round = [r \in Rounds |-> IdleRound]
    /\ joiner = "idle"
    /\ open = {}

\* Nobody works on the manager.
Unreferenced(m) ==
    /\ m \notin open
    /\ \A r \in Rounds : round[r].m # m

-----------------------------------------------------------------------------
(***************************************************************************)
(* Start, Stop and Close                                                   *)
(***************************************************************************)

\* Start: startedFast, then the background round is spawned.
StartSpawn(i) ==
    /\ start[i] = "idle"
    /\ ~started
    /\ round[Boot(i)].pc = "idle"
    /\ round' = [round EXCEPT ![Boot(i)].pc = "build"]
    /\ start' = [start EXCEPT ![i] = "mark"]
    /\ UNCHANGED <<service, joiner, open>>

\* Start, under the service lock; a Start that lost the race finds it set.
StartMark(i) ==
    /\ start[i] = "mark"
    /\ started' = TRUE
    /\ start' = [start EXCEPT ![i] = "idle"]
    /\ UNCHANGED <<rtcd, rtcdKick, round, joiner, open>>

\* rtcdClientManager.Close, which is idempotent
Close(m) == open' = open \ {m}

\* Stop, all of it under the service lock.
Stop ==
    /\ started
    /\ started' = FALSE
    /\ rtcd' = NoManager
    /\ IF rtcd # NoManager THEN Close(rtcd) ELSE UNCHANGED open
    /\ UNCHANGED <<rtcdKick, threads>>

-----------------------------------------------------------------------------
(***************************************************************************)
(* kickRTCDInit and initRTCDManagerWithRetry                               *)
(***************************************************************************)

\* A join finds no manager.
KickCheck ==
    /\ joiner = "idle"
    /\ rtcd = NoManager
    /\ joiner' = "cas"
    /\ UNCHANGED <<service, start, round, open>>

\* CompareAndSwap: at most one kicked round at a time.
KickSwap ==
    /\ joiner = "cas"
    /\ joiner' = "idle"
    /\ IF rtcdKick THEN UNCHANGED <<rtcdKick, round>>
       ELSE /\ rtcdKick' = TRUE
            /\ round' = [round EXCEPT ![Kick].pc = "build"]
    /\ UNCHANGED <<started, rtcd, start, open>>

\* Mutant: a kicked round that ends leaves rtcdKick set.
ReturnKeepsKick(r) ==
    round' = [round EXCEPT ![r] = IdleRound] /\ UNCHANGED rtcdKick

\* The round ends; the kicked one resets rtcdKick (defer).
Return(r) ==
    /\ round' = [round EXCEPT ![r] = IdleRound]
    /\ rtcdKick' = IF r = Kick THEN FALSE ELSE rtcdKick

\* newRTCDClientManager: the URL resolves and every address gets a
\* connected client.
Build(r) ==
    \E m \in Managers :
        /\ round[r].pc = "build"
        /\ Unreferenced(m)
        /\ round' = [round EXCEPT ![r] = [pc |-> "publish", m |-> m]]
        /\ open' = open \cup {m}
        /\ UNCHANGED <<service, start, joiner>>

\* Resolving or connecting failed until the deadline.  (A failure before it
\* sleeps and tries again: no step.)
GiveUp(r) ==
    /\ round[r].pc = "build"
    /\ Return(r)
    /\ UNCHANGED <<started, rtcd, start, joiner, open>>

\* Mutant: an installed manager is replaced.
PublishOver(r) ==
    /\ round[r].pc = "publish"
    /\ IF started
       THEN rtcd' = round[r].m /\ Return(r)
       ELSE /\ round' = [round EXCEPT ![r].pc = "orphan"]
            /\ UNCHANGED <<rtcd, rtcdKick>>
    /\ UNCHANGED <<started, start, joiner, open>>

\* Mutant: the service may have been stopped meanwhile.
PublishStopped(r) ==
    /\ round[r].pc = "publish"
    /\ IF rtcd = NoManager
       THEN rtcd' = round[r].m /\ Return(r)
       ELSE /\ round' = [round EXCEPT ![r].pc = "orphan"]
            /\ UNCHANGED <<rtcd, rtcdKick>>
    /\ UNCHANGED <<started, start, joiner, open>>

\* Under the service lock: install the manager, or find it an orphan.
Publish(r) ==
    /\ round[r].pc = "publish"
    /\ IF started /\ rtcd = NoManager
       THEN rtcd' = round[r].m /\ Return(r)
       ELSE /\ round' = [round EXCEPT ![r].pc = "orphan"]
            /\ UNCHANGED <<rtcd, rtcdKick>>
    /\ UNCHANGED <<started, start, joiner, open>>

CloseOrphan(r) ==
    /\ round[r].pc = "orphan"
    /\ Close(round[r].m)
    /\ Return(r)
    /\ UNCHANGED <<started, rtcd, start, joiner>>

RoundStep(r) == Build(r) \/ GiveUp(r) \/ Publish(r) \/ CloseOrphan(r)

-----------------------------------------------------------------------------
Next ==
    \/ \E i \in Starters : StartSpawn(i) \/ StartMark(i)
    \/ Stop
    \/ KickCheck \/ KickSwap
    \/ \E r \in Rounds : RoundStep(r)

Spec == Init /\ [][Next]_vars

\* The goroutines run on.  Users whose join failed join again, and the SFU
\* is reachable again and again: that is what the recovery is for.
Fairness ==
    /\ \A i \in Starters : WF_vars(StartMark(i))
    /\ \A r \in Rounds : /\ WF_vars(Publish(r) \/ CloseOrphan(r))
                          /\ SF_vars(Build(r))
    /\ WF_vars(KickCheck)
    /\ WF_vars(KickSwap)

FairSpec == Spec /\ Fairness

-----------------------------------------------------------------------------
(***************************************************************************)
(* Properties                                                              *)
(***************************************************************************)

\* Every variable has its type.
TypeOK ==
    /\ started \in BOOLEAN
    /\ rtcd \in Managers \cup {NoManager}
    /\ rtcdKick \in BOOLEAN
    /\ start \in [Starters -> {"idle", "mark"}]
    /\ round \in [Rounds -> [pc : {"idle", "build", "publish", "orphan"},
                             m : Managers \cup {NoManager}]]
    /\ joiner \in {"idle", "cas"}
    /\ open \subseteq Managers

\* A manager somebody has built is never forgotten: until it is closed it
\* is the installed one or still in the hands of the round that built it,
\* whichever of the boot rounds, a kicked round and Stop wins
\* (initRTCDManagerWithRetry: "close it so its control connections do not
\* leak").
NoOrphan ==
    \A m \in open : m = rtcd \/ \E r \in Rounds : round[r].m = m

\* The installed manager is an open one and only a started service has it:
\* a round that outlives Stop does not bring a manager back, and nobody is
\* left with a manager whose connections are closed.
InstalledIsUsable ==
    rtcd # NoManager => started /\ rtcd \in open

\* A started service without a manager gets one while users keep joining
\* and the SFU can be reached, also when the boot rounds have given up or
\* closed what they built (kickRTCDInit: "recovered by the next call attempt
\* rather than by a server restart").
ManagerRecovers ==
    (started /\ rtcd = NoManager) ~> (rtcd # NoManager \/ ~started)

=============================================================================
