------------------------- MODULE RtcdManagerProofs --------------------------
(***************************************************************************)
(* Proofs about RtcdManager for every set of manager ids and any number of *)
(* concurrent callers of Start.                                            *)
(***************************************************************************)
EXTENDS RtcdManager, TLAPS

InHand(r) == round[r].m # NoManager

\* A round has a manager in hand from building it to the end of the round.
HandsFull == \A r \in Rounds : InHand(r) <=> round[r].pc \in {"publish", "orphan"}

\* What a round has in hand is open, and nobody else's.
HandsOwn ==
    \A r \in Rounds : InHand(r) =>
        /\ round[r].m \in open
        /\ round[r].m # rtcd
        /\ \A q \in Rounds : q # r => round[q].m # round[r].m

\* rtcdKick is set as long as the kicked round runs: no second one starts
\* over it.
KickHeld == round[Kick].pc # "idle" => rtcdKick

\* The inductive invariant.
Inv == TypeOK /\ HandsFull /\ HandsOwn /\ KickHeld /\ InstalledIsUsable /\ NoOrphan

-----------------------------------------------------------------------------
\* Start's rounds and the kicked one are rounds, and different.
LEMMA RoundNames ==
    /\ Kick \in Rounds
    /\ \A i \in Starters : Boot(i) \in Rounds /\ Boot(i) # Kick
BY DEF Rounds, Boot, Kick

\* The service begins without a manager and without a round.
LEMMA InvInit == Init => Inv
<1> SUFFICES ASSUME Init PROVE Inv
  OBVIOUS
<1>1. TypeOK
  BY DEF Init, TypeOK, IdleRound
<1>2. \A r \in Rounds : round[r].pc = "idle" /\ round[r].m = NoManager
  BY DEF Init, IdleRound
<1>3. HandsFull /\ HandsOwn
  BY <1>2 DEF HandsFull, HandsOwn, InHand
<1>4. KickHeld
  BY <1>2, RoundNames DEF KickHeld
<1>5. InstalledIsUsable /\ NoOrphan
  BY DEF Init, InstalledIsUsable, NoOrphan
<1> QED
  BY <1>1, <1>3, <1>4, <1>5 DEF Inv

\* A step that touches neither a round's manager, the installed one nor the
\* open ones keeps who owns what.
LEMMA OwnershipKept ==
    ASSUME Inv, TypeOK', UNCHANGED <<rtcd, open>>,
           started => started',
           \A r \in Rounds : round'[r].m = round[r].m
    PROVE  HandsOwn' /\ InstalledIsUsable' /\ NoOrphan'
<1>1. HandsOwn'
  BY DEF Inv, HandsOwn, InHand
<1>2. InstalledIsUsable'
  BY DEF Inv, InstalledIsUsable
<1>3. NoOrphan'
  BY DEF Inv, NoOrphan
<1> QED
  BY <1>1, <1>2, <1>3

\* Start spawns a round that has nothing in hand.
LEMMA InvStartSpawn == ASSUME Inv, NEW i \in Starters, StartSpawn(i) PROVE Inv'
<1> USE RoundNames
<1>1. TypeOK'
  BY DEF Inv, TypeOK, StartSpawn, service
<1>2. \A r \in Rounds : /\ round'[r].m = round[r].m
                        /\ r # Boot(i) => round'[r].pc = round[r].pc
  BY DEF Inv, TypeOK, StartSpawn
<1>3. round[Boot(i)].pc = "idle" /\ round'[Boot(i)].pc = "build"
  BY DEF Inv, TypeOK, StartSpawn
<1>4. HandsFull'
  BY <1>2, <1>3 DEF Inv, HandsFull, InHand
<1>5. KickHeld'
  BY <1>2 DEF Inv, KickHeld, StartSpawn, service
<1>6. HandsOwn' /\ InstalledIsUsable' /\ NoOrphan'
  BY <1>1, <1>2, OwnershipKept DEF StartSpawn, service
<1> QED
  BY <1>1, <1>4, <1>5, <1>6 DEF Inv

\* Start's last step and a join's look at the manager leave rounds alone.
LEMMA InvMarkCheck ==
    ASSUME Inv, KickCheck \/ \E i \in Starters : StartMark(i)
    PROVE  Inv'
<1>1. UNCHANGED <<rtcd, rtcdKick, round, open>> /\ (started => started')
  BY DEF KickCheck, StartMark, service
<1>2. TypeOK'
  BY DEF Inv, TypeOK, KickCheck, StartMark, service
<1>3. HandsFull' /\ KickHeld'
  BY <1>1 DEF Inv, HandsFull, KickHeld, InHand
<1>4. HandsOwn' /\ InstalledIsUsable' /\ NoOrphan'
  BY <1>1, <1>2, OwnershipKept
<1> QED
  BY <1>2, <1>3, <1>4 DEF Inv

\* The swap starts the kicked round only when none is running.
LEMMA InvKickSwap == ASSUME Inv, KickSwap PROVE Inv'
<1> USE RoundNames
<1>1. TypeOK'
  <2>1. CASE rtcdKick
    BY <2>1 DEF Inv, TypeOK, KickSwap
  <2>2. CASE ~rtcdKick
    BY <2>2 DEF Inv, TypeOK, KickSwap
  <2> QED
    BY <2>1, <2>2
<1>2. \A r \in Rounds : /\ round'[r].m = round[r].m
                        /\ r # Kick => round'[r].pc = round[r].pc
  BY DEF Inv, TypeOK, KickSwap
<1>3. /\ rtcdKick'
      /\ \/ round'[Kick].pc = round[Kick].pc
         \/ round[Kick].pc = "idle" /\ round'[Kick].pc = "build"
  BY DEF Inv, TypeOK, KickSwap, KickHeld
<1>4. HandsFull' /\ KickHeld'
  BY <1>2, <1>3 DEF Inv, HandsFull, KickHeld, InHand
<1>5. HandsOwn' /\ InstalledIsUsable' /\ NoOrphan'
  BY <1>1, <1>2, OwnershipKept DEF KickSwap
<1> QED
  BY <1>1, <1>4, <1>5 DEF Inv

\* Stop closes the installed manager, which no round has in hand.
LEMMA InvStop == ASSUME Inv, Stop PROVE Inv'
<1>1. TypeOK'
  BY DEF Inv, TypeOK, Stop, Close, threads
<1>2. UNCHANGED <<round, rtcdKick>> /\ rtcd' = NoManager /\ open' = open \ {rtcd}
  BY ManagerAssumption DEF Inv, TypeOK, Stop, Close, threads
<1>3. HandsFull' /\ KickHeld'
  BY <1>2 DEF Inv, HandsFull, KickHeld, InHand
<1>4. HandsOwn' /\ InstalledIsUsable' /\ NoOrphan'
  BY <1>2 DEF Inv, HandsOwn, InstalledIsUsable, NoOrphan, InHand
<1> QED
  BY <1>1, <1>3, <1>4 DEF Inv

\* A manager is built under an id nobody has.
LEMMA InvBuild == ASSUME Inv, NEW r \in Rounds, Build(r) PROVE Inv'
<1> USE RoundNames
<1>1. PICK m \in Managers :
        /\ round[r].pc = "build"
        /\ Unreferenced(m)
        /\ round' = [round EXCEPT ![r] = [pc |-> "publish", m |-> m]]
        /\ open' = open \cup {m}
        /\ UNCHANGED <<service, start, joiner>>
  BY DEF Build
<1>2. TypeOK'
  BY <1>1 DEF Inv, TypeOK, service
<1>3. /\ round'[r] = [pc |-> "publish", m |-> m]
      /\ \A q \in Rounds \ {r} : round'[q] = round[q]
  BY <1>1 DEF Inv, TypeOK
<1>4. m # NoManager /\ m # rtcd /\ m \notin open /\ \A q \in Rounds : round[q].m # m
  BY <1>1, ManagerAssumption DEF Inv, InstalledIsUsable, Unreferenced
<1>5. HandsFull' /\ HandsOwn'
  BY <1>1, <1>3, <1>4 DEF Inv, HandsFull, HandsOwn, InHand, service
<1>6. KickHeld'
  BY <1>1, <1>3 DEF Inv, KickHeld, service
<1>7. InstalledIsUsable'
  BY <1>1 DEF Inv, InstalledIsUsable, service
<1>8. NoOrphan'
  BY <1>1, <1>3, ManagerAssumption DEF Inv, TypeOK, NoOrphan, HandsFull, InHand, service
<1> QED
  BY <1>2, <1>5, <1>6, <1>7, <1>8 DEF Inv

\* A round that gives up has nothing in hand.
LEMMA InvGiveUp == ASSUME Inv, NEW r \in Rounds, GiveUp(r) PROVE Inv'
<1> USE RoundNames
<1>1. TypeOK'
  BY DEF Inv, TypeOK, GiveUp, Return, IdleRound
<1>2. /\ round'[r] = IdleRound
      /\ \A q \in Rounds \ {r} : round'[q] = round[q]
      /\ rtcdKick' = IF r = Kick THEN FALSE ELSE rtcdKick
      /\ round[r].m = NoManager
  BY DEF Inv, TypeOK, GiveUp, Return, HandsFull, InHand
<1>3. HandsFull' /\ KickHeld'
  BY <1>2 DEF Inv, HandsFull, KickHeld, InHand, IdleRound
<1>4. HandsOwn' /\ InstalledIsUsable' /\ NoOrphan'
  BY <1>1, <1>2, OwnershipKept DEF GiveUp, IdleRound
<1> QED
  BY <1>1, <1>3, <1>4 DEF Inv

\* The manager in hand becomes the installed one, or an orphan in hand.
LEMMA InvPublish == ASSUME Inv, NEW r \in Rounds, Publish(r) PROVE Inv'
<1> USE RoundNames
<1>1. TypeOK'
  <2>1. CASE started /\ rtcd = NoManager
    <3>1. /\ round' = [round EXCEPT ![r] = IdleRound]
          /\ rtcd' = round[r].m
          /\ rtcdKick' \in BOOLEAN
          /\ UNCHANGED <<started, start, joiner, open>>
      BY <2>1 DEF Inv, TypeOK, Publish, Return
    <3> QED
      BY <3>1 DEF Inv, TypeOK, IdleRound
  <2>2. CASE ~(started /\ rtcd = NoManager)
    BY <2>2 DEF Inv, TypeOK, Publish
  <2> QED
    BY <2>1, <2>2
<1>2. CASE started /\ rtcd = NoManager
  <2>1. /\ round'[r] = IdleRound
        /\ \A q \in Rounds \ {r} : round'[q] = round[q]
        /\ rtcdKick' = IF r = Kick THEN FALSE ELSE rtcdKick
        /\ rtcd' = round[r].m
        /\ UNCHANGED <<started, open>>
    BY <1>2 DEF Inv, TypeOK, Publish, Return
  <2>2. InHand(r)
    BY DEF Inv, HandsFull, Publish
  <2>3. HandsFull' /\ KickHeld'
    BY <2>1 DEF Inv, HandsFull, KickHeld, InHand, IdleRound
  <2>4. HandsOwn'
    BY <2>1, <2>2 DEF Inv, HandsOwn, InHand, IdleRound
  <2>5. InstalledIsUsable' /\ NoOrphan'
    BY <1>2, <2>1, <2>2, ManagerAssumption
    DEF Inv, TypeOK, HandsOwn, InstalledIsUsable, NoOrphan, InHand
  <2> QED
    BY <1>1, <2>3, <2>4, <2>5 DEF Inv
<1>3. CASE ~(started /\ rtcd = NoManager)
  <2>1. /\ round'[r].pc = "orphan" /\ round'[r].m = round[r].m
        /\ \A q \in Rounds \ {r} : round'[q] = round[q]
        /\ UNCHANGED <<started, rtcd, rtcdKick, open>>
    BY <1>3 DEF Inv, TypeOK, Publish
  <2>2. HandsFull' /\ KickHeld'
    BY <2>1 DEF Inv, HandsFull, KickHeld, InHand, Publish
  <2>3. HandsOwn' /\ InstalledIsUsable' /\ NoOrphan'
    BY <1>1, <2>1, OwnershipKept
  <2> QED
    BY <1>1, <2>2, <2>3 DEF Inv
<1> QED
  BY <1>2, <1>3

\* The orphan that is closed is this round's alone and not installed.
LEMMA InvCloseOrphan == ASSUME Inv, NEW r \in Rounds, CloseOrphan(r) PROVE Inv'
<1> USE RoundNames
<1>1. TypeOK'
  BY DEF Inv, TypeOK, CloseOrphan, Close, Return, IdleRound
<1>2. /\ round'[r] = IdleRound
      /\ \A q \in Rounds \ {r} : round'[q] = round[q]
      /\ rtcdKick' = IF r = Kick THEN FALSE ELSE rtcdKick
      /\ open' = open \ {round[r].m}
      /\ UNCHANGED <<started, rtcd>>
      /\ InHand(r)
  BY DEF Inv, TypeOK, CloseOrphan, Close, Return, HandsFull
<1>3. HandsFull' /\ KickHeld'
  BY <1>2 DEF Inv, HandsFull, KickHeld, InHand, IdleRound
<1>4. HandsOwn'
  BY <1>2 DEF Inv, HandsOwn, InHand, IdleRound
<1>5. InstalledIsUsable' /\ NoOrphan'
  BY <1>2 DEF Inv, HandsOwn, InstalledIsUsable, NoOrphan, InHand
<1> QED
  BY <1>1, <1>3, <1>4, <1>5 DEF Inv

\* Every step of the service keeps the invariant.
LEMMA InvNext == ASSUME Inv, [Next]_vars PROVE Inv'
<1>1. CASE UNCHANGED vars
  BY <1>1 DEF Inv, TypeOK, HandsFull, HandsOwn, KickHeld, InstalledIsUsable, NoOrphan,
              InHand, vars, service, threads
<1>2. ASSUME NEW i \in Starters, StartSpawn(i) PROVE Inv'
  BY <1>2, InvStartSpawn
<1>3. ASSUME NEW r \in Rounds, RoundStep(r) PROVE Inv'
  BY <1>3, InvBuild, InvGiveUp, InvPublish, InvCloseOrphan DEF RoundStep
<1> QED
  BY <1>1, <1>2, <1>3, InvMarkCheck, InvKickSwap, InvStop DEF Next

-----------------------------------------------------------------------------
\* The invariant holds of every behaviour of Start, Stop, the joins and the
\* initialisation rounds.
THEOREM Ownership == Spec => []Inv
BY InvInit, InvNext, PTL DEF Spec

\* However Start, Stop, boot rounds and kicked rounds interleave, a manager
\* initRTCDManagerWithRetry has built is installed, in the hands of its
\* round, or closed.
THEOREM NoManagerLeaks == Spec => []NoOrphan
<1>1. Inv => NoOrphan
  BY DEF Inv
<1> QED
  BY <1>1, Ownership, PTL

\* The manager joins use is open, and gone once the service is stopped: no
\* late round brings it back.
THEOREM InstalledAlwaysUsable == Spec => []InstalledIsUsable
<1>1. Inv => InstalledIsUsable
  BY DEF Inv
<1> QED
  BY <1>1, Ownership, PTL
=============================================================================
