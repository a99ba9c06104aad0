----------------------------- MODULE RtcdHosts ------------------------------
(***************************************************************************)
(* One SFU client manager and the control connections it owns.             *)
(*   rtcd_client.go  hostsChecker, addHost, GetHostForNewCall, SendToHost, *)
(*                   Close                                                 *)
(*   rtcd_conn.go    the adapter of one host: Heal, Send, Close            *)
(*                                                                         *)
(* Threads interleave where the code releases a lock or does I/O: the      *)
(* checker, the callers (requests that need a host or send to one) and the *)
(* Stop that closes the manager.  It starts where newRTCDClientManager     *)
(* leaves it.  What late callers do to the adapters of a closed manager is *)
(* left out.                                                               *)
(***************************************************************************)
EXTENDS Naturals, FiniteSets

CONSTANTS Hosts,      \* the addresses the rtcd URL may resolve to
          Callers     \* requests that use the manager at the same time

VARIABLES
    dns,        \* the addresses the rtcd URL resolves to
    closed,     \* has Close run?
    hosts,      \* the hosts in the manager's map
    flagged,    \* the ones flagged as gone from DNS
    client,     \* host -> its adapter's internal client: "nil", "up", "down"
    throttled,  \* hosts whose last heal is less than healThrottle ago
    checker,    \* program counter, addresses to visit, address connected to
    caller      \* caller -> program counter, adapters to visit, adapter at work

vars == <<dns, closed, hosts, flagged, client, throttled, checker, caller>>

Answers == SUBSET Hosts \ {{}}
IdleCaller == [pc |-> "idle", todo |-> {}, at |-> {}]
Waiting == [pc |-> "wait", todo |-> {}, got |-> {}]

Init ==
    /\ dns \in Answers
    /\ closed = FALSE
    /\ hosts = dns
    /\ flagged = {}
    /\ client = [h \in Hosts |-> IF h \in dns THEN "up" ELSE "nil"]
    /\ throttled = {}
    /\ checker = Waiting
    /\ caller = [k \in Callers |-> IdleCaller]

-----------------------------------------------------------------------------
(***************************************************************************)
(* hostsChecker                                                            *)
(***************************************************************************)

\* Mutant: a host that comes back stays flagged.
CheckerTickKeepsFlags ==
    /\ checker.pc = "wait"
    /\ flagged' = flagged \cup (hosts \ dns)
    /\ checker' = [pc |-> "add", todo |-> dns, got |-> {}]
    /\ UNCHANGED <<dns, closed, hosts, client, throttled, caller>>

\* A tick whose lookup succeeds: hosts gone from the answer are flagged,
\* hosts back in it unflagged.  select may prefer the tick to a closeCh that
\* is already closed.  (A failing lookup changes nothing.)
CheckerTick ==
    /\ checker.pc = "wait"
    /\ flagged' = hosts \ dns
    /\ checker' = [pc |-> "add", todo |-> dns, got |-> {}]
    /\ UNCHANGED <<dns, closed, hosts, client, throttled, caller>>

\* The next address: it is known already, or its client cannot connect ...
CheckerSkip(h) ==
    /\ h \in checker.todo
    /\ checker.got = {}
    /\ checker' = [checker EXCEPT !.todo = @ \ {h}]
    /\ UNCHANGED <<dns, closed, hosts, flagged, client, throttled, caller>>

\* ... or it is new and its client connects, outside the manager's lock.
CheckerConnect(h) ==
    /\ h \in checker.todo \ hosts
    /\ checker.got = {}
    /\ checker' = [checker EXCEPT !.todo = @ \ {h}, !.got = {h}]
    /\ UNCHANGED <<dns, closed, hosts, flagged, client, throttled, caller>>

\* addHost, which asks whether the host is known and not whether the manager
\* has been closed.  The adapter is a new one.
CheckerAdd(h) ==
    /\ h \in checker.got
    /\ hosts' = hosts \cup {h}
    /\ client' = [client EXCEPT ![h] = "up"]
    /\ throttled' = throttled \ {h}
    /\ checker' = [checker EXCEPT !.got = {}]
    /\ UNCHANGED <<dns, closed, flagged, caller>>

\* All addresses are visited.
CheckerRest ==
    /\ checker.pc = "add"
    /\ checker.todo = {} /\ checker.got = {}
    /\ checker' = Waiting
    /\ UNCHANGED <<dns, closed, hosts, flagged, client, throttled, caller>>

\* closeCh is closed.
CheckerStops ==
    /\ checker.pc = "wait"
    /\ closed
    /\ checker' = [checker EXCEPT !.pc = "off"]
    /\ UNCHANGED <<dns, closed, hosts, flagged, client, throttled, caller>>

-----------------------------------------------------------------------------
(***************************************************************************)
(* GetHostForNewCall and Heal                                              *)
(***************************************************************************)

Healthy == {h \in hosts \ flagged : client[h] = "up"}

\* Mutant: only an adapter whose client lost its socket is a candidate.
PickCandidatesDown(k) ==
    /\ caller[k].pc = "idle"
    /\ Healthy = {}
    /\ ~closed
    /\ caller' = [caller EXCEPT ![k] = [IdleCaller EXCEPT !.pc = "heal",
                      !.todo = {h \in hosts \ flagged : client[h] = "down"}]]
    /\ UNCHANGED <<dns, closed, hosts, flagged, client, throttled, checker>>

\* No host is healthy: the unflagged ones are to be healed.  (With a healthy
\* host the call only answers.)  The code looks twice, for a healthy host
\* and for the candidates; a host that comes up in between is one whose Heal
\* finds it connected.
PickCandidates(k) ==
    /\ caller[k].pc = "idle"
    /\ Healthy = {}
    /\ ~closed
    /\ caller' = [caller EXCEPT ![k] = [IdleCaller EXCEPT !.pc = "heal",
                                                     !.todo = hosts \ flagged]]
    /\ UNCHANGED <<dns, closed, hosts, flagged, client, throttled, checker>>

\* Heal of the next candidate: connected, or healed a moment ago ...
HealSkip(k, h) ==
    /\ caller[k].pc = "heal"
    /\ h \in caller[k].todo
    /\ closed \/ client[h] = "up" \/ h \in throttled
    /\ caller' = [caller EXCEPT ![k].todo = @ \ {h}]
    /\ UNCHANGED <<dns, closed, hosts, flagged, client, throttled, checker>>

\* ... or its rebuild is due, in a critical section of its own.  An adapter
\* that was closed meanwhile is not connected either.
HealDue(k, h) ==
    /\ caller[k].pc = "heal"
    /\ h \in caller[k].todo
    /\ closed \/ (client[h] # "up" /\ h \notin throttled)
    /\ throttled' = IF closed THEN throttled ELSE throttled \cup {h}
    /\ caller' = [caller EXCEPT ![k].pc = "rebuild", ![k].todo = @ \ {h},
                                ![k].at = {h}]
    /\ UNCHANGED <<dns, closed, hosts, flagged, client, checker>>

HealThrottleExpires(h) ==
    /\ h \in throttled
    /\ throttled' = throttled \ {h}
    /\ UNCHANGED <<dns, closed, hosts, flagged, client, checker, caller>>

\* connectInternal brings up a client on the adapter of h ...
Connects(h) == client' = IF closed THEN client ELSE [client EXCEPT ![h] = "up"]

\* ... or cannot connect, and the adapter is left without one.
ConnectFails(h) == client' = IF closed THEN client ELSE [client EXCEPT ![h] = "nil"]

\* connectInternal(true): whatever the client has become is replaced.
HealRebuild(k, h) ==
    /\ caller[k].at = {h}
    /\ Connects(h)
    /\ caller' = [caller EXCEPT ![k].pc = "heal", ![k].at = {}]
    /\ UNCHANGED <<dns, closed, hosts, flagged, throttled, checker>>

HealFails(k, h) ==
    /\ caller[k].at = {h}
    /\ ConnectFails(h)
    /\ caller' = [caller EXCEPT ![k].pc = "heal", ![k].at = {}]
    /\ UNCHANGED <<dns, closed, hosts, flagged, throttled, checker>>

-----------------------------------------------------------------------------
(***************************************************************************)
(* SendToHost and Send                                                     *)
(***************************************************************************)

\* clientForHost, under the manager's lock
PickClient(k, h) ==
    /\ caller[k].pc = "idle"
    /\ h \in hosts
    /\ ~closed
    /\ caller' = [caller EXCEPT ![k] = [IdleCaller EXCEPT !.pc = "send", !.todo = {h}]]
    /\ UNCHANGED <<dns, closed, hosts, flagged, client, throttled, checker>>

\* clientOrConnect: only an adapter without a client connects.
Send(k, h) ==
    /\ caller[k].pc = "send"
    /\ h \in caller[k].todo
    /\ IF closed \/ client[h] = "nil" THEN Connects(h) \/ ConnectFails(h)
       ELSE UNCHANGED client
    /\ caller' = [caller EXCEPT ![k].todo = {}]
    /\ UNCHANGED <<dns, closed, hosts, flagged, throttled, checker>>

CallerReturns(k) ==
    /\ caller[k].pc \in {"heal", "send"}
    /\ caller[k].todo = {}
    /\ caller' = [caller EXCEPT ![k] = IdleCaller]
    /\ UNCHANGED <<dns, closed, hosts, flagged, client, throttled, checker>>

-----------------------------------------------------------------------------
(***************************************************************************)
(* Close, DNS and the SFU                                                  *)
(***************************************************************************)

\* Close: closeCh, then every adapter loses its client and its bridges, and
\* the map is emptied.
Close ==
    /\ ~closed
    /\ closed' = TRUE
    /\ hosts' = {}
    /\ flagged' = {}
    /\ client' = [h \in Hosts |-> "nil"]
    /\ throttled' = {}
    /\ UNCHANGED <<dns, checker, caller>>

\* The rtcd instances behind the URL change.
DnsChanges ==
    /\ dns' \in Answers \ {dns}
    /\ UNCHANGED <<closed, hosts, flagged, client, throttled, checker, caller>>

\* A control socket dies, or the rtcd client library reconnects it.
SocketChanges(h) ==
    /\ client[h] # "nil"
    /\ client' = [client EXCEPT ![h] = IF @ = "up" THEN "down" ELSE "up"]
    /\ UNCHANGED <<dns, closed, hosts, flagged, throttled, checker, caller>>

-----------------------------------------------------------------------------
CheckerRuns ==
    \/ \E h \in Hosts : CheckerSkip(h) \/ CheckerConnect(h) \/ CheckerAdd(h)
    \/ CheckerRest

CallerRuns(k) ==
    \/ \E h \in Hosts : \/ HealSkip(k, h) \/ HealDue(k, h) \/ HealRebuild(k, h)
                        \/ HealFails(k, h) \/ Send(k, h)
    \/ CallerReturns(k)

Next ==
    \/ CheckerTick \/ CheckerRuns \/ CheckerStops
    \/ \E k \in Callers : \/ PickCandidates(k) \/ CallerRuns(k)
                          \/ \E h \in Hosts : PickClient(k, h)
    \/ \E h \in Hosts : \/ SocketChanges(h) \/ HealThrottleExpires(h)
    \/ Close
    \/ DnsChanges

Spec == Init /\ [][Next]_vars

\* The goroutines run on, the ticker ticks and the throttle wears off.
\* Users keep placing calls, and an SFU instance is reachable again and
\* again: that is what the healing is for.
Fairness ==
    /\ WF_vars(CheckerTick)
    /\ WF_vars(CheckerRuns)
    /\ \A h \in Hosts : SF_vars(CheckerConnect(h)) /\ WF_vars(HealThrottleExpires(h))
    /\ \A k \in Callers : /\ SF_vars(PickCandidates(k))
                           /\ WF_vars(CallerRuns(k))
                           /\ \A h \in Hosts : SF_vars(HealRebuild(k, h))

FairSpec == Spec /\ Fairness

-----------------------------------------------------------------------------
(***************************************************************************)
(* Properties                                                              *)
(***************************************************************************)

\* An open manager follows DNS: while the answer stays, every address in it
\* gets a client and the flagged hosts become exactly the ones it lacks,
\* also when the answer changes in the middle of a check (hostsChecker:
\* "adding/removing rtcd instances a DNS operation").
HostsFollowDNS ==
    \A d \in Answers :
        (~closed /\ dns = d)
            ~> (closed \/ dns # d \/ (d \subseteq hosts /\ flagged = hosts \ d))

\* A manager without a healthy host gets one while calls are placed and DNS
\* names some instance (GetHostForNewCall: a dead control socket "otherwise
\* rejects every new call until a server restart").
HostsRecover ==
    \A d \in Answers :
        (~closed /\ Healthy = {} /\ dns = d) ~> (closed \/ Healthy # {} \/ dns # d)
=============================================================================
