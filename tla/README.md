# TLA+ models of class-management

The repository is a learning-management system (classes, students, tuition,
leads) built into a fork of the Mattermost server, with a native audio/video
calls service that replaces the Mattermost Calls plugin. These modules model the
calls control plane (`server/channels/calls`), the part of the product's own
code with concurrency, timers, failures and shared registries, and the LMS
services whose requests interleave over shared rows (scheduling, attendance,
tuition, classes with their enrolments and chat channels). TLC checks the modules
on small instances; TLAPS proves every safety property the passing runs check, and the
refinement of the abstract specification, for every instance.

## 1. Inventory

### Calls control plane (`server/channels/calls`)

| part | state | operations | interaction |
|---|---|---|---|
| call state (`state.go`, `session.go`) | per call: sessions by stable id, sessions by current connection, host, end mark, peak, presence flags | add, remove, re-point, mutate, transfer host, mark ended, snapshot | every handler, timer and relay reaches a call through these methods; each holds the call's lock |
| registries (`shard.go`, `registry.go`, `channel_index.go`) | call id to call, session id and connection id to call, channel to call, a start lock per channel | get-or-create, insert-if-live, delete-if, link, unlink, re-point | three independent locks; nothing spans two of them except the start lock and the shard lock of `addSessionIfLive` |
| lifecycle (`api.go`, `lifecycle.go`) | database rows of calls and stats | StartCall, EndCall, endCallState, HandleWSDisconnect and its grace timer, idle-call reaper | called by websocket handlers, REST, timers, the SFU pump |
| client messages (`client_messages.go`) | database rows of sessions | join, leave, reconnect, mute/screen/video/hand toggles, relay | one read pump per connection, messages of one connection in order |
| host controls (`host_controls.go`) | none of its own | transfer host, mute, mute others, stop screen, lower hand, remove, end | REST goroutines, check the host and then act |
| SFU relay (`rtcd_relay.go`) | none of its own | session closed, voice activity, signaling | one pump per SFU host |
| SFU client manager (`service.go`, `rtcd_client.go`, `rtcd_conn.go`) | manager pointer, host table, control connections | background initialisation, kick, discovery, healing, stop | used by start (host choice) and by every send |
| REST API, stores, configuration, posts | SQL tables | permissions and translation, single-row SQL, formatting | thin |

Hard behaviours: a call's end is raced by up to six causes (leave, host end,
host remove, grace timer, SFU close, reaper) and by the next start on the same
channel; the three registries are updated one after the other; sessions keep
their id while their connection changes, and the platform may hand a dead
connection's id out again; database and SFU calls fail in the middle.

What makes it correct: one live call per channel; an end happens, is recorded
and is announced once; a late teardown never harms the next call; the limit
holds; the host is always a participant; inbound messages find exactly their
session; dead clients and empty calls disappear; what is shown of a participant
is what the SFU does.

### The rest

The LMS services (`server/channels/app/lms`) are request handlers over SQL with
neither locks nor transactions: requests interleave at every store call and stop
at any failing one.

| part | state | operations | interaction |
|---|---|---|---|
| scheduling (`session.go`) | `lms_sessions` rows | create one lesson or a weekly series, move, cancel, delete; conflicts with the teacher's other lessons are looked up before the write | concurrent requests, foreign keys to the class |
| attendance (`attendance.go`) | `attendances` rows | a sheet is saved as a delete and an insert per student | concurrent requests, foreign key to the session |
| tuition (`tuition.go`, `payment.go`) | a row with total, paid, remaining and status; the payments table | pay (save, read the row, sum the payments, write the row back), edit the whole row, delete | concurrent requests, foreign keys |
| classes and class chat (`class.go`, `chat.go`) | `classes` rows with the id of a chat channel, `student_classes` rows, the platform's channels and their members | create, update, finish, delete a class; enrol, unenrol; each ends with providing, synchronising or deleting the channel | concurrent requests, the chat core, users who archive channels |
| people, leads, content, reports | single rows, or rows of the host platform | create, read, update, delete | thin, or decided by the platform |

What makes them correct: the row never claims money that was not paid and comes
to agree with the payments; a lesson saved after a check does not overlap what
was there; a sheet replaces the ones before it; a class has a channel of its own,
with its people in it, for as long as it is open.

The Mattermost core, the React front end, the vendored SFU and the deployment
files are outside. `PROJECT.json` lists every component with its status, and the
hazards line by line.

## 2. Modules

| module | models | composed of |
|---|---|---|
| `CallStateOps` | the methods of `callState`, each an operator from a call state to the next | - |
| `CallStateOpsProofs` | lemmas: what each of those operators writes | extends `CallStateOps`, `TLAPS` |
| `CallState` | one call under every order of those methods | extends `CallStateOps` |
| `CallStateProofs` | theorems about `CallState` | extends `CallState`, `CallStateOpsProofs` |
| `CallService` | the service: registries, start locks, lifecycle, client join/leave/reconnect, teardown, grace timers, reaper, SFU close, REST start/end/remove, database tables, SFU legs | extends `CallStateOps` |
| `ChannelCalls` | the abstract promise: what a channel sees of its calls | instantiated by `CallService` |
| `CallServiceProofs` | theorems about `CallService`, the refinement included | extends `CallService`, `CallStateOpsProofs` |
| `CallPresence` | mute, screen, camera and hand flags, host controls | extends `CallStateOps` |
| `CallPresenceProofs` | theorem about `CallPresence` | extends `CallPresence`, `CallStateOpsProofs` |
| `RtcdManager` | who builds, installs and closes the SFU client manager | - |
| `RtcdManagerProofs` | theorems about `RtcdManager` | extends `RtcdManager`, `TLAPS` |
| `RtcdHosts` | one manager's hosts: DNS checker, choice of a host, healing, sends, Close | - |
| `LmsRequests` | concurrent requests, failing stores, the class | - |
| `Tuition` | a tuition row and its payments | extends `LmsRequests` |
| `Schedule` | lessons, conflict check, attendance | extends `LmsRequests` |
| `Lms` | both over one class, with its deletion | extends `Tuition`, `Schedule` |
| `LmsProofs` | theorems about `Lms` | extends `Lms`, `TLAPS` |
| `ClassChat` | classes, enrolments and chat channels | - |
| `ClassChatProofs` | theorems about `ClassChat` | extends `ClassChat`, `TLAPS` |
| `MC...` | instances for TLC | |

### CallStateOps and CallState

A Go map is a function whose domain is its key set. A connection id is a positive
number (ids are compared as strings in the election of a host; the numbers keep
their order), 0 is `""`. A session id is the connection id that joined. A
`*session` in `byConn` is the pair of its id and the number of the join that
allocated it, so that a replaced session is told apart from its successor.
Clock values come from `Times`; the join reads its start time before it takes any
lock, so sessions may be inserted with start times in any order. `setHostByUser`
ranges over a Go map, so any session of the user may be chosen.

The module assumes of the browser (`lms-fe/src/features/calls/calls-client.ts`)
that a client joins on a connection only while that connection carries no
re-pointed session, and sends nothing more on a connection it replaced.

### CallService

Every goroutine is a thread with a program counter: a read pump per connection, a
grace timer per connection, one REST requester, the SFU pump, the reaper. A step
is one critical section or one database/SFU call, so threads interleave where the
code releases its locks. `StartCall` takes the channel's start lock at
`StartCreate` and keeps it until `StartAnnounce`; `addSessionIfLive` is two steps
with its shard lock held between them. Striped locks are one lock per call and
per channel. Call ids are fresh numbers. Database tables are abstracted to what
is asked of them: is the call's `EndAt` set, how many stats rows, which session
rows are open. `StartAnnounce` writes the whole row back, with `EndAt = 0`, as
the code does. `Sources` says which external causes occur and `Faults` which
outside calls may fail.

The platform is modelled as the calls service sees it: a websocket dies when its
pump is between messages, the disconnect is notified from another goroutine, a
client that returns soon may get its old connection id (`ConnRevives`). A connection
has one grace timer, and dies again only once that timer has run; the code arms
another timer for every disconnect, so that two may be pending for one connection. A
second one finds the session of the first gone or replaced, and otherwise does what
the first does.

### ChannelCalls

A channel has at most one live call; a call is started, perhaps rolled back, ends
once, and its end is recorded and announced at most once, afterwards. The
refinement mapping reads the phase of a call off `calls` and `shards`.

### CallPresence

The same fact is kept in three places: the session's field, the SFU, and the
event the channel received last; a toggle writes the SFU, the field and the event
in that order, without a lock over the three. Host controls write the same three
from another goroutine. `MuteOthers` sweeps a snapshot. A fresh SFU leg carries
voice, matching the `unmuted: true` of a new session (the SFU is external). A
history variable, `contested`, marks the flags two requests were writing at the
same time, until a later write has passed the SFU alone.

### RtcdManager and RtcdHosts

`RtcdManager` keeps the fields of the service (`started`, `rtcd`, `rtcdKick`), the
goroutines that may own a manager (the round each `Start` spawns and the kicked
one) and the set of open managers. A round builds a manager without a lock,
then publishes it under the service lock or finds it an orphan and closes it.
`Start` spawns its round before it marks the service started, as in the code, so
a fast round may close its own manager; `ManagerRecovers` is about what happens
then. A manager's id may be used again once it is closed and nobody has it.

`RtcdHosts` opens one manager up: the addresses DNS answers, the host table and
its flags, each adapter's internal client (`"nil"`, `"up"`, `"down"`), the heal
throttle. The checker, the callers and the sockets interleave where locks are
released. `PickCandidates` takes the unflagged hosts; the code leaves out those
that have come up since its first look, and `Heal` skips them here. DNS and the
SFU's sockets are external. The pumps that carry messages, and what late callers
do to the adapters of a closed manager, are left out.

### LmsRequests, Tuition, Schedule, Lms

A worker serves one request of each kind at a time; a step is one store call, and
with `StoreFaults` any of them fails and ends the request. The payments table is
its sum (payments are never edited, and go with their tuition). Deleting a row
deletes what refers to it (migration 000153, `ON DELETE CASCADE`); ids are never
given twice. The client of `UpdateTuition` sends the row it fetched with another
total, or leaves the computed amounts out, which then become zero; a client that
makes up a paid amount is not considered. Amounts are positive
(`TuitionAssumption`); the front end requires it and the server does not check.
A conflict check and the request's answer are one step: what the query returns is
a snapshot. `FindTeacherConflicts` is the set of pages the query may return:
sorted by start, cut at `RowCap`, and `Clear` the set of those without a conflict. An update without times or teacher, which skips
the check, is a forced one. Reads go to the master: with read replicas
(`GetReplicaExecuter`) they may lag.

History variables and fields serve the properties only: a session row's `saw` is
the set of rows that were in the table when its request checked and have not been
rewritten since, except those that matched the query and were cut from its answer,
which are its `missed`; `fresh` and `settled` tell whether a recomputation was overtaken by a
payment or an edit; a sheet's `after` is the set of sheets whose requests had
ended when it began.

### ClassChat

A worker serves one request at a time, a step is one call of a store or of the
chat core, and with `MayFail` any of them fails the way the handler then goes on
from: most chat errors are only logged. `obj` is the `*Class` the handler passes
around; every write puts all of it into the row, the link included, as
`class.Update(boil.Infer())` does, and an update and its reload are one step. What
clients send to update a class is `Body`: the web form's fields, which do not
include the link (`lms-fe/src/lib/schemas/class.schema.ts:25-35`), or the row they
read with another status, or with another status and code. A channel is `live`,
`archived` (it keeps its name, and `GetChannelByName` does not see it) or `gone`.
`nameOf` is `classChannelName`, which maps different codes to one name when they
differ only in case or in characters it replaces; nothing restricts codes, and in the
runs "10A" and "10a" share a name. Only members of the teaching team
can be added to a channel, and nothing here adds anybody to the team:
`addAdminsToTeam` asks for the admins of the team with the empty id, of which there
are none (`app/lms/chat.go:114`). Classes are created open and without a link, reads
go to the master, channels have at most 500 members, and the loops that add and
remove members are one step each. The fields `lone`, `sound`, `result` and, when
an update begins and when a request has ended, `ch` are history for the properties. So
is the mark `lent` of a channel: a client has sent its id with a code it is not named
after.

## 3. Runs

Passing:

| run | instance | shows |
|---|---|---|
| `call_state` | 4 connections of 2 users, 2 clock values, limit 3, 2 joins each | the host is a participant and succeeds by tenure (`HostInCall`, `SuccessionByTenure`), the limit and the peak (`LimitRespected`), the index (`ConnIndexExact`) |
| `service_rest` | 2 clients, a channel, limit 1, 2 calls, REST start and removals, every database call and SFU message may fail | `OneLiveCall`, `LiveCallRegistered`, `LimitHeld`, `ImplementsChannelCalls` |
| `service_drops` | 2 connections of one user, dying and revived websockets, SFU closes | `TypeOK`, `EndedOnce`, `LiveCallRegistered` |
| `service_live` | 1 client who joins once, REST start and end, reaper, drops, two generations | `HandlersFinish`, `GoneClientReleased`, `EmptyCallsEnd`, `ImplementsChannelCalls` |
| `presence` | 2 participants, 3 flags, all host controls, failing SFU messages, 5 requests | `PresenceSettled` |
| `rtcd` | 2 concurrent callers of Start, their rounds, a kicked round, Stop, 3 manager ids | `NoOrphan`, `InstalledIsUsable`, `ManagerRecovers` |
| `rtcd_hosts` | 2 addresses, 1 caller, DNS and sockets changing at any time | `HostsFollowDNS`, `HostsRecover` |
| `lms` | 2 workers, 3 requests, store faults; 3 lessons of which 2 collide when one repeats, series of 2, 4 rows, answers of 1 row, 2 students, 2 amounts and 2 totals | `PaidNeverOverstated`, `RecomputationRepairs`, `SeenNeverOverlaps`, `SheetReplaced` |
| `class_chat` | 2 workers, 3 requests, 2 classes, 3 codes of which 2 have one channel name, 2 teachers of whom 1 is in the team, a student, an admin outside the team; clients that hand codes on and send links back with another code; every call may fail, channels may be archived | `SyncSettles`, `SharedBySameNameOnly`, `ClosingReleases` |

Deadlock checking is off: every instance bounds its calls and joins, and a service
with no calls and no clients is rightly at rest.

Disagreements between the code and what its comments or tests say (each run finds
a counterexample; `PROJECT.json` quotes the lines):

| run | shows |
|---|---|
| `call_end_order` | `call_end` is broadcast after the next call has registered; the web client leaves that call |
| `gone_client` | a removed participant who joins again before the removal has finished loses the registry entry and is never released |
| `series_cap` | a series is created without force over a lesson the conflict query cut off (limit of 25 rows scaled down to 1) |

The models also show the following, which no run repeats: a leaver that found the
call empty ends it under somebody who joined since (`client_messages.go:375`); an
end that overtakes the start's second write loses its `EndAt` (`api.go:136`); two
screens switched on at once are both accepted (`client_messages.go:469`); a client
whose websocket is back under its old connection id when the grace timer fires is torn
out of the call (`lifecycle.go:61`, against the comment at 59-60); a host's
mute that overlaps the target's own join leaves the SFU unmuted
(`host_controls.go:69`, which is why `PresenceSettled` excepts contested flags).

`ClassChat` also shows, of the class channels:

- A class finished through the web form keeps its channel and its messages: the form
  does not send the link, the update clears it, and the handler finds nothing to close
  (`api4/lms_api/class.go:149`). The comment at 126-128 requires that "when a class
  finishes, its channel is closed and all messages are deleted". `ClosingReleases`
  states what holds of every end of a class and makes this exception: an update that
  does not send the link leaves the channel behind, without a link to it.
- Codes that differ only in case, or in characters `classChannelName` replaces, have one
  channel name, and the second class is given the channel of the first
  (`chat.go:184-194`; the comment at 186-188 takes such a channel for one of the same
  class). Ending either class then deletes the messages of both. `SharedBySameNameOnly`
  says that classes meet in a channel in this way, or in the next, only.
- A client that changes the code of a class and sends the link back leads two classes
  to one channel when the old code is given to another class: the mark `lent`.
- A class that is reopened gets no channel (`class.go:154` asks for `!wasFinished`;
  the comment at 144 lists "reopened" among the cases that ensure one) until a later
  change, so `SyncSettles` speaks of classes that were open before the change.
- A class whose channel was archived never gets one again: the name stays taken and
  the lookup by name does not find it (`chat.go:184-194`).
- Of two overlapping changes of one class the slower may write its older copy of the
  row back (`chat.go:203`) and leave older members in the channel. `SyncSettles` says
  that the next undisturbed change repairs it.

`GoneClientReleased` is in two runs on purpose: it holds for a client that joins
once (`service_live`) and fails for one that joins again during a removal
(`gone_client`). The schedule has a pair of
properties: `CheckedNeverOverlaps` states the claim of a comment as it is, about every
lesson that was in the table when the check was made, and fails (`series_cap`);
`SeenNeverOverlaps`, about those the row limit did not cut from the answer, holds under
the same limit of one row (`lms`).

`PresenceSettled` says nothing of a flag two requests wrote at once, and
`GoneClientReleased` and `EndedOnce` nothing of a client that is taken for dead though it
is back.

### Bounds

`MaxCalls = 2` gives an old and a new generation, which every registry race needs;
a third would only repeat the pair. `MaxJoins` of 1 or 2 and two connections give
two clients, or one client that moves; `Limit = 1` is full with one participant so
that two joins contend. One channel is enough: channels share
no lock and no entry, and two generations contend on one. In `call_state`, four connections with limit 3 reach the
limit with a host, a successor and a bystander. In `presence`, five requests are
two joins and three requests that overlap on one session. `MaxRequests`,
`MaxCalls` and `MaxJoins` are guards of the actions that count.

In `rtcd`, two starters and the kicked round are three rounds that may each hold a
manager, so three ids are enough. In `rtcd_hosts`, two addresses give an answer that
grows, shrinks and changes entirely. In `lms`, two workers interleave any two
requests and the third comes before or after them; four rows are the first lesson
and three more, a series of two and one besides; with `RowCap = 1`, as in `series_cap`,
the teacher's second lesson in a span is already cut from the answer. In `class_chat`,
three requests are one that creates a class and two
that overlap on it, or two classes and a change; two classes let a code change
hands, and of three codes two have one name and one another.

### Fairness

`FairSpec` assumes weak fairness of the steps of a begun handler (goroutines are
scheduled, `sync.Mutex` does not starve a waiter, database and SFU calls return or
fail), of `HandleWSDisconnect` (the platform starts it for every dead connection),
of `GraceExpires` (a `time.AfterFunc` fires) and of `ReaperVisit` (a ticker).
`RtcdManager` and `RtcdHosts` assume that goroutines, the ticker and the throttle's
clock go on (weak fairness), and, for recovery only, that users keep placing calls
(`KickCheck`, `PickCandidates`) and that connecting to the SFU succeeds again and
again when it is tried again and again (strong fairness of `Build`,
`CheckerConnect`, `HealRebuild`): recovery is promised by the code under exactly these
conditions. In `CallService` clients, the SFU and the network owe nothing: joins, leaves, reconnects, drops and
REST requests are never forced.

## 4. Proofs

`CallStateProofs` proves, for every set of connections, users and clock values, every
limit and every bound on joins:

| theorem | statement |
|---|---|
| `TypeCorrect` | `Spec => []TypeOK` |
| `HostAlwaysInCall` | `Spec => []HostInCall` |
| `LimitNeverExceeded` | `Spec => []LimitRespected` |
| `ConnIndexAlwaysExact` | `Spec => []ConnIndexExact` |
| `SuccessionAlwaysByTenure` | `Spec => SuccessionByTenure` |

Assumptions on the constants: connection ids are positive naturals, every
connection has a user, clock values, the limit and the join bound are naturals
(`ConnsAssumption`, `UserOfAssumption`, `TimesAssumption`, `LimitAssumption`,
`MaxJoinsAssumption`).

The inductive invariant `IInv` is the conjunction of the four invariants and
`MovedIsReplaced`: a session that has left its first connection has been
replaced there. Without it `ConnIndexExact` is not inductive: a join may replace a
session object under its own id, and if that session had been re-pointed to
another connection, the old connection entry would outlive it. The proof has one
lemma per state-changing method (`AddSessionFields`, `RemoveSessionFields`,
`SetConnFields`: the fields of the result), one per action (`JoinIInv`,
`LeaveIInv`, `ReconnectIInv`, `FlagsIInv`), and `SuccessorElected`, which shows
that the election loop of `removeSession` has a unique best candidate, from
`NatMin`: a nonempty set of naturals has a least element.

The lemmas about single methods, which the proofs about `CallService` and
`CallPresence` need as well, are in `CallStateOpsProofs`.

`CallServiceProofs` proves, for any number of connections, channels, calls and
joins, any limit, any `Sources` and any `Faults`:

| theorem | statement |
|---|---|
| `TypesHold` | `Spec => []TypeOK` |
| `OneLiveCallAlways` | `Spec => []OneLiveCall` |
| `LiveCallAlwaysRegistered` | `Spec => []LiveCallRegistered` |
| `EndedOnceAlways` | `Spec => []EndedOnce` |
| `LimitAlwaysHeld` | `Spec => []LimitHeld` |
| `ServiceImplementsChannelCalls` | `Spec => ImplementsChannelCalls` |

The inductive invariant `ServiceInv` is stated over `Shared`, the part of the state
every goroutine can see: which calls exist and which are live, the shards, the
channel index and the start locks. `Sound` relates the registries to each other. `Fits`
says, per program counter, what a goroutine may rely on after it let go of a lock: who
creates a call holds the channel's start lock and knows the channel has no live call; who
is between `addIfLive` and `insert` found a call that is registered if it is live; who is past
`markEnded` works on a call that is not live. `Covered` says that a live call in a shard
is registered or that its creator is on the way to register it; with the start lock this gives
`OneLiveCall`. `EndersApart` says that one goroutine at most is past `markEnded` for a
call, and that what it has yet to write has not been written. Most steps leave `Shared`
alone, so the proof of a step is that the goroutine that moves fits it again
(`QuietMove`); the seven steps that change it are argued one by one. Every lemma
about a step also shows that it is a step of `ChannelCalls` under the mapping or leaves
the mapped variables unchanged, so the refinement needs no second pass over the
actions. The refinement is of `ChannelCalls`' safety; nothing is proved of fairness.

`CallPresenceProofs` proves, for any number of participants, requests, flags and
host controls, with and without failing SFU messages:

| theorem | statement |
|---|---|
| `PresenceAlwaysSettles` | `Spec => []PresenceSettled` |

`PresenceSettled` speaks of a call at rest only, so it says nothing about the steps
between. `PresenceInv` follows each pair of a session and a flag that is not contested
(`Followed`): nobody writes it and the three places agree, or the writers are midway,
and how far a writer has come says which of the places already have its value
(`Midway`). That there is one writer only is `Contest \subseteq contested`. `Numbered`
says that a session has the number of the last join on its connection and no SFU leg a
later one; without it a leg left by an earlier participation, after a failed `Leave`,
could count as the leg of the present one. A pair that neither the mover wrote nor writes
and that the step does not touch is followed as before (`BystanderFollowed`), so
each action's lemma is about the pairs it writes.

`RtcdManagerProofs` proves, for every set of manager ids and any number of
concurrent callers of `Start` (`ManagerAssumption`: no id is `NoManager`):

| theorem | statement |
|---|---|
| `NoManagerLeaks` | `Spec => []NoOrphan` |
| `InstalledAlwaysUsable` | `Spec => []InstalledIsUsable` |

The invariant `Inv` adds to the two that a round has a manager in hand exactly from
building to its end (`HandsFull`), that what it has is open, not installed and no
other round's (`HandsOwn`), and that `rtcdKick` is set while the kicked round runs
(`KickHeld`): without it a second kick could restart the round and drop the
manager in its hand.

`LmsProofs` proves, for any number of workers, requests, amounts, lessons and
students (`RequestAssumption`, `TuitionAssumption`, `ScheduleAssumption`):

| theorem | statement |
|---|---|
| `PaidAlwaysBacked` | `Spec => []PaidNeverOverstated` |
| `RecomputationAlwaysRepairs` | `Spec => []RecomputationRepairs` |
| `SheetAlwaysReplaced` | `Spec => []SheetReplaced` |
| `SeenLessonsApart` | `Spec => []SeenNeverOverlaps` |
| `FittingAnswerIsWhole` | an answer of `FindTeacherConflicts` leaves nothing out when the rows that match fit `RowCap` |

`TuitionInv` adds that what requests are about to write is backed by the table
(`InHandSound`): a sum in hand is at most the payments, and equal to them while
nobody has overtaken it; a request that recomputes has paid, so the sum is
positive and the status is decided. `PaidAlwaysBacked` and `RecomputationAlwaysRepairs`
rest on positive amounts (`TuitionAssumption`), which only the front end
enforces. `SheetInv` adds that sheets under way are
distinct and not filed (`SheetsApart`), and that a sheet comes after filed sheets
only, of which no row is left in its session (`SheetsAfter`).

`ScheduleInv` adds to the property that
what a request found free is still free of the rows it saw while it waits for its
store calls (`StillFree`): rows are rewritten by others in the meantime, and a
rewritten row leaves the `saw` of everybody. `SeenLessonsApart` excepts what the row
limit cut; `FittingAnswerIsWhole` says when that is nothing. Its condition is on the rows
that match the queried span, whatever else the teacher's schedule holds (a finite set that
contains another one of at least its size is equal to it), and `series_cap` shows that it is
needed.

`ClassChatProofs` proves, for any number of workers, requests, classes, codes and people,
and whichever calls fail:

| theorem | statement |
|---|---|
| `SharedBySameNameTheorem` | `Spec => []SharedBySameNameOnly` |
| `SyncAlwaysSettles` | `Spec => []SyncSettles` |
| `ClosingAlwaysReleases` | `Spec => []ClosingReleases` |

No theorem assumes anything of `nameOf` or of what clients send. `ChatInv` says
that rows and requests are well formed, that codes are unique (`CodesUnique`), and
that a link leads to a channel that bears the name of the code it is stored with or was
sent with another code by a client (`Bears`), in
every row (`RowsFit`) and in every copy a request holds, and that a request about to store
a link has such a channel in hand (`RequestFits`). Without the part about copies a stale
copy could bring back a link to a channel of another class. Channels keep their names and
marks (`NamesKept`), so two rows with one link have one name unless the channel is marked.
`AloneInv` is about the requests that
nothing disturbs: while such a request runs no other does, its copy of the row, its
students and its channel are what the tables hold at each point of its handler
(`Syncing`, `Releasing`), and what its answer claims stays true until the next request
begins (`Stands`). A class that has ended keeps no link because the request that ends it writes its own
copy over the row or deletes it; that of the other classes only those with the channel's
name, or of a marked channel, keep one (`Released`, `Unlinked`) comes from `ChatInv`. There is one lemma per action for
each of the two invariants; `Quiet...` are the steps that change no table and no channel.

The provers assume nothing but the named assumptions on constants, which TLC evaluates
in the runs. The inductive invariants were checked with TLC on
the instances of the runs before they were proved.

Only model-checked: liveness (`HandlersFinish`, `GoneClientReleased`, `EmptyCallsEnd`,
`ManagerRecovers`, `HostsFollowDNS`, `HostsRecover`), which rests on fairness and on `ENABLED`
and is outside the prover's reach. `RtcdHosts` has only such properties and therefore no
proofs.

## 5. Not modelled

- Signaling payloads, reactions, metrics, ICE servers, posts' text: forwarded or
  formatted, no state.
- Voice activity: the next VAD message overwrites it.
- The SFU manager's registration and credentials, the pumps of its connections, and
  late callers on a closed manager.
- People and leads: several writes whose outcome is decided by the host platform's
  validation; fees, packages, refunds, homework, content, reports: single-row writes
  and reads.
- Of class chat: the operations team, which nothing uses, and requests refused before
  they have written anything.
- The Mattermost server, its stores, their generated retry and timer layers, the
  API client and the test suites. They are most of the repository's lines
  (the modelled part is a few thousand of some 450 000): third-party or generated
  code that the product's own logic only calls, so the share of lines mapped
  cannot be high.
- Database replicas (`GetReplicaExecuter` is the master unless replicas are
  configured; with them a sum of payments may miss the last one), clusters of several servers: the service keeps calls in the
  memory of one process.
- Recording, transcription and captions: declared, not implemented.
- Left-over registry entries: a link after an end, or a second reconnect, leaves
  an entry that leads to no session. The steps are in `CallService`; no property
  is stated about it because lookups through such an entry miss.

## 6. Plan

1. Action properties worth stating and proving next to the invariants: a call row that
   has its `EndAt` keeps it unless the start's second write comes late
   (`api.go:136`); a session id resolves to one call at a time.
2. The pumps and the late callers of a closed manager in `RtcdHosts`, with the safety of
   its adapters.
3. The remaining multi-step requests of the LMS (deleting a student) as far as they do not
   depend on the platform's validation.
