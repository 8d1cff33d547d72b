# cks-loadtest in TLA+

`cks-loadtest` simulates game clients against the Crowded Kingdoms platform: it
signs accounts in, gets each one an app token and a Buddy (UDP) server, moves
the clients on worker threads, measures one-way latency, and grows under the
remote control of `cks-loadtest-ctl`. This directory holds TLA+ models of its
core, TLC configurations for small instances, and TLAPS proofs.

    tlc -config MCSession_safety.cfg MCSessionControl     # a run
    tlapm SessionControlProofs.tla                        # a module's proofs

`PROJECT.json` maps every definition to the lines it models and lists the runs,
the mutants each property catches, the findings, the hazards and the theorems.
Source paths below are relative to the repository root.

## 1. Inventory

| Component | State | Operations | Who touches it |
|---|---|---|---|
| `Worker` (`src/Worker.cpp`) | its clients (`WAITING`, `ACTIVE`, `SUSPENDED`), their sockets, counters and deadlines; `pending_`, `inbox_` | `addClient`, `applyPendingClients`, `applyPendingUpdates`, `activateDueClients`, `handleDatagram`, `sendDueUpdates`, `suspendClient`, `stop` | its own thread; `distribute` and the control thread through two mutexed inboxes; the gauges are shared atomics |
| `ControlQueue`, `controlLoop` (`src/Worker.hpp`, `src/Harness.cpp`) | FIFO of requests, shutdown flag; one request at hand with its attempts | `push`, `pop`, `shutdown`; refresh, assign with retries, post | every worker pushes, one control thread pops |
| `Harness` (`src/Harness.cpp`) | `used_`, `busy_`, `addError_`, `addThread_`, last rung | `start`, `requestAdd`/`runAdd`, `openRung`, `closeRung`, `recordReplayLoggingAtEnd`, `requestShutdown`, `stop` | HTTP pool threads, the add thread, main |
| `ControlServer` (`src/ControlServer.cpp`) | the HTTP server and its pool | one handler per endpoint, `stop` | the driver |
| `main` (`src/main.cpp`) | `g_stop` | start, wait, observe the end, stop server, stop harness | signals |
| `Provisioner` (`src/Provisioner.cpp`) | roster, tally; per range: `nextOffset`, `failed`, `firstError`, the result vector | `provisionRange`, `signIn`, `mintAppToken`, `assignServer`, `refreshToken`, `requestWithRetry` | a pool of threads per range; the control thread |
| `Stats`, `StatsReporter` (`src/Stats.cpp`) | relaxed atomics; window origin, opening and rung id under a mutex; the reporter's last snapshot | `recordLatencyMs`, `loadLifetime`, `markWindow`, `loadWindow`, `percentileMs`, `mergeFleetStats`; the reporter's interval | workers write, HTTP handlers and the reporter read |
| `SimClient`'s walk (`src/SimClient.hpp`) | position, direction, owned chunk | `initSimulation`, `updateWalk`, `projectPose` | its worker, once per packet |
| wire format (`src/Wire.hpp`) | the datagram at hand, the offset in it | layout of an update, `verifySignedBundle`, `forEachMessage`, `verifyNotification`, `notificationEpochMs` | `handleDatagram`, on whatever arrived |
| permission classification (`handleDatagram` in `src/Worker.cpp`) | `permWindowCenter`, `activatedAt`, `permReloadAt` | re-centre, file a refusal | its worker; follows the Buddy's cache from outside |
| `ctl` (`src/ctl.cpp`) | baseline and rows of a poll; the merge | `add`, `wait`, `rung-open`, `rung-close`, `stats`, `shutdown` over a fleet | one driver, many hosts |
| `Config` (`src/Config.cpp`) | three layers, the result | look-up, flags, derived limits, `validate` | `main`, at start |
| `GraphQLClient`, HMAC, scripts | – | one HTTP call, a tag, shell | – |

What is hard here, and what makes each component correct:

* **Session machinery.** A client may be told to refresh, reassign or reconnect
  by several paths in one datagram, while an answer to an earlier request is on
  its way. State, socket, deadlines and gauges are moved by hand on each path.
  *Correct*: gauges equal the population; a suspended client is never
  forgotten; what is on the wire is a session the API installed and that has
  settled; no socket outlives `ACTIVE`; a stop gets past the control thread.
* **Adds and rungs.** `busy_` is tested under `mu_`; the thread that clears it
  is created, joined and stored outside. Rung operations read state under
  several locks. *Correct*: indices are unique and within the limit, `busy_` is
  the ticket of one add, no add outlives `main`, every add gives `busy_` back.
* **Provisioning.** Threads claim offsets with an atomic and leave at whatever
  offset they see a failure or a stop; answers are lost after taking effect.
  *Correct*: whole range or nothing, each client once, exact sign-in tally
  (none with a required roster), the pool ends.
* **Counters.** A sample is five atomic updates, a snapshot dozens of loads.
  *Correct*: no sample lost, the maximum exact, a torn snapshot off by no more
  than what was under way while it was loaded, ordered percentiles even from
  one, the reporter's intervals adding up.
* **Fleet driver.** Rows of one poll are read at different times from hosts
  that go on; a fan-out reaches some hosts and not others, and a host may be
  restarted under the driver. *Correct*: a successful `wait` means every add is
  finished, as far as what it compares can show a restart; a successful `rung-close` has summed one rung over the whole fleet;
  the fleet's window covers the time all hosts were inside; the commands end.
* **Walk.** The length of a step is up to the scheduler. *Correct*: nobody
  leaves the region of its population shape.
* **Datagrams.** Every length field is somebody else's. *Correct*: no read
  outside what was received, nor a tag taken for a message.
* **Refusals.** The client guesses what the Buddy's permission cache holds from
  refusals that are late, doubled or lost. *Correct*: what the lazy cache
  explains is not reported as a fault where the client can know, and a real
  fault is not explained away.
* **Configuration.** An option comes from one of four places and is converted on
  the way. *Correct*: what is run with is what the other components assume.

## 2. Modules

| Module | Models | Runs |
|---|---|---|
| `SessionControl` | Worker, SimClient's session fields, ControlQueue, controlLoop, inboxes | `MCSession_*` through `MCSessionControl` |
| `ClientSession` | abstract: a client asks, and each question is answered once | refined by `SessionControl` |
| `SessionControlProofs` | theorems about `SessionControl` | tlapm |
| `ControlPlane` | Harness, ControlServer's handlers, add thread, main | `MCPlane_*` |
| `Provisioning` | Provisioner::provisionRange and the API it calls | `MCProvision_*` |
| `LatencyStats` | the latency counters, windows, percentiles, the reporter's intervals | `MCStats_*` |
| `FleetWait` | ctl's add and wait over several hosts | through `FleetLadder` |
| `FleetLadder` | one rung of a ladder: `FleetWait`, then rung-open, rung-close and the merge | `MCFleet_ladder` |
| `Walk` | placement and random walk of a client | `MCWalk_escape`, and through `ClientTraffic` |
| `Wire` | the layout of an update, the walk through a received datagram | through `ClientTraffic` |
| `ClientTraffic` | `Walk` and `Wire` composed with the classification of refusals and a Buddy | `MCTraffic` |
| `Config` | Config::load | evaluated by every `MCPlane_*` run |
| `ClientSessionProofs` | the order of assignments, and that `SessionControl` implements `ClientSession` | tlapm |
| `ControlPlaneProofs`, `ProvisioningProofs`, `LatencyStatsProofs`, `ConfigProofs` | theorems about those modules | tlapm |
| `FleetProofs` | theorems about `FleetLadder` with `FleetWait` | tlapm |
| `TrafficProofs` | theorems about `Walk`, `Wire` and `ClientTraffic` | tlapm |

Definitions named `Slip...` are plausible bugs of the definition that follows
them. No specification uses them; each shows, put in that definition's place,
that a property can fail.

### SessionControl

One record component of `SimClient` per variable; `NONE` and `PENDING` stand for
a client that was not handed over, or is still in `pending_`. Each handler is
an action: `HandleTokenError`, `HandleUnauthorized` and `HandleReconnect` are the
messages of a bundle, and run between `BeginDatagram` and `EndDatagram` on a
client that an earlier message of the same bundle may have suspended.
`SendDueUpdate` is the whole iteration of `sendDueUpdates` for one client: the
proactive refresh and then the packet, whose failure may suspend the client in
the same step. The control thread is `ctl`: `pop`, `refresh`, `assign` (with the
attempt), `post`.

* The loop of a worker visits its phases in a fixed order; the model interleaves
  them freely and applies updates one at a time. That only adds behaviours.
* Time is a count of deadlines: the n-th `udpReadyAt` handed out is n and `clock`
  is the last that has passed. Deadlines pass in the order in which they were
  handed out, as the code adds the same settle time to each. The ramp deadline
  of a new client and its settle deadline are one number.
* `RefreshToken(kept)`: an API without the server-keeping refresh makes the
  provisioner fall back to a refresh that leaves the client to be placed; that is
  `kept = FALSE`.
* `active` and the state it counts move in one step. No other thread reads both.
* The API is external: `installed` is what it told the Buddies, `tokens` how many
  app tokens it gave out.
* `gaveUp` is a history variable: the last update a suspended client got was a
  failure.

`ClientSession` forgets queue, thread, inbox and credentials and keeps a phase
and a number of answers owed. `Owed` counts a client's requests
in queue, hand and inbox; `ImplementsClientSession` says that a step never
drops, duplicates or invents one.

### ControlPlane

A handler's step is one critical section, or the single call between two.
`requestAdd` is therefore `RequestAdd` (check and acceptance under `mu_`),
`JoinAdd`, `SpawnAdd` and `AssignAdd`: the thread runs from `SpawnAdd` on, and
moving it onto a joinable `addThread_` aborts the process, as `std::thread`
does. Refused requests change nothing and are stuttering. `closeRung` is
`CloseRung`, `ReadRungId`, `LoadWindow`, `WriteRung`, `KeepRung`. A window is the
number of the `markWindow` that opened it; `opened` remembers for which rung.
Indices are counted from `indexBase`. `ProvisionAdd` uses what `Provisioning`
shows: all clients or none, and none once the stop is set.

### Provisioning

Per thread, `pc` is the call at hand, `off` the offset claimed, `tries` the
transport failures of the call. Roster kind, coverage and the state of every
account are chosen initially. `Effects` is what a call whose answer was lost may
have done. `login` succeeds only for accounts with our password; it, `register`
and the second `login` may also be refused for a reason that is not the account
(the rate limit per address, which the README's section on the roster is about),
and `signIn` falls through on that as on a wrong password. `limited` is history:
the clients to which it happened. A sign-in answer without a token is no
`GraphQLError` and is thrown past `signIn` (`Refused`).
`LT_ROSTER_REQUIRED` without `LT_ROSTER_FILE` has no effect, as in the code.

### LatencyStats

Every operation on an atomic is a step; steps of different threads interleave in
a single order. The fields a relaxed load may see out of that order are not
modelled, so the passing properties are about interleavings only; the two
disagreements below need no weaker memory. Percentiles are exact fractions: p is
a percentage, and a target a number of hundredths of samples. A load is for
`markWindow`, for `loadWindow` or for the reporter; the reporter is one thread,
so one interval is loaded at a time, and it makes no use of the histogram.

A window is the snapshot `loadWindow` took before the lock minus an origin that
may be newer, if a `markWindow` came in between: single differences can then be
below zero and are cut to 0 by `satSub` (the mutant of `TypeOK` is a `satSub` that
does not). What a snapshot can be trusted for is `SnapshotInBetween`; `start` is
history, the histogram when the load began. It does not depend on the order in
which the relaxed loads take place.

### FleetWait and FleetLadder

A host is what `/v1/status` shows of it, and its window. `Settle` and `Settled`
are old clients between assignments, which count neither as active nor as
suspended. An add may be accepted and its answer lost (`PostAdd`). A host may be
restarted at any time, in the middle of `add` and `wait` too: it comes back with
its initial clients, idle, and without the add. After `wait` has ended, in whatever way, `FleetLadder` goes on with
`rung-open`: each host is reached or not, refuses or not, and its answer is heard
or not. `Restart` is `RestartHost` and the unnamed window `Harness::start` opens.
`CloseRung` is handled by the host whatever window it is in: the request carries
no id. `MergeNext` is a turn of `mergeFleetStats`' loop, in any order of hosts;
only what can disagree between hosts is merged (id, opening, duration), as the
counters are sums. Time is in ticks, `EpochSec` cuts to seconds as the code does.

### Walk, Wire, ClientTraffic

Positions are whole numbers and a heading is a direction per axis in -1 .. 1: the
reflection and the clamp need no more, and a step's length takes every value of
`Steps` and `Stalls`. Steps of the usual pace and stalls are kept apart so that a
behaviour has boundedly many of the latter; a client that needs stalls for ever to
be lost would prove nothing. `Bounce` is `bounce` and `bounceIn`, which are the
same text. Drawing a heading, a jitter or a chunk is a choice over its range.

`Wire` keeps positions of bytes, not bytes. A datagram is plain, a bundle or a
signed bundle; that a tag verifies is a choice, and so is every length field at
the moment it is read. `Reads` is every position the callback may touch of a
message. Messages too short for their type are included.

`ClientTraffic` adds the worker's bookkeeping. Deadlines are countdowns. Any
member of at least three bytes may be one of the refusals under way. The Buddy is
external, as the comments of `Worker.cpp` and `SimClient.hpp` and the README
describe it: `boxes` are the centres of what it grants, up to `MaxBoxes`; a refusal
starts a lookup that takes up to `LoadTicks`, evicts whichever boxes it likes, and
may end at a place the client has moved to meanwhile; a `faulty` one grants
nothing. Its radius is a constant of its own, which the client's `radius` (0 is
accepted by `Config.cpp`) may or may not equal. `crossing`, `last`, `noticed` and
`seen` are history, for `RefusalsExplained` and `CrossingsAreGeometry`. A suspension is `Suspend`, at
any time outside a datagram; who asks for it is `SessionControl`'s business.

### Config

A layer is a function from options to what it gives; a text is what it converts
to. `Resolved` is what `load` has before `validate`; `Load` is how it ends: run,
usage message, or an exception that nothing catches. Options that `validate` does
not look at are left out, as is a config file that cannot be opened (exit code 2).

## 3. Runs

Passing runs; each property has a mutant that breaks it.

| Run | Instance | Shows |
|---|---|---|
| `session_safety` | 2 clients on 2 workers, 2 servers, 2 requests, 2 attempts, UNAUTHORIZED limit 2 | `WireSessionInstalled`, `GaugesExact`, `NoOrphan`, `SocketOnlyActive`, `SettleRespected`, `AssignmentsInOrder` with the shared queue and gauges; both requests may be one client's, a background refresh overtaken by a suspension |
| `session_answers` | 2 clients on one worker and inbox, 2 requests, 2 attempts | `ImplementsClientSession`; `SuspensionEnds`, `WaitingEnds`, `StopCompletes` |
| `plane_safety` | 2 handlers, 3 adds of 1 or 2, limit 4, 1 window | `IndicesUnique`, `BusyIsOneAdd`, `UsedExact`, `AddsJoined` |
| `plane_liveness` | 2 handlers, 2 adds, 1 window | `AddEnds`, `StopEnds` |
| `provision_safety` | 2 threads, 3 clients, 2 tries, every roster and account state, sign-in calls refused for any reason | `AllOrNothing`, `OneThreadPerClient`, `TallyExact`, `RejectedIsTurnedAway` |
| `provision_liveness` | 2 threads, 2 clients, 3 tries, a misnamed entry, a forbidden account | `PoolEnds` |
| `stats_counters` | 2 workers, 2 loaders, 3 buckets, 2 samples of 0, 4 or 7 ms, 2 loads | `SamplesConserved`, `MaxIsLargest`, `SnapshotInBetween`, `PercentilesOrdered`, `IntervalsAddUp` |
| `fleet_ladder` | 2 hosts, 1 old and 1 new client each, with and without `--active-delta`, 1 restart at any time, 4 ticks of half a second | `CloseMeansOneRung`, `FleetWindowCovers`, `ReturnMeansProvisioned`; `LadderEnds` |
| `client_traffic` | one client of each shape on one horizontal axis and the vertical one, chunks of 2, 1 stall, datagrams of 0 and 5 bytes with a header of 1, radius 0 and 1 against a Buddy of radius 0 with 2 boxes, 2 refusals under way | `Confined`, `ReadsInside`, `RefusalsExplained`, `CrossingsAreGeometry` |

The `MCPlane_*` runs also evaluate `Config` over small layers: `SmallConfigsRunnable`
and `LimitFollowsClients` for every combination of flag, environment and file
values of the three sizes, and that each way `load` ends is reached. `MCClientTraffic`
evaluates that `placeInCube` permutes the slots of cubes up to 5 x 5 x 5.

Bounds and why they are enough. Two actors are what the races need: two requests
of one client, two handlers, two pool threads, two hosts. Two requests put a
background refresh and a suspension of one client into the pipeline together, or
one request of each client; longer histories are covered by the theorems, which
hold for every number of requests. Three adds let a third meet what two
overlapping ones left behind. A threshold of 2 tells "reset at the limit" from
"reset always". Limit 4 with one initial client and
adds of 1 and 2 makes some adds exceed it. Two samples in three buckets reach the
unbounded last one and leave empty ones. In `fleet_ladder` four ticks of half a
second put openings and closings into different seconds. In `client_traffic` a
client steps by 4, two chunks, or stands still, and a stall is a step of 3: both
overshoot a region of one chunk and are reflected and clamped; a datagram of 5
bytes holds several members, or one with a tag behind it; a radius of 0 or 1 is
crossed within a step; two refusals under way are enough for one of an earlier
lookup to arrive after a later one began; `Episode` is exactly a lookup and the way
back, the least for which `RefusalsExplained` can hold. What larger datagrams and
regions would show is proved (section 4). Bounds are guards (`Room`, `MaxAdds`,
`MaxWindows`, `MaxSamples`, `MaxLoads`, `MaxStalls`, `MaxFlying`, `MaxTime`,
`MaxRestarts`) or sets (`Lengths`); `stats_counters` alone disables the
deadlock check, because nothing is left to do once its bounds are reached.

Symmetry is used for servers, handlers, pool threads, recorders and loaders,
never in a liveness run.

Fairness. `SessionControl`: the control thread, the shutdown of a queue whose
workers are joined, and time go on (weak); a datagram ends; a worker's loop
serves its two inboxes and each due client once per iteration, in between
datagrams that may keep coming, so those are strongly fair. This assumes that an
iteration ends: `drainSocket` reads until its socket is empty. `ControlPlane`:
handlers and add threads keep running, as each GraphQL call has a timeout; the
main loop looks at the stop flag every 200 ms. `Provisioning`: every call ends.
`FleetLadder`: the driver runs, as every request of it has a time-out, its
deadline passes in the end (strong, as rounds come and go), and the operator ends
the measurement; hosts owe nothing. `Walk` (`walk_escape`): an active client is
moved again and again. Nobody has to send a request, a signal or a datagram.

Violations, each a sentence of the repository that a behaviour of the code
contradicts (quoted in `PROJECT.json`, "findings"):

| Run | What happens |
|---|---|
| `session_refresh_flag` | a failed background refresh reaches an ACTIVE client: `refreshRequested` stays set with nothing in flight, and that client asks for no refresh until something else has it reassigned |
| `plane_add_handle` | an add ends before its thread is stored; the next request's assignment, or its own, lands on a joinable `addThread_` |
| `walk_escape` | one long step takes a client of the plane farther out than its next step is long; it reverses at every step out there and never comes back |

More sentences of that kind are stated at the end of the modules, without a run
of their own. None of them holds; to see a counterexample, name one as the
INVARIANT or PROPERTY of a small configuration of its module.

| Definition | What happens |
|---|---|
| `SessionControl!FailedMeansSuspended` | the failed update of a background refresh does not suspend the client |
| `SessionControl!OneRequestAtATime` | a background refresh and then a suspension: two requests of one client |
| `SessionControl!CountSinceAssignment` | the UNAUTHORIZED count survives a reassignment made for another reason |
| `ControlPlane!RungOpensIdle` | an add is accepted between `openRung`'s check and its `markWindow` |
| `ControlPlane!EndReadingInLastFile` | a rung closed around the end reading leaves the last file without it |
| `ControlPlane!FileHoldsItsWindow` | a rung opened during `statsJson` puts the new window into the old rung's file |
| `LatencyStats!WindowMaxObserved` | a sample recorded during `markWindow` is in the window and not in its maximum |
| `LatencyStats!ReportedPercentileInData` | a snapshot with a sample's count and not its bucket reports twice the highest bound |
| `FleetWait!ReturnMeansRamped` | an old client that settles makes up for a new one that has not ramped; without `--active-delta` a restarted host, idle and without its add, is taken for one that is done |
| `FleetWait!TimeoutMeansLate` | hosts that finish before the baseline is read are waited for in vain |
| `FleetLadder!WindowIsUnion` | a host that opened late and closed last is measured past the end of the fleet's window |
| `FleetLadder!MissedHostSkipped` | a host that missed `rung-open` reports the opening of its former window, not 0, and drags the start back |
| `FleetLadder!CloseNamesRung` | if no host was reached by `rung-open`, `rung-close --id` closes the former rung and exits 0 |
| `Walk!OwnsChunk` | a sparse client that lands exactly on its chunk's upper edge is in the next chunk |
| `ClientTraffic!CentreFollowsLookup` | a crossing within the grace of another, or one whose refusals are lost, leaves the client's centre where the server has no box |
| `Config!FlagsHideLayers` | a malformed number in the environment ends the process also when a flag overrides it |
| `Config!DocumentedFlagTaken` | `--rx-silent-reassign-sec` is read and not declared, so giving it is refused |
| `Provisioning!RejectedMeansForeign` | under the rate limit, or on a staff-only tier without a token, the error says that an account exists with another password which has this one, or does not exist |

## 4. Proofs

`SessionControlProofs` proves, for every set of clients, workers and servers
and every value of the limits, from `ConstantsAssumption` alone (finitely many
clients, each with a worker; positive limits; the two "no" values are none of
the others):

* `TypeCorrect`: `Spec => []TypeOK`. By action; the error counters stay below
  the limits because the handler that reaches one resets it.
* `NoOrphanHolds`: `Spec => []NoOrphan`. Inductive with `TypeOK`. A request
  moves from queue to hand to inbox, which the lemmas `HasConcat`, `HasTail` and
  `HasAppend` follow through the sequences; an update that is applied resumes its
  client or sets `gaveUp`.
* `SessionInvHolds`, and from it `WireSessionHolds`, `SettleHolds` and
  `SocketHolds`. `WireSessionInstalled` is not inductive: a client becomes
  `ACTIVE` on credentials that arrived through an inbox. `SessionInv` adds that
  every client that was handed over holds installed credentials with a template
  that is unset or current (`ClientHolds`), and that every good answer, posted or
  at hand, carries an installed session.
* `GaugesHold`: `Spec => []GaugesExact`. Each step changes the state of one
  client, or of pending ones which neither gauge counts; `CountMove` relates the
  cardinalities before and after.

The model keeps the bound `MaxRequests` in its guards; the theorems hold for
every value of it.

`ClientSessionProofs`, from the same assumption. Its lemmas `ClientEffect`,
`UpdateEffect` and `ControlEffect` first say what each step comes to for the
pipeline (a client goes on, is activated or parked; an answer is read; the
control thread takes, works or posts); both theorems are about those.

* `AssignmentsStayInOrder`: `Spec => AssignmentsInOrder`. `PipeInv`: requests,
  answers and datagrams belong to clients their worker has taken over, and
  every answer is in the inbox of its client's worker. `OrderInv`: no deadline is
  ahead of the last one handed out; an inbox is sorted and no older than what its
  clients have; a good answer about to be posted is the newest. The second half
  is needed because two requests of one client may be under way.
* `SessionControlImplementsClientSession`: `Spec => ImplementsClientSession`, step
  by step. `CountTail` and `CountAppend` follow the count of a client's answers
  through queue, hand and inbox; reading one is `Answer` or `Refuse`, parking is
  `Suspend` with one question or two, and the control thread at work is not seen.
  `PipeInv` is what makes it true: an answer for a client that has not joined
  would be an `Answer` that changes no phase.

`ControlPlaneProofs`, from `PlaneAssumption`: `PlaneTypeCorrect`, `BusyIsATicket`,
`IndicesAreUnique`, `UsedIsExact` and `AddsAreJoined`, for any number of handlers
and adds.

* `AddInv` makes `BusyIsOneAdd` inductive: the add that holds the ticket starts
  at `used` and fits the limit (`HeldRange`), a handler between `requestAdd` and
  its answer holds an accepted add of its own (`HandlerHoldsAdd`), nobody asks
  before the start, and windows about to be marked have room.
* `GivenInv`: what was given out is below `used` or in the range of the add about
  to publish, and is counted; indices are then unique because ranges do not meet.
* `JoinInv`: an add thread that was not joined is in `addThread` or in the hands
  of the handler that is about to store it, and none is once the server has
  drained.

`ProvisioningProofs`, from `ProvisioningAssumption`:

* `ClientsHaveOneThread` from `ClaimInv`: every claim is below the counter and no
  two threads have the same. `RangeIsWhole` from `RangeInv`: unless the range has
  failed or was stopped, every client below the counter is stored or in the hands
  of a thread, and a thread exits only past the end.
* `TallyIsExact` from `TallyInv`: the roster is complete before any thread works.
* `RejectionIsTurnedAway`: a client at its second login has an account that is
  ours or foreign, or was refused a sign-in call for another reason, and accounts
  stay what they are once they exist. What the error message says,
  `RejectedMeansForeign`, is false (section 3).
* The assumption `Thread # {}` is needed: with an empty pool a range that is not
  empty would be returned unprovisioned. The code has at least one thread:
  `LT_PROVISION_CONCURRENCY` below 1 is refused (`Config.cpp:180`) and an empty
  range returns early (`Provisioner.cpp:461`).

`LatencyStatsProofs`, from `StatsAssumption`, for any set of workers, finite or not:

* `NoMaximumLost`, `NoSampleLost`, `SnapshotsAreInBetween` and `IntervalsAreWhole`
  from `StatsInv`. `CasBehind`: the value a worker compares with is at most the
  maximum, so an exchange never lowers it. `SamplesConserved` counts the workers
  between the two increments, of which there are always finitely many.
  Every field a loader has read is at least what the counter was when it began and
  at most what it is, and so are the sums of the histogram; the reporter, which
  subtracts its own older snapshot, never cuts a difference off at zero.
  `loadWindow` may (section 2).
* `PercentilesAreOrdered`: by `PercentileMonotone`, `percentileMs` does not
  decrease with the percentage on any snapshot, torn ones included, for any two
  percentages. What the recursive `Below` computes (`BelowUnfolds`) is shown from
  a least length for which no function of partial sums exists, as induction
  theorems cannot be instantiated here. The interpolation is compared across
  fractions with different denominators.

`FleetProofs`, from `FleetAssumption` and `LadderAssumption`:

* `WaitMeansProvisioned`: `LadderSpec => ReturnMeansProvisioned`, an action
  property, with restarts at any time: with `--active-delta` the only hosts it says
  nothing of are those restarted after their last row was read, without it those
  restarted since they were sent the add. `AddTraced` ties a host's count to the add it accepted, `AddAsked` what
  the driver has read of a host to that add.
* `CloseIsOneRung` and `WindowIsCovered` from `RungInv`: what each host answered
  is what it was on when it answered, and clocks run forward. `EpochBounds` is the
  fact about division by a second that makes "to within a second" precise.

`TrafficProofs`:

* `ReadsStayInside`, from `WireAssumption` (positive sizes, the auth flag inside
  the header): `WireSpec => []ReadsInside`. Inductive with the strengthening
  `WireInv`: the members' end lies inside the datagram, a tag before its end if it
  is signed; the offset is at most that end while the datagram is walked; and the
  member handed to the callback ends at the offset. The bound comes from the
  comparison `forEachMessage` makes before it advances; that the tail reads stay
  inside the member, from the two minimum lengths (`CallbackReads`).
* `UpdateFieldsTile`: the fields of an actor update follow each other without gap
  or overlap for every payload size.
* `WalkConfined`, from `WalkAssumption`: `WalkSpec => []Confined`. Inductive as
  `WalkInv`, which adds the types of position, heading and owned chunk.
  `BounceStays` is the clamp, for every position and every region that is not
  empty; `RegionProper` that every region has a positive size, through `Multiples`.
* `TrafficKeepsBounds`: both hold of the composition `ClientTraffic` too.
* `RefusalsAreExplained`, from `TrafficAssumption`. `RefusalInv` relates what the
  client believes to what the Buddy holds: once the client has re-centred, its
  episode outlasts the lookup and the refusals that causes; a refusal of a packet
  from outside a box centred where the client's is, sent from where the client
  still stands, is beyond the client's box too, or arrives within an episode. The
  condition `LoadTicks + Flight <= Episode`, part of the statement, is used to the
  tick: a lookup and the flight of the refusals it causes fit the grace
  `permReloadGraceMs`. The theorem is silent about refusals that reach a client
  which has walked on, about Buddies none of whose boxes is centred where the
  client's is, and, for the second kind, about a `permWindowRadiusChunks` larger
  than the Buddy's radius: such refusals are reported as unexplained on a healthy
  tier, as the README says.
* `ReloadsNeedDistance`: `Spec => []CrossingsAreGeometry`, for every radius. As long
  as no two places of the client are more than the radius apart, its centre is one
  of them, so no test of the box fails and no episode begins.

`ConfigProofs`, from no assumption:

* `AcceptedConfigRuns`: for all layers, `Load = "run"` implies
  `StartsWithinLimit`, `OneShape` and `SomethingRuns`: what `ControlPlane`,
  `SessionControl` and `Walk` assume of their constants. The step that matters is
  that nothing reaches `validate` unconverted (`NumbersConverted`).
* `UngivenLimitFollowsClients`: the limit is the number of clients unless a layer
  gives it.

The inductive invariants named here were checked with TLC, on instances like
those of the runs, before they were proved. Every safety property of a passing
run, invariant or action property, and the refinement are theorems.

Only model-checked: the liveness properties `SuspensionEnds`, `WaitingEnds`,
`StopCompletes`, `AddEnds`, `StopEnds`, `PoolEnds` and `LadderEnds`, as temporal
reasoning under fairness is outside the prover's reach, and the ASSUMEs of the
MC modules, which are statements about their instances (the slots of
`SlotsPermuted`, the layers of `Config`).

## 5. Not modelled

* `GraphQLClient`: one libcurl call per request; its outcomes (answer, refusal,
  transport failure) are choices in `Provisioning` and `SessionControl`.
* HMAC: whether a tag verifies is a choice. The values written into header, pose
  and capability message are bytes nothing here depends on; floating-point pose
  conversion is out of TLC's and the prover's reach.
* JSON, CSV and text output; the sums of `mergeFleetStats`; traffic counters other
  than latency, which are single relaxed increments like the sample count.
* Bearer checks and HTTP status codes; `ctl status`, `stats` and `shutdown`, which
  are one fan-out each, and `aggregate`, the same merge over files.
* `setReplayLogging` and `readReplayLogging` (a request and its answer), the
  parsing of the roster file, the email pattern.
* The width of `used_ + count` in `requestAdd`: the sum is exact here.
* Relaxed atomics seen out of order.
* Shell scripts.

## 6. Plan

Done, most important first: sessions, adds and rungs, provisioning, counters, the
fleet and its rungs, walk, datagrams and refusals, configuration; then the
proofs, of every module that has safety properties, and the refinement. Left:

1. The progress arguments behind the liveness properties, as far as they are
   safety: that a step which the fairness assumes is taken brings a measure down
   (the attempts left of a request, the clients left of a range).
2. Theorems about what the documented sentences of section 3 get right in place
   of what they get wrong, such as the most requests of one client that can be
   under way.
