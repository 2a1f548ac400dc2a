# A verification project for ioBroker.proscenic

This directory models the ioBroker adapter for Proscenic robots (`src/src`), its map viewer
(`src/www`) and the capture tools its protocol was explored with (`src/tools/protocol-poc`) in
TLA+, checks the models with TLC and proves what matters most with TLAPS.  Line numbers are those
of the repository; `main.ts` is `src/src/main.ts`, ADR n is `src/docs/decisions/00nn-*.md`.

## The system

One Node.js process holds one adapter object, a single event loop and no threads.  The code
between two `await`s is atomic; every `await`, timer, socket callback, state change of ioBroker
and unload may interleave at the awaits.  That is where the hard behaviour is.  The viewer is a
page in a browser that talks to ioBroker, not to the adapter; the tools are processes of their
own.

| Component | State it keeps | Operations | Where |
|---|---|---|---|
| Connection supervisor | reconnect timer and counter, `reconnectInProgress`, parts of the command session, gateway client, idle interval | login attempt, two kinds of reconnect, socket callbacks, idle watchdog, recovery after a failed command, unload | main.ts 212-524, 1366-1494 |
| Command queue | promise chain, `queuedCommandCount`, confirmation slot, result states | enqueue (three), execute (three), confirm, cancel, report | main.ts 1018-1249, 1306-1472 |
| Zone catalog and guarded cleaning | active map, coordinate metadata, `hasLoadedMapZoneCatalog`, pending 21004 read, protection switch | 20002 and 21004 handlers, refresh, request, the checks before a cleaning | main.ts 542-578, 606-651, 722-803, 1251-1284 |
| Zone selection and cleaning task | selected zones, pending completion, activity, pause, completion timer, live-map task state; persisted: selection and command diagnostics | select, accept, 20001 status, timer, restart | main.ts 580-592, 869-953, 1539-1564, 1644-1665; live-map.ts 164-200; zone-cleaning.ts |
| Consumable resets | second promise chain, pending 21015/21016 event, reset states | read, reset, read back, background read | main.ts 526-540, 662-720, 805-867, 1138-1179, 1286-1304; consumables.ts |
| Live map | last map, coordinate metadata, poses, task state, settings, activity | handle status, map, catalog, connection, setting and selection; render, write states | main.ts 494-515, 580-651, 955-995, 1566-1665; projector.ts 249-283 |
| Trail routing | none | straight line, A* search, simplification of a route | live-map.ts 507-850, 1254-1324 |
| Map viewer | interaction state, image shown and image awaited, three "in progress" flags | poll, follow changes, toggle a zone, start, preload | www/map-viewer/viewer.js |
| REST client | none | one HTTPS request per call | rest-client.ts |
| Gateway client | socket, frame buffer | connect, frames, close, destroy | gateway-client.ts |
| Status and activity | last status, cleaning inference | normalise, derive | status.ts |
| Auxiliary reads | throttle time, in-progress flag | maintenance history, consumables, catalog | main.ts 662-741 |
| Objects, projector | none | define objects, write states | objects/ |
| Capture tool | token history, events and errors of a run, frame buffer, private file | log in, discover, listen in cycles, write records | tools/protocol-poc/src: cli, gateway, capture-policy, private-capture |
| Capture analysis | counts, ranges, sequences, path segments, map block signals | one pass over the lines of a capture, interpretation | tools/protocol-poc/src/capture-analysis.ts |
| Other tools | none | render, compare and try single requests | tools/ |

How they interact: a button press enters the command queue; the running command needs the session
the supervisor builds, waits for it, and on failure makes the supervisor rebuild it. Gateway
events come through the socket of the supervisor and settle what commands wait for: the
confirmation slot (20001), the pending catalog read (21004), the pending consumable event (21015,
21016).  Clearing the session rejects the pending catalog read; a closing gateway rejects the
consumable event too.  A status drives the task state, which clears the zone selection; the
queue's result states are what a restart recovers the selection from.  Every handler that changes
what the map shows renders it and writes picture, fallback picture and areas; the viewer shows
them and writes selection and start command back.

What makes each correct:

* supervisor: it never ends up without a way to reconnect, whatever the order of closes, timeouts
  and failures; its watchdog runs on an open socket and on nothing else; unload is final;
* queue: bounded, first in first out, at most one request per trigger, every trigger settled, a
  confirmation goes to the command it is for;
* catalog: everybody who waits for a catalog gets an answer, the catalog in use is of the active
  map, nothing is cleaned on the strength of another map;
* task: the selection on display is cleared by the end of its own task, and by nothing else;
* consumables: one order at most, success only for counters that were read back, every reset ends;
* live map: once all handlers are done the states show what the adapter knows, of one rendering;
* routing: no line crosses a wall, no gap where a route exists, no detour;
* viewer: it ends up showing what the states say, the start button follows its conditions, an SVG
  is not replaced by a PNG;
* capture: what is recorded does not depend on how the bytes arrive, the file is in order, a
  capture goes on as long as it should and no longer;
* analysis: what one pass keeps is what a reader of the whole capture would find.

`PROJECT.json` lists under `hazards` where each of these can go wrong.

## Modules

| Module | Models |
|---|---|
| `Session` | the connection supervisor |
| `CommandQueue` | the command queue |
| `Delivery` | abstract: what ADR 19 promises of accepted triggers; `CommandQueue` implements it |
| `ZoneCatalog` | zone catalog and guarded cleaning |
| `ZoneTask` | zone selection and cleaning task |
| `ConsumableReset` | consumable reads and resets, with the robot and the cloud between |
| `SafeReset` | abstract: what ADR 17 promises of a reset; `ConsumableReset` implements it |
| `LiveMap` | the handlers of everything the live map shows, and their state writes |
| `PathRouting` | how the trail is drawn between poses |
| `MapViewer` | the page, the socket and HTTP between it and ioBroker |
| `CaptureRun` | the capture tool, from login to the last record |
| `CaptureAnalysis` | the analysis of a capture |
| `MC...` | each component for TLC, with what the repository's documents say of it |
| `SessionProofs`, `QueueProofs` (with those of `Delivery`), `ZoneProofs` (`ZoneCatalog` and `ZoneTask`), `ConsumableResetProofs`, `LiveMapProofs`, `PathRoutingProofs`, `MapViewerProofs`, `CaptureProofs` (`CaptureRun` and `CaptureAnalysis`) | the theorems |

Operators keep the names of the methods they model; `map` in `PROJECT.json` gives the lines. An
operator whose comment begins with "Mutant" is a plausible bug of the definition below it. Each
passing property is shown to be violated by one of them.

**Session.**  `attempt` is the program counter of `connectReadOnlyGateway`: the three requests, the
state writes of both branches, `hung` for a request whose promise never settles.
`reconnectInProgress` is derived from it, since the code sets it before the first and clears it
after the last await.  `session` is the set of session fields that are set, for they are set at
three different awaits and read in different combinations.  `socket` distinguishes a client that
exists but is closed from none (`gatewayClient` stays set after `onClose`).  The backoff counter is
not bounded in the code, and all that is asked of it is the delay it gives, which no longer grows
from the seventh attempt on: `reconnectAttempt` is a class of counters of equal delay. Otherwise
instants are replaced by what the code asks of them: five minutes since the connect, ninety seconds
without an event. The command appears only as far as it uses, awaits or gives up the session.

**CommandQueue.**  `chain` is the promise chain, its head the running trigger, and `phase` the await
at which that one is.  The `finally` of an execution decrements the counter and then awaits a write,
so for that time the trigger is in the chain and no longer counted (`draining`). Sessions, reads and
requests have every outcome at any time, and the one of never settling: then the execution stays at
that await (`readHung`, `requestHung`) and the chain behind it stands. Refusals are written outside
the chain, several side by side (`overflow` counts them).  The REST client rejects every API code
but zero (rest-client.ts:194), so the `api-code-...` branches of the execution cannot be reached and
are left out.  A consumable reset occupies its place in the queue; its own transaction is one step
that sends at most once.

**ZoneCatalog.**  A promise is represented by who holds it: `pending` is the set of readers of the
pending read, `outcome` what became of the one a reader holds.  `changing` counts, for each map, the
20002 handlers between forgetting the old map and naming the new one.  A catalog is its map and
which of the two kinds of area it has: "zone" stands for all selected zones, "forbidden" for any
forbidden area.  The REST request of a read is answered, refused or hangs; the read it has opened is
settled whatever becomes of it, and only the reader that made the request stays at its await.

**ZoneTask.**  The statuses are a mode and whether there was progress since the one before;
`inferred` stands for `cleaningInferredUntilMs` being in the future, `newer` for the comparison of
the selection's `lc` with `lastExecution`.  `task` is a history variable: the selection the last
accepted command was sent with, if that was after the present selection was made.  A command's
diagnostics are written one by one when it begins and when it fails, and so are those of a command
the full queue refuses, beside them; a restart may come between any two.  Of the six states the
three are modelled that a restart reads.  Of the live-map task state, `docked` decides on the trail
alone and is in `LiveMap`.  The commands that wait in the chain are the selections
they were queued with; refusals are written one at a time here.

**ConsumableReset.**  `chain` is `consumableOperationChain`, `stage` the request of the head (the
read before, the order, the read back) and `at` its await.  `slot` is `pendingConsumableEvent`,
`answer` what became of the promise.  The robot and the cloud are part of the model: counters run,
an order may be lost, an event is sent for a request or unasked, waits on its way and once more in
its handler, and names no request.  Two counters, the one to be reset and the rest.  `SafeReset`
knows neither chain nor slot: a reset accepts a snapshot, asks once, accepts an echo and a second
snapshot, and ends.  A request may hang, and a reset that is in a delay of `waitForCommandSession`
when the adapter stops (`waiting`) stays there, since the timer of that delay is cancelled.

**LiveMap.**  An event starts a handler, a program of state writes between which it takes over a
map, adds a pose, derives the activity or renders.  ioBroker completes writes in the order of their
issue (`writes`), and a handler goes on when its own is complete, so handlers overtake each other by
the number of writes they have.  Events carry numbers, and a picture is what it was drawn from: the
events of map and zones, setting, selection and trail.  `setting` stands for the two colours and two
switches, which have the same handler.  A map may be one that cannot be decoded: it is kept as the
latest one, rendering it yields nothing or throws, and no state is written.  The selection is also
cleared by a recovered completion and by the completion timer; whether such a task is pending is
left open (it is in `ZoneTask`).

**PathRouting.**  One step is a pair of poses or one point taken from the queue of the search.
Lengths are in thousandths of a pixel: a diagonal step is rounded up (1415), the heuristic's root is
rounded down.  The code computes both in floating point, where its heuristic never exceeds the cost
of a step by more than the last digit; with the diagonal rounded down (1414) the heuristic would
drop by more than a step costs, and a search on a large map would return a detour that the code does
not.  The reference of `SearchIsExact`, `shortest`, is a recursive function over the number of steps
of a walk.  Bresenham's line, the brush, the snapping of ends and the box of the search are
operators.

**MapViewer.**  `refresh`, `toggle` and `start` are the program counters of `refreshMap`,
`toggleZone` and the handler of the start button.  Requests go up the socket in order, answers and
changes come down in order; HTTP requests are answered in any order.  A read of several states that
fails for one of them is over; its other requests stay on their way as nobody's, and so do their
answers, which change nothing.  What may be selected is one state of the model for four of the code
(areas, available IDs, the switch and the capability), which the code intersects.

**CaptureRun.**  `stage` is where the tool is.  A stream is a sequence of bytes as far as they can
be told apart: two for the body of a frame (white space in one that is blank, in a plain one the two
bytes of one character) and the two of the delimiter.  A chunk takes any number of them, so that it
may end inside a delimiter or a character.  `decode` is what `toString("utf8")` does with a chunk:
half a character at an end of it becomes U+FFFD, here a damaged symbol, which takes three bytes of
the buffer's limit.  A damaged frame is still delimited and parsed, since the delimiter and the
syntax are ASCII, but its event is not what was sent (`garbled`).  A frame names the token it is
sealed with, of which the tool keeps the last few.

**CaptureAnalysis.**  A line is a record with typed fields; a string is known by a number, and
`Payload` says what bytes a map string decodes to.  An identity that is absent or null is "unknown",
and an event with index 0 counts as one without.  The variables are the parts of the analysis.
`seen`, the lines read so far, is a history variable that the reference definitions of the
properties look at.  These are functions on sets of line numbers: the values that a field had at the
lines that give it (`valuesOf`), the lines at which it differs from the line before (`moves`), the
longest stretches of maps of one path (`starts`, `stretch`), the samples of the map block.
`SequencesReplay` also says that no type of event is forgotten: one without an entry in the end had
no value to show.

What is assumed of ioBroker, which is not part of the repository: state writes take time and do
not fail; an adapter that is stopping gets no timers (`setTimeout` and `setInterval` return
undefined) and its armed timers are cancelled; it receives no state changes after unload; writes
are completed in the order of their issue; its socket delivers in order and loses what is on its
way when it closes.

## Runs

| Run | Shows | Distinct states |
|---|---|---|
| `session` | `TypeOK`, `NeverStranded`, `OpenSocketWatched`, `QuietAfterUnload`, `Reconnects` | 136,320 |
| `queue` | `TypeOK`, `CountMatchesChain`, `SlotIsOfRunning`, `DeliverySpec`, `EverySettles` | 48,628 |
| `catalog_safety` | `TypeOK`, `NoReaderLost`, `CatalogIsOfMap` | 2,252,388 |
| `catalog_ends` | `EveryReadEnds`, `EveryCommandEnds` | 55,960 |
| `zone_task` | `TaskTypeOK`, `CompletionTimed`, `PausedSelectionKept` | 412,722 |
| `consumables` | `TypeOK`, `SlotIsOfHead`, `SafeResetSpec`, `EveryResetSettles` | 681,572 |
| `viewer` | `StartActionInStep`, `NoDowngrade`, `CatchesUp` | 827,265 |
| `routing` | `RoutesAreClear`, `TrailConnected`, `SearchIsExact` | 91,946 |
| `live_map` | `PictureIsCurrent`, `PicturesAgree`, `SettingsAgree`, `ActivityIsCurrent`, `InterruptionKeepsTrail` | 1,709,634 |
| `capture` | `ChunksDoNotMatter`, `DamagedWhereCut`, `FileIsWhole`, `CapturesToTheEnd`, `CaptureEnds` | 882,181 |
| `analysis` | `AnalysisAgrees`, `InterpretationSound` | 139,810 |
| `v_RecoversAlways` | a response that is cut off stops every recovery | violated |

Bounds, and why they are enough:

* `LongestDelay` = 7 is the code's own value (reconnect-policy.ts: 5 s doubled six times exceeds
  300 s).  From there on one attempt more changes nothing that the code can tell: the counter is
  unbounded in the code, and its classes of equal delay are what the model has.
* `MaxQueuedCommands` = 2 instead of 5: full, with one running and one behind it; `MaxTriggers` =
  4 lets the queue fill, refuse, drain and fill again.  The three buttons cover the three shapes
  of execution: guarded with confirmation, neither, and reset.  The theorems hold for every size.
* `MaxQueued` = 1 zone command waits behind the one that runs (`zone_task`): enough for a second
  one with another selection to begin while the task of the first goes on.  The two selections are
  interchangeable and the run is symmetric in them.
* `MaxChanging` = 2 handlers of changes to the same map await at once: the second meets the state
  the first has left.
* Two maps: an active one and another.  The liveness run has one, since what ends a read does not
  depend on which map it brings.  One background refresh is enough for every foreign join and
  rejection between a refresh and the command; the theorems hold for any number.
* Two selections: the one a command was queued with and another.
* Consumables: counters up to 1 (zero or not is all the code asks; echo and read-back are compared
  whole), one event on its way and one in its handler, which is enough for an event of an earlier
  or of no request to arrive where another is awaited.  The theorems hold for every bound.
* Viewer: one zone, two versions of an image, two changes or clicks and one fault in any order.  A
  click that meets a change and a lost socket needs no more.
* Routing: every floor of a map of 5 by 3 pixels whose last column is floor, and four trails
  of three poses each: between them segments that are direct, routed, too short, without a route,
  one that is too long, before another that is not, and a box both smaller and larger than the
  map.
* Live map: three events in all, two handlers at a time, two maps, drawable or not, a trail of two poses (so that the
  oldest is dropped), starting from an adapter that has just begun and from a zone task on its way
  home, which three events would not reach.
* Capture: streams of up to three frames with every kind, a buffer of ten bytes that
  streams exceed whose frames, of four bytes each, arrive at once, three cycles, two endpoints, two tokens (fewer
  than cycles, so that one is forgotten), two events.
* Analysis: captures of up to four of sixteen lines: every kind of record, absent and mistyped
  fields, values that return, paths that alternate, and map strings that share a prefix, repeat,
  and decode to nothing.

Deadlock is not checked in `queue`, which ends when the bounded number of presses has been made,
and where an adapter that stops leaves a command waiting whose timer will never fire; in
`consumables`, where a request that hangs, or a delay that was cancelled, in a stopping adapter is
such an end; in `viewer` and
`live_map`, whose changes and events are bounded; and in `capture` and `analysis`, programs that
end.  In the other modules `Stopped` (or `Drawn`) marks the one legitimate end.

Fairness: an armed timer fires and a settled promise resumes its awaits (weak fairness on the
steps of attempts, timers, watchdog, reads and executions).  `Reconnects` also needs the outside
world: strong fairness on the success of login, device list, gateway lookup and connect says that
a cloud which is asked again and again answers in the end.  Nothing is assumed of users, events,
unload or the closing of sockets.  No fairness makes a request settle: wherever the adapter
awaits one (`Session`, `CommandQueue`, `ZoneCatalog`, `ConsumableReset`) it may hang, which
disables its end for good, and `Reconnects`, `EverySettles`, `EveryReadEnds`, `EveryCommandEnds`
and `EveryResetSettles` except exactly what waits for it; `v_RecoversAlways` shows what one of
them does.  Nor does a timer fire in an adapter that stops: `EverySettles` ends with unload, and
`EveryResetSettles` excepts a reset that is in the delay of `waitForCommandSession` then.
`CatchesUp` assumes that browser and ioBroker serve what reaches them and
that the socket reconnects (its library does), and excepts a page whose answer was lost with the
socket.  `CaptureEnds` assumes timers, and nothing of the gateway.

## Where code and documents disagree

`findings` in `PROJECT.json` has the one with a run of its own, `RecoversAlways`: a response cut
off after its headers settles no promise (rest-client.ts:183), `reconnectInProgress` stays true,
and nothing reconnects any more.  More were met with TLC.  They are stated in the `MC...` modules;
naming one as a property in the configuration of its component shows the counterexample.

Connection supervisor and command queue:

* `OneRecoveryAtATime`: ADR 11:44 allows one timer or attempt; a socket that closes while an
  attempt runs arms a timer beside it (main.ts:389, 405).
* `NoSocketAfterUnload`: ADR 11:45-46; an attempt that awaits while the adapter unloads goes on
  and opens a socket nobody destroys (main.ts:340).
* `BackoffKept`: ADR 11 resets the backoff only after five stable minutes; a successful discovery
  resets it before the gateway is connected (main.ts:338).
* `WatchdogClearsSession`: ADR 11 clears the command session of a silent gateway; one that has
  sent an event keeps it (main.ts:491).
* `WatchdogClosesOnlyStale`: the watchdog awaits three writes and then destroys whichever client
  is there (main.ts:480-489).
* `AttemptRenewsSession`: a failing command clears the session a running attempt is building
  (main.ts:1455), and no other attempt follows.
* `SessionIsReady`: between login and device selection the new token and the old serial pass for a
  session that takes no commands (main.ts:303).
* `ResultNamesCommand`: a refused trigger writes `lastCommand` while the running one writes
  `lastResult` (main.ts:1103).

Zones:

* `NoStaleSelection`: ADR 21:16-17; a write is awaited between the check of the selection
  (main.ts:1202) and the request, and the handler of a new map awaits before it names it (617):
  the map may change in between.
* `CatalogReplacedAtomically`: PROTOCOL_POC.md:115-116; while the handler of a map change awaits,
  a 21004 of the old map counts as loaded, and then the merge empties its areas (main.ts:617,
  live-map.ts:368).
* `NoUnhandledRejection`: the promise of a pending read is awaited only after its REST request
  (main.ts:748-751, and likewise 816 and 1291 for consumables); rejected before, it has no
  handler, which test/mocha.setup.js:10 wants to be noticed.
* `NewerSelectionKept`: ADR 21:100-102; a selection made between the enqueuing of a cleaning and
  its acceptance is taken for the one of the task and cleared with it (main.ts:1213).
* `SelectionIsTaskScoped`: the end of the task before clears the selection of a cleaning that was
  accepted and has not begun (main.ts:898).
* `RecoveredWasAccepted`: ADR 21:97-101 has a restart recover the selection of an accepted zone
  command from the persisted diagnostics.  These are written one by one, `lastCommand` first
  (main.ts:1182-1185, 1463-1470): if the adapter stops after it has become "zoneCleaning", because
  a cleaning begins or because the full queue refuses one, the result and the time are still those
  of another, accepted command, and the selection is taken for a pending one, to be cleared at the
  next charge, or after the next cleaning.

Consumables:

* `FreshSnapshot`: ADR 17:103 asks for a fresh snapshot; an event names no request, so that one
  sent before the request was made, or in answer to another, is taken for it (main.ts:851).
* `CapabilityNeedsSession`: ADR 17:117-119 clears the capability with the session; a reset that
  has read its first snapshot writes it again although the session was cleared meanwhile
  (main.ts:1169).

Live map and routing:

* `ImageOfLatestMap`: ADR 16:55-56; of two 20002 events the handler of the older may end last,
  because that of a map change has more awaits, and its map stays (main.ts:606-652).
* `TrailOfTask`, `TrailInOrder`: ADR 16:144 scopes the trail to the task; the pose of a status is
  added after the writes of its fields (main.ts:589-601), when the next task has cleared the
  trail, or a later and shorter status has added its own.
* ADR 16:157-160 speaks of collision-free routes.  `RoutesAreClear` holds pixel by pixel; a route
  may pass diagonally between two wall pixels that touch at a corner, and a pose on a wall is
  moved up to three pixels to the nearest floor.

Viewer:

* `ClickTogglesOneZone`: ADR 21:65-67; a click writes the whole selection as the page knows it, so
  that one based on a stale read undoes what others have selected (viewer.js:482-492).
* `PollingGoesOn`: viewer.js:658 calls the polling a fallback that remains; a read whose answer is
  lost with the socket never settles, `loading` stays true, and no poll reads any more
  (viewer.js:398).

Capture tool:

* `EndpointsTriedInOrder`: tools/protocol-poc/README.md:60-61; an endpoint that cannot be
  connected to ends the capture, only one that yields no event gives way to the next
  (gateway.ts:126-132, cli.ts:207-231).
* README.md:73-74 of the tool promises the frame errors; those of an endpoint that gave way are
  forgotten (cli.ts:207-231).
* A login that fails in a later cycle aborts a long capture, which README.md:65-66 says goes on
  after reconnects; the endpoint tried second gets the full listen window although the deadline
  may be nearer.

## Proofs

Every theorem holds for all values of the constants that satisfy the named assumptions of the
modules: any number of zones, maps, buttons, events, handlers, streams and cycles, where the runs
have two or three.  The assumptions say of what kind the constants are (a bound is a positive
natural, a stream is a sequence of kinds of frames), and nothing of the system.

* `Session`: `TypeCorrect`, `NoStranding`, `OpenIsWatched`, `UnloadIsQuiet`.  Each invariant is
  inductive together with `TypeOK`: no strengthening is needed, because `NeverStranded` already
  lists every reason for which a scheduling function returns early.  The proof first says what
  scheduling and connecting achieve whichever branch they take, then goes through the actions.
* `CommandQueue`: `QueueCounted` (`TypeOK` needs `CountMatchesChain`: the counter is bounded from
  below by the chain it counts), `SlotBelongsToRunning`, and `QueueDelivers`: mapping `pending` to
  the chain without a head that is already decided, every step is `Accept`, `Send`, `GiveUp` or a
  stutter of `Delivery`.  `DeliveryInOrder` is about `Delivery` alone: the order of acceptance is
  not inductive, and `Numbered` adds that every number given so far is smaller than the next one.
  `QueueInOrder` carries it over the refinement: the queue sends first in first out and each
  trigger at most once, for queues of any size.
* `ZoneCatalog`: `TypeCorrect`, `NobodyIsLost`, `LoadedIsOfMap`, the latter two inductive with
  `TypeOK`.
* `ZoneTask`: `TaskTypeCorrect`, `CompletionIsTimed` and the action property `PausedIsKept`: a clearing is one by a status or by the completion timer, and whoever clears by
  the timer rests on `CompletionIsTimed`, since it is not armed during a pause.
* `ConsumableReset`: `TypeCorrect`, `SlotBelongsToHead` and `ResetKeepsPromise`.  The last maps
  every step to one of `SafeReset` or a stutter.  It rests on a strengthening of the slot
  invariant: what a reset has seen and asked fits the stage it is in, and an event that resolved
  its promise is of the type the stage expects.
* `LiveMap`: `TrailOfActiveTaskKept`, from the invariant that no task is active while the robot
  counts as docked, which is the only place where a sweep clears the trail.  And the four
  properties of the end, when all handlers are done: `SettingsFinallyAgree`,
  `ActivityFinallyCurrent`, `PictureFinallyCurrent` (of a latest map that can be drawn: with one
  that cannot, the picture stays as it was, and what changes meanwhile must be in the next one),
  `PicturesFinallyAgree`.  They only say
  something of quiet states, so the invariant, `LiveInv`, has to account for everything that is
  still to come.  Its parts: every write that is outstanding is the only one of one handler, whose
  program goes on as that write demands (`Handlers`: a picture is followed by its fallback, and
  that by the areas); for each state, what it will say is the value of the last write outstanding,
  or what it says already (`Latest`); a setting or the selection will say what the adapter knows,
  unless the user has written it since (`Settled`); the activity follows from what is known or
  will be derived again (`ActivityKnown`); the last picture issued shows what is known, if that can
  be drawn, or will be rendered again (`PictureKnown`); and of the three parts of a picture the later ones agree with
  the earlier (`InStep`).  That handlers overtake each other does no harm because writes are
  completed in the order of their issue: the completion of one changes nothing of what the states
  will say, and what a handler owes it still has in its program.
* `PathRouting`: `RoutesStayClear`, `TrailIsConnected` and `SearchesAreExact`, for every map,
  floor, trail and bound, from `RouteInvariant`.  Its invariant `RouteInv` has, besides the types:
  what is painted lies on the floor; each pair of poses drawn has a route between the snapped
  ends, whose lines are clear, or none (`Pairwise`); and what is true of a search under way
  (`Searching`).  This has three parts.  `previous` leads each reached point back to the start,
  each time nearer by at least the step (`Tree`), so a path can be read off.  No entry of the
  queue promises less than its point allows (`Queued`).  A point that no longer waits for its
  neighbours has left none of them farther than through it (`Explored`).  The heuristic drops by
  no more than a step costs, so that a walk shorter than the distance found would show as an entry
  of the queue better than the one taken; and a point without a distance when the queue is empty
  is out of reach.  `shortest` considers walks of as many steps as the box has floor pixels, which
  is enough, since distances fall along `previous` and so no pixel comes twice.  Simplifying a
  route keeps it because a line of Bresenham's between two points of one direction visits the
  points of that direction; and that such a line ends at its second point follows from the balance
  its error term keeps between the columns and the rows still to go.
* `MapViewer`: `SvgIsNotDowngraded`, from the invariant that the image awaited, if any, is not of
  a lower priority than the one shown.  `StartActionKeepsUp` is inductive with `Starting`: of the
  start command at most one request or answer is under way, and only while the page waits for it,
  so that no late answer ends the wait of another click.
* `CaptureRun`: `ChunksAnywhere`, `CaptureCompletes`, `FileTellsAll`.  The first needs what
  splitting a stream does: if a sequence x is followed by more, the frames of the whole are those
  of x and then those of what x leaves over, continued (`FramesJoin`, `RestJoin`), for a delimiter
  never lies across the last end in x; so that events and errors add up, and taking the stream
  chunk by chunk gives what taking it at once would give.  Chunks are decoded apart, so the buffer
  is not what was sent; but damage moves no end of a frame and leaves the kind, token and number of
  its first symbol alone, so that a damaged text has the same frames, events and errors
  (`RestUndamaged` and the lemmas before it).  The model takes the ends of frames as a
  set that is listed in order; that a finite set of naturals has one such listing is shown first,
  by induction.  `CaptureCompletes` needs that fewer events have been found than are wanted as long
  as more may come (`CountInv`).  `FileTellsAll` needs that the events found, printed or not, are
  in the order of the frames, that a new connection's frames are later than all before, and that
  no readable frame before one that is told has been left out (`NumbersInv`); then that the file
  numbers what it tells one by one and tells what has been printed (`FileInv`).
* `CaptureAnalysis`: `OnePassIsEnough` and `SignalsAreEvidence`, for any lines and any number of
  them, from `AnalysisInvariant`.  The reference definitions apply functions to the lines read,
  and one line more either leaves such a function as it is or adds one value at a greater number;
  the proofs say once what that does to a maximum, a minimum, a cardinality, the moves and the
  stretches (`Continues`), and then, for everything the analysis keeps, that its update is the one
  that the longer function asks for.  `AnalysisInv` has a part for each: the count of events and
  what the lines are (`ReadInv`); the sequences of a status, of a map and of other types
  (`StatusInv`, `MapInv`, `ExtraInv`); the segments, whose last one is of the last map
  (`SegmentInv`); first, previous and number of the samples, how many neighbours differ, and the
  longest prefix common to them (`BlockInv`); that a range's ends are the least and greatest number
  seen (`RangesInv`); and the interpretation, once it is made (`InterpretationInv`).  That two
  samples differ anywhere when two neighbours do, and that a field with one value has no change,
  joins what one pass counts with what the property asks.

Induction is a statement about sets here: a set of naturals that has zero and with every number
the next one has all of them (`SetInduction`), from "<" being well-founded.  The library's
theorems on induction take an operator as a parameter, which the installed provers cannot
instantiate.

Only model-checked: `Reconnects`, `EverySettles`, `EveryReadEnds`, `EveryCommandEnds`,
`EveryResetSettles`, `CatchesUp` and `CaptureEnds`, since liveness under fairness is outside what
TLAPS 1.4.5 proves, and `DamagedWhereCut`, which says which events of a connection are damaged.
Every other property of a passing run is a theorem.

## Not modelled

* Decoding of occupancy maps, colours, SVG text and PNG encoding (live-map.ts, map.ts), object
  definitions, most of the projector, maintenance messages: computation on data, or single writes,
  without state of the kind above.
* The projection of the zone-cleaning capability and of the safety states.  A catalog handler that
  awaited across a clearing of the session writes the capability TRUE again (main.ts:571), as the
  consumable reset does with its own.
* The gateway client's framing and decryption.  Its code is that of the capture tool, whose
  framing is modelled in `CaptureRun`: like that one, it checks the buffer limit before it splits
  off complete frames (gateway-client.ts:47) and decodes each chunk on its own (46), so that a
  chunk that ends within a character of several bytes damages it.  The model has characters of one
  and of two bytes.
* In the viewer: zone labels, colours, zooming and panning, resizing.  In the capture tool: the
  selection of a device, redaction and printing.  In the analysis: area hints and vertices
  (569-693), captures given in several files, and an `infoType` that is a string of digits.
* The other tools: pixel and byte computations (`map-renderer`, `map-format-analysis`,
  `status-candidates`) and one-shot requests.
* One module for the whole adapter.  The components meet in few places (a session, a gateway
  event, a status), and each model lets the others do at any time whatever they may do there,
  which is weaker than a composition assumes.
