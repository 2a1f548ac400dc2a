--------------------------- MODULE ConsumableReset ---------------------------
(***************************************************************************)
(* Consumable reads and resets of src/main.ts and domain/consumables.ts.   *)
(* Operations wait for each other in consumableOperationChain: background  *)
(* reads, and the one reset the command queue executes.  Each request      *)
(* opens the only slot for an awaited 21015 or 21016 event, sends a REST   *)
(* request and then awaits the event; events are matched to the slot by    *)
(* their type alone, after the handler has awaited its state writes.       *)
(***************************************************************************)
EXTENDS Naturals, Sequences

CONSTANTS
    MaxCount,      \* bound: the counters of the robot run no further
    MaxMessages    \* bound: events on their way, and events in their handlers

ASSUME BoundAssumption == MaxCount \in Nat \ {0} /\ MaxMessages \in Nat \ {0}

VARIABLES
    stopping,     \* shuttingDown
    session,      \* a command session is present and commandEnabled
    capability,   \* the state capabilities.consumableReset
    reset,        \* where the reset of the command queue is
    chain,        \* consumableOperationChain: the operations not yet settled
    stage, at,    \* of the head: which of its requests, and which await in it
    slot,         \* the type pendingConsumableEvent expects
    answer,       \* what became of the promise of that event
    brought,      \* the event that resolved it
    seen,         \* before, echoed and persisted of runSafeConsumableReset
    asked,        \* what the reset has asked the robot to store
    result,       \* consumables.reset.lastResult; "progress" before the end
    robot,        \* the counters of the robot
    orders,       \* requests the cloud has not yet passed on to it
    wire,         \* events on their way to the adapter
    handling      \* events whose handler awaits its state writes

headVars == <<chain, stage, at>>
slotVars == <<slot, answer, brought>>
resetVars == <<seen, asked, result>>
robotVars == <<robot, orders, wire>>
vars == <<stopping, session, capability, reset, headVars, slotVars, resetVars,
          robotVars, handling>>

Counts == 0..MaxCount
Snapshot == [target : Counts, rest : Counts]
Event == [type : {21015, 21016}, snap : Snapshot]
NoEvent == [type |-> 21015, snap |-> [target |-> 0, rest |-> 0]]

\* An event remembers whether the robot sent it after the request that awaits one.
Message == [event : Event, fresh : BOOLEAN]
Order == [type : {21015}] \cup [type : {21016}, snap : Snapshot]

\* buildConsumableResetRequest sends the whole snapshot back.
zeroed(s) == [s EXCEPT !.target = 0]

Init ==
    /\ stopping = FALSE /\ session = FALSE /\ capability = FALSE /\ reset = "idle"
    /\ chain = <<>> /\ stage = "none" /\ at = "none"
    /\ slot = 0 /\ answer = "none" /\ brought = NoEvent
    /\ seen = <<>> /\ asked = <<>> /\ result = "none"
    /\ robot \in Snapshot /\ orders = {} /\ wire = <<>> /\ handling = <<>>

-----------------------------------------------------------------------------
(* The chain *)

\* The reset has its turn in the command queue and writes "waiting-for-session".
executeConsumableReset ==
    /\ reset = "idle" /\ ~stopping
    /\ reset' = "announced" /\ result' = "progress"
    /\ UNCHANGED <<stopping, session, capability, headVars, slotVars, seen, asked,
                   robotVars, handling>>

\* An operation is appended; if the chain was empty it begins at once.
runConsumableOperation(o) ==
    /\ chain' = Append(chain, o)
    /\ IF chain = <<>> THEN stage' = "before" /\ at' = "start"
                       ELSE UNCHANGED <<stage, at>>

\* waitForCommandSession looks for a session at once, and then at the end of each
\* commandDelay.  The timers of a stopping adapter do not fire: a reset that is in
\* such a delay at unload stays there for good.
looksForSession == reset = "announced" \/ (reset = "waiting" /\ ~stopping)

SessionFound ==
    /\ looksForSession /\ session /\ reset' = "chained"
    /\ runConsumableOperation("reset")
    /\ UNCHANGED <<stopping, session, capability, slotVars, resetVars, robotVars, handling>>

DelayBegins ==
    /\ reset = "announced" /\ ~session /\ ~stopping /\ reset' = "waiting"
    /\ UNCHANGED <<stopping, session, capability, headVars, slotVars, resetVars,
                   robotVars, handling>>

\* No credentials, no session in time, an adapter that stops before the first delay, or
\* a device that takes no commands: setConsumableResetFailure.
NoSession ==
    /\ looksForSession /\ ~session /\ reset' = "idle" /\ result' = "failed"
    /\ UNCHANGED <<stopping, session, capability, headVars, slotVars, seen, asked,
                   robotVars, handling>>

\* Mutant: a background read does not look whether one is under way.
refreshUnthrottled ==
    /\ session /\ ~stopping /\ runConsumableOperation("refresh")
    /\ UNCHANGED <<stopping, session, capability, reset, slotVars, resetVars, robotVars,
                   handling>>

\* auxiliaryReadInProgress admits one background read at a time.
refreshConsumables ==
    /\ session /\ ~stopping /\ \A i \in 1..Len(chain) : chain[i] # "refresh"
    /\ runConsumableOperation("refresh")
    /\ UNCHANGED <<stopping, session, capability, reset, slotVars, resetVars, robotVars,
                   handling>>

\* The head is settled; the next operation begins.  A reset reports its result r.
settleHead(r) ==
    /\ chain' = Tail(chain)
    /\ IF Tail(chain) = <<>> THEN stage' = "none" /\ at' = "none"
                             ELSE stage' = "before" /\ at' = "start"
    /\ IF Head(chain) = "reset"
       THEN reset' = "idle" /\ result' = r /\ seen' = <<>> /\ asked' = <<>>
       ELSE UNCHANGED <<reset, resetVars>>

-----------------------------------------------------------------------------
(* The slot *)

expected == IF stage = "send" THEN 21016 ELSE 21015

\* Mutant: an event of either type settles the slot.
resolveAnyConsumableEvent(m) ==
    IF slot # 0 THEN slot' = 0 /\ answer' = "resolved" /\ brought' = m.event
    ELSE UNCHANGED slotVars

resolvePendingConsumableEvent(m) ==
    IF slot = m.event.type THEN slot' = 0 /\ answer' = "resolved" /\ brought' = m.event
    ELSE UNCHANGED slotVars

rejectPendingConsumableEvent ==
    IF slot # 0 THEN slot' = 0 /\ answer' = "rejected" /\ UNCHANGED brought
    ELSE UNCHANGED slotVars

\* Mutant: the timer that fires forgets the slot.
timeoutKeepsSlot ==
    /\ slot # 0 /\ ~stopping /\ answer = "waiting" /\ answer' = "rejected"
    /\ UNCHANGED <<stopping, session, capability, reset, headVars, slot, brought, resetVars,
                   robotVars, handling>>

\* A stopping adapter gets no timer: the promise is rejected and the slot stays empty.
awaitNextConsumableEvent(t) ==
    /\ slot = 0 /\ UNCHANGED brought
    /\ IF stopping THEN answer' = "rejected" /\ UNCHANGED slot
                   ELSE slot' = t /\ answer' = "waiting"

\* Whatever was sent before this request does not answer it.
aged(ms) == [i \in 1..Len(ms) |-> [ms[i] EXCEPT !.fresh = FALSE]]

\* requestConsumableSnapshot and sendConsumableReset up to the await of their request,
\* after the progress written before them.
Request ==
    /\ at = "start" /\ at' = "rest"
    /\ awaitNextConsumableEvent(expected)
    /\ wire' = aged(wire) /\ handling' = aged(handling)
    /\ IF stage = "send"
       THEN /\ asked' = Append(asked, zeroed(seen[1].snap))
            /\ orders' = orders \cup {[type |-> 21016, snap |-> zeroed(seen[1].snap)]}
       ELSE orders' = orders \cup {[type |-> 21015]} /\ UNCHANGED asked
    /\ UNCHANGED <<stopping, session, capability, reset, chain, stage, seen, result, robot>>

RestResolves ==
    /\ at = "rest" /\ at' = "event"
    /\ UNCHANGED <<stopping, session, capability, reset, chain, stage, slotVars,
                   resetVars, robotVars, handling>>

\* The request failed or was refused; both catch clauses give the slot up.
RestFails ==
    /\ at = "rest"
    /\ slot' = 0 /\ answer' = "none" /\ brought' = NoEvent
    /\ settleHead("failed")
    /\ UNCHANGED <<stopping, session, capability, robotVars, handling>>

\* A response that is cut off: the promise of the request never settles.
RestHangs ==
    /\ at = "rest" /\ at' = "hung"
    /\ UNCHANGED <<stopping, session, capability, reset, chain, stage, slotVars,
                   resetVars, robotVars, handling>>

EventTimesOut ==
    /\ slot # 0 /\ ~stopping
    /\ rejectPendingConsumableEvent
    /\ UNCHANGED <<stopping, session, capability, reset, headVars, resetVars, robotVars,
                   handling>>

-----------------------------------------------------------------------------
(* runSafeConsumableReset *)

\* The await of the event ends, and nobody holds its promise any more.
consumed == answer' = "none" /\ brought' = NoEvent /\ UNCHANGED slot

OperationRejected ==
    /\ at = "event" /\ answer = "rejected"
    /\ consumed /\ settleHead("failed")
    /\ UNCHANGED <<stopping, session, capability, robotVars, handling>>

RefreshAnswered ==
    /\ at = "event" /\ answer = "resolved" /\ Head(chain) = "refresh"
    /\ consumed /\ settleHead("none")
    /\ UNCHANGED <<stopping, session, capability, robotVars, handling>>

\* readSnapshot writes the capability and awaits that.
SnapshotRead ==
    /\ at = "event" /\ answer = "resolved" /\ consumed /\ Head(chain) = "reset" /\ stage # "send"
    /\ at' = "capability" /\ capability' = TRUE
    /\ seen' = Append(seen, brought)
    /\ UNCHANGED <<stopping, session, reset, chain, stage, asked, result,
                   robotVars, handling>>

\* Mutant: the echo alone verifies.
echoVerifies ==
    /\ at = "event" /\ answer = "resolved" /\ consumed /\ Head(chain) = "reset" /\ stage = "send"
    /\ settleHead(IF <<brought.snap>> = asked THEN "verified" ELSE "failed")
    /\ UNCHANGED <<stopping, session, capability, robotVars, handling>>

BeforeRead ==
    /\ at = "capability" /\ stage = "before"
    /\ IF seen[1].snap.target = 0
       THEN settleHead("already-zero")
       ELSE stage' = "send" /\ at' = "start" /\ UNCHANGED <<reset, chain, resetVars>>
    /\ UNCHANGED <<stopping, session, capability, slotVars, robotVars, handling>>

\* isConsumableResetConfirmation, field by field against the snapshot before.
Echoed ==
    /\ at = "event" /\ answer = "resolved" /\ consumed /\ Head(chain) = "reset" /\ stage = "send"
    /\ IF brought.snap = zeroed(seen[1].snap)
       THEN /\ stage' = "readback" /\ at' = "start"
            /\ seen' = Append(seen, brought)
            /\ UNCHANGED <<reset, chain, asked, result>>
       ELSE settleHead("failed")
    /\ UNCHANGED <<stopping, session, capability, robotVars, handling>>

\* consumableCounterSnapshotsEqual with what was asked for.
ReadBack ==
    /\ at = "capability" /\ stage = "readback"
    /\ settleHead(IF seen[3].snap = zeroed(seen[1].snap) THEN "verified" ELSE "failed")
    /\ UNCHANGED <<stopping, session, capability, slotVars, robotVars, handling>>

-----------------------------------------------------------------------------
(* The robot and the gateway *)

\* The robot works: counters run.
RobotWorks ==
    /\ \E s \in Snapshot :
        /\ s.target \in {robot.target, robot.target + 1}
        /\ s.rest = robot.rest + 1
        /\ robot' = s
    /\ UNCHANGED <<stopping, session, capability, reset, headVars, slotVars, resetVars,
                   orders, wire, handling>>

\* An order reaches the robot, which stores what it is told and sends an event; or it
\* or its event is lost, or lacks a field (normalizeConsumableCounterSnapshot).
RobotObeys(o) ==
    /\ orders' = orders \ {o}
    /\ robot' = IF o.type = 21016 THEN o.snap ELSE robot
    /\ \/ /\ Len(wire) < MaxMessages
          /\ wire' = Append(wire, [event |-> [type |-> o.type, snap |-> robot'],
                                   fresh |-> TRUE])
       \/ UNCHANGED wire
    /\ UNCHANGED <<stopping, session, capability, reset, headVars, slotVars, resetVars,
                   handling>>

OrderLost(o) ==
    /\ orders' = orders \ {o}
    /\ UNCHANGED <<stopping, session, capability, reset, headVars, slotVars, resetVars,
                   robot, wire, handling>>

\* The handler of 21015 and 21016 begins with projectConsumables.
EventArrives ==
    /\ wire # <<>> /\ Len(handling) < MaxMessages
    /\ wire' = Tail(wire) /\ handling' = Append(handling, Head(wire))
    /\ UNCHANGED <<stopping, session, capability, reset, headVars, slotVars, resetVars,
                   robot, orders>>

\* The counters are written.  A snapshot of an enabled session writes the capability,
\* and the write it awaits ends before the next event's writes do.
EventProjected ==
    /\ handling # <<>> /\ handling' = Tail(handling)
    /\ LET m == Head(handling) IN
        /\ capability' = (capability \/ (m.event.type = 21015 /\ session))
        /\ resolvePendingConsumableEvent(m)
    /\ UNCHANGED <<stopping, session, reset, headVars, resetVars, robotVars>>

\* onClose, and the idle watchdog.
GatewayCloses ==
    /\ ~stopping
    /\ rejectPendingConsumableEvent /\ wire' = <<>>
    /\ UNCHANGED <<stopping, session, capability, reset, headVars, resetVars, robot,
                   orders, handling>>

SessionArrives ==
    /\ ~session /\ ~stopping /\ session' = TRUE
    /\ UNCHANGED <<stopping, capability, reset, headVars, slotVars, resetVars, robotVars,
                   handling>>

\* The pending event outlives the session.
clearCommandSession ==
    /\ session /\ session' = FALSE /\ capability' = FALSE
    /\ UNCHANGED <<stopping, reset, headVars, slotVars, resetVars, robotVars, handling>>

\* Mutant: the event is left to its timer, which an adapter that stops has no more.
unloadKeepsEvent ==
    /\ ~stopping /\ stopping' = TRUE
    /\ session' = FALSE /\ capability' = FALSE /\ wire' = <<>>
    /\ UNCHANGED <<reset, headVars, slotVars, resetVars, robot, orders, handling>>

onUnload ==
    /\ ~stopping /\ stopping' = TRUE
    /\ rejectPendingConsumableEvent
    /\ session' = FALSE /\ capability' = FALSE /\ wire' = <<>>
    /\ UNCHANGED <<reset, headVars, resetVars, robot, orders, handling>>

-----------------------------------------------------------------------------
Operations == Request \/ RestResolves \/ RestFails \/ RestHangs \/ EventTimesOut
              \/ OperationRejected \/ RefreshAnswered \/ SnapshotRead \/ BeforeRead
              \/ Echoed \/ ReadBack
Gateway == EventArrives \/ EventProjected \/ GatewayCloses
Robot == RobotWorks \/ \E o \in orders : RobotObeys(o) \/ OrderLost(o)
Next == executeConsumableReset \/ SessionFound \/ DelayBegins \/ NoSession \/ refreshConsumables
        \/ Operations \/ Robot \/ Gateway
        \/ SessionArrives \/ clearCommandSession \/ onUnload

Spec == Init /\ [][Next]_vars

\* Timers fire unless the adapter stops, requests end (or hang) and settled promises
\* resume their awaits.
FairSpec ==
    /\ Spec
    /\ WF_vars(SessionFound \/ DelayBegins \/ NoSession) /\ WF_vars(Request)
    /\ WF_vars(RestResolves \/ RestFails \/ RestHangs) /\ WF_vars(EventTimesOut)
    /\ WF_vars(OperationRejected \/ RefreshAnswered \/ SnapshotRead \/ BeforeRead
               \/ Echoed \/ ReadBack)

-----------------------------------------------------------------------------
TypeOK ==
    /\ stopping \in BOOLEAN /\ session \in BOOLEAN /\ capability \in BOOLEAN
    /\ reset \in {"idle", "announced", "waiting", "chained"}
    /\ chain \in Seq({"refresh", "reset"})
    /\ \A i, j \in 1..Len(chain) : chain[i] = chain[j] => i = j
    /\ stage \in {"none", "before", "send", "readback"}
    /\ at \in {"none", "start", "rest", "hung", "event", "capability"}
    /\ slot \in {0, 21015, 21016}
    /\ answer \in {"none", "waiting", "rejected", "resolved"} /\ brought \in Event
    /\ seen \in Seq(Event) /\ asked \in Seq(Snapshot)
    /\ result \in {"none", "progress", "failed", "verified", "already-zero"}
    /\ robot \in Snapshot /\ orders \subseteq Order
    /\ wire \in Seq(Message) /\ handling \in Seq(Message)

Requested == at \in {"rest", "hung", "event"}

\* The slot is that of the head's request for as long as the promise of its event is
\* unresolved: an operation that awaits an event always has a timer, and the error
\* "another operation is already pending" is never thrown.
SlotIsOfHead ==
    /\ (slot # 0) = (Requested /\ answer = "waiting")
    /\ slot # 0 => slot = expected

Promise == INSTANCE SafeReset WITH open <- reset # "idle"

\* A reset keeps the promise of docs/decisions/0017: one write, of the snapshot it read
\* with the selected counter at zero; verified only by the echo of that write's type and
\* by a second snapshot that both say what was asked.
SafeResetSpec == Promise!Spec

\* The command queue gets every reset back, unless a request of it or of an operation
\* before it never settles, or the adapter stops while the reset waits for a session.
EveryResetSettles ==
    (reset # "idle") ~> (reset = "idle" \/ at = "hung" \/ (stopping /\ reset = "waiting"))
=============================================================================
