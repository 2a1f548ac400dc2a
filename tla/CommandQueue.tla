----------------------------- MODULE CommandQueue -----------------------------
(***************************************************************************)
(* The bounded command queue of src/main.ts: the promise chain that runs   *)
(* one accepted trigger after the other, the life of the running command   *)
(* from the session wait to its result, the slot in which it waits for a   *)
(* confirming 20001 status, and the result states a user sees.  Whether a  *)
(* session exists, a catalog read succeeds and a request is answered is    *)
(* left open; every await of a command is one value of `phase'.            *)
(***************************************************************************)
EXTENDS Naturals, Sequences

CONSTANTS
    Commands,            \* the commands a button starts
    Guarded,             \* those that read the zone catalog first
    Confirmable,         \* those that supportsStatusConfirmation names
    Resets,              \* consumable resets: their own transaction and result states
    MaxQueuedCommands,   \* MAX_QUEUED_COMMANDS
    MaxTriggers          \* bound: how often buttons are pressed

ASSUME QueueAssumption ==
    /\ Guarded \subseteq Commands /\ Confirmable \subseteq Commands
    /\ Resets \subseteq Commands /\ "none" \notin Commands
    /\ MaxQueuedCommands \in Nat \ {0} /\ MaxTriggers \in Nat

VARIABLES
    shuttingDown,
    accepted,             \* triggers that entered the chain; numbers them
    presses,              \* buttons pressed
    queuedCommandCount,
    chain,                \* commandExecutionChain: the triggers not settled, in order
    phase,                \* the await at which the first of them is
    pendingConfirmation,  \* the command in the confirmation slot, or NoCommand
    confirmation,         \* the promise of the running command's confirmation
    sent,                 \* the triggers whose request was sent
    lastCommand, lastResult,  \* the two result states
    overflow              \* how many refusals of the full queue are being written

resultVars == <<lastCommand, lastResult>>
queueVars == <<accepted, presses, queuedCommandCount, chain>>
confirmVars == <<pendingConfirmation, confirmation>>
vars == <<shuttingDown, queueVars, phase, confirmVars, sent, resultVars, overflow>>

NoCommand == "none"
Running == Head(chain).command

\* The awaits of executeCommand, executeZoneCleaning and executeConsumableReset.
\* In the undecided ones the command may still be sent.
Undecided == {"idle", "named", "session", "validating", "sending", "resetting", "readHung"}
Decided == {"requested", "accepted", "confirming", "reported", "requestHung",
            "failing", "blocking", "failed", "reset", "draining"}

Init ==
    /\ shuttingDown = FALSE /\ accepted = 0 /\ presses = 0
    /\ queuedCommandCount = 0 /\ chain = <<>> /\ phase = "idle"
    /\ pendingConfirmation = NoCommand /\ confirmation = "none" /\ sent = <<>>
    /\ lastCommand = NoCommand /\ lastResult = "none" /\ overflow = 0

-----------------------------------------------------------------------------
(* The chain *)

\* Mutant: the bound is checked against the triggers behind the running one.
EnqueueOneMore(c) ==
    /\ ~shuttingDown /\ presses < MaxTriggers /\ presses' = presses + 1
    /\ queuedCommandCount <= MaxQueuedCommands
    /\ queuedCommandCount' = queuedCommandCount + 1
    /\ chain' = Append(chain, [id |-> accepted, command |-> c])
    /\ accepted' = accepted + 1
    /\ UNCHANGED <<shuttingDown, phase, confirmVars, sent, resultVars, overflow>>

Enqueue(c) ==
    /\ ~shuttingDown /\ presses < MaxTriggers /\ presses' = presses + 1
    /\ queuedCommandCount < MaxQueuedCommands
    /\ queuedCommandCount' = queuedCommandCount + 1
    /\ chain' = Append(chain, [id |-> accepted, command |-> c])
    /\ accepted' = accepted + 1
    /\ UNCHANGED <<shuttingDown, phase, confirmVars, sent, resultVars, overflow>>

\* The queue is full: setCommandFailure writes the command, awaits, and writes the
\* result; several refusals may be at that await.  A refused reset has its own states.
Refuse(c) ==
    /\ ~shuttingDown /\ presses < MaxTriggers /\ presses' = presses + 1
    /\ queuedCommandCount >= MaxQueuedCommands
    /\ IF c \in Resets THEN UNCHANGED <<overflow, lastCommand>>
                       ELSE overflow' = overflow + 1 /\ lastCommand' = c
    /\ UNCHANGED <<shuttingDown, accepted, queuedCommandCount, chain, phase,
                   confirmVars, sent, lastResult>>

RefusalWritten ==
    /\ overflow > 0 /\ overflow' = overflow - 1 /\ lastResult' = "failed"
    /\ UNCHANGED <<shuttingDown, queueVars, phase, confirmVars, sent, lastCommand>>

\* Mutant: the decrement is left to the next trigger.
SettleUncounted ==
    /\ chain # <<>>
    /\ \/ phase = "confirming" /\ confirmation = "none"
       \/ phase \in {"reported", "failed", "reset", "resetting"}
    /\ phase' = "draining"
    /\ UNCHANGED <<shuttingDown, queueVars, confirmVars, sent, resultVars, overflow>>

\* The execution settles; `finally' decrements and then awaits a write.  An
\* accepted command that no status confirms ends without another result, a reset
\* whatever became of its transaction.
Settle ==
    /\ chain # <<>>
    /\ \/ phase = "confirming" /\ confirmation = "none"
       \/ phase \in {"reported", "failed", "reset", "resetting"}
    /\ phase' = "draining" /\ queuedCommandCount' = queuedCommandCount - 1
    /\ UNCHANGED <<shuttingDown, accepted, presses, chain, confirmVars, sent,
                   resultVars, overflow>>

\* The write is done and the chain goes on with the next trigger.
Drained ==
    /\ chain # <<>> /\ phase = "draining"
    /\ phase' = "idle" /\ chain' = Tail(chain) /\ confirmation' = "none"
    /\ UNCHANGED <<shuttingDown, accepted, presses, queuedCommandCount,
                   pendingConfirmation, sent, resultVars, overflow>>

-----------------------------------------------------------------------------
(* The running command *)

\* The running command goes from await p to await q.
Moves(p, q) ==
    /\ chain # <<>> /\ phase = p /\ phase' = q
    /\ UNCHANGED <<shuttingDown, queueVars, overflow>>

Begin ==
    /\ \/ Moves("idle", "named") /\ Running \notin Resets /\ lastCommand' = Running
       \/ Moves("idle", "resetting") /\ Running \in Resets /\ UNCHANGED lastCommand
    /\ UNCHANGED <<confirmVars, sent, lastResult>>

ReportWaiting ==
    /\ Moves("named", "session") /\ lastResult' = "waiting-for-session"
    /\ UNCHANGED <<confirmVars, sent, lastCommand>>

SessionReady ==
    /\ \/ Moves("session", "validating") /\ Running \in Guarded
          /\ lastResult' = "validating"
       \/ Moves("session", "sending") /\ Running \notin Guarded
          /\ lastResult' = "sending"
    /\ UNCHANGED <<confirmVars, sent, lastCommand>>

Validated ==
    /\ Moves("validating", "sending") /\ lastResult' = "sending"
    /\ UNCHANGED <<confirmVars, sent, lastCommand>>

\* Mutant: a request whose outcome is unknown is sent once more.
SendOrRetry ==
    /\ Moves("sending", "requested") \/ Moves("requested", "requested")
       \/ Moves("resetting", "reset")
    /\ Len(sent) < MaxTriggers
    /\ sent' = Append(sent, Head(chain)) /\ UNCHANGED <<confirmVars, resultVars>>

\* sendCommand, for a reset within its transaction.
Send ==
    /\ Moves("sending", "requested") \/ Moves("resetting", "reset")
    /\ sent' = Append(sent, Head(chain)) /\ UNCHANGED <<confirmVars, resultVars>>

\* The request is answered with success; waitForCommandConfirmation.
Answered ==
    /\ Moves("requested", "accepted")
    /\ IF Running \in Confirmable
       THEN pendingConfirmation' = Running /\ confirmation' = "pending"
       ELSE UNCHANGED confirmVars
    /\ UNCHANGED <<sent, resultVars>>

ReportAccepted ==
    /\ Moves("accepted", "confirming") /\ lastResult' = "api-accepted"
    /\ UNCHANGED <<confirmVars, sent, lastCommand>>

\* The await of the confirmation ends.
ReportConfirmation ==
    /\ Moves("confirming", "reported")
    /\ \/ confirmation = "confirmed" /\ lastResult' = "status-confirmed"
       \/ confirmation = "unconfirmed" /\ lastResult' = "api-accepted-unconfirmed"
    /\ UNCHANGED <<confirmVars, sent, lastCommand>>

\* Mutant: the slot is emptied, the promise is not resolved.
cancelForgets == pendingConfirmation' = NoCommand /\ UNCHANGED confirmation

cancelPendingCommandConfirmation ==
    /\ pendingConfirmation' = NoCommand
    /\ confirmation' = IF pendingConfirmation = NoCommand THEN confirmation
                                                          ELSE "unconfirmed"

\* The catch block: no session, no zone selected, the catalog read or the request
\* failed; or the forbidden-zone protection blocks.
Fail ==
    /\ \/ \E p \in {"session", "validating", "requested"} : Moves(p, "failing")
       \/ Moves("validating", "blocking")
    /\ cancelPendingCommandConfirmation /\ lastCommand' = Running
    /\ UNCHANGED <<sent, lastResult>>

\* A response is cut off after its headers and the promise of its request() never
\* settles: that of the catalog read, of the command, or of a reset before or after
\* its order.  The execution stays at that await, and the chain with it.
RequestHangs ==
    /\ \/ \E p \in {"validating", "resetting"} : Moves(p, "readHung")
       \/ \E p \in {"requested", "reset"} : Moves(p, "requestHung")
    /\ UNCHANGED <<confirmVars, sent, resultVars>>

ReportFailure ==
    /\ \/ Moves("failing", "failed") /\ lastResult' = "failed"
       \/ Moves("blocking", "failed") /\ lastResult' = "safety-blocked"
    /\ UNCHANGED <<confirmVars, sent, lastCommand>>

-----------------------------------------------------------------------------
(* The confirmation slot *)

\* A 20001 status that confirms command c.
confirmPendingCommand(c) ==
    /\ pendingConfirmation = c
    /\ pendingConfirmation' = NoCommand /\ confirmation' = "confirmed"
    /\ UNCHANGED <<shuttingDown, queueVars, phase, sent, resultVars, overflow>>

\* Twenty seconds are over.  The timers of a stopping adapter do not fire.
ConfirmationTimesOut ==
    /\ ~shuttingDown /\ pendingConfirmation # NoCommand
    /\ cancelPendingCommandConfirmation
    /\ UNCHANGED <<shuttingDown, queueVars, phase, sent, resultVars, overflow>>

onUnload ==
    /\ ~shuttingDown /\ shuttingDown' = TRUE
    /\ cancelPendingCommandConfirmation
    /\ UNCHANGED <<queueVars, phase, sent, resultVars, overflow>>

-----------------------------------------------------------------------------
RequestEnds == Answered \/ (phase = "requested" /\ Fail)
ReadEnds == Validated \/ (phase = "validating" /\ Fail)
WaitEnds == SessionReady \/ (phase = "session" /\ Fail)

Advance ==
    \/ Begin \/ ReportWaiting \/ WaitEnds \/ ReadEnds \/ Send \/ RequestEnds
    \/ ReportAccepted \/ ReportConfirmation \/ ReportFailure \/ Settle \/ Drained

Next ==
    \/ \E c \in Commands : Enqueue(c) \/ Refuse(c) \/ confirmPendingCommand(c)
    \/ RefusalWritten \/ Advance \/ RequestHangs \/ ConfirmationTimesOut \/ onUnload

Spec == Init /\ [][Next]_vars

\* Awaits resume: a session wait ends after 15 s, a confirmation after 20 s, a catalog
\* read and a request when they are answered, refused or timed out, unless they hang.
FairSpec == Spec /\ WF_vars(Advance) /\ WF_vars(ConfirmationTimesOut)

-----------------------------------------------------------------------------
Trigger == [id : Nat, command : Commands]

TypeOK ==
    /\ shuttingDown \in BOOLEAN /\ accepted \in Nat /\ presses \in Nat
    /\ queuedCommandCount \in 0..MaxQueuedCommands
    /\ chain \in Seq(Trigger) /\ sent \in Seq(Trigger)
    /\ phase \in Undecided \cup Decided
    /\ chain = <<>> => phase = "idle"
    /\ pendingConfirmation \in Commands \cup {NoCommand}
    /\ confirmation \in {"none", "pending", "confirmed", "unconfirmed"}
    /\ lastCommand \in Commands \cup {NoCommand}
    /\ lastResult \in {"none", "waiting-for-session", "validating", "sending",
                      "api-accepted", "status-confirmed", "api-accepted-unconfirmed",
                      "failed", "safety-blocked"}
    /\ overflow \in Nat

\* The counter that bounds the queue and is shown as queueDepth counts exactly the
\* triggers not yet settled, on every path through the catch block and `finally':
\* it never leaks a slot, and never frees one of a command that still runs.
CountMatchesChain ==
    Len(chain) = queuedCommandCount + (IF phase = "draining" THEN 1 ELSE 0)

\* The confirmation slot holds the command that runs, and holds it exactly while
\* that command has a promise that is still to be resolved: no status confirms
\* another command, and no command waits for a slot that was given away.
SlotIsOfRunning ==
    /\ confirmation = "pending" <=> pendingConfirmation # NoCommand
    /\ pendingConfirmation # NoCommand =>
          /\ chain # <<>> /\ phase \in {"accepted", "confirming"}
          /\ pendingConfirmation = Running

\* Every accepted trigger is settled in the end, unless the adapter stops or a request
\* of the running command never settles, which blocks the chain for good: no failure,
\* refusal or missing status blocks those behind it.
Waits(i) == \E k \in 1..Len(chain) : chain[k].id = i
Hung == phase \in {"readHung", "requestHung"}
EverySettles ==
    \A i \in 0..(MaxTriggers - 1) : Waits(i) ~> (shuttingDown \/ Hung \/ ~Waits(i))

\* What the queue does with accepted triggers is what Delivery allows.
undecided == IF chain # <<>> /\ phase \in Decided THEN Tail(chain) ELSE chain
D == INSTANCE Delivery WITH pending <- undecided
DeliverySpec == D!Spec
=============================================================================
