------------------------------- MODULE ZoneTask -------------------------------
(***************************************************************************)
(* The life of a zone selection and of a cleaning task in src/main.ts and  *)
(* src/domain: the user selects zones, a queued command cleans them, the   *)
(* 20001 statuses of the robot tell when the task is over, and then the    *)
(* selection is cleared, at once or by a timer; a restart recovers what is *)
(* pending from the persisted command diagnostics.  Each handler does its  *)
(* work on this state between two awaits.                                  *)
(***************************************************************************)
EXTENDS Integers, Sequences

CONSTANTS
    Selections,   \* the sets of zones a user selects
    Nothing,      \* the empty selection
    MaxQueued     \* of the zone commands that wait for the one that runs

ASSUME SelectionAssumption == Nothing \notin Selections /\ MaxQueued \in Nat

VARIABLES
    selected,       \* selectedZoneIds, and commands.zones.selectedIds
    queued,         \* the selections of the zone commands that wait in the chain
    running,        \* the command that runs: "none", "zoneCleaning" or "other"
    step,           \* where it is
    write,          \* the next of the diagnostics it, or its failure, writes
    wanted,         \* the selection a zone command was queued with
    refusal,        \* the next of the diagnostics of a command the full queue refuses,
                    \* 1 when none is being written
    completionPending, activityObserved, paused, timer,
    returning, active,   \* the live-map task state, but for what decides on the trail alone
    inferred,       \* cleaningInferredUntilMs is in the future
    mode,           \* of latestRobotStatus
    lastCommand, lastResult,     \* persisted: of a zone command, and accepted
    newer,          \* the selection changed after lastExecution
    task            \* the selection of the last zone command that was accepted since
                    \* the present selection was made, if one was (history)

pendingVars == <<completionPending, activityObserved, paused, timer>>
taskVars == <<returning, active>>
chainVars == <<queued, running, step, write, wanted>>
persistedVars == <<lastCommand, lastResult, newer>>
allTaskVars == <<selected, chainVars, refusal, pendingVars, taskVars, inferred, mode,
                 persistedVars, task>>

\* "charge" is charge and fullcharge; "other" is any mode the code does not name.
Modes == {"sweep", "pause", "backcharge", "charge", "other"}

TaskInit ==
    /\ selected \in Selections \cup {Nothing}
    /\ queued = <<>> /\ running = "none" /\ step = "none" /\ write = 2 /\ wanted = Nothing
    /\ refusal = 1
    /\ completionPending = FALSE /\ activityObserved = FALSE /\ paused = FALSE
    /\ timer = FALSE /\ returning = FALSE /\ active = FALSE
    /\ inferred = FALSE /\ mode = "none"
    /\ lastCommand = "other" /\ lastResult = "other" /\ newer = TRUE /\ task = Nothing

-----------------------------------------------------------------------------
(* The user *)

\* Mutant: the activity of the forgotten task is kept.
forgetPendingUnlessSeen ==
    /\ completionPending' = FALSE /\ paused' = FALSE /\ timer' = FALSE
    /\ UNCHANGED activityObserved

forgetPending ==
    /\ completionPending' = FALSE /\ activityObserved' = FALSE
    /\ paused' = FALSE /\ timer' = FALSE

\* The state commands.zones.selectedIds becomes s.  ioBroker keeps the time of its last
\* change, not of its last write.
Selects(s) ==
    /\ selected' = s /\ newer' = (newer \/ s # selected)
    /\ task' = IF s # selected THEN Nothing ELSE task

setSelectedZoneIds(s) ==
    /\ Selects(s) /\ forgetPending
    /\ UNCHANGED <<chainVars, refusal, taskVars, inferred, mode, lastCommand,
                   lastResult>>

-----------------------------------------------------------------------------
(* The command queue and the persisted diagnostics *)

enqueueZoneCleaning ==
    /\ Len(queued) < MaxQueued /\ queued' = Append(queued, selected)
    /\ UNCHANGED <<selected, running, step, write, wanted, refusal, pendingVars,
                   taskVars, inferred, mode, persistedVars, task>>

\* The order in which a command that begins, or that failed, awaits its writes.
DiagnosticsOrder == <<"lastCommand", "lastResult", "lastExecution">>

\* The i-th of them, of a command c: it is waiting for its session, or has failed.
WriteDiagnostics(i, c) ==
    LET state == DiagnosticsOrder[i]
    IN  /\ lastCommand' = IF state = "lastCommand" THEN c ELSE lastCommand
        /\ lastResult' = IF state = "lastResult" THEN "other" ELSE lastResult
        /\ newer' = (newer /\ state # "lastExecution")

\* The chain runs one command after the other: a zone command, or another one, whose
\* own effects are not modelled here.
CommandBegins ==
    /\ running = "none" /\ step' = "begins"
    /\ \/ running' = "other" /\ UNCHANGED <<queued, wanted>>
       \/ /\ queued # <<>> /\ running' = "zoneCleaning"
          /\ wanted' = Head(queued) /\ queued' = Tail(queued)
    /\ WriteDiagnostics(1, running')
    /\ UNCHANGED <<selected, write, refusal, pendingVars, taskVars, inferred, mode, task>>

\* The next of the writes with which a command begins, or its failure ends.
DiagnosticWritten ==
    /\ step \in {"begins", "fails"}
    /\ WriteDiagnostics(write, running)
    /\ write' = IF write = 3 THEN 2 ELSE 3
    /\ step' = IF write = 2 THEN step ELSE IF step = "begins" THEN "executing" ELSE "none"
    /\ running' = IF step' = "none" THEN "none" ELSE running
    /\ wanted' = IF step' = "none" THEN Nothing ELSE wanted
    /\ UNCHANGED <<selected, queued, refusal, pendingVars, taskVars, inferred, mode, task>>

\* No session, nothing selected, a check or the request failed.
ExecutionFails ==
    /\ step = "executing" /\ step' = "fails"
    /\ WriteDiagnostics(1, running)
    /\ UNCHANGED <<selected, queued, running, write, wanted, refusal, pendingVars, taskVars,
                   inferred, mode, task>>

\* Mutant: the timer of the task before is left armed.
AcceptedKeepsTimer ==
    /\ step = "executing" /\ running = "zoneCleaning" /\ wanted # Nothing
    /\ step' = "accepted" /\ task' = wanted
    /\ completionPending' = TRUE /\ activityObserved' = FALSE /\ paused' = FALSE
    /\ UNCHANGED <<timer, selected, queued, running, write, wanted, refusal, taskVars,
                   inferred, mode, persistedVars>>

Accepted ==
    /\ step = "executing" /\ running = "zoneCleaning" /\ wanted # Nothing
    /\ step' = "accepted" /\ task' = wanted
    /\ completionPending' = TRUE /\ activityObserved' = FALSE
    /\ paused' = FALSE /\ timer' = FALSE
    /\ UNCHANGED <<selected, queued, running, write, wanted, refusal, taskVars, inferred,
                   mode, persistedVars>>

OtherAccepted ==
    /\ step = "executing" /\ running = "other" /\ step' = "accepted"
    /\ UNCHANGED <<selected, queued, running, write, wanted, refusal, pendingVars,
                   taskVars, inferred, mode, persistedVars, task>>

\* "api-accepted" is written.
AcceptanceWritten ==
    /\ step = "accepted" /\ step' = "confirming" /\ lastResult' = "accepted"
    /\ UNCHANGED <<selected, queued, running, write, wanted, refusal, pendingVars,
                   taskVars, inferred, mode, lastCommand, newer, task>>

\* "status-confirmed", of a status that came in time, or "api-accepted-unconfirmed".
ConfirmationEnds ==
    /\ step = "confirming" /\ step' = "none" /\ lastResult' \in {"accepted", "confirmed"}
    /\ running' = "none" /\ wanted' = Nothing
    /\ UNCHANGED <<selected, queued, write, refusal, pendingVars, taskVars, inferred,
                   mode, lastCommand, newer, task>>

\* The full queue refuses a command: its failure is not part of the chain and is
\* written between the writes of the command that runs.
Refuse ==
    /\ \/ /\ running # "none" /\ refusal = 1
          /\ \E c \in {"zoneCleaning", "other"} : WriteDiagnostics(1, c)
       \/ refusal # 1 /\ WriteDiagnostics(refusal, "other")
    /\ refusal' = IF refusal = 3 THEN 1 ELSE refusal + 1
    /\ UNCHANGED <<selected, chainVars, pendingVars, taskVars, inferred, mode, task>>

-----------------------------------------------------------------------------
(* A 20001 status: updateLiveMapTaskState *)

\* transitionLiveMapTaskState.
completedTask(m) == m = "charge" /\ returning /\ active

transitionLiveMapTaskState(m, cleaning) ==
    LET docks == m = "charge" /\ (returning \/ (~active /\ ~cleaning))
    IN  /\ returning' = (m = "backcharge" \/ (returning /\ m # "sweep" /\ ~docks))
        /\ active' = (m = "sweep" \/ (active /\ ~docks))

\* Mutant: a pause is not looked at.
recoveredUnpaused(m, observed, isPaused, cleaning) ==
    completionPending /\ observed /\ m = "charge" /\ ~cleaning

isRecoveredZoneTaskCompleted(m, observed, isPaused, cleaning) ==
    completionPending /\ observed /\ ~isPaused /\ m = "charge" /\ ~cleaning

\* A status of mode m, with or without progress since the one before.
Status(m, progress) ==
    LET seen == m = "sweep" \/ progress
        cleaning == inferred \/ seen
        observed == IF seen THEN completionPending ELSE activityObserved
        isPaused == IF seen THEN FALSE
                    ELSE IF completionPending /\ m = "pause" THEN TRUE
                    ELSE IF completionPending /\ m = "backcharge" THEN FALSE
                    ELSE paused
        stopsTimer == seen \/ (completionPending /\ m \in {"pause", "backcharge"})
        armsTimer == completionPending /\ observed /\ ~isPaused /\ m = "charge"
    IN  /\ progress => mode # "none"
        /\ mode' = m /\ inferred' = cleaning
        /\ transitionLiveMapTaskState(m, cleaning)
        /\ IF \/ completedTask(m)
              \/ isRecoveredZoneTaskCompleted(m, observed, isPaused, cleaning)
           THEN forgetPending /\ Selects(Nothing)
           ELSE /\ activityObserved' = observed /\ paused' = isPaused
                /\ timer' = (armsTimer \/ (timer /\ ~stopsTimer))
                /\ UNCHANGED <<completionPending, selected, newer, task>>
        /\ UNCHANGED <<chainVars, refusal, lastCommand, lastResult>>

\* Two minutes pass without a sweep or progress.
InferenceExpires ==
    /\ inferred /\ inferred' = FALSE
    /\ UNCHANGED <<selected, chainVars, refusal, pendingVars, taskVars, mode,
                   persistedVars, task>>

\* Its delay ends a moment after the inference it was armed with; a sweep or progress
\* that extends that stops the timer.
CompletionTimerFires ==
    /\ timer /\ ~inferred
    /\ IF isRecoveredZoneTaskCompleted(mode, activityObserved, paused, inferred)
       THEN forgetPending /\ Selects(Nothing)
       ELSE /\ timer' = FALSE
            /\ UNCHANGED <<completionPending, activityObserved, paused, selected, newer, task>>
    /\ UNCHANGED <<chainVars, refusal, taskVars, inferred, mode, lastCommand,
                   lastResult>>

-----------------------------------------------------------------------------
(* Restart: initializeZoneCleaningControls *)

shouldRecoverPendingZoneCleaningSelection ==
    /\ selected' # Nothing /\ lastCommand = "zoneCleaning"
    /\ lastResult \in {"accepted", "confirmed"} /\ ~newer'

\* The process ends at any point, by unload or otherwise, and starts again.  What the
\* user selected meanwhile is read at the start.
Restart ==
    /\ \E s \in Selections \cup {Nothing} : Selects(s)
    /\ completionPending' = shouldRecoverPendingZoneCleaningSelection
    /\ activityObserved' =
          (shouldRecoverPendingZoneCleaningSelection /\ lastResult = "confirmed")
    /\ paused' = FALSE /\ timer' = FALSE
    /\ returning' = FALSE /\ active' = FALSE
    /\ inferred' = FALSE /\ mode' = "none"
    /\ queued' = <<>> /\ running' = "none" /\ step' = "none" /\ write' = 2 /\ wanted' = Nothing
    /\ refusal' = 1
    /\ UNCHANGED <<lastCommand, lastResult>>

-----------------------------------------------------------------------------
TaskNext ==
    \/ \E s \in Selections \cup {Nothing} : setSelectedZoneIds(s)
    \/ enqueueZoneCleaning \/ CommandBegins \/ DiagnosticWritten \/ ExecutionFails
    \/ Accepted \/ OtherAccepted \/ AcceptanceWritten \/ ConfirmationEnds \/ Refuse
    \/ \E m \in Modes, progress \in BOOLEAN : Status(m, progress)
    \/ InferenceExpires \/ CompletionTimerFires \/ Restart

TaskSpec == TaskInit /\ [][TaskNext]_allTaskVars

-----------------------------------------------------------------------------
TaskTypeOK ==
    /\ selected \in Selections \cup {Nothing} /\ wanted \in Selections \cup {Nothing}
    /\ task \in Selections \cup {Nothing}
    /\ queued \in Seq(Selections \cup {Nothing}) /\ Len(queued) \in 0..MaxQueued
    /\ step \in {"none", "begins", "executing", "accepted", "confirming", "fails"}
    /\ running \in {"none", "zoneCleaning", "other"} /\ (running = "none" <=> step = "none")
    /\ write \in 2..3 /\ refusal \in 1..3
    /\ completionPending \in BOOLEAN /\ activityObserved \in BOOLEAN
    /\ paused \in BOOLEAN /\ timer \in BOOLEAN
    /\ returning \in BOOLEAN /\ active \in BOOLEAN
    /\ inferred \in BOOLEAN /\ mode \in Modes \cup {"none"}
    /\ lastCommand \in {"zoneCleaning", "other"}
    /\ lastResult \in {"other", "accepted", "confirmed"} /\ newer \in BOOLEAN
    /\ activityObserved \/ paused => completionPending

\* The completion timer is armed whenever a pending task has been seen cleaning and
\* the robot charges, so that no completed selection stays highlighted, and never for
\* a task that is paused, not begun, replaced or deselected.
CompletionTimed ==
    /\ timer => completionPending /\ activityObserved /\ ~paused
    /\ completionPending /\ activityObserved /\ ~paused /\ mode = "charge" => timer

\* The adapter clears the selection: its completion timer does, or a status.
Clears ==
    /\ selected # Nothing /\ selected' = Nothing
    /\ CompletionTimerFires \/ \E m \in Modes, progress \in BOOLEAN : Status(m, progress)

\* A paused cleaning keeps its selection, however often and long the robot charges,
\* until it is sent home, is taken up again, or the adapter has been down.
PausedSelectionKept == [][Clears /\ paused => returning]_allTaskVars
=============================================================================
