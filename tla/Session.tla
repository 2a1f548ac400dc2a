------------------------------- MODULE Session -------------------------------
(***************************************************************************)
(* The connection supervisor of src/main.ts: the cloud login attempt, the  *)
(* reconnect timer, the gateway socket, the idle watchdog, the command     *)
(* that renews a lost session, and adapter unload.  The adapter is one     *)
(* event loop, so the code between two awaits is one action; every await,  *)
(* timer, socket callback and state change of ioBroker may interleave.     *)
(* A write of an ioBroker state takes time but is assumed not to fail.     *)
(***************************************************************************)
EXTENDS Naturals

CONSTANTS
    LongestDelay,    \* the first attempt whose delay is maxDelayMs: the seventh
    IsM7Pro          \* the selected device is one that takes commands

ASSUME SessionAssumption == LongestDelay \in Nat \ {0} /\ IsM7Pro \in BOOLEAN

VARIABLES
    configured,        \* user name and password are set; never changes
    shuttingDown,      \* onUnload has run
    reconnectTimer,    \* "none", or which reconnect the armed timer starts
    reconnectAttempt,  \* the backoff counter, up to the value with the longest delay
    attempt,           \* where connectReadOnlyGateway is, "idle" when it is not running
    session,           \* the parts of the command session that are set
    socket,            \* the gateway client
    receivedEvent,     \* gatewayReceivedEventSinceConnect
    connected,         \* how long ago gatewayConnectedAt is
    silent,            \* lastGatewayActivityAt is more than 90 s ago
    idleTimer,         \* the interval of the idle watchdog runs
    watchdog,          \* where reconnectIdleGateway is
    online,            \* which of cloudConnected and gatewayConnected are true
    command            \* where the running queued command is

lifeVars == <<configured, shuttingDown>>
timerVars == <<reconnectTimer, reconnectAttempt>>
socketVars == <<socket, receivedEvent, connected, silent, idleTimer>>
vars == <<lifeVars, timerVars, attempt, session, socketVars, watchdog, online, command>>

\* The awaits of connectReadOnlyGateway: the REST requests, and the state writes
\* of the two branches.  "starting" is onReady before it; "hung" is a request
\* whose promise never settles.
Requests == {"login", "list", "gateway"}
Writes == {"listFailed", "project", "cloud", "capabilities",
           "failing", "cloudDown", "gatewayDown"}
AttemptStates == {"starting", "idle", "hung"} \cup Requests \cup Writes

reconnectInProgress == attempt \notin {"starting", "idle"}

\* commandToken (and commandClient), commandSerial, commandGatewayEndpoint and
\* commandEnabled.
SessionParts == {"token", "serial", "endpoint", "enabled"}
commandEnabled == "enabled" \in session
SessionPresent == {"token", "serial"} \subseteq session
SessionMaterial == {"token", "serial", "endpoint"} \subseteq session

Init ==
    /\ configured \in BOOLEAN
    /\ shuttingDown = FALSE /\ reconnectTimer = "none" /\ reconnectAttempt = 0
    /\ attempt = "starting"
    /\ session = {} /\ online = {}
    /\ socket = "none" /\ receivedEvent = FALSE /\ connected = "never"
    /\ silent = FALSE /\ idleTimer = FALSE /\ watchdog = "off"
    /\ command = "none"

-----------------------------------------------------------------------------
(* Helpers of several handlers; each says what becomes of a few variables. *)

clearCommandSession == session' = {}

\* connectReadOnlyGateway up to its first await.  Every caller has just cleared
\* the timer, or is the timer.
connectReadOnlyGateway ==
    /\ reconnectTimer' = "none"
    /\ attempt' = IF shuttingDown \/ reconnectInProgress THEN attempt ELSE "login"

\* The code counts without end.  The counter is used for reconnectDelayMs alone,
\* which doubles the delay with each attempt up to maxDelayMs: the attempts from
\* LongestDelay on differ in nothing and are one value here.
Succ(n) == IF n < LongestDelay THEN n + 1 ELSE n

\* Mutant: one early return more, for a running attempt.
scheduleFullUnlessBusy(count) ==
    IF shuttingDown \/ reconnectTimer # "none" \/ reconnectInProgress
    THEN reconnectTimer' = reconnectTimer /\ reconnectAttempt' = count
    ELSE reconnectTimer' = "full" /\ reconnectAttempt' = Succ(count)

\* Mutant: unload is not looked at.
scheduleFullAfterUnload(count) ==
    IF reconnectTimer # "none"
    THEN reconnectTimer' = reconnectTimer /\ reconnectAttempt' = count
    ELSE reconnectTimer' = "full" /\ reconnectAttempt' = Succ(count)

\* `count' is reconnectAttempt as the caller left it.
scheduleFullReconnect(count) ==
    IF shuttingDown \/ reconnectTimer # "none"
    THEN reconnectTimer' = reconnectTimer /\ reconnectAttempt' = count
    ELSE reconnectTimer' = "full" /\ reconnectAttempt' = Succ(count)

scheduleGatewaySocketReconnect(count) ==
    \/ /\ shuttingDown \/ reconnectTimer # "none"
       /\ UNCHANGED <<reconnectTimer, session>> /\ reconnectAttempt' = count
    \/ /\ ~shuttingDown /\ reconnectTimer = "none"
       /\ SessionMaterial /\ receivedEvent
       /\ reconnectTimer' = "socket" /\ reconnectAttempt' = count /\ UNCHANGED session
    \/ /\ ~shuttingDown /\ reconnectTimer = "none"
       /\ ~(SessionMaterial /\ receivedEvent)
       /\ clearCommandSession /\ scheduleFullReconnect(count)

\* Mutant: the interval of the replaced client is not cleared.
connectKeepsInterval ==
    /\ socket' = "connecting" /\ receivedEvent' = FALSE
    /\ UNCHANGED <<connected, silent, idleTimer>>

\* Mutant: the new client is credited with the events of the one before.
connectKeepsEvents ==
    /\ socket' = "connecting" /\ idleTimer' = FALSE
    /\ UNCHANGED <<receivedEvent, connected, silent>>

\* The client it replaces is destroyed without its onClose.
connectGatewaySocket ==
    /\ socket' = "connecting" /\ receivedEvent' = FALSE /\ idleTimer' = FALSE
    /\ UNCHANGED <<connected, silent>>

recoverCommandSessionAfterFailure ==
    IF shuttingDown
    THEN UNCHANGED <<session, online, reconnectTimer, attempt>>
    ELSE clearCommandSession /\ online' = online \ {"cloud"} /\ connectReadOnlyGateway

-----------------------------------------------------------------------------
(* connectReadOnlyGateway and startReadOnlyGateway *)

Ready ==
    /\ attempt = "starting" /\ ~shuttingDown
    /\ IF configured THEN connectReadOnlyGateway
                     ELSE attempt' = "idle" /\ UNCHANGED reconnectTimer
    /\ UNCHANGED <<lifeVars, reconnectAttempt, session, socketVars, watchdog, online,
                   command>>

LoginSucceeds ==
    /\ attempt = "login" /\ configured
    /\ attempt' = "list" /\ session' = (session \ {"enabled"}) \cup {"token"}
    /\ UNCHANGED <<lifeVars, timerVars, socketVars, watchdog, online, command>>

\* The answer to listDevices; its diagnostics are written on both outcomes.
ListDevicesEnds ==
    /\ attempt = "list" /\ attempt' \in {"project", "listFailed"}
    /\ UNCHANGED <<lifeVars, timerVars, session, socketVars, watchdog, online, command>>

DeviceProjected ==
    /\ attempt = "project"
    /\ attempt' = "cloud" /\ online' = online \cup {"cloud"}
    /\ UNCHANGED <<lifeVars, timerVars, session, socketVars, watchdog, command>>

DeviceSelected ==
    /\ attempt = "cloud"
    /\ attempt' = "capabilities"
    /\ session' = (session \ {"enabled"}) \cup {"serial"} \cup {p \in {"enabled"} : IsM7Pro}
    /\ UNCHANGED <<lifeVars, timerVars, socketVars, watchdog, online, command>>

RequestGateway ==
    /\ attempt = "capabilities" /\ attempt' = "gateway"
    /\ UNCHANGED <<lifeVars, timerVars, session, socketVars, watchdog, online, command>>

AttemptSucceeds ==
    /\ attempt = "gateway"
    /\ session' = session \cup {"endpoint"} /\ reconnectAttempt' = 0
    /\ connectGatewaySocket /\ attempt' = "idle"
    /\ UNCHANGED <<lifeVars, reconnectTimer, watchdog, online, command>>

\* A request is rejected, no device matches, or the serial or endpoint is missing.
AttemptFails ==
    /\ attempt \in {"login", "listFailed", "project", "cloud", "gateway"}
    /\ clearCommandSession /\ attempt' = "failing"
    /\ UNCHANGED <<lifeVars, timerVars, socketVars, watchdog, online, command>>

FailureRecorded ==
    /\ attempt = "failing" /\ attempt' = "cloudDown" /\ online' = online \ {"cloud"}
    /\ UNCHANGED <<lifeVars, timerVars, session, socketVars, watchdog, command>>

CloudMarkedDown ==
    /\ attempt = "cloudDown" /\ attempt' = "gatewayDown" /\ online' = online \ {"gateway"}
    /\ UNCHANGED <<lifeVars, timerVars, session, socketVars, watchdog, command>>

AttemptEnds ==
    /\ attempt = "gatewayDown" /\ attempt' = "idle"
    /\ scheduleFullReconnect(reconnectAttempt)
    /\ UNCHANGED <<lifeVars, session, socketVars, watchdog, online, command>>

\* The response is cut off after its headers: neither "end" nor the request's
\* "error" follows, so the promise of request() never settles.
ResponseTruncated ==
    /\ attempt \in Requests /\ attempt' = "hung"
    /\ UNCHANGED <<lifeVars, timerVars, session, socketVars, watchdog, online, command>>

-----------------------------------------------------------------------------
(* The reconnect timer *)

FullTimerFires ==
    /\ reconnectTimer = "full" /\ connectReadOnlyGateway
    /\ UNCHANGED <<lifeVars, reconnectAttempt, session, socketVars, watchdog, online,
                   command>>

SocketTimerFires ==
    /\ reconnectTimer = "socket"
    /\ IF SessionMaterial
       THEN /\ connectGatewaySocket /\ reconnectTimer' = "none"
            /\ UNCHANGED <<attempt, session>>
       ELSE /\ clearCommandSession /\ connectReadOnlyGateway
            /\ UNCHANGED socketVars
    /\ UNCHANGED <<lifeVars, reconnectAttempt, watchdog, online, command>>

-----------------------------------------------------------------------------
(* The gateway socket *)

\* onConnect.  An adapter that is stopping starts no interval.
SocketConnects ==
    /\ socket = "connecting" /\ socket' = "open"
    /\ connected' = "recently" /\ silent' = FALSE
    /\ online' = online \cup {"gateway"}
    /\ idleTimer' = ~shuttingDown
    /\ UNCHANGED <<lifeVars, timerVars, attempt, session, receivedEvent, watchdog,
                   command>>

SocketEvent ==
    /\ socket = "open" /\ receivedEvent' = TRUE /\ silent' = FALSE
    /\ UNCHANGED <<lifeVars, timerVars, attempt, session, socket, connected,
                   idleTimer, watchdog, online, command>>

\* onClose, of a connection that failed, timed out or was closed by the peer.
SocketCloses ==
    /\ socket \in {"connecting", "open"} /\ socket' = "closed"
    /\ idleTimer' = FALSE /\ online' = online \ {"gateway"}
    /\ scheduleGatewaySocketReconnect(
           IF connected = "stable" /\ ~shuttingDown THEN 0 ELSE reconnectAttempt)
    /\ UNCHANGED <<lifeVars, attempt, receivedEvent, connected, silent, watchdog,
                   command>>

\* Five minutes pass since onConnect; ninety seconds pass without an event.
TimePasses ==
    /\ \/ connected = "recently" /\ connected' = "stable" /\ UNCHANGED silent
       \/ ~silent /\ connected # "never" /\ silent' = TRUE /\ UNCHANGED connected
    /\ UNCHANGED <<lifeVars, timerVars, attempt, session, socket, receivedEvent,
                   idleTimer, watchdog, online, command>>

-----------------------------------------------------------------------------
(* The idle watchdog *)

\* The interval fires and finds the gateway idle; the counter and the error are written.
IdleFound ==
    /\ watchdog = "off" /\ idleTimer /\ silent
    /\ ~shuttingDown /\ socket # "none"
    /\ watchdog' = "recording"
    /\ UNCHANGED <<lifeVars, timerVars, attempt, session, socketVars, online, command>>

IdleRecorded ==
    /\ watchdog = "recording" /\ watchdog' = "offline" /\ online' = online \ {"gateway"}
    /\ UNCHANGED <<lifeVars, timerVars, attempt, session, socketVars, command>>

\* Mutant: relies on the onClose of a client that was destroyed.
IdleReconnectsByClose ==
    /\ watchdog = "offline" /\ watchdog' = "off"
    /\ idleTimer' = FALSE /\ socket' = "none"
    /\ UNCHANGED <<lifeVars, timerVars, attempt, session, receivedEvent, connected,
                   silent, online, command>>

\* The rest of reconnectIdleGateway.  After unload there is no client to destroy:
\* the call throws and nothing but the interval is touched.
IdleReconnects ==
    /\ watchdog = "offline" /\ watchdog' = "off"
    /\ idleTimer' = FALSE
    /\ IF socket = "none"
       THEN UNCHANGED <<socket, session, timerVars>>
       ELSE socket' = "none" /\ scheduleGatewaySocketReconnect(reconnectAttempt)
    /\ UNCHANGED <<lifeVars, attempt, receivedEvent, connected, silent, online,
                   command>>

-----------------------------------------------------------------------------
(* The queued command that runs, as far as it touches the session *)

StartCommand ==
    /\ command = "none" /\ attempt # "starting"
    /\ SessionPresent /\ commandEnabled /\ command' = "sending"
    /\ UNCHANGED <<lifeVars, timerVars, attempt, session, socketVars, watchdog, online>>

\* waitForCommandSession without a session expedites the reconnect, then polls.
ExpediteReconnect ==
    /\ command = "none" /\ attempt # "starting"
    /\ configured /\ ~SessionPresent /\ ~shuttingDown
    /\ command' = "waiting" /\ connectReadOnlyGateway
    /\ UNCHANGED <<lifeVars, reconnectAttempt, session, socketVars, watchdog, online>>

SessionArrives ==
    /\ command = "waiting" /\ SessionPresent /\ commandEnabled /\ command' = "sending"
    /\ UNCHANGED <<lifeVars, timerVars, attempt, session, socketVars, watchdog, online>>

\* A command throws: no credentials, commands not enabled, no session within 15 s,
\* or the request, a catalog read or the validation of the command failed.
CommandFails ==
    /\ \/ command = "none" /\ attempt # "starting" /\ ~SessionPresent /\ ~configured
       \/ command \in {"none", "waiting"} /\ attempt # "starting"
          /\ SessionPresent /\ ~commandEnabled
       \/ command = "waiting" /\ ~SessionPresent
       \/ command = "sending"
    /\ command' = "none" /\ recoverCommandSessionAfterFailure
    /\ UNCHANGED <<lifeVars, reconnectAttempt, socketVars, watchdog>>

\* The command ends, is refused by the forbidden-zone protection, or is a zone
\* cleaning or a consumable reset whose failure keeps the session.
CommandEnds ==
    /\ command \in {"waiting", "sending"} /\ command' = "none"
    /\ UNCHANGED <<lifeVars, timerVars, attempt, session, socketVars, watchdog, online>>

-----------------------------------------------------------------------------
onUnload ==
    /\ ~shuttingDown /\ shuttingDown' = TRUE
    /\ reconnectTimer' = "none" /\ idleTimer' = FALSE /\ socket' = "none"
    /\ clearCommandSession
    /\ UNCHANGED <<configured, reconnectAttempt, attempt, receivedEvent, connected,
                   silent, watchdog, online, command>>

\* An adapter that was unloaded need not do anything more.
Stopped == shuttingDown /\ UNCHANGED vars

Attempt ==
    \/ Ready \/ LoginSucceeds \/ ListDevicesEnds \/ DeviceProjected \/ DeviceSelected
    \/ RequestGateway \/ AttemptSucceeds \/ AttemptFails \/ FailureRecorded
    \/ CloudMarkedDown \/ AttemptEnds
Timer == FullTimerFires \/ SocketTimerFires
Watchdog == IdleFound \/ IdleRecorded \/ IdleReconnects
Command == StartCommand \/ ExpediteReconnect \/ SessionArrives \/ CommandFails \/ CommandEnds

Next ==
    \/ Attempt \/ ResponseTruncated \/ Timer
    \/ SocketConnects \/ SocketEvent \/ SocketCloses \/ TimePasses
    \/ Watchdog \/ Command \/ onUnload \/ Stopped

\* Timers fire and awaits resume.  A cloud, a list and a gateway that are asked
\* again and again answer in the end: without that nobody could reconnect.
Fairness ==
    /\ WF_vars(Attempt) /\ WF_vars(Timer) /\ WF_vars(Watchdog)
    /\ SF_vars(LoginSucceeds) /\ SF_vars(attempt' = "project" /\ ListDevicesEnds)
    /\ SF_vars(DeviceProjected) /\ SF_vars(DeviceSelected) /\ SF_vars(AttemptSucceeds)
    /\ SF_vars(SocketConnects)

Spec == Init /\ [][Next]_vars
FairSpec == Spec /\ Fairness

-----------------------------------------------------------------------------
\* The types, and that a client which is still connecting counts as one without an
\* event: if it fails, it takes the long way of a full reconnect (main.ts:411).
TypeOK ==
    /\ configured \in BOOLEAN
    /\ shuttingDown \in BOOLEAN /\ reconnectTimer \in {"none", "full", "socket"}
    /\ reconnectAttempt \in 0..LongestDelay /\ attempt \in AttemptStates
    /\ session \subseteq SessionParts /\ online \subseteq {"cloud", "gateway"}
    /\ socket \in {"none", "connecting", "open", "closed"}
    /\ receivedEvent \in BOOLEAN /\ (socket = "connecting" => ~receivedEvent)
    /\ connected \in {"never", "recently", "stable"}
    /\ silent \in BOOLEAN /\ idleTimer \in BOOLEAN
    /\ watchdog \in {"off", "recording", "offline"}
    /\ command \in {"none", "waiting", "sending"}

\* A configured adapter that is not stopping always has recovery under way or a
\* socket: whatever the order of closes, timeouts, watchdog, failed commands and
\* failed logins, no early return of a scheduling function strands it.
NeverStranded ==
    configured /\ ~shuttingDown =>
        \/ attempt = "starting" \/ reconnectInProgress
        \/ reconnectTimer # "none"
        \/ socket \in {"connecting", "open"}

\* An open gateway is watched for silence, and only an open one is: replacing,
\* closing or destroying a client never leaves the interval behind or drops it.
OpenSocketWatched == ~shuttingDown => (idleTimer <=> socket = "open")

\* After unload no timer is left that could start a recovery, although awaits of
\* an attempt, of the watchdog and of a command still resume.
QuietAfterUnload == shuttingDown => reconnectTimer = "none" /\ ~idleTimer

\* Whatever happened before, a configured adapter that is not stopped opens the
\* gateway socket again, and keeps doing so, as long as its requests settle.
Reconnects == configured => []<>(socket = "open" \/ shuttingDown \/ attempt = "hung")
=============================================================================
