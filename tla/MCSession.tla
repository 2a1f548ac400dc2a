----------------------------- MODULE MCSession -----------------------------
(* Session, and what the documentation of the repository says of it, for TLC. *)
EXTENDS Session

\* docs/decisions/0011-gateway-reconnect-policy.md:14-16: "bounded recovery for gateway
\* socket closure and startup connection failures", whatever becomes of a request.
RecoversAlways == configured => []<>(socket = "open" \/ shuttingDown)

\* docs/decisions/0011-gateway-reconnect-policy.md:44: "only one reconnect timer
\* or connection attempt may be active at a time".
OneRecoveryAtATime == ~(reconnectTimer # "none" /\ reconnectInProgress)

\* docs/decisions/0011-gateway-reconnect-policy.md:45-46: "unload clears the
\* reconnect timer and destroys the socket without scheduling recovery".
NoSocketAfterUnload == shuttingDown => socket = "none"

\* docs/decisions/0011-gateway-reconnect-policy.md:31-33: "only a connection that
\* remains established for at least five minutes resets the reconnect attempt counter".
BackoffKept ==
    [][reconnectAttempt' < reconnectAttempt => socket = "open" /\ connected = "stable"]_vars

WatchdogActs == watchdog = "offline" /\ watchdog' = "off"

\* docs/decisions/0011-gateway-reconnect-policy.md:40-43: the idle watchdog "closes
\* the socket, clears the command session, and schedules a reconnect".
WatchdogClearsSession == [][WatchdogActs => ~SessionPresent']_vars

\* docs/decisions/0011-gateway-reconnect-policy.md:40-41: the watchdog acts on a socket
\* with "no gateway event ... received for 90 seconds".
WatchdogClosesOnlyStale == [][WatchdogActs /\ socket # "none" => silent]_vars

\* docs/decisions/0019-reliable-command-delivery-and-confirmation.md:41-42: after
\* a failure "the adapter renews the cloud session for later commands": an attempt
\* that succeeds leaves a session a command can use.
AttemptRenewsSession ==
    [][attempt = "gateway" /\ attempt' = "idle" /\ ~shuttingDown => SessionPresent']_vars

\* docs/decisions/0019-reliable-command-delivery-and-confirmation.md:33-35: "if the
\* REST command session is temporarily unavailable, a user command waits": a session
\* that a command takes is never one whose device is not yet known to take commands.
SessionIsReady == IsM7Pro /\ SessionPresent => commandEnabled
=============================================================================
