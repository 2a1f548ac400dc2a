--------------------------- MODULE MCCommandQueue ---------------------------
(* CommandQueue, and what the object definitions say of its result states, for TLC. *)
EXTENDS CommandQueue

\* src/objects/object-definitions.ts:185-186: "Last command" and "Last command
\* result" are the command and the result of one command.
ResultNamesCommand ==
    phase = "reported" /\ lastResult = "status-confirmed" => lastCommand = Running
=============================================================================
