--------------------------- MODULE MCConsumableReset ---------------------------
(* ConsumableReset, and what docs/decisions/0017 says of it, for TLC. *)
EXTENDS ConsumableReset

\* docs/decisions/0017-consumables-and-message-history-objects.md:103: "request a fresh
\* 21015 snapshot": the snapshot a reset writes back was sent after it was asked for.
FreshSnapshot ==
    [][slot = 21015 /\ answer' = "resolved" /\ chain[1] = "reset"
        => Head(handling).fresh]_vars

\* docs/decisions/0017-consumables-and-message-history-objects.md:117-119: the capability
\* "is cleared when the command session is discarded".
CapabilityNeedsSession == capability => session
=============================================================================
