----------------------------- MODULE MCZoneCatalog -----------------------------
(* ZoneCatalog, and what the repository says of it, for TLC. *)
EXTENDS ZoneCatalog

\* docs/decisions/0021-guarded-zone-cleaning.md:16-17: "A stale selection must not be
\* sent after the map or catalog has changed."
NoStaleSelection ==
    [][phase = "passed" /\ phase' = "idle" /\ kind = "zones"
        => mapId = received.map /\ cache.map = mapId /\ "zone" \in cache.area]_vars

\* test/mocha.setup.js:10: "Don't silently swallow unhandled rejections": every
\* rejected catalog read is one that somebody awaits.
NoUnhandledRejection == ~unhandled

\* docs/PROTOCOL_POC.md:115-116: "The adapter treats that catalog as authoritative and
\* replaces it atomically": while a catalog counts as loaded, only another one
\* replaces its areas.
CatalogReplacedAtomically ==
    [][loaded /\ loaded' /\ cache'.area # cache.area => \E c \in Catalog : CatalogEvent(c)]_vars
=============================================================================
