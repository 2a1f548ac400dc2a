------------------------------ MODULE MCMapViewer ------------------------------
(* MapViewer, and what the documents say of it, for TLC. *)
EXTENDS MapViewer

\* docs/decisions/0021-guarded-zone-cleaning.md:65-67: "A click toggles the corresponding
\* ID": what a click has written differs from what was selected before in that zone alone.
ClickTogglesOneZone ==
    [][toggle = "writing" /\ states.selected # states'.selected /\ requests # requests'
        => Cardinality((states.selected \ states'.selected)
                       \cup (states'.selected \ states.selected)) = 1]_vars

\* www/map-viewer/viewer.js:658: "The polling fallback below remains available".
PollingGoesOn == []<>(refresh = "idle")
=============================================================================
