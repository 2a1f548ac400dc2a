----------------------------- MODULE MCCaptureRun -----------------------------
(* CaptureRun for TLC. *)
EXTENDS CaptureRun

\* Up to three frames of a connection, with every kind, bad ones before and after good ones.
MCStreams == {
    <<>>, <<"malformed">>, <<"sealed", "blank", "plain">>, <<"plain", "malformed", "sealed">>,
    <<"opaque", "sealed">>}

\* tools/protocol-poc/README.md:60-61: "If the cloud returns multiple gateway endpoints, the
\* PoC tries them in order".  An endpoint that cannot be connected to ends the capture.
EndpointsTriedInOrder ==
    [][stage = "connecting" /\ stage' = "failed" => endpoint = endpoints]_vars
===============================================================================
