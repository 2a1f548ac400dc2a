-------------------------- MODULE MCCaptureAnalysis --------------------------
(* CaptureAnalysis for TLC. *)
EXTENDS CaptureAnalysis, TLC

Number(n) == [type |-> "number", of |-> n]
Flag(b) == [type |-> "boolean", of |-> b]
List(n) == [type |-> "array", of |-> n]
Object == [type |-> "object", of |-> 0]
Null == [type |-> "null", of |-> 0]

MCPayload == <<<<1, 2>>, <<1, 2, 3, 4>>, <<1, 3>>, <<>>>>

\* An event of the given type, with the index it was captured with or none.
Event(index, type, data) ==
    [kind |-> "event", index |-> index, infoType |-> type, object |-> TRUE, data |-> data,
     nested |-> Empty]
Record(kind, data) ==
    [kind |-> kind, index |-> 0, infoType |-> "", object |-> FALSE, data |-> data, nested |-> Empty]

Map(id, path, string) ==
    "mapId" :> Number(id) @@ "pathId" :> Number(path) @@ "map" :> Text(string)

\* Lines of every kind, with fields that are absent or of another type.
MCLines == {
    Record("malformed", Empty), Record("other", Empty),
    Record("run", "cycles" :> Number(2) @@ "reason" :> Text(5)),
    Record("frame-error", Empty),
    [Record("event", Empty) EXCEPT !.infoType = "20001"],
    Event(0, "20001", "mode" :> Text(1) @@ "elec" :> Number(90) @@ "errorState" :> List(1)),
    Event(7, "20001", "mode" :> Text(2) @@ "elec" :> Number(80) @@ "autoBoost" :> Flag(1)),
    Event(0, "20002", Map(1, 1, 1) @@ "width" :> Number(10) @@ "area" :> List(2)),
    Event(9, "20002", Map(1, 2, 2) @@ "area" :> List(0)),
    Event(0, "20002", Map(2, 2, 3)),
    Event(0, "20002", "map" :> Text(1)),
    Event(0, "20002", "pathId" :> Text(3) @@ "map" :> Text(3)),
    Event(0, "20002", "mapId" :> Number(1) @@ "pathId" :> Null @@ "map" :> Text(4)
                    @@ "width" :> Number(12)),
    Event(0, "21005", Empty),
    [Event(0, "21005", "message" :> Text(1) @@ "ctrl" :> Object)
        EXCEPT !.nested = "ctrl.result" :> Number(0)],
    [Event(8, "21005", "message" :> Text(2) @@ "ctrl" :> Object)
        EXCEPT !.nested = "ctrl.result" :> Text(9)]}
===============================================================================
