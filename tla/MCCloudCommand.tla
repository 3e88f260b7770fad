--------------------------- MODULE MCCloudCommand ---------------------------
(* A small instance of CloudCommand: the commands the device knows (query  *)
(* and queryAll are handled alike), one it does not know, and three        *)
(* payloads of a control: several pids, a nested object, a pid told twice. *)
EXTENDS CloudCommand

Kind(ns, name) == [ns |-> ns, name |-> name]
AckKinds == {Kind(k.ns, k.name) : k \in Known}
AllKinds == (AckKinds \ {Kind("query", "queryAll")}) \cup {Kind("query", "other")}

Leaf(pid, type, v) == [pid |-> pid, type |-> type, value |-> v, inside |-> <<>>]
Nested(leaves) == [pid |-> 9, type |-> "object", value |-> 0, inside |-> leaves]
SmallControls == {
    <<>>,
    <<Leaf(1, "number", 5), Nested(<<Leaf(101, "number", 7), Leaf(1, "true", 0)>>)>>,
    <<Leaf(102, "number", 30), Leaf(9, "number", 1), Leaf(102, "string", 0), Leaf(1, "null", 0)>>}
=============================================================================
