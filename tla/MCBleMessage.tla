--------------------------- MODULE MCBleMessage ---------------------------
(* BleMessage on small instances: messages of one to three packets, in clear and coded, *)
(* with all kinds of content.                                                            *)
EXTENDS BleMessage

M(n, c, t, v) == [shards |-> n, coding |-> c, content |-> t, version |-> v]

CONSTANTS a, b, c, d, e, g

MCForm == [m \in {a, b, c, d, e, g} |->
            CASE m = a -> M(3, "aes", "good", TRUE)
              [] m = b -> M(2, "none", "good", TRUE)
              [] m = c -> M(1, "aes", "good", TRUE)
              [] m = d -> M(1, "none", "fieldless", FALSE)
              [] m = e -> M(2, "other", "good", TRUE)
              [] m = g -> M(3, "none", "notjson", TRUE)]
=============================================================================
