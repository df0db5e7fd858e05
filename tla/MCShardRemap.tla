----------------------------- MODULE MCShardRemap -----------------------------
(***************************************************************************)
(* No, one or two shards, two names of the instance and two rows. The       *)
(* checksums of the remap and of the requests agree on one row only.        *)
(***************************************************************************)
EXTENDS ShardRemap

MCRows == {"a", "b"}
MCNums == {0, 1, 2}
MCSlats == {"s", "t"}
MCCrc(k, slat) == IF slat = "s" THEN 4 ELSE 5
MCPlace ==
    [n \in MCNums |-> [s \in MCSlats |-> [k \in MCRows |->
        IF n = 0 THEN 0 ELSE MCCrc(k, s) % n]]]
MCRoute ==
    [n \in MCNums |-> [s \in MCSlats |-> [k \in MCRows |->
        IF n = 0 THEN 0 ELSE (MCCrc(k, s) + (IF k = "a" THEN 0 ELSE 1)) % n]]]
=============================================================================
