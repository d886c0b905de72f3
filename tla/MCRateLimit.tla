---------------------------- MODULE MCRateLimit ----------------------------
(* Instances of RateLimit for TLC.                                         *)
EXTENDS RateLimit

\* One key in the first shard, the others in the second.
MCShardOf == [k \in Keys |-> IF k = CHOOSE x \in Keys : TRUE THEN 1 ELSE 2]

\* One every tick.
MCGlobal == [rps |-> [num |-> 1, den |-> 1], burst |-> 1]

\* One every other tick, with the burst derived from the rate.
MCClient == [rps |-> [num |-> 1, den |-> 2], burst |-> 0]

=============================================================================
