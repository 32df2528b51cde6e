---------------------------- MODULE MCAntiEntropy ----------------------------
(* Instances of AntiEntropy: 2+1 stripes and two-way replicated chunks on   *)
(* four data nodes.                                                         *)
EXTENDS AntiEntropy

CONSTANTS d1, d2, d3, d4, a1, a2, a3, b1, b2, b3, r1, r2, k1, k2

AddrOrderDef == <<d1, d2, d3, d4>>
ChunkOrderDef == <<a1, a2, a3, b1, b2, b3, r1, r2>>
BucketDef == [c \in Chunk |-> IF c \in {a1, b2, r1} THEN 0 ELSE 1]
RankDef == [c \in Chunk |-> IF c = b1 THEN <<d4, d2, d1, d3>> ELSE <<d1, d2, d3, d4>>]

Stripe(ids, list) == [i \in 1..3 |-> Ref(ids[i], <<list[i]>>)]
StripeA == Stripe(<<a1, a2, a3>>, <<d1, d2, d3>>)
Coded == Object(2, <<StripeA>>)
Replicated(c) == Object(0, <<<<Ref(c, <<d1, d2>>)>>>>)
Keys(o, p) == [k \in Key |-> IF k = k1 THEN o ELSE p]
PutEC == [key |-> k2, k |-> 2, stripes |-> <<<<a1, a2, a3>>, <<b1, b2, b3>>>>]

Quiet ==
    [stored |-> Keys(NoObject, NoObject), requests |-> {}, deletes |-> {}, topologies |-> {DN},
     repairing |-> FALSE, balancing |-> FALSE, healing |-> FALSE, corrupt |-> TRUE, ec |-> TRUE,
     max |-> 0, conc |-> 1, scrubbers |-> {}, decays |-> {}, maxFaults |-> 0, maxFails |-> 0,
     maxDowns |-> 0, maxTopology |-> 0, maxCrashes |-> 0]

Shrunk == {DN, {d2, d3, d4}}

\* A PUT of two stripes, with the rebalance worker and a node set that changes.
Writing == [Quiet EXCEPT !.requests = {PutEC}, !.topologies = {DN, {d1, d2, d3}}, !.balancing = TRUE,
              !.maxTopology = 1, !.maxFails = 1, !.maxCrashes = 1]

\* A node is taken out and the operator has its shards rebuilt.
Operated == [Quiet EXCEPT !.stored = Keys(Coded, NoObject), !.topologies = Shrunk, !.repairing = TRUE,
               !.decays = {<<d2, a2, "bad">>, <<d3, a3, "none">>}, !.maxTopology = 2, !.maxFaults = 1, !.maxFails = 1, !.maxDowns = 1,
               !.maxCrashes = 1]

\* Replicas decay, the scrubbers find the rotten ones, auto-repair runs.
Copying == [Quiet EXCEPT !.stored = Keys(Replicated(r1), Replicated(r2)), !.topologies = {{d1, d2}},
              !.healing = TRUE, !.max = 1, !.conc = 2, !.scrubbers = {d1},
              !.decays = {<<d1, r1, "bad">>, <<d1, r2, "none">>, <<d2, r1, "none">>}, !.maxFaults = 2, !.maxFails = 1,
              !.maxCrashes = 1]

\* A node goes down and comes back during an audit without the EC pass.
Dark == [Quiet EXCEPT !.stored = Keys(Replicated(r1), NoObject), !.topologies = {{d1, d2}}, !.healing = TRUE,
           !.decays = {<<d1, r1, "none">>}, !.maxFaults = 1, !.maxDowns = 1, !.ec = FALSE]

\* The same for a stripe, and for one that is deleted meanwhile.
Rebuilding == [Quiet EXCEPT !.stored = Keys(Coded, NoObject), !.healing = TRUE, !.scrubbers = {d1},
                 !.decays = {<<d1, a1, "bad">>, <<d2, a2, "none">>}, !.maxFaults = 1, !.maxFails = 1]
Retracting == [Rebuilding EXCEPT !.decays = {<<d2, a2, "none">>}, !.scrubbers = {}, !.maxFails = 0, !.deletes = {k1}]

\* A stripe that is to move: a shard rots, and is found, rebuilt and moved; or the
\* object is deleted meanwhile.
Displaced == Keys(Object(2, <<Stripe(<<a1, a2, a3>>, <<d4, d2, d3>>)>>), NoObject)
Moving == [Quiet EXCEPT !.stored = Displaced, !.healing = TRUE, !.balancing = TRUE, !.scrubbers = {d4},
             !.decays = {<<d4, a1, "bad">>}, !.maxFaults = 1]
Leaving == [Quiet EXCEPT !.stored = Displaced, !.balancing = TRUE, !.deletes = {k1}, !.maxFails = 1, !.maxCrashes = 1]

\* Two replicas are missing, the run may restore one.
Capped == [Quiet EXCEPT !.stored = Copying.stored, !.topologies = {{d1, d2}}, !.healing = TRUE, !.max = 1,
             !.decays = {<<d1, r1, "none">>, <<d1, r2, "none">>}, !.maxFaults = 2]

\* Two objects list the same chunk.
Sharing == [Quiet EXCEPT !.stored = Keys(Replicated(r1), Replicated(r1)), !.topologies = {{d1, d2}}, !.healing = TRUE,
              !.maxFails = 1, !.maxCrashes = 1]

AllSetups == {Capped, Sharing, Writing, Operated, Copying, Dark, Rebuilding, Retracting, Moving, Leaving}

=============================================================================
