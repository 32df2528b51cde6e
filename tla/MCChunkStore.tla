----------------------------- MODULE MCChunkStore -----------------------------
(* Instances of ChunkStore for TLC. *)
EXTENDS ChunkStore, TLC

CONSTANTS k1, a, b, d1, d2, d3, u1, h1, h2

Put(body) == [op |-> "put", key |-> k1, body |-> body]
Part(n, body) == [op |-> "part", upload |-> u1, part |-> n, body |-> body]
Delete == [op |-> "delete", key |-> k1]
Multi(op) == [op |-> op, key |-> k1, upload |-> u1]

\* The nodes ranked differently for the two chunks.
Ranks == a :> <<d1, d2, d3>> @@ b :> <<d3, d1, d2>>

Grown == {{d1, d2}, {d1, d2, d3}}

\* One object in one chunk on three nodes, and nothing else going on.
Quiet ==
    [r |-> 3, w |-> 2, class |-> {}, slow |-> FALSE, collecting |-> FALSE, balancing |-> FALSE,
     handlers |-> {h1, h2}, requests |-> {Put(<<a>>)}, topologies |-> {{d1, d2, d3}},
     maxTopology |-> 0, maxFails |-> 0, maxCrashes |-> 0]

\* Two overlapping PUTs of a key, failing calls, the collector, a crash.
Overwriting ==
    [Quiet EXCEPT !.requests = {Put(<<a>>), Put(<<b>>)}, !.collecting = TRUE,
                  !.maxFails = 1, !.maxCrashes = 1]

\* An object overwritten and deleted while the collector runs, and a crash.
Deleting ==
    [Quiet EXCEPT !.requests = {Put(<<a>>), Put(<<b>>), Delete}, !.collecting = TRUE,
                  !.r = 2, !.w = 1, !.topologies = {{d1, d2}}, !.maxFails = 1, !.maxCrashes = 1]

\* Two parts, completion and abort of an upload in any order.
Uploading ==
    [Quiet EXCEPT !.requests = {Multi("create"), Part(1, <<a>>), Part(2, <<b>>),
                                Multi("complete"), Multi("abort")},
                  !.r = 2, !.w = 2, !.maxFails = 1]

\* A part sent twice, with different contents.
Resending == [Uploading EXCEPT !.requests = {Multi("create"), Part(1, <<a>>), Part(1, <<b>>),
                                             Multi("complete")}]

\* An object of two chunks under topology changes, failing copies and a crash.
Moving ==
    [Quiet EXCEPT !.requests = {Put(<<a, b>>)}, !.balancing = TRUE, !.handlers = {h1},
                  !.r = 2, !.w = 2, !.topologies = Grown,
                  !.maxTopology = 2, !.maxFails = 2, !.maxCrashes = 1]

\* The same, acknowledged by one node of two.
Repairing == [Moving EXCEPT !.w = 1, !.maxTopology = 1]

\* The first move of an object with the collector running.
MovingAndCollecting ==
    [Moving EXCEPT !.collecting = TRUE, !.maxTopology = 1, !.maxFails = 0, !.maxCrashes = 0]

\* The object belongs to a class of two nodes, and a third node comes and goes.
Classed == [Moving EXCEPT !.class = {d2, d3}, !.topologies = {{d2, d3}, {d1, d2, d3}},
                         !.maxFails = 1]

AllSetups ==
    {Overwriting, Deleting, Uploading, Resending, Moving, Repairing, MovingAndCollecting, Classed}

\* One replica that moves away and back while the collector runs.
Returning ==
    [MovingAndCollecting EXCEPT !.requests = {Put(<<a>>)}, !.r = 1, !.w = 1,
                                !.topologies = {{d2}, {d3}}, !.maxTopology = 3]

ReturningSetup == {Returning}

=============================================================================
