------------------------------- MODULE MCEdge -------------------------------
(* Instances of UrlKeys, and with it of CoordClient and DnRegistry, for TLC. *)
EXTENDS UrlKeys, TLC

CONSTANTS c1, c2, c3, n1, n2, n3, e1, e2, t1, t2, t3

Racks == {"", "rack1"}
EdgeOfThread == t1 :> e1 @@ t2 :> e1 @@ t3 :> e2
Kids == 1..2

Idle ==
    [coords |-> {c1}, env |-> {n1, n2}, dnIO |-> FALSE, home |-> [e \in Edge |-> c1], polling |-> {},
     edges |-> {}, threads |-> {}, ops |-> {"commit", "delete", "complete"},
     maxOps |-> 0, maxFails |-> 0, maxElections |-> 0, maxRestarts |-> 0,
     maxLookups |-> 0, maxCalls |-> 0, maxKeyOps |-> 0, maxTime |-> 0]

\* The registry of data nodes: one coord that places by itself, one that places
\* through a Coordinator, and two with elections, bootstraps and failing appends.
Alone == [Idle EXCEPT !.maxOps = 3, !.maxRestarts = 1]
AloneIO == [Alone EXCEPT !.dnIO = TRUE, !.env = Dn]
Pair == [AloneIO EXCEPT !.coords = {c1, c2}, !.maxOps = 2, !.maxFails = 1, !.maxElections = 1]

\* Calls that are redirected, broken off and repeated while the lead moves: of one
\* edge and three coords, and of two edges and two coords.
Chasing ==
    [Idle EXCEPT !.coords = Coord, !.threads = {t1}, !.ops = {"commit"}, !.maxCalls = 2, !.maxElections = 1]
Redirects == [Chasing EXCEPT !.coords = {c1, c2}, !.threads = {t1, t3}, !.maxFails = 1]

\* Lookups that are cached, with changes on the same edge and on another.
Caching == [Idle EXCEPT !.threads = {t1, t2}, !.maxLookups = 2, !.maxCalls = 2, !.maxTime = 3]
CachingPair == [Caching EXCEPT !.coords = {c1, c2}, !.threads = {t1, t3}, !.edges = {e1}, !.ops = {"commit", "delete"},
                !.maxCalls = 1, !.maxRestarts = 1, !.maxTime = 0]

\* Keys that are rotated on the coords and on the edge that polls them.
Rotating == [Idle EXCEPT !.polling = {e1}, !.edges = {e1}, !.maxKeyOps = 3, !.maxRestarts = 1]
RotatingPair == [Rotating EXCEPT !.coords = {c1, c2}, !.maxKeyOps = 2]
RotatingMoved == [RotatingPair EXCEPT !.maxElections = 1, !.maxRestarts = 0]

AllSetups ==
    {Alone, AloneIO, [AloneIO EXCEPT !.env = {n1, n2}], Pair, Chasing, Redirects, Caching, CachingPair, Rotating,
     RotatingPair, RotatingMoved}

=============================================================================
