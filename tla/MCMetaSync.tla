----------------------------- MODULE MCMetaSync -----------------------------
(* Instances of MetaSync: who may ask for what.                                *)
EXTENDS MetaSync, TLC

CONSTANTS k1, k2, u1, d1, x, y, c1, c2

EdgeSymmetry == Permutations(Edge)

Put(k, v) == [op |-> "put", key |-> k, content |-> v]
Delete(k) == [op |-> "delete", key |-> k]
Part(n, v) == [op |-> "put_part", id |-> u1, part |-> n, content |-> v]
Complete(list) == [op |-> "complete", id |-> u1, parts |-> list]

BucketReqs == {[op |-> "create_bucket"], [op |-> "delete_bucket"]}

UploadReqs ==
    {[op |-> "create_upload", id |-> u1, key |-> k1], Part(1, x), Part(2, y),
     Complete(<<1>>), Complete(<<1, 2>>), Complete(<<2, 1>>),
     [op |-> "abort", id |-> u1], [op |-> "expire", ids |-> {u1}]}

DNReqs == {[op |-> o, dn |-> d1] : o \in {"add_dn", "remove_dn", "label_dn"}}

Move(k) == [op |-> "move", key |-> k]

Plain == [pulling |-> TRUE, pushing |-> FALSE, scheduling |-> FALSE, manual |-> FALSE]

\* One handler, every kind of request.
AllReqs == (c1 :> {Put(k1, x), Delete(k1), Move(k1)} \cup BucketReqs \cup UploadReqs \cup DNReqs) @@ (c2 :> {})

OneKey == (c1 :> {Put(k1, x), Put(k1, y), Delete(k1)}) @@ (c2 :> {})

\* Two handlers at the same time, on objects of their own.
OwnKeys == (c1 :> {Put(k1, x), Delete(k1)}) @@ (c2 :> {Put(k2, x), Delete(k2)})

Setup(flags, reqs, requests, snapshots, changes, restarted, failing) ==
    flags @@ [reqs |-> reqs, maxOps |-> requests, maxSnaps |-> snapshots, maxSwitches |-> changes,
              maxRestarts |-> restarted, maxFaults |-> failing]

\* A primary of its own; a follower of a primary that truncates; elections and
\* pushes; truncation and failover by restart; a primary whose journal fails and
\* which restarts, alone, with a follower, and with a scheduler that truncates.
AllSetups ==
    {Setup([Plain EXCEPT !.pulling = FALSE], AllReqs, 6, 0, 0, 0, 0),
     Setup([Plain EXCEPT !.scheduling = TRUE], OwnKeys, 3, 1, 0, 0, 0),
     Setup([Plain EXCEPT !.pushing = TRUE], OneKey, 2, 0, 1, 0, 0),
     Setup([Plain EXCEPT !.scheduling = TRUE, !.manual = TRUE], OneKey, 3, 1, 1, 0, 0),
     Setup([Plain EXCEPT !.pulling = FALSE], AllReqs, 4, 0, 0, 1, 1),
     Setup(Plain, OwnKeys, 2, 0, 0, 1, 1),
     Setup([Plain EXCEPT !.scheduling = TRUE], OneKey, 2, 1, 0, 1, 1)}

\* One primary that never truncates; edges restart, and appends fail.
SteadySetup == {Setup(Plain, OwnKeys, 2, 0, 0, 0, 0), Setup(Plain, OneKey, 2, 0, 0, 1, 1)}

\* A primary of its own that truncates.
TruncatingSetup == {Setup([Plain EXCEPT !.pulling = FALSE, !.scheduling = TRUE], OneKey, 2, 1, 0, 0, 0)}
=============================================================================
