------------------------------- MODULE Stripes -------------------------------
(***************************************************************************)
(* Erasure-coded objects and what keeps them whole.  A stripe has K data   *)
(* and M parity shards, each a content-addressed file on a node of its     *)
(* own; any K of them rebuild the others.  Here:                           *)
(*                                                                         *)
(*   - the streaming EC PUT and the DELETE of an object;                   *)
(*   - the repair worker, which rebuilds the shards of lost nodes;         *)
(*   - the rebalance worker, which moves shards to where placement wants   *)
(*     them;                                                               *)
(*   - files that rot or vanish, nodes that go down, calls that fail.      *)
(*                                                                         *)
(* AntiEntropy adds the scrubber and the coordinator's audit and repair.   *)
(* Replicated objects are here as the audit sees them: a chunk is a group  *)
(* of one reference with several replicas (ChunkStore has their handlers). *)
(***************************************************************************)
EXTENDS Integers, FiniteSets, Sequences, FiniteSetsExt

CONSTANTS
    Key,        \* object keys
    Chunk,      \* chunk and shard ids (sha256 of the content)
    DN,         \* data node addresses
    AddrOrder,  \* DN in the order of sort.Strings
    Rank,       \* Rank[c]: the nodes by descending score for the stripe that starts with c
    Setups      \* the deployments and the bounds explored, see conf

ASSUME OrderAssumption == AddrOrder \in Seq(DN) /\ Range(AddrOrder) = DN /\ Len(AddrOrder) = Cardinality(DN)
ASSUME RankAssumption == \A c \in Chunk : Rank[c] \in Seq(DN) /\ Range(Rank[c]) = DN /\ Len(Rank[c]) = Cardinality(DN)

\* A deployment starts with whole objects; workers are at least one.
ASSUME SetupAssumption ==
    /\ IsFiniteSet(Key)
    /\ \A s \in Setups : /\ s.stored \in [Key -> [k : Nat, groups : Seq(Seq([id : Chunk, replicas : Seq(DN)]))]]
                         /\ s.max \in Nat /\ s.conc \in Nat \ {0}

VARIABLES
    meta,   \* key -> object, see Objects
    file,   \* data node -> chunk -> "none", "good" or "bad" (the bytes are not the id's)
    up,     \* the nodes that answer
    nodes,  \* the registered nodes (coord.DNs and ListRuntimeDNs)
    put,    \* the EC PUT being served
    del,    \* the DELETE being served
    reps,   \* the stripe repairs of the running repair worker
    migs,   \* the shard migrations of the running rebalance
    used,   \* how much of each bound is used, the requests and the deletes begun
    conf    \* the deployment, fixed at the start

stripeVars == <<meta, file, up, nodes, put, del, reps, migs, used, conf>>

Ref(c, list) == [id |-> c, replicas |-> list]

\* An object has k = 0 and one reference per group when it is replicated, and
\* k > 0 and a group of K+M references per stripe when it is erasure coded.
Object(k, groups) == [k |-> k, groups |-> groups]
NoObject == Object(0, <<>>)
IsEC(o) == o.k > 0

PutIdle == [at |-> "idle"]
DelIdle == [at |-> "idle"]

Spend(what) == used' = [used EXCEPT ![what] = @ + 1]
MayFail == used.fails < conf.maxFails

-----------------------------------------------------------------------------
(* Placement and data nodes.                                               *)

StripeID(ids) == ids[1]

\* The n best registered nodes for a stripe, best first (fewer if there are fewer).
PlaceN(sid, n) ==
    LET ranked == SelectSeq(Rank[sid], LAMBDA d : d \in nodes)
    IN SubSeq(ranked, 1, IF n < Len(ranked) THEN n ELSE Len(ranked))

DnPut(f, d, c, force) == [f EXCEPT ![d][c] = IF @ = "none" \/ force THEN "good" ELSE @]

\* PUT of a chunk whose bytes are right: a file that exists is kept unless the
\* caller insists, whatever its bytes are.
Stored(d, c, force) == d \in up /\ file' = DnPut(file, d, c, force) /\ UNCHANGED used

\* The node is down, or the call fails with or without having stored the file.
NotStored(d, c, force) ==
    \/ d \notin up /\ UNCHANGED <<file, used>>
    \/ d \in up /\ MayFail /\ Spend("fails") /\ file' \in {file, DnPut(file, d, c, force)}

\* GET of a chunk: its bytes are not compared with the id.
Served(d, c) == d \in up /\ file[d][c] # "none" /\ UNCHANGED used
NotServed(d, c) ==
    \/ d \notin up \/ file[d][c] = "none"
    \/ MayFail

SpendOnGet(d, c) == IF d \notin up \/ file[d][c] = "none" THEN UNCHANGED used ELSE Spend("fails")

-----------------------------------------------------------------------------
(* EC PUT: stripe after stripe, shard after shard; every one of the K+M    *)
(* must be stored.                                                         *)

Current == put.req.stripes[Len(put.groups) + 1]

PutStart(q) ==
    /\ put = PutIdle
    /\ q \notin used.requests /\ used' = [used EXCEPT !.requests = @ \cup {q}]
    /\ Len(q.stripes[1]) <= Cardinality(nodes)
    /\ put' = [at |-> "place", req |-> q, groups |-> <<>>, addrs |-> <<>>, refs |-> <<>>]
    /\ UNCHANGED <<meta, file, up, nodes, del, reps, migs, conf>>

\* The next stripe is read and placed; the client may have gone.
PutPlace ==
    /\ put.at = "place"
    /\ \/ /\ LET addrs == PlaceN(StripeID(Current), Len(Current))
             IN put' = IF Len(addrs) < Len(Current) THEN PutIdle
                       ELSE [put EXCEPT !.at = "write", !.addrs = addrs]
          /\ UNCHANGED used
       \/ MayFail /\ Spend("fails") /\ put' = PutIdle
    /\ UNCHANGED <<meta, file, up, nodes, del, reps, migs, conf>>

PutShard ==
    /\ put.at = "write"
    /\ LET i == Len(put.refs) + 1
           refs == Append(put.refs, Ref(Current[i], <<put.addrs[i]>>))
           groups == Append(put.groups, refs)
       IN \/ /\ Stored(put.addrs[i], Current[i], FALSE)
             /\ put' = IF i < Len(Current) THEN [put EXCEPT !.refs = refs]
                       ELSE [put EXCEPT !.refs = <<>>, !.groups = groups,
                               !.at = IF Len(groups) < Len(put.req.stripes) THEN "place" ELSE "commit"]
          \/ NotStored(put.addrs[i], Current[i], FALSE) /\ put' = PutIdle
    /\ UNCHANGED <<meta, up, nodes, del, reps, migs, conf>>

PutCommit ==
    /\ put.at = "commit"
    /\ \/ meta' = [meta EXCEPT ![put.req.key] = Object(put.req.k, put.groups)] /\ UNCHANGED used
       \/ MayFail /\ Spend("fails") /\ UNCHANGED meta
    /\ put' = PutIdle
    /\ UNCHANGED <<file, up, nodes, del, reps, migs, conf>>

-----------------------------------------------------------------------------
(* DELETE: the files on every listed node, then the metadata.              *)

Refs(o) == UNION {Range(o.groups[s]) : s \in DOMAIN o.groups}
Copies(o) == UNION {{<<d, r.id>> : d \in Range(r.replicas)} : r \in Refs(o)}

DelStart(k) ==
    /\ del = DelIdle /\ k \in conf.deletes /\ meta[k] # NoObject
    /\ del' = [at |-> "erase", key |-> k, left |-> Copies(meta[k])]
    /\ used' = [used EXCEPT !.deleted = @ \cup {k}]
    /\ UNCHANGED <<meta, file, up, nodes, put, reps, migs, conf>>

\* Errors of single nodes are ignored.
DelChunk(p) ==
    /\ del.at = "erase" /\ p \in del.left
    /\ del' = [del EXCEPT !.left = @ \ {p}]
    /\ file' = IF p[1] \in up THEN [file EXCEPT ![p[1]][p[2]] = "none"] ELSE file
    /\ UNCHANGED <<meta, up, nodes, put, reps, migs, used, conf>>

DelMeta ==
    /\ del.at = "erase" /\ del.left = {}
    /\ \/ meta' = [meta EXCEPT ![del.key] = NoObject] /\ UNCHANGED used
       \/ MayFail /\ Spend("fails") /\ UNCHANGED meta
    /\ del' = DelIdle
    /\ UNCHANGED <<file, up, nodes, put, reps, migs, conf>>

-----------------------------------------------------------------------------
(* UpdateShardReplicas: the shard is addressed by its position; FALSE when *)
(* the object, the stripe or the shard is not there.                       *)

HasShard(k, s, i) == IsEC(meta[k]) /\ s \in DOMAIN meta[k].groups /\ i \in DOMAIN meta[k].groups[s]

UpdateShardReplicas(k, s, i, list) == meta' = [meta EXCEPT ![k].groups[s][i].replicas = list]

-----------------------------------------------------------------------------
(* Repair worker.                                                          *)

\* The shard positions of a group that satisfy P, ascending.
Positions(g, P(_)) == SelectSeq([i \in DOMAIN g |-> i], P)

Survivor(g, i) == [i |-> i, id |-> g[i].id, addr |-> g[i].replicas[1]]
Dead(g, i, addr, force) == [i |-> i, id |-> g[i].id, new |-> addr, force |-> force]

StripeRepair(by, k, s, need, surv, dead) ==
    [by |-> by, key |-> k, s |-> s, k |-> need, surv |-> surv, dead |-> dead, got |-> <<>>, at |-> "wait"]

\* The nodes placement names for a stripe, in the order of the addresses.
Wanted(g) == SelectSeq(AddrOrder, LAMBDA d : d \in Range(PlaceN(StripeID([i \in DOMAIN g |-> g[i].id]), Len(g))))

\* Mutant: the nodes of surviving shards are not set aside.
RehomeBusy(k, s) ==
    LET g == meta[k].groups[s]
        alive == Positions(g, LAMBDA i : g[i].replicas[1] \in nodes)
        dead == Positions(g, LAMBDA i : g[i].replicas[1] \notin nodes)
        free == Wanted(g)
        n == IF Len(dead) < Len(free) THEN Len(dead) ELSE Len(free)
    IN StripeRepair("operator", k, s, meta[k].k, [j \in DOMAIN alive |-> Survivor(g, alive[j])],
                    [j \in 1..n |-> Dead(g, dead[j], free[j], FALSE)])

\* A shard is dead when its node is no longer registered; dead shards go to the
\* wanted nodes that no surviving shard is on, in the order of the addresses.
Rehome(k, s) ==
    LET g == meta[k].groups[s]
        alive == Positions(g, LAMBDA i : g[i].replicas[1] \in nodes)
        dead == Positions(g, LAMBDA i : g[i].replicas[1] \notin nodes)
        free == SelectSeq(Wanted(g), LAMBDA d : \A i \in Range(alive) : g[i].replicas[1] # d)
        n == IF Len(dead) < Len(free) THEN Len(dead) ELSE Len(free)
    IN StripeRepair("operator", k, s, meta[k].k, [j \in DOMAIN alive |-> Survivor(g, alive[j])],
                    [j \in 1..n |-> Dead(g, dead[j], free[j], FALSE)])

ComputePlan ==
    UNION {{Rehome(k, s) : s \in DOMAIN meta[k].groups} : k \in {x \in Key : IsEC(meta[x])}}

\* Stripes with fewer than K survivors are reported and left alone.
RepairStart ==
    /\ conf.repairing /\ \A r \in reps : r.by # "operator"
    /\ LET plan == {r \in ComputePlan : r.dead # <<>> /\ Len(r.surv) >= r.k}
       IN plan # {} /\ reps' = reps \cup plan
    /\ UNCHANGED <<meta, file, up, nodes, put, del, migs, used, conf>>

Active(by) == {r \in reps : r.by = by /\ r.at \in {"read", "put", "update"}}

Becomes(r, n) == reps' = (reps \ {r}) \cup {n}
Fails(r) == Becomes(r, [r EXCEPT !.at = "failed"])

\* A free worker takes a stripe; without K survivors it fails at once.
RepBegin(r) ==
    /\ r.at = "wait" /\ Cardinality(Active(r.by)) < conf.conc
    /\ Becomes(r, [r EXCEPT !.at = IF Len(r.surv) < r.k THEN "failed" ELSE "read"])
    /\ UNCHANGED <<meta, file, up, nodes, put, del, migs, used, conf>>

\* The first K survivors are read one after the other.
RepRead(r) ==
    /\ r.at = "read"
    /\ LET v == r.surv[Len(r.got) + 1]
           got == Append(r.got, file[v.addr][v.id])
       IN \/ /\ Served(v.addr, v.id)
             /\ Becomes(r, [r EXCEPT !.got = got, !.at = IF Len(got) = r.k THEN "put" ELSE "read"])
          \/ NotServed(v.addr, v.id) /\ SpendOnGet(v.addr, v.id) /\ Fails(r)
    /\ UNCHANGED <<meta, file, up, nodes, put, del, migs, conf>>

\* What Reconstruct and Encode make of the shards that were read: with a bad one
\* among them every rebuilt shard differs from its id, and the node refuses it.
Rebuilt(r) == \A j \in DOMAIN r.got : r.got[j] = "good"

\* Mutant: the status of the PUT is not looked at.
RepPutBlind(r) ==
    /\ r.at = "put"
    /\ LET d == Head(r.dead) IN
       /\ Rebuilt(r) /\ (Stored(d.new, d.id, d.force) \/ NotStored(d.new, d.id, d.force))
       /\ Becomes(r, [r EXCEPT !.at = "update"])
    /\ UNCHANGED <<meta, up, nodes, put, del, migs, conf>>

RepPut(r) ==
    /\ r.at = "put"
    /\ LET d == Head(r.dead) IN
       \/ Rebuilt(r) /\ Stored(d.new, d.id, d.force) /\ Becomes(r, [r EXCEPT !.at = "update"])
       \/ Rebuilt(r) /\ NotStored(d.new, d.id, d.force) /\ Fails(r)
       \/ ~Rebuilt(r) /\ UNCHANGED <<file, used>> /\ Fails(r)
    /\ UNCHANGED <<meta, up, nodes, put, del, migs, conf>>

\* Mutant: the loop over the dead shards goes one too far.
RepUpdateOnePast(r) ==
    /\ r.at = "update"
    /\ LET d == Head(r.dead) IN
       \/ /\ HasShard(r.key, r.s, d.i)
          /\ UpdateShardReplicas(r.key, r.s, d.i, <<d.new>>)
          /\ Becomes(r, [r EXCEPT !.dead = Tail(@), !.at = "put"])
       \/ ~HasShard(r.key, r.s, d.i) /\ Fails(r) /\ UNCHANGED meta
    /\ UNCHANGED <<file, up, nodes, put, del, migs, used, conf>>

RepUpdate(r) ==
    /\ r.at = "update"
    /\ LET d == Head(r.dead) IN
       \/ /\ HasShard(r.key, r.s, d.i)
          /\ UpdateShardReplicas(r.key, r.s, d.i, <<d.new>>)
          /\ Becomes(r, [r EXCEPT !.dead = Tail(@), !.at = IF Len(r.dead) = 1 THEN "ok" ELSE "put"])
       \/ ~HasShard(r.key, r.s, d.i) /\ Fails(r) /\ UNCHANGED meta
    /\ UNCHANGED <<file, up, nodes, put, del, migs, used, conf>>

\* The worker's statistics count the stripe.
RepCount(r) ==
    /\ r.at \in {"ok", "failed"} /\ r.by = "operator"
    /\ reps' = reps \ {r}
    /\ UNCHANGED <<meta, file, up, nodes, put, del, migs, used, conf>>

-----------------------------------------------------------------------------
(* Rebalance worker (shards).                                              *)

\* Mutant: the first shard of every stripe is skipped.
planECFromOne(k) ==
    UNION {LET g == meta[k].groups[s]
               wanted == Range(Wanted(g))
               free == SelectSeq(Wanted(g), LAMBDA d : \A i \in DOMAIN g : g[i].replicas[1] # d)
               off == Positions(g, LAMBDA i : i > 1 /\ g[i].replicas[1] \notin wanted)
           IN {[key |-> k, s |-> s, i |-> off[j], id |-> g[off[j]].id, old |-> g[off[j]].replicas[1],
                new |-> free[j], data |-> "none", at |-> "read"] :
                 j \in DOMAIN off \cap DOMAIN free} : s \in DOMAIN meta[k].groups}

\* For objects without a class (an edge with no EDGE_PLACEMENT_PREFER):
\* shards on nodes the placement does not want move to wanted nodes no shard is
\* on, in the order of the addresses; when these run out the rest stay.
planEC(k) ==
    UNION {LET g == meta[k].groups[s]
               wanted == Range(Wanted(g))
               free == SelectSeq(Wanted(g), LAMBDA d : \A i \in DOMAIN g : g[i].replicas[1] # d)
               off == Positions(g, LAMBDA i : g[i].replicas[1] \notin wanted)
           IN {[key |-> k, s |-> s, i |-> off[j], id |-> g[off[j]].id, old |-> g[off[j]].replicas[1],
                new |-> free[j], data |-> "none", at |-> "read"] :
                 j \in DOMAIN off \cap DOMAIN free} : s \in DOMAIN meta[k].groups}

RebalanceStart ==
    /\ conf.balancing /\ migs = {}
    /\ migs' = UNION {planEC(k) : k \in {x \in Key : IsEC(meta[x])}}
    /\ migs' # {}
    /\ UNCHANGED <<meta, file, up, nodes, put, del, reps, used, conf>>

MigRead(m) ==
    /\ m.at = "read"
    /\ \/ /\ Served(m.old, m.id)
          /\ migs' = (migs \ {m}) \cup {[m EXCEPT !.data = file[m.old][m.id], !.at = "put"]}
       \/ NotServed(m.old, m.id) /\ SpendOnGet(m.old, m.id) /\ migs' = migs \ {m}
    /\ UNCHANGED <<meta, file, up, nodes, put, del, reps, conf>>

MigPut(m) ==
    /\ m.at = "put"
    /\ \/ /\ m.data = "good" /\ Stored(m.new, m.id, FALSE)
          /\ migs' = (migs \ {m}) \cup {[m EXCEPT !.at = "update"]}
       \/ m.data = "good" /\ NotStored(m.new, m.id, FALSE) /\ migs' = migs \ {m}
       \/ m.data = "bad" /\ UNCHANGED <<file, used>> /\ migs' = migs \ {m}
    /\ UNCHANGED <<meta, up, nodes, put, del, reps, conf>>

MigUpdate(m) ==
    /\ m.at = "update"
    /\ IF HasShard(m.key, m.s, m.i) THEN UpdateShardReplicas(m.key, m.s, m.i, <<m.new>>) ELSE UNCHANGED meta
    /\ migs' = migs \ {m}
    /\ UNCHANGED <<file, up, nodes, put, del, reps, used, conf>>

-----------------------------------------------------------------------------
(* The rest of the world.                                                  *)

UpdateNodes(T) ==
    /\ T # nodes /\ used.topology < conf.maxTopology
    /\ nodes' = T /\ Spend("topology")
    /\ UNCHANGED <<meta, file, up, put, del, reps, migs, conf>>

\* A file rots, or is lost.
Decay(d, c, to) ==
    /\ <<d, c, to>> \in conf.decays /\ file[d][c] = "good" /\ used.faults < conf.maxFaults
    /\ file' = [file EXCEPT ![d][c] = to] /\ Spend("faults")
    /\ UNCHANGED <<meta, up, nodes, put, del, reps, migs, conf>>

NodeDown(d) ==
    /\ d \in up /\ used.downs < conf.maxDowns
    /\ up' = up \ {d} /\ Spend("downs")
    /\ UNCHANGED <<meta, file, nodes, put, del, reps, migs, conf>>

NodeUp(d) ==
    /\ d \notin up /\ up' = up \cup {d}
    /\ UNCHANGED <<meta, file, nodes, put, del, reps, migs, used, conf>>

\* The edge dies, and with it its handlers and workers.
EdgeDies ==
    /\ put # PutIdle \/ del # DelIdle \/ migs # {} \/ \E r \in reps : r.by = "operator"
    /\ used.crashes < conf.maxCrashes /\ Spend("crashes")
    /\ put' = PutIdle /\ del' = DelIdle /\ migs' = {}
    /\ reps' = {r \in reps : r.by # "operator"}
    /\ UNCHANGED <<meta, file, up, nodes, conf>>

-----------------------------------------------------------------------------
StripesInit ==
    /\ conf \in Setups
    /\ meta = conf.stored
    /\ file = [d \in DN |-> [c \in Chunk |->
                 IF \E k \in Key : <<d, c>> \in Copies(conf.stored[k]) THEN "good" ELSE "none"]]
    /\ up = DN
    /\ nodes \in conf.topologies
    /\ put = PutIdle /\ del = DelIdle /\ reps = {} /\ migs = {}
    /\ used = [requests |-> {}, deleted |-> {}, faults |-> 0, fails |-> 0, downs |-> 0, topology |-> 0, crashes |-> 0]

PutStep == PutPlace \/ PutShard \/ PutCommit

DelStep == DelMeta \/ (\E p \in DN \X Chunk : DelChunk(p))

RepStep(r) == RepBegin(r) \/ RepRead(r) \/ RepPut(r) \/ RepUpdate(r)

Rebalance == RebalanceStart \/ \E m \in migs : MigRead(m) \/ MigPut(m) \/ MigUpdate(m)

\* Everything but the repairs the coordinator's audit asks for.
StripesNext ==
    \/ \E q \in conf.requests : PutStart(q)
    \/ PutStep
    \/ \E k \in Key : DelStart(k)
    \/ DelStep
    \/ RepairStart
    \/ \E r \in reps : r.by = "operator" /\ (RepStep(r) \/ RepCount(r))
    \/ Rebalance
    \/ \E T \in conf.topologies : UpdateNodes(T)
    \/ \E d \in DN, c \in Chunk, to \in {"none", "bad"} : Decay(d, c, to)
    \/ \E d \in DN : NodeDown(d) \/ NodeUp(d)
    \/ EdgeDies
=============================================================================
