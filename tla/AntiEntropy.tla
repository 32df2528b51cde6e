----------------------------- MODULE AntiEntropy -----------------------------
(***************************************************************************)
(* Self-healing: the scrubber of every data node, which reads its files    *)
(* one after the other and keeps the set of those whose bytes are wrong,   *)
(* and the coordinator's audit and repair, which compares what the         *)
(* metadata lists with what the nodes have, copies missing and rotten      *)
(* replicas and has stripes rebuilt.  Both run beside the activities of    *)
(* Stripes.                                                                *)
(***************************************************************************)
EXTENDS Stripes

CONSTANTS
    ChunkOrder,  \* Chunk in the order of sort.Strings
    BucketOf     \* chunk -> Merkle bucket (the first two digits of the id)

ASSUME ChunkOrderAssumption ==
    ChunkOrder \in Seq(Chunk) /\ Range(ChunkOrder) = Chunk /\ Len(ChunkOrder) = Cardinality(Chunk)

VARIABLES
    corrupt,  \* data node -> the scrubber's corrupt set
    saved,    \* data node -> scrub-state.json
    scrub,    \* data node -> where its scrubber is: the file last visited, and
              \* what is known of it ("visit": nothing yet, "done": dealt with)
    ae        \* the repair run of the coordinator; quiet is a history variable:
              \* nothing but the run itself has happened since it began

aeVars == <<corrupt, saved, scrub, ae>>
vars == <<meta, file, up, nodes, put, del, reps, migs, used, conf, corrupt, saved, scrub, ae>>

Buckets == Range(BucketOf)
ScanStart == [pos |-> 0, at |-> "done"]
AeIdle == [at |-> "idle"]

\* The world moves while the run is under way.
Disturbed == ae' = IF ae = AeIdle THEN ae ELSE [ae EXCEPT !.quiet = FALSE]

-----------------------------------------------------------------------------
(* Scrubber.                                                               *)

\* The next file in the order of the walk, 0 at the end of the scan.
NextFile(d, pos) ==
    LET later == {n \in DOMAIN ChunkOrder : n > pos /\ file[d][ChunkOrder[n]] # "none"}
    IN IF later = {} THEN 0 ELSE Min(later)

ScrubVisit(d) ==
    /\ d \in conf.scrubbers /\ scrub[d].at = "done"
    /\ LET n == NextFile(d, scrub[d].pos)
       IN scrub' = [scrub EXCEPT ![d] = IF n = 0 THEN ScanStart ELSE [pos |-> n, at |-> "visit"]]
    /\ scrub' # scrub
    /\ UNCHANGED <<stripeVars, corrupt, saved, ae>>

\* The file is read; one that is gone by now counts as unreadable.
ScrubRead(d) ==
    /\ scrub[d].at = "visit"
    /\ scrub' = [scrub EXCEPT ![d].at = IF file[d][ChunkOrder[scrub[d].pos]] = "good" THEN "healthy" ELSE "damaged"]
    /\ UNCHANGED <<stripeVars, corrupt, saved, ae>>

\* The corrupt set is persisted when it changes: a failing write leaves the old file.
persistCorruptSet(d) ==
    \/ saved' = [saved EXCEPT ![d] = corrupt'[d]] /\ UNCHANGED used
    \/ MayFail /\ Spend("fails") /\ UNCHANGED saved

\* The verdict enters the corrupt set.
ScrubMark(d) ==
    /\ scrub[d].at \in {"healthy", "damaged"}
    /\ LET c == ChunkOrder[scrub[d].pos]
       IN corrupt' = [corrupt EXCEPT ![d] = IF scrub[d].at = "damaged" THEN @ \cup {c} ELSE @ \ {c}]
    /\ IF corrupt'[d] = corrupt[d] THEN UNCHANGED <<saved, used>> ELSE persistCorruptSet(d)
    /\ scrub' = [scrub EXCEPT ![d].at = "done"]
    /\ Disturbed
    /\ UNCHANGED <<meta, file, up, nodes, put, del, reps, migs, conf>>

\* A data node restarts with the set it last persisted.
DnRestart(d) ==
    /\ used.crashes < conf.maxCrashes /\ Spend("crashes")
    /\ corrupt' = [corrupt EXCEPT ![d] = saved[d]]
    /\ scrub' = [scrub EXCEPT ![d] = ScanStart]
    /\ Disturbed
    /\ UNCHANGED <<meta, file, up, nodes, put, del, reps, migs, conf, saved>>

-----------------------------------------------------------------------------
(* Audit.                                                                  *)

\* How often the metadata lists chunk c on node d: once for every reference of
\* every object, so more than once for a chunk that objects share.
expectedChunksByDN ==
    [d \in DN |-> [c \in Chunk |->
        Cardinality(UNION {UNION {{<<k, s, i>> : i \in {x \in DOMAIN meta[k].groups[s] :
                                       /\ meta[k].groups[s][x].id = c
                                       /\ d \in Range(meta[k].groups[s][x].replicas)}} :
                                  s \in DOMAIN meta[k].groups} : k \in Key})]]

NoIds == [d \in DN |-> [c \in Chunk |-> 0]]
NoFlags == [d \in DN |-> {}]
NoObjects == [k \in Key |-> NoObject]

AeStart ==
    /\ conf.healing /\ ae = AeIdle
    /\ ae' = [at |-> "audit", exp |-> expectedChunksByDN, left |-> nodes, differ |-> NoFlags,
              missing |-> NoIds, reached |-> {}, flagged |-> NoFlags,
              objs |-> NoObjects, jobs |-> {}, work |-> {}, succ |-> 0, lost |-> {},
              quiet |-> TRUE]
    /\ UNCHANGED <<stripeVars, corrupt, saved, scrub>>

Has(d, c) == IF file[d][c] = "none" THEN 0 ELSE 1

\* The buckets whose hash over the sorted ids differs from the expected one.
Differing(d) == {b \in Buckets : \E c \in Chunk : BucketOf[c] = b /\ ae.exp[d][c] # Has(d, c)}

AuditRoot(d) ==
    /\ ae.at = "audit" /\ d \in ae.left
    /\ \/ /\ d \in up
          /\ ae' = [ae EXCEPT !.left = @ \ {d}, !.reached = @ \cup {d}, !.differ[d] = Differing(d)]
          /\ UNCHANGED used
       \/ /\ d \notin up \/ MayFail
          /\ IF d \in up THEN Spend("fails") ELSE UNCHANGED used
          /\ ae' = [ae EXCEPT !.left = @ \ {d}, !.quiet = @ /\ d \notin up]
    /\ UNCHANGED <<meta, file, up, nodes, put, del, reps, migs, conf, corrupt, saved, scrub>>

listBucket(d, b) == {c \in Chunk : BucketOf[c] = b /\ file[d][c] # "none"}

\* a - b of symmetricDiff, as the number of times each id is left over.
OnlyExpected(d, b) ==
    [c \in Chunk |-> IF BucketOf[c] # b THEN ae.missing[d][c]
                     ELSE Max({0, ae.exp[d][c] - Cardinality({c} \cap listBucket(d, b))})]

\* A diverging bucket is fetched; a failing fetch leaves its ids unreported.
AuditBucket(d, b) ==
    /\ ae.at = "audit" /\ b \in ae.differ[d]
    /\ \/ /\ d \in up
          /\ ae' = [ae EXCEPT !.differ[d] = @ \ {b}, !.missing[d] = OnlyExpected(d, b)]
          /\ UNCHANGED used
       \/ /\ d \notin up \/ MayFail
          /\ IF d \in up THEN Spend("fails") ELSE UNCHANGED used
          /\ ae' = [ae EXCEPT !.differ[d] = @ \ {b}, !.quiet = FALSE]
    /\ UNCHANGED <<meta, file, up, nodes, put, del, reps, migs, conf, corrupt, saved, scrub>>

-----------------------------------------------------------------------------
(* Repair.                                                                 *)

\* The metadata is listed a second time for owners and stripes; then the corrupt
\* sets are fetched.
AeList ==
    /\ ae.at = "audit" /\ ae.left = {} /\ \A d \in DN : ae.differ[d] = {}
    /\ ae' = [ae EXCEPT !.at = "collect", !.exp = NoIds, !.objs = meta,
                       !.left = IF conf.corrupt THEN ae.reached ELSE {}]
    /\ UNCHANGED <<stripeVars, corrupt, saved, scrub>>

AeCollect(d) ==
    /\ ae.at = "collect" /\ d \in ae.left
    /\ \/ /\ d \in up
          /\ ae' = [ae EXCEPT !.left = @ \ {d}, !.flagged[d] = corrupt[d]]
          /\ UNCHANGED used
       \/ /\ d \notin up \/ MayFail
          /\ IF d \in up THEN Spend("fails") ELSE UNCHANGED used
          /\ ae' = [ae EXCEPT !.left = @ \ {d}, !.quiet = FALSE]
    /\ UNCHANGED <<meta, file, up, nodes, put, del, reps, migs, conf, corrupt, saved, scrub>>

\* One job per missing and per corrupt id of a node that answered.
Jobs ==
    UNION {{[dn |-> d, id |-> c, reason |-> "corrupt", n |-> 1] : c \in ae.flagged[d]}
           \cup UNION {{[dn |-> d, id |-> c, reason |-> "missing", n |-> n] : n \in 1..ae.missing[d][c]} : c \in Chunk} :
             d \in ae.reached}

AePlan ==
    /\ ae.at = "collect" /\ ae.left = {}
    /\ ae' = [ae EXCEPT !.at = "copy", !.jobs = Jobs]
    /\ UNCHANGED <<stripeVars, corrupt, saved, scrub>>

Owners(c) == UNION {Range(r.replicas) : r \in {x \in UNION {Refs(ae.objs[k]) : k \in Key} : x.id = c}}
ECChunk(c) == \E k \in Key : IsEC(ae.objs[k]) /\ \E r \in Refs(ae.objs[k]) : r.id = c

\* Mutant: a node that misses any chunk is not a source.
SourcesWhole(d, c) ==
    {o \in Owners(c) \ {d} : o \in ae.reached /\ ae.missing[o] = NoIds[o] /\ c \notin ae.flagged[o]}

\* The nodes believed to have a good copy: listed, reached, not reported missing
\* and not flagged.
Sources(d, c) == {o \in Owners(c) \ {d} : o \in ae.reached /\ ae.missing[o][c] = 0 /\ c \notin ae.flagged[o]}

\* Mutant: the cap is passed before it stops the run.
ThrottledLate == conf.max > 0 /\ ae.succ > conf.max

Throttled == conf.max > 0 /\ ae.succ >= conf.max

\* A worker takes a job.  The cap is looked at here and counted when the copy is
\* done; shards are left to the EC pass.  The first source in the order of the
\* owners is taken; the order is left open.
repairOne(j) ==
    /\ ae.at = "copy" /\ j \in ae.jobs /\ Cardinality(ae.work) < conf.conc
    /\ \/ /\ Throttled \/ ECChunk(j.id)
          /\ ae' = [ae EXCEPT !.jobs = @ \ {j}]
       \/ /\ ~Throttled /\ ~ECChunk(j.id) /\ Sources(j.dn, j.id) = {}
          /\ ae' = [ae EXCEPT !.jobs = @ \ {j}, !.lost = @ \cup {j.id}]
       \/ /\ ~Throttled /\ ~ECChunk(j.id)
          /\ \E o \in Sources(j.dn, j.id) :
               ae' = [ae EXCEPT !.jobs = @ \ {j},
                        !.work = @ \cup {[job |-> j, src |-> o, at |-> "read", data |-> "none"]}]
    /\ UNCHANGED <<stripeVars, corrupt, saved, scrub>>

\* copyChunk: read from the source, PUT to the target (by force over a corrupt
\* file); the node refuses bytes that are not the id's.
CopyRead(w) ==
    /\ w \in ae.work /\ w.at = "read"
    /\ \/ /\ Served(w.src, w.job.id)
          /\ ae' = [ae EXCEPT !.work = (@ \ {w}) \cup {[w EXCEPT !.at = "put", !.data = file[w.src][w.job.id]]}]
       \/ /\ NotServed(w.src, w.job.id) /\ SpendOnGet(w.src, w.job.id)
          /\ ae' = [ae EXCEPT !.work = @ \ {w}]
    /\ UNCHANGED <<meta, file, up, nodes, put, del, reps, migs, conf, corrupt, saved, scrub>>

CopyPut(w) ==
    /\ w \in ae.work /\ w.at = "put"
    /\ LET d == w.job.dn
           force == w.job.reason = "corrupt"
       IN \/ /\ w.data = "good" /\ Stored(d, w.job.id, force)
             /\ ae' = [ae EXCEPT !.work = @ \ {w}, !.succ = @ + 1]
          \/ /\ w.data = "good" /\ NotStored(d, w.job.id, force)
             /\ ae' = [ae EXCEPT !.work = @ \ {w}]
          \/ /\ w.data = "bad" /\ UNCHANGED <<file, used>>
             /\ ae' = [ae EXCEPT !.work = @ \ {w}]
    /\ UNCHANGED <<meta, up, nodes, put, del, reps, migs, conf, corrupt, saved, scrub>>

\* Mutant: rotten shards are rewritten without force.
PlanStripeMeek(k, s) ==
    LET g == ae.objs[k].groups[s]
        At(i) == g[i].replicas[1]
        gone(i) == At(i) \in ae.reached /\ ae.missing[At(i)][g[i].id] > 0
        flagged(i) == g[i].id \in ae.flagged[At(i)]
        dead == Positions(g, LAMBDA i : gone(i) \/ flagged(i))
        alive == Positions(g, LAMBDA i : At(i) \in ae.reached /\ ~gone(i) /\ ~flagged(i))
    IN StripeRepair("audit", k, s, ae.objs[k].k, [j \in DOMAIN alive |-> Survivor(g, alive[j])],
                    [j \in DOMAIN dead |-> Dead(g, dead[j], At(dead[j]), FALSE)])

\* A stripe's repair as the audit plans it: missing and flagged shards are
\* rebuilt in place, shards on nodes that were not reached are neither dead nor
\* survivors.
PlanStripe(k, s) ==
    LET g == ae.objs[k].groups[s]
        At(i) == g[i].replicas[1]
        gone(i) == At(i) \in ae.reached /\ ae.missing[At(i)][g[i].id] > 0
        flagged(i) == g[i].id \in ae.flagged[At(i)]
        dead == Positions(g, LAMBDA i : gone(i) \/ flagged(i))
        alive == Positions(g, LAMBDA i : At(i) \in ae.reached /\ ~gone(i) /\ ~flagged(i))
    IN StripeRepair("audit", k, s, ae.objs[k].k, [j \in DOMAIN alive |-> Survivor(g, alive[j])],
                    [j \in DOMAIN dead |-> Dead(g, dead[j], At(dead[j]), ~gone(dead[j]))])

StripePlans ==
    {r \in UNION {{PlanStripe(k, s) : s \in DOMAIN ae.objs[k].groups} :
                    k \in {x \in Key : IsEC(ae.objs[x])}} : r.dead # <<>>}

\* What is left of the cap decides how many stripes are scheduled; what the run
\* has collected is not used after that.
Budget == IF conf.max = 0 THEN Cardinality(StripePlans)
          ELSE IF ae.succ > conf.max THEN 0 ELSE conf.max - ae.succ

AeStripes ==
    /\ ae.at = "copy" /\ ae.jobs = {} /\ ae.work = {}
    /\ ae' = [ae EXCEPT !.at = "ec", !.missing = NoIds, !.reached = {}, !.flagged = NoFlags, !.objs = NoObjects,
                       !.lost = {}]
    /\ IF conf.ec
       THEN \E S \in SUBSET StripePlans :
              /\ Cardinality(S) = Min({Budget, Cardinality(StripePlans)})
              /\ reps' = reps \cup S
       ELSE UNCHANGED reps
    /\ UNCHANGED <<meta, file, up, nodes, put, del, migs, used, conf, corrupt, saved, scrub>>

StripeDone(r) ==
    /\ r.by = "audit" /\ r.at \in {"ok", "failed"}
    /\ reps' = reps \ {r}
    /\ ae' = [ae EXCEPT !.succ = IF r.at = "ok" THEN @ + 1 ELSE @]
    /\ UNCHANGED <<meta, file, up, nodes, put, del, migs, used, conf, corrupt, saved, scrub>>

AeEnd ==
    /\ ae.at = "ec" /\ \A r \in reps : r.by # "audit"
    /\ ae' = AeIdle
    /\ UNCHANGED <<stripeVars, corrupt, saved, scrub>>

-----------------------------------------------------------------------------
Init ==
    /\ StripesInit
    /\ corrupt = [d \in DN |-> {}] /\ saved = [d \in DN |-> {}]
    /\ scrub = [d \in DN |-> ScanStart]
    /\ ae = AeIdle

Scrub(d) == ScrubVisit(d) \/ ScrubRead(d) \/ ScrubMark(d)

Heal ==
    \/ AeStart \/ AeList \/ AePlan \/ AeStripes \/ AeEnd
    \/ \E d \in DN : AuditRoot(d) \/ AeCollect(d) \/ (\E b \in Buckets : AuditBucket(d, b))
    \/ ae.at = "copy" /\ \E j \in ae.jobs : repairOne(j)
    \/ ae.at = "copy" /\ \E w \in ae.work : CopyRead(w) \/ CopyPut(w)
    \/ \E r \in reps : r.by = "audit" /\ ((RepStep(r) /\ UNCHANGED aeVars) \/ StripeDone(r))

\* The coordinator dies in the middle of a run, or another one is elected.
CoordDies ==
    /\ ae # AeIdle /\ used.crashes < conf.maxCrashes /\ Spend("crashes")
    /\ ae' = AeIdle /\ reps' = {r \in reps : r.by # "audit"}
    /\ UNCHANGED <<meta, file, up, nodes, put, del, migs, conf, corrupt, saved, scrub>>

Next ==
    \/ StripesNext /\ Disturbed /\ UNCHANGED <<corrupt, saved, scrub>>
    \/ \E d \in DN : Scrub(d) \/ DnRestart(d)
    \/ Heal \/ CoordDies

Spec == Init /\ [][Next]_vars

\* Handlers, scrubbers and workers run on; the tickers of auto-repair and
\* auto-rebalance fire again and again.
FairSpec ==
    /\ Spec
    /\ WF_vars(Heal)
    /\ \A d \in DN : WF_vars(Scrub(d))
    /\ WF_vars(Rebalance /\ Disturbed /\ UNCHANGED <<corrupt, saved, scrub>>)
    /\ WF_vars(DelStep /\ Disturbed /\ UNCHANGED <<corrupt, saved, scrub>>)

-----------------------------------------------------------------------------
(* Properties.                                                             *)

ObjectOK(o) == o.k \in Nat /\ \A s \in DOMAIN o.groups :
                 o.groups[s] \in Seq([id : Chunk, replicas : Seq(DN)])

\* Type invariant of the stripe workers, the scrubbers and the repair run.
HealTypeOK ==
    /\ \A k \in Key : ObjectOK(meta[k])
    /\ file \in [DN -> [Chunk -> {"none", "good", "bad"}]]
    /\ up \subseteq DN /\ nodes \in conf.topologies
    /\ put = PutIdle \/ put.at \in {"place", "write", "commit"}
    /\ del = DelIdle \/ del.left \subseteq DN \X Chunk
    /\ \A r \in reps : /\ r.key \in Key /\ r.by \in {"operator", "audit"} /\ Len(r.got) <= r.k
                        /\ r.at \in {"wait", "read", "put", "update", "ok", "failed"}
                        /\ r.at \in {"put", "update"} => r.dead # <<>> /\ Len(r.got) = r.k
    /\ \A m \in migs : m.key \in Key /\ m.id \in Chunk /\ {m.old, m.new} \subseteq DN
    /\ corrupt \in [DN -> SUBSET Chunk] /\ saved \in [DN -> SUBSET Chunk]
    /\ scrub \in [DN -> [pos : 0..Len(ChunkOrder), at : {"visit", "healthy", "damaged", "done"}]]
    /\ ae = AeIdle \/ ae.at \in {"audit", "collect", "copy", "ec"}

Readable(d, c) == d \in up /\ file[d][c] = "good"

\* The copies of a group that cannot be read where the metadata says they are.
Lost(g) == {x \in (DOMAIN g) \X DN : x[2] \in Range(g[x[1]].replicas) /\ ~Readable(x[2], g[x[1]].id)}

\* Every copy that cannot be read was lost to a fault of its own: a stripe whose
\* PUT was acknowledged lacks at most as many shards as files have decayed and
\* nodes are down.  A PUT that commits a shard it has not stored, a repair or a
\* migration that lists a node without the file, or two shards behind one node
\* would break it.  (A DELETE that stops half-way leaves metadata without files.)
LossesAreFaults ==
    \A k \in Key \ used.deleted :
        \A s \in DOMAIN meta[k].groups :
            Cardinality(Lost(meta[k].groups[s])) <= used.faults + Cardinality(DN \ up)

\* The shards of a stripe are on different nodes, whichever of PUT, repair and
\* rebalance put them there.
StripeSpread ==
    \A k \in Key : IsEC(meta[k]) =>
        \A s \in DOMAIN meta[k].groups : IsInjective([i \in DOMAIN meta[k].groups[s] |->
                                                        meta[k].groups[s][i].replicas])

\* A repair run with a cap succeeds at most as often as the cap, plus one for
\* each further worker that had passed the check.
CapBound == ae # AeIdle /\ conf.max > 0 => ae.succ <= conf.max + conf.conc - 1

\* A chunk is given up ("no healthy replica found") only if every node that is
\* listed for it and answers lacks it or has flagged it; runs in which the world
\* moved are exempt, and so are the nodes that several references list, where the
\* audit misses one copy for each further reference.
GivenUpRightly ==
    ae # AeIdle /\ ae.quiet =>
        \A c \in ae.lost : \A d \in Owners(c) \cap up \cap nodes :
            file[d][c] = "none" \/ c \in corrupt[d] \/ expectedChunksByDN[d][c] > 1

Answers(d) == d \in up \cap nodes

\* Enough good copies on nodes that answer to rebuild the group.
Recoverable(o, g) ==
    LET good == {i \in DOMAIN g : \E d \in Range(g[i].replicas) : Answers(d) /\ Readable(d, g[i].id)}
    IN IF IsEC(o) THEN Cardinality(good) >= o.k ELSE good # {}

\* With the scrubbers and the auto-repair ticker running, every copy that can be
\* rebuilt from the others, missing or rotten, is good again in the end on every
\* listed node that answers.
Healed ==
    <>[](conf.healing =>
           \A k \in Key : \A s \in DOMAIN meta[k].groups :
              LET g == meta[k].groups[s]
              IN Recoverable(meta[k], g) =>
                   \A i \in DOMAIN g : \A d \in Range(g[i].replicas) : Answers(d) => Readable(d, g[i].id))

\* Where the rebalance worker runs, every stripe that nobody deletes ends up on the
\* nodes its placement names.
StripesPlaced ==
    <>[](conf.balancing =>
           \A k \in Key \ used.deleted : IsEC(meta[k]) =>
              \A s \in DOMAIN meta[k].groups :
                 LET g == meta[k].groups[s]
                 IN {g[i].replicas[1] : i \in DOMAIN g} = Range(Wanted(g)))

=============================================================================
