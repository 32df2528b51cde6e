------------------------------ MODULE ChunkStore ------------------------------
(***************************************************************************)
(* The data path: content-addressed chunk files on the data nodes, the     *)
(* object metadata that refers to them, and the four activities of the     *)
(* edge that change either one concurrently:                               *)
(*                                                                         *)
(*   - request handlers: PUT, DELETE and the multipart calls;              *)
(*   - the garbage collector (plan, then delete what was planned);         *)
(*   - the rebalance worker (plan, copy, then update the replica list);    *)
(*   - the operator, who changes the set of data nodes.                    *)
(*                                                                         *)
(* A chunk is known by its content hash, so two requests that carry the    *)
(* same content write the same file.  Metadata operations are atomic here, *)
(* but the answer may be an error, whether or not the operation was        *)
(* carried out; MetaSync models how they are journalled and replicated.    *)
(***************************************************************************)
EXTENDS Integers, FiniteSets, Sequences, FiniteSetsExt

CONSTANTS
    Key,      \* object keys
    Chunk,    \* chunk ids (sha256 of the content)
    DN,       \* data node addresses
    Handler,  \* concurrent request handlers of the edge
    Upload,   \* multipart upload ids
    Rank,     \* Rank[c]: the data nodes by descending HRW score for c
    Setups    \* the deployments and the bounds explored, see conf

\* A multipart upload has two parts.
PartNos == 1..2

ASSUME RankAssumption ==
    \A c \in Chunk : /\ Rank[c] \in Seq(DN) /\ DN = Range(Rank[c])
                     /\ \A i, j \in DOMAIN Rank[c] : Rank[c][i] = Rank[c][j] => i = j
ASSUME SetupAssumption ==
    \A s \in Setups : /\ s.r \in Nat /\ s.w \in 1..s.r
                      /\ \A T \in s.topologies : T \subseteq DN /\ Cardinality(T) >= s.r
                      /\ s.class \subseteq DN
ASSUME RequestAssumption ==
    \A s \in Setups : \A q \in s.requests :
        /\ q.op \in {"put", "part", "delete", "create", "complete", "abort"}
        /\ q.op \in {"put", "part"} => q.body \in Seq(Chunk) /\ q.body # <<>>
        /\ q.op \in {"put", "delete", "complete"} => q.key \in Key
        /\ q.op \in {"part", "create", "complete", "abort"} => q.upload \in Upload
        /\ q.op = "part" => q.part \in PartNos

VARIABLES
    meta,     \* object metadata: key -> chunk references, <<>> when absent
    uploads,  \* upload id -> [st, parts], parts in the order of their numbers
    file,     \* data node -> chunk -> "none", "new" (younger than min-age) or "old"
    topo,     \* the configured data nodes
    call,     \* handler -> the request it is serving
    gc,       \* the garbage collector
    migs,     \* the migrations of the running rebalance
    doomed,   \* the keys whose object a DELETE has set out to erase, and the
              \* parts that were recorded although UploadPart answered an error:
              \* a history, nothing in the code remembers it
    used,     \* how much of each bound is used
    conf      \* the deployment, fixed at the start: replication factor r and
              \* write quorum w; the nodes of the preferred class ({}: none);
              \* whether the collector and the rebalance worker run, and whether
              \* a request may outlast the collector's min-age (slow); the
              \* handlers in use, the requests clients send, each at most once,
              \* and the node sets the operator configures; the bounds
              \* maxTopology, maxFails (failing calls to nodes and to the
              \* metadata) and maxCrashes

vars == <<meta, uploads, file, topo, call, gc, migs, doomed, used, conf>>

Idle == [op |-> "idle"]
GCIdle == [at |-> "idle", claimed |-> {}, left |-> {}, sweeps |-> {}]
NoParts == [n \in PartNos |-> <<>>]
Ref(c, S) == [id |-> c, replicas |-> S]

\* The chunks of the parts, in the order of their numbers.
Joined(parts) == parts[1] \o parts[2]

Spend(what) == used' = [used EXCEPT ![what] = @ + 1]
MayFail == used.fails < conf.maxFails

-----------------------------------------------------------------------------
(* Placement (see Placement for the algorithm itself): the first n nodes   *)
(* of the chunk's ranking among those in S.                                *)

PlaceN(c, n, S) ==
    {d \in S : Cardinality({e \in S : \E i, j \in DOMAIN Rank[c] :
                                i < j /\ Rank[c][i] = e /\ Rank[c][j] = d}) < n}

\* Targets of a new chunk: the preferred class when it has R nodes.
Targets(c) ==
    PlaceN(c, conf.r, IF Cardinality(conf.class) >= conf.r THEN conf.class ELSE topo)

-----------------------------------------------------------------------------
(* Data node.                                                              *)

\* PUT of a chunk: a file that exists is kept as it is, modification time included.
HasFile(d, c) == file[d][c] # "none"

DnPut(f, d, c) == [f EXCEPT ![d][c] = IF @ = "none" THEN "new" ELSE @]
DnDelete(f, d, c) == [f EXCEPT ![d][c] = "none"]

\* A PUT of which the caller sees an error may have stored the file.
DnPutFails(f, d, c) == {f, DnPut(f, d, c)}

-----------------------------------------------------------------------------
(* Requests.                                                               *)

WriteFirst(q) ==
    [op |-> q.op, req |-> q, at |-> "write", refs |-> <<>>,
     todo |-> Targets(q.body[1]), acks |-> {}, made |-> {}]

Erasing(q, refs) ==
    IF refs = <<>> THEN [op |-> q.op, req |-> q, at |-> "erased", refs |-> <<>>, todo |-> {}]
    ELSE [op |-> q.op, req |-> q, at |-> "erase", refs |-> refs, todo |-> refs[1].replicas]

Accept(h, q) ==
    /\ h \in conf.handlers /\ call[h] = Idle
    /\ q \notin used.requests
    /\ used' = [used EXCEPT !.requests = @ \cup {q}]

\* PUT and UploadPart start by writing their first chunk.
StartWrite(h, q) ==
    /\ q.op \in {"put", "part"}
    /\ Accept(h, q)
    /\ call' = [call EXCEPT ![h] = WriteFirst(q)]
    /\ UNCHANGED <<meta, uploads, file, topo, gc, migs, doomed, conf>>

Current(h) == call[h].req.body[Len(call[h].refs) + 1]

Answered(k, d, acks, made) ==
    [k EXCEPT !.todo = @ \ {d}, !.acks = @ \cup acks, !.made = @ \cup made]

\* One of the parallel PUTs of the fan-out is answered.
WriteTo(h, d) ==
    /\ call[h].op \in {"put", "part"} /\ call[h].at = "write" /\ d \in call[h].todo
    /\ LET c == Current(h)
           made == IF HasFile(d, c) THEN {} ELSE {<<d, c>>}
       IN /\ file' = DnPut(file, d, c)
          /\ call' = [call EXCEPT ![h] = Answered(@, d, {d}, made)]
    /\ UNCHANGED <<meta, uploads, topo, gc, migs, doomed, used, conf>>

WriteFails(h, d) ==
    /\ call[h].op \in {"put", "part"} /\ call[h].at = "write" /\ d \in call[h].todo
    /\ MayFail /\ Spend("fails")
    /\ file' \in DnPutFails(file, d, Current(h))
    /\ call' = [call EXCEPT ![h] = Answered(@, d, {}, {})]
    /\ UNCHANGED <<meta, uploads, topo, gc, migs, doomed, conf>>

QuorumReached(acks) == Cardinality(acks) >= conf.w

\* Every target has answered: below the quorum the request fails and leaves
\* its chunks behind; otherwise the next chunk follows, or the commit.
WriteDone(h) ==
    /\ call[h].op \in {"put", "part"} /\ call[h].at = "write" /\ call[h].todo = {}
    /\ LET q == call[h].req
           refs == Append(call[h].refs, Ref(Current(h), call[h].acks))
       IN call' = [call EXCEPT ![h] =
              IF ~QuorumReached(call[h].acks) THEN Idle
              ELSE IF Len(refs) < Len(q.body)
              THEN [@ EXCEPT !.refs = refs, !.acks = {}, !.todo = Targets(q.body[Len(refs) + 1])]
              ELSE [@ EXCEPT !.refs = refs, !.acks = {}, !.at = "commit"]]
    /\ UNCHANGED <<meta, uploads, file, topo, gc, migs, doomed, used, conf>>

\* A commit that fails leaves the chunks behind.
CommitPut(h) ==
    /\ call[h].op = "put" /\ call[h].at = "commit"
    /\ \/ /\ meta' = [meta EXCEPT ![call[h].req.key] = call[h].refs]
          /\ doomed' = [doomed EXCEPT !.keys = @ \ {call[h].req.key}]
          /\ UNCHANGED used
       \/ MayFail /\ Spend("fails") /\ UNCHANGED <<meta, doomed>>
    /\ call' = [call EXCEPT ![h] = Idle]
    /\ UNCHANGED <<uploads, file, topo, gc, migs, conf>>

RecordPart(q, refs) == uploads' = [uploads EXCEPT ![q.upload].parts[q.part] = refs]

\* A part of an upload that is gone is refused.  On that error, as on any other,
\* the handler deletes the chunks it has written, also when the part was recorded
\* before the error.
CommitPart(h) ==
    /\ call[h].op = "part" /\ call[h].at = "commit"
    /\ LET q == call[h].req
           slot == <<q.upload, q.part>>
           open == uploads[q.upload].st = "open"
       IN \/ /\ open /\ RecordPart(q, call[h].refs)
             /\ doomed' = [doomed EXCEPT !.parts = @ \ {slot}]
             /\ call' = [call EXCEPT ![h] = Idle]
             /\ UNCHANGED used
          \/ /\ \/ ~open /\ UNCHANGED <<uploads, doomed, used>>
                \/ open /\ MayFail /\ Spend("fails") /\ UNCHANGED <<uploads, doomed>>
                \/ /\ open /\ MayFail /\ Spend("fails")
                   /\ RecordPart(q, call[h].refs)
                   /\ doomed' = [doomed EXCEPT !.parts = @ \cup {slot}]
             /\ call' = [call EXCEPT ![h] = Erasing(q, call[h].refs)]
    /\ UNCHANGED <<meta, file, topo, gc, migs, conf>>

\* DELETE looks the object up and erases its chunks before its metadata.
StartDelete(h, q) ==
    /\ q.op = "delete" /\ meta[q.key] # <<>>
    /\ Accept(h, q)
    /\ doomed' = [doomed EXCEPT !.keys = @ \cup {q.key}]
    /\ call' = [call EXCEPT ![h] = Erasing(q, meta[q.key])]
    /\ UNCHANGED <<meta, uploads, file, topo, gc, migs, conf>>

NextErase(k, todo) ==
    IF todo # {} THEN [k EXCEPT !.todo = todo] ELSE Erasing(k.req, Tail(k.refs))

EraseFrom(h, d) ==
    /\ call[h].op # "idle" /\ call[h].at = "erase" /\ d \in call[h].todo
    /\ call' = [call EXCEPT ![h] = NextErase(@, @.todo \ {d})]
    /\ \/ file' = DnDelete(file, d, call[h].refs[1].id) /\ UNCHANGED used
       \/ MayFail /\ Spend("fails") /\ UNCHANGED file
    /\ UNCHANGED <<meta, uploads, topo, gc, migs, doomed, conf>>

\* The metadata that goes is whatever the key has by now; when its deletion
\* fails, it stays without the files.
EraseDone(h) ==
    /\ call[h].op # "idle" /\ call[h].at = "erased"
    /\ \/ call[h].op # "delete" /\ UNCHANGED <<meta, used>>
       \/ /\ call[h].op = "delete"
          /\ meta' = [meta EXCEPT ![call[h].req.key] = <<>>]
          /\ UNCHANGED used
       \/ call[h].op = "delete" /\ MayFail /\ Spend("fails") /\ UNCHANGED meta
    /\ call' = [call EXCEPT ![h] = Idle]
    /\ UNCHANGED <<uploads, file, topo, gc, migs, doomed, conf>>

Create(h, q) ==
    /\ q.op = "create" /\ uploads[q.upload].st = "none"
    /\ Accept(h, q)
    /\ uploads' = [uploads EXCEPT ![q.upload].st = "open"]
    /\ UNCHANGED <<meta, file, topo, call, gc, migs, doomed, conf>>

\* The client names the parts it wants, in order; the others are dropped.
Complete(h, q) ==
    /\ q.op = "complete" /\ uploads[q.upload].st = "open"
    /\ Accept(h, q)
    /\ \E S \in SUBSET {n \in PartNos : uploads[q.upload].parts[n] # <<>>} \ {{}} :
          /\ meta' = [meta EXCEPT ![q.key] =
                     Joined([n \in PartNos |-> IF n \in S THEN uploads[q.upload].parts[n] ELSE <<>>])]
          /\ doomed' = [doomed EXCEPT !.keys =
                     IF \E n \in S : <<q.upload, n>> \in doomed.parts THEN @ \cup {q.key} ELSE @ \ {q.key}]
    /\ uploads' = [uploads EXCEPT ![q.upload] = [st |-> "closed", parts |-> NoParts]]
    /\ UNCHANGED <<file, topo, call, gc, migs, conf>>

AbortKeepsUpload(h, q) ==
    /\ q.op = "abort" /\ uploads[q.upload].st = "open"
    /\ Accept(h, q)
    /\ call' = [call EXCEPT ![h] = Erasing(q, Joined(uploads[q.upload].parts))]
    /\ UNCHANGED <<meta, uploads, file, topo, gc, migs, doomed, conf>>

\* The record of the upload goes first, then the chunks of its parts.
Abort(h, q) ==
    /\ q.op = "abort" /\ uploads[q.upload].st = "open"
    /\ Accept(h, q)
    /\ uploads' = [uploads EXCEPT ![q.upload] = [st |-> "closed", parts |-> NoParts]]
    /\ call' = [call EXCEPT ![h] = Erasing(q, Joined(uploads[q.upload].parts))]
    /\ UNCHANGED <<meta, file, topo, gc, migs, doomed, conf>>

\* An abort that is carried out and answered with an error erases nothing.  (A
\* creation or a completion whose answer is lost has the effect of one that is
\* answered, and one that is not carried out has none.)
AbortFails(h, q) ==
    /\ q.op = "abort" /\ uploads[q.upload].st = "open"
    /\ h \in conf.handlers /\ call[h] = Idle /\ q \notin used.requests /\ MayFail
    /\ used' = [used EXCEPT !.requests = @ \cup {q}, !.fails = @ + 1]
    /\ uploads' = [uploads EXCEPT ![q.upload] = [st |-> "closed", parts |-> NoParts]]
    /\ UNCHANGED <<meta, file, topo, call, gc, migs, doomed, conf>>

-----------------------------------------------------------------------------
(* Garbage collector: one run at a time (gcMu).                            *)

Refers(refs, d, c) == \E i \in DOMAIN refs : refs[i].id = c /\ d \in refs[i].replicas

ClaimedIds == {c \in Chunk : \E k \in Key, d \in DN : Refers(meta[k], d, c)}

\* (node, chunk) pairs some object's metadata holds; pending uploads do not count.
Claimed == {p \in DN \X Chunk : \E k \in Key : Refers(meta[k], p[1], p[2])}

\* The claimed set and the cut-off of the ages are taken when the plan starts.
GCStart ==
    /\ conf.collecting /\ gc.at = "idle"
    /\ gc' = [at |-> "list", claimed |-> Claimed, left |-> topo, sweeps |-> {}]
    /\ UNCHANGED <<meta, uploads, file, topo, call, migs, doomed, used, conf>>

SweepsAnyAge(d, claimed) == {<<d, c>> : c \in {x \in Chunk : HasFile(d, x) /\ <<d, x>> \notin claimed}}
SweepsById(d, claimed) == {<<d, c>> : c \in {x \in Chunk : /\ file[d][x] = "old"
                                                            /\ \A e \in DN : <<e, x>> \notin claimed}}

\* What one node's listing adds to the plan.
Sweeps(d, claimed) == {<<d, c>> : c \in {x \in Chunk : /\ file[d][x] = "old"
                                                        /\ <<d, x>> \notin claimed}}

GCList(d) ==
    /\ gc.at = "list" /\ d \in gc.left
    /\ LET sweeps == gc.sweeps \cup Sweeps(d, gc.claimed)
           left == gc.left \ {d}
       IN gc' = IF left # {} THEN [gc EXCEPT !.left = left, !.sweeps = sweeps]
                ELSE IF sweeps = {} THEN GCIdle
                ELSE [at |-> "sweep", claimed |-> {}, left |-> {}, sweeps |-> sweeps]
    /\ UNCHANGED <<meta, uploads, file, topo, call, migs, doomed, used, conf>>

\* A node that cannot be listed ends the plan.
GCListFails ==
    /\ gc.at = "list" /\ MayFail /\ Spend("fails")
    /\ gc' = GCIdle
    /\ UNCHANGED <<meta, uploads, file, topo, call, migs, doomed, conf>>

\* Planned deletions run in parallel and are not checked again.
GCSweep(p) ==
    /\ gc.at = "sweep" /\ p \in gc.sweeps
    /\ \/ file' = DnDelete(file, p[1], p[2]) /\ UNCHANGED used
       \/ MayFail /\ Spend("fails") /\ UNCHANGED file
    /\ gc' = IF gc.sweeps = {p} THEN GCIdle ELSE [gc EXCEPT !.sweeps = @ \ {p}]
    /\ UNCHANGED <<meta, uploads, topo, call, migs, doomed, conf>>

-----------------------------------------------------------------------------
(* Rebalance worker: one run at a time (rebalanceMu), its migrations in    *)
(* parallel.                                                               *)

DesiredByCount(refs, i) == PlaceN(refs[i].id, Cardinality(refs[i].replicas), topo)

\* Objects of a class stay in it as long as it has as many nodes as the
\* object's best replicated chunk has replicas.
Desired(refs, i) ==
    LET widest == Max({Cardinality(refs[j].replicas) : j \in DOMAIN refs})
    IN IF conf.class # {} /\ Cardinality(conf.class) >= widest
       THEN PlaceN(refs[i].id, Cardinality(refs[i].replicas), conf.class)
       ELSE PlaceN(refs[i].id, conf.r, topo)

PlanChunks(k) ==
    {[key |-> k, idx |-> i, chunk |-> meta[k][i].id, actual |-> meta[k][i].replicas,
      desired |-> Desired(meta[k], i), at |-> "read",
      todo |-> Desired(meta[k], i) \ meta[k][i].replicas, ok |-> {}, made |-> {}] :
        i \in {j \in DOMAIN meta[k] : ~ Desired(meta[k], j) \subseteq meta[k][j].replicas}}

RebalanceStart ==
    /\ conf.balancing /\ migs = {}
    /\ migs' = UNION {PlanChunks(k) : k \in Key}
    /\ migs' # {}
    /\ UNCHANGED <<meta, uploads, file, topo, call, gc, doomed, used, conf>>

Step(m, n) == migs' = (migs \ {m}) \cup {n}

MigrateRead(m) ==
    /\ m.at = "read"
    /\ IF \E d \in m.actual : HasFile(d, m.chunk)
       THEN Step(m, [m EXCEPT !.at = "copy"])
       ELSE migs' = migs \ {m}
    /\ UNCHANGED <<meta, uploads, file, topo, call, gc, doomed, used, conf>>

MigrateCopy(m, d) ==
    /\ m.at = "copy" /\ d \in m.todo
    /\ \/ /\ file' = DnPut(file, d, m.chunk)
          /\ Step(m, [m EXCEPT !.todo = @ \ {d}, !.ok = @ \cup {d},
                        !.made = IF HasFile(d, m.chunk) THEN @ ELSE @ \cup {<<d, m.chunk>>}])
          /\ UNCHANGED used
       \/ /\ MayFail /\ Spend("fails")
          /\ file' \in DnPutFails(file, d, m.chunk)
          /\ Step(m, [m EXCEPT !.todo = @ \ {d}])
    /\ UNCHANGED <<meta, uploads, topo, call, gc, doomed, conf>>

TrimmedAlways(m) == (m.actual \cap m.desired) \cup m.ok

\* The replica list after the copies: trimmed to the desired nodes only when
\* every copy succeeded.
FinalReplicas(m) ==
    IF m.desired \subseteq m.actual \cup m.ok
    THEN (m.actual \cap m.desired) \cup m.ok ELSE m.actual \cup m.ok

\* The list goes to the chunk that has the planned position in the object now.
MigrateUpdate(m) ==
    /\ m.at = "copy" /\ m.todo = {}
    /\ \/ /\ meta' = IF m.idx \in DOMAIN meta[m.key]
                     THEN [meta EXCEPT ![m.key][m.idx].replicas = FinalReplicas(m)] ELSE meta
          /\ UNCHANGED used
       \/ MayFail /\ Spend("fails") /\ UNCHANGED meta
    /\ migs' = migs \ {m}
    /\ UNCHANGED <<uploads, file, topo, call, gc, doomed, conf>>

-----------------------------------------------------------------------------
(* The rest of the world.                                                  *)

\* The operator changes the node set.
UpdateNodes(T) ==
    /\ T # topo /\ used.topology < conf.maxTopology
    /\ topo' = T
    /\ Spend("topology")
    /\ UNCHANGED <<meta, uploads, file, call, gc, migs, doomed, conf>>

\* Files written by work that is still running.
InFlight ==
    UNION ({call[h].made : h \in {g \in Handler : call[g] # Idle /\ call[g].at \in {"write", "commit"}}}
              \cup {m.made : m \in migs})

\* A file outlives the min-age.  A collector that is listing compares with a
\* cut-off in its past, so files that age meanwhile count as young for it.
Age(d, c) ==
    /\ file[d][c] = "new" /\ gc.at # "list"
    /\ conf.slow \/ <<d, c>> \notin InFlight
    /\ file' = [file EXCEPT ![d][c] = "old"]
    /\ UNCHANGED <<meta, uploads, topo, call, gc, migs, doomed, used, conf>>

\* The edge process dies: its handlers and workers vanish, data and metadata stay.
Crash ==
    /\ used.crashes < conf.maxCrashes
    /\ call # [h \in Handler |-> Idle] \/ gc # GCIdle \/ migs # {}
    /\ Spend("crashes")
    /\ call' = [h \in Handler |-> Idle]
    /\ gc' = GCIdle
    /\ migs' = {}
    /\ UNCHANGED <<meta, uploads, file, topo, doomed, conf>>

-----------------------------------------------------------------------------
Init ==
    /\ conf \in Setups
    /\ meta = [k \in Key |-> <<>>]
    /\ uploads = [u \in Upload |-> [st |-> "none", parts |-> NoParts]]
    /\ file = [d \in DN |-> [c \in Chunk |-> "none"]]
    /\ topo \in conf.topologies
    /\ call = [h \in Handler |-> Idle]
    /\ gc = GCIdle
    /\ migs = {}
    /\ doomed = [keys |-> {}, parts |-> {}]
    /\ used = [requests |-> {}, topology |-> 0, fails |-> 0, crashes |-> 0]

HandlerStep(h) ==
    \/ \E d \in DN : WriteTo(h, d) \/ EraseFrom(h, d)
    \/ WriteDone(h) \/ CommitPut(h) \/ CommitPart(h) \/ EraseDone(h)

Collect == GCStart \/ (\E d \in DN : GCList(d)) \/ (\E p \in gc.sweeps : GCSweep(p))

Rebalance ==
    \/ RebalanceStart
    \/ \E m \in migs : MigrateRead(m) \/ MigrateUpdate(m) \/ (\E d \in DN : MigrateCopy(m, d))

Next ==
    \/ \E h \in Handler, q \in conf.requests :
          \/ StartWrite(h, q) \/ StartDelete(h, q)
          \/ Create(h, q) \/ Complete(h, q) \/ Abort(h, q) \/ AbortFails(h, q)
    \/ \E h \in Handler : HandlerStep(h)
    \/ \E h \in Handler, d \in DN : WriteFails(h, d)
    \/ Collect \/ GCListFails
    \/ Rebalance
    \/ \E T \in conf.topologies : UpdateNodes(T)
    \/ \E d \in DN, c \in Chunk : Age(d, c)
    \/ Crash

Spec == Init /\ [][Next]_vars

\* The code the processes run makes progress: handlers and workers are
\* goroutines with bounded calls, collector and rebalance have tickers, time passes.
FairSpec ==
    /\ Spec
    /\ \A h \in Handler : WF_vars(HandlerStep(h))
    /\ WF_vars(Collect) /\ WF_vars(Rebalance)
    /\ SF_vars(\E d \in DN, c \in Chunk : Age(d, c))

-----------------------------------------------------------------------------
(* Properties.                                                             *)

Refs == [id : Chunk, replicas : SUBSET DN]

\* Type invariant of the data path.
ChunkTypeOK ==
    /\ meta \in [Key -> Seq(Refs)]
    /\ \A u \in Upload : /\ uploads[u].st \in {"none", "open", "closed"}
                         /\ uploads[u].parts \in [PartNos -> Seq(Refs)]
    /\ file \in [DN -> [Chunk -> {"none", "new", "old"}]]
    /\ topo \in conf.topologies
    /\ \A h \in Handler :
         \/ call[h] = Idle
         \/ /\ call[h].op \in {"put", "part", "delete", "abort"} /\ call[h].req \in conf.requests
            /\ call[h].at \in {"write", "commit", "erase", "erased"}
            /\ call[h].refs \in Seq(Refs) /\ call[h].todo \subseteq DN
    /\ gc.at \in {"idle", "list", "sweep"} /\ gc.left \subseteq DN
    /\ gc.sweeps \cup gc.claimed \subseteq DN \X Chunk
    /\ \A m \in migs : m.key \in Key /\ m.chunk \in Chunk /\ m.actual \cup m.desired \subseteq DN
    /\ doomed.keys \subseteq Key /\ doomed.parts \subseteq Upload \X PartNos

HeldOn(ref) == {d \in ref.replicas : HasFile(d, ref.id)}

\* Every chunk of a stored object that no DELETE has set out to erase lists at
\* least W data nodes, and each node listed has the file: what the write quorum
\* of WriteChunkToAddrsW promises the client survives the collector, the rebalance
\* worker, failing calls and a crash of the edge.  An object whose DELETE ended in
\* an error or in a crash, or that was completed from a part whose UploadPart
\* answered an error, is promised nothing.
QuorumHeld ==
    \A k \in Key \ doomed.keys :
        \A i \in DOMAIN meta[k] : /\ Cardinality(meta[k][i].replicas) >= conf.w
                                  /\ HeldOn(meta[k][i]) = meta[k][i].replicas

\* A stored object that no DELETE has set out to erase can be read: each of its
\* chunks is on at least one of the nodes its metadata names (ReadChunk tries
\* them all).
Readable ==
    \A k \in Key \ doomed.keys :
        \A i \in DOMAIN meta[k] : HeldOn(meta[k][i]) # {}

\* A part that UploadPart acknowledged can be read until its upload ends: what
\* handlers erase on an error is never the chunks of another part.
PartsReadable ==
    \A u \in Upload : \A n \in PartNos : <<u, n>> \notin doomed.parts =>
        \A i \in DOMAIN uploads[u].parts[n] : HeldOn(uploads[u].parts[n][i]) # {}

\* Where the collector runs, the chunk files nothing refers to (left by failed,
\* overwritten and deleted objects, by migrations and by a crash) are all gone
\* for good once requests stop: no orphan escapes ComputePlan's two nets for ever.
OrphansCollected ==
    <>[](conf.collecting =>
            \A d \in topo, c \in Chunk : HasFile(d, c) => <<d, c>> \in Claimed)

\* Where the rebalance worker runs, every object ends up on all the nodes its
\* placement names, whatever a failed write, a failed copy, a crash or a
\* topology change left missing.
FullyPlaced ==
    <>[](conf.balancing =>
            \A k \in Key \ doomed.keys : \A i \in DOMAIN meta[k] :
                Targets(meta[k][i].id) \subseteq HeldOn(meta[k][i]))

=============================================================================
