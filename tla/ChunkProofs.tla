----------------------------- MODULE ChunkProofs -----------------------------
(***************************************************************************)
(* Proofs about the data path, for any keys, chunks, data nodes, handlers, *)
(* rankings and bounds, any failing calls and any topology changes: what   *)
(* a step does to requests, lists, collector and migrations, that it keeps *)
(* the types, and that no two lists come to share a chunk.                 *)
(*                                                                         *)
(* ChunkLedgerProofs goes on with the files, and has the theorems.         *)
(***************************************************************************)
EXTENDS ChunkStore, TLAPS

\* The prover tried at a leaf that names none.
USE ZenonT(30)

-----------------------------------------------------------------------------
(* What the proofs are about.                                              *)

IsWrite(q) == q.op \in {"put", "part"}

Ids(refs) == {refs[i].id : i \in DOMAIN refs}
Wide(refs) == \A i \in DOMAIN refs : Cardinality(refs[i].replicas) >= conf.w

-----------------------------------------------------------------------------
(* The shape of the state.                                                 *)

WriteRecord(k) ==
    k = [op |-> k.op, req |-> k.req, at |-> k.at, refs |-> k.refs,
         todo |-> k.todo, acks |-> k.acks, made |-> k.made]

EraseRecord(k) ==
    k = [op |-> k.op, req |-> k.req, at |-> k.at, refs |-> k.refs, todo |-> k.todo]

WriteShape(k) ==
    /\ k.op \in {"put", "part"} /\ k.op = k.req.op /\ k.req \in used.requests
    /\ k.at \in {"write", "commit"}
    /\ WriteRecord(k)
    /\ k.refs \in Seq(Refs) /\ Wide(k.refs)
    /\ k.todo \subseteq DN /\ k.acks \subseteq DN
    /\ Len(k.refs) <= Len(k.req.body)
    /\ k.at = "write" => Len(k.refs) < Len(k.req.body)
    /\ \A i \in DOMAIN k.refs : k.refs[i].id = k.req.body[i]

EraseShape(k) ==
    /\ EraseRecord(k)
    /\ k.op \in {"part", "delete", "abort"} /\ k.op = k.req.op /\ k.req \in used.requests
    /\ k.at \in {"erase", "erased"}
    /\ k.refs \in Seq(Refs) /\ k.todo \subseteq DN
    /\ k.at = "erase" => k.refs # <<>>

CallShape ==
    /\ call = [h \in Handler |-> call[h]]
    /\ \A h \in Handler : call[h] = Idle \/ WriteShape(call[h]) \/ EraseShape(call[h])

MetaShape ==
    /\ meta \in [Key -> Seq(Refs)]
    /\ \A k \in Key : Wide(meta[k])

UploadShape ==
    /\ uploads \in [Upload -> [st : {"none", "open", "closed"}, parts : [PartNos -> Seq(Refs)]]]
    /\ \A u \in Upload : \A n \in PartNos :
         /\ Wide(uploads[u].parts[n])
         /\ uploads[u].parts[n] # <<>> => \E q \in conf.requests : q.op = "part"

FileShape == file \in [DN -> [Chunk -> {"none", "new", "old"}]]

GcRecord(g) == g = [at |-> g.at, claimed |-> g.claimed, left |-> g.left, sweeps |-> g.sweeps]

GcShape ==
    /\ GcRecord(gc)
    /\ gc.at \in {"idle", "list", "sweep"} /\ gc.left \subseteq DN
    /\ gc.claimed \subseteq DN \X Chunk /\ gc.sweeps \subseteq DN \X Chunk
    /\ ~conf.collecting => gc = GCIdle

MigRecord(m) ==
    m = [key |-> m.key, idx |-> m.idx, chunk |-> m.chunk, actual |-> m.actual,
         desired |-> m.desired, at |-> m.at, todo |-> m.todo, ok |-> m.ok, made |-> m.made]

\* What a migration is about, as far as the object still has the chunk.
MigShape(m) ==
    /\ MigRecord(m)
    /\ m.key \in Key /\ m.chunk \in Chunk
    /\ m.actual \subseteq DN /\ m.desired \subseteq DN /\ m.ok \subseteq DN /\ m.todo \subseteq DN
    /\ Cardinality(m.actual) >= conf.w /\ Cardinality(m.desired) >= conf.w

MigsShape ==
    /\ \A m \in migs : MigShape(m)
    /\ migs # {} => conf.balancing

UsedShape ==
    /\ used = [requests |-> used.requests, topology |-> used.topology, fails |-> used.fails,
               crashes |-> used.crashes]
    /\ used.requests \subseteq conf.requests
    /\ used.crashes \in Nat

DoomedShape == doomed \in [keys : SUBSET Key, parts : SUBSET (Upload \X PartNos)]

\* What placement and migrations need to know of numbers of nodes; it is proved in
\* ChunkLedgerProofs, from the library's theorems about finite sets.
NodeCounts ==
    /\ Cardinality({}) = 0
    /\ Chunk # {} => \A S \in SUBSET DN : /\ Cardinality(S) \in Nat
                                        /\ \A T \in SUBSET S : Cardinality(T) <= Cardinality(S)
    /\ \A c \in Chunk, n \in Nat, S \in SUBSET DN :
         /\ PlaceN(c, n, S) \subseteq S
         /\ Cardinality(S) >= n => Cardinality(PlaceN(c, n, S)) >= n
    /\ \A S \in SUBSET Nat, b \in Nat : S # {} /\ (\A x \in S : x <= b) =>
         Max(S) \in S /\ \A y \in S : Max(S) >= y

ChunkShape ==
    /\ NodeCounts
    /\ conf \in Setups /\ topo \in conf.topologies
    /\ MetaShape /\ UploadShape /\ FileShape /\ CallShape /\ GcShape /\ MigsShape /\ UsedShape
    /\ DoomedShape

-----------------------------------------------------------------------------
(* Handlers that write, and handlers that erase.                           *)

Writing(h) == call[h].op \in {"put", "part"} /\ call[h].at \in {"write", "commit"}
Erases(h) == call[h].op # "idle" /\ call[h].at = "erase"

-----------------------------------------------------------------------------
(* Lists of references, and what placement asks for.                       *)

LEMMA EmptyRefs == <<>> \in Seq(Refs) /\ DOMAIN <<>> = {} /\ Ids(<<>>) = {} /\ Wide(<<>>)
<1>1. <<>> \in Seq(Refs) /\ DOMAIN <<>> = {}
  BY SMTT(30)
<1> QED
  BY <1>1 DEF Ids, Wide

LEMMA AppendRef ==
  ASSUME NEW s \in Seq(Refs), NEW r \in Refs
  PROVE  /\ Append(s, r) \in Seq(Refs)
         /\ Len(s) \in Nat /\ Len(Append(s, r)) = Len(s) + 1
         /\ DOMAIN s = 1 .. Len(s) /\ DOMAIN Append(s, r) = 1 .. Len(s) + 1
         /\ \A i \in 1 .. Len(s) : Append(s, r)[i] = s[i]
         /\ Append(s, r)[Len(s) + 1] = r
BY SMTT(30)

LEMMA JoinRefs ==
  ASSUME NEW s \in Seq(Refs), NEW t \in Seq(Refs)
  PROVE  /\ s \o t \in Seq(Refs)
         /\ Ids(s \o t) = Ids(s) \cup Ids(t)
         /\ \A d, c : Refers(s \o t, d, c) <=> Refers(s, d, c) \/ Refers(t, d, c)
         /\ Wide(s) /\ Wide(t) => Wide(s \o t)
<1> DEFINE u == s \o t
<1>1. /\ u \in Seq(Refs) /\ Len(s) \in Nat /\ Len(t) \in Nat
      /\ DOMAIN s = 1 .. Len(s) /\ DOMAIN t = 1 .. Len(t) /\ DOMAIN u = 1 .. Len(s) + Len(t)
      /\ \A i \in 1 .. Len(s) + Len(t) : u[i] = IF i <= Len(s) THEN s[i] ELSE t[i - Len(s)]
  BY SMTT(30)
<1> HIDE DEF u
<1>2. \A i \in DOMAIN u : (i \in DOMAIN s /\ u[i] = s[i]) \/ (i - Len(s) \in DOMAIN t /\ u[i] = t[i - Len(s)])
  BY <1>1, SMTT(30)
<1>3. \A i \in DOMAIN s : i \in DOMAIN u /\ u[i] = s[i]
  BY <1>1, SMTT(30)
<1>4. \A i \in DOMAIN t : i + Len(s) \in DOMAIN u /\ u[i + Len(s)] = t[i]
  BY <1>1, SMTT(30)
<1>5. Ids(u) = Ids(s) \cup Ids(t)
  <2>1. Ids(u) \subseteq Ids(s) \cup Ids(t)
    BY <1>2 DEF Ids
  <2>2. Ids(s) \subseteq Ids(u)
    BY <1>3 DEF Ids
  <2>3. Ids(t) \subseteq Ids(u)
    BY <1>4 DEF Ids
  <2> QED
    BY <2>1, <2>2, <2>3, SMTT(30)
<1>6. \A d, c : Refers(u, d, c) <=> Refers(s, d, c) \/ Refers(t, d, c)
  BY <1>2, <1>3, <1>4 DEF Refers
<1>7. Wide(s) /\ Wide(t) => Wide(u)
  BY <1>2 DEF Wide
<1> QED
  BY <1>1, <1>5, <1>6, <1>7 DEF u

LEMMA TailRefs ==
  ASSUME NEW s \in Seq(Refs), s # <<>>
  PROVE  /\ Tail(s) \in Seq(Refs)
         /\ Ids(Tail(s)) \subseteq Ids(s)
         /\ 1 \in DOMAIN s /\ s[1].id \in Ids(s) /\ s[1].replicas \subseteq DN /\ s[1].id \in Chunk
<1>1. /\ Tail(s) \in Seq(Refs) /\ 1 \in DOMAIN s
      /\ \A i \in DOMAIN Tail(s) : i + 1 \in DOMAIN s /\ Tail(s)[i] = s[i + 1]
  BY SMTT(30)
<1>2. Ids(Tail(s)) \subseteq Ids(s) /\ s[1].id \in Ids(s)
  BY <1>1 DEF Ids
<1>3. s[1] \in Refs
  BY <1>1, SMTT(30)
<1>4. s[1].replicas \subseteq DN /\ s[1].id \in Chunk
  BY <1>3, SMTT(30) DEF Refs
<1> QED
  BY <1>1, <1>2, <1>4

\* A list with the replicas of one reference replaced.
LEMMA ReplaceReplicas ==
  ASSUME NEW s \in Seq(Refs), NEW i \in DOMAIN s, NEW R \in SUBSET DN
  PROVE  LET t == [s EXCEPT ![i].replicas = R]
         IN  /\ t \in Seq(Refs) /\ DOMAIN t = DOMAIN s
             /\ t[i].id = s[i].id /\ t[i].replicas = R
             /\ \A j \in DOMAIN s : j # i => t[j] = s[j]
<1> DEFINE r == [s[i] EXCEPT !.replicas = R]
           t == [s EXCEPT ![i] = r]
<1>1. s \in [1 .. Len(s) -> Refs] /\ Len(s) \in Nat /\ DOMAIN s = 1 .. Len(s)
  BY SMTT(30)
<1>2. s[i] \in Refs
  BY <1>1, SMTT(30)
<1>3. r \in Refs /\ r.id = s[i].id /\ r.replicas = R
  BY <1>2, SMTT(30) DEF Refs
<1> HIDE DEF r
<1>4. t \in [1 .. Len(s) -> Refs] /\ t[i] = r /\ \A j \in DOMAIN s : j # i => t[j] = s[j]
  BY <1>1, <1>3, SMTT(30)
<1>5. t \in Seq(Refs) /\ DOMAIN t = DOMAIN s
  BY <1>1, <1>4, SMTT(30)
<1>6. t = [s EXCEPT ![i].replicas = R]
  BY DEF r
<1> HIDE DEF t
<1> QED
  BY <1>3, <1>4, <1>5, <1>6

LEMMA TargetsAreNodes ==
  ASSUME ChunkShape, NEW c
  PROVE  Targets(c) \subseteq DN
<1>1. topo \subseteq DN /\ conf.class \subseteq DN
  BY SetupAssumption, SMTT(30) DEF ChunkShape
<1> QED
  BY <1>1, SMTT(30) DEF Targets, PlaceN

\* The nodes a migration aims at are data nodes, W of them at least.
LEMMA DesiredWide ==
  ASSUME ChunkShape, NEW refs \in Seq(Refs), Wide(refs), NEW i \in DOMAIN refs
  PROVE  Desired(refs, i) \subseteq DN /\ Cardinality(Desired(refs, i)) >= conf.w
<1> DEFINE Count == {Cardinality(refs[j].replicas) : j \in DOMAIN refs}
           n == Cardinality(refs[i].replicas)
<1>0. \A j \in DOMAIN refs : refs[j] \in Refs
  BY SMTT(30)
<1>1. \A j \in DOMAIN refs : refs[j].id \in Chunk /\ refs[j].replicas \in SUBSET DN
  BY <1>0, SMTT(30) DEF Refs
<1>2. /\ Chunk # {} /\ NodeCounts
      /\ \A S \in SUBSET DN : Cardinality(S) \in Nat /\ Cardinality(S) <= Cardinality(DN)
  <2>1. Chunk # {} /\ NodeCounts
    BY <1>1 DEF ChunkShape
  <2>2. DN \in SUBSET DN
    OBVIOUS
  <2> QED
    BY <2>1, <2>2 DEF NodeCounts
<1>3. \A j \in DOMAIN refs : /\ Cardinality(refs[j].replicas) \in Nat
                             /\ Cardinality(refs[j].replicas) <= Cardinality(DN)
  BY <1>1, <1>2
<1>4. Count \in SUBSET Nat /\ Count # {} /\ \A x \in Count : x <= Cardinality(DN)
  BY <1>3, SMTT(30)
<1>5. n \in Count /\ n \in Nat
  BY <1>3, SMTT(30)
<1> HIDE DEF Count
<1>6. Max(Count) \in Nat /\ Max(Count) >= n
  <2>1. Max(Count) \in Count /\ \A y \in Count : Max(Count) >= y
    <3>1. Cardinality(DN) \in Nat
      BY <1>2, SMTT(30)
    <3> QED
      BY <1>2, <1>4, <3>1 DEF NodeCounts
  <2> QED
    BY <1>4, <1>5, <2>1
<1>7. n >= conf.w
  BY SMTT(30) DEF Wide
<1>8. /\ conf.r \in Nat /\ conf.w \in Nat /\ conf.w <= conf.r /\ topo \subseteq DN /\ conf.class \subseteq DN
      /\ Cardinality(topo) >= conf.r
  BY SetupAssumption, SMTT(30) DEF ChunkShape
<1>10. Cardinality(conf.class) \in Nat
  BY <1>2, <1>8
<1> DEFINE A == PlaceN(refs[i].id, n, conf.class)
           B == PlaceN(refs[i].id, conf.r, topo)
<1>11. Desired(refs, i) = IF conf.class # {} /\ Cardinality(conf.class) >= Max(Count) THEN A ELSE B
  BY DEF Desired, Count
<1> HIDE DEF n
<1>12. A \subseteq conf.class /\ (Cardinality(conf.class) >= n => Cardinality(A) >= n)
  BY <1>1, <1>2, <1>5, <1>8 DEF NodeCounts
<1>13. B \subseteq topo /\ Cardinality(B) >= conf.r
  BY <1>1, <1>2, <1>8 DEF NodeCounts
<1> HIDE DEF A, B
<1>14. A \in SUBSET DN /\ B \in SUBSET DN
  BY <1>8, <1>12, <1>13
<1>15. Cardinality(A) \in Nat /\ Cardinality(B) \in Nat
  BY <1>2, <1>14
<1>16. CASE conf.class # {} /\ Cardinality(conf.class) >= Max(Count)
  <2>1. Cardinality(A) >= n
    BY <1>5, <1>6, <1>10, <1>12, <1>16, SMTT(30)
  <2>2. Cardinality(A) >= conf.w
    BY <1>5, <1>7, <1>8, <1>15, <2>1, SMTT(30)
  <2> QED
    BY <1>8, <1>11, <1>12, <1>16, <2>2
<1>17. CASE ~(conf.class # {} /\ Cardinality(conf.class) >= Max(Count))
  <2>1. Cardinality(B) >= conf.w
    BY <1>8, <1>13, <1>15, SMTT(30)
  <2> QED
    BY <1>8, <1>11, <1>13, <1>17, <2>1
<1> QED
  BY <1>16, <1>17, SMTT(30)

\* The list a migration leaves is of data nodes, W of them at least.
LEMMA FinalWide ==
  ASSUME ChunkShape, NEW m, MigShape(m)
  PROVE  FinalReplicas(m) \in SUBSET DN /\ Cardinality(FinalReplicas(m)) >= conf.w
         /\ FinalReplicas(m) \subseteq m.actual \cup m.ok
<1> DEFINE F == FinalReplicas(m)
<1>1. /\ F \in SUBSET DN /\ F \subseteq m.actual \cup m.ok
      /\ m.desired \subseteq F \/ m.actual \subseteq F
      /\ m.chunk \in Chunk /\ conf.w \in Nat
      /\ Cardinality(m.actual) >= conf.w /\ Cardinality(m.desired) >= conf.w
  BY SetupAssumption, SMTT(30) DEF FinalReplicas, MigShape, ChunkShape
<1> HIDE DEF F
<1>2. /\ Cardinality(F) \in Nat
      /\ \A G \in SUBSET F : G \in SUBSET DN /\ Cardinality(G) \in Nat /\ Cardinality(G) <= Cardinality(F)
  <2>1. Chunk # {} /\ NodeCounts
    BY <1>1 DEF ChunkShape
  <2>2. \A G \in SUBSET F : G \in SUBSET DN
    BY <1>1
  <2> QED
    BY <1>1, <2>1, <2>2 DEF NodeCounts
<1>4. ASSUME NEW G, G \subseteq F, Cardinality(G) >= conf.w PROVE Cardinality(F) >= conf.w
  <2>1. G \in SUBSET F
    BY <1>4
  <2>2. Cardinality(G) \in Nat /\ Cardinality(G) <= Cardinality(F)
    BY <1>2, <2>1
  <2> QED
    BY <1>1, <1>2, <1>4, <2>2, SMTT(30)
<1>5. Cardinality(F) >= conf.w
  BY <1>1, <1>4
<1> QED
  BY <1>1, <1>5 DEF F

-----------------------------------------------------------------------------
(* Which steps change what.                                                *)

LEMMA MetaChange ==
  ASSUME Next
  PROVE  \/ meta' = meta
         \/ \E h \in Handler : CommitPut(h) \/ EraseDone(h)
         \/ \E h \in Handler, q \in conf.requests : Complete(h, q)
         \/ \E m \in migs : MigrateUpdate(m)
BY DEF Next, HandlerStep, Collect, Rebalance, StartWrite, StartDelete, Create, Abort, AbortFails, WriteTo,
  WriteFails, WriteDone, CommitPart, EraseFrom, GCStart, GCList, GCListFails, GCSweep,
  RebalanceStart, MigrateRead, MigrateCopy, UpdateNodes, Age, Crash

LEMMA UploadsChange ==
  ASSUME Next
  PROVE  \/ uploads' = uploads
         \/ \E h \in Handler : CommitPart(h)
         \/ \E h \in Handler, q \in conf.requests :
              Create(h, q) \/ Complete(h, q) \/ Abort(h, q) \/ AbortFails(h, q)
BY DEF Next, HandlerStep, Collect, Rebalance, StartWrite, StartDelete, WriteTo,
  WriteFails, WriteDone, CommitPut, EraseFrom, EraseDone, GCStart, GCList, GCListFails, GCSweep,
  RebalanceStart, MigrateRead, MigrateCopy, MigrateUpdate, UpdateNodes, Age, Crash

LEMMA FileChange ==
  ASSUME Next
  PROVE  \/ file' = file
         \/ \E h \in Handler, d \in DN : WriteTo(h, d) \/ WriteFails(h, d) \/ EraseFrom(h, d)
         \/ \E p \in gc.sweeps : GCSweep(p)
         \/ \E m \in migs, d \in DN : MigrateCopy(m, d)
         \/ \E d \in DN, c \in Chunk : Age(d, c)
BY DEF Next, HandlerStep, Collect, Rebalance, StartWrite, StartDelete, Create, Complete, Abort, AbortFails,
  WriteDone, CommitPut, CommitPart, EraseDone, GCStart, GCList, GCListFails,
  RebalanceStart, MigrateRead, MigrateUpdate, UpdateNodes, Crash

LEMMA CallChange ==
  ASSUME Next
  PROVE  \/ call' = call
         \/ \E h \in Handler, q \in conf.requests : StartWrite(h, q) \/ StartDelete(h, q) \/ Abort(h, q)
         \/ \E h \in Handler, d \in DN : WriteTo(h, d) \/ WriteFails(h, d) \/ EraseFrom(h, d)
         \/ \E h \in Handler : WriteDone(h) \/ CommitPut(h) \/ CommitPart(h) \/ EraseDone(h)
         \/ Crash
BY DEF Next, HandlerStep, Collect, Rebalance, Create, Complete, AbortFails, GCStart, GCList, GCListFails,
  GCSweep, RebalanceStart, MigrateRead, MigrateCopy, MigrateUpdate, UpdateNodes, Age

LEMMA GcChange ==
  ASSUME Next
  PROVE  gc' = gc \/ Collect \/ GCListFails \/ Crash
BY DEF Next, HandlerStep, Rebalance, StartWrite, StartDelete, Create, Complete, Abort, AbortFails, WriteTo,
  WriteFails, WriteDone, CommitPut, CommitPart, EraseFrom, EraseDone,
  RebalanceStart, MigrateRead, MigrateCopy, MigrateUpdate, UpdateNodes, Age

LEMMA MigsChange ==
  ASSUME Next
  PROVE  migs' = migs \/ Rebalance \/ Crash
BY DEF Next, HandlerStep, Collect, StartWrite, StartDelete, Create, Complete, Abort, AbortFails, WriteTo,
  WriteFails, WriteDone, CommitPut, CommitPart, EraseFrom, EraseDone,
  GCStart, GCList, GCListFails, GCSweep, UpdateNodes, Age

LEMMA UsedChange ==
  ASSUME Next
  PROVE  \/ used' = used
         \/ \E h \in Handler, q \in conf.requests : Accept(h, q)
         \/ \E h \in Handler, q \in conf.requests : AbortFails(h, q)
         \/ \E what \in {"topology", "fails", "crashes"} : Spend(what)
BY DEF Next, HandlerStep, Collect, Rebalance, StartWrite, StartDelete, Create, Complete, Abort,
  WriteTo, WriteFails, WriteDone, CommitPut, CommitPart, EraseFrom, EraseDone, GCStart, GCList,
  GCListFails, GCSweep, RebalanceStart, MigrateRead, MigrateCopy, MigrateUpdate, UpdateNodes, Age, Crash

LEMMA DoomedChange ==
  ASSUME Next
  PROVE  \/ doomed' = doomed
         \/ \E h \in Handler : CommitPut(h) \/ CommitPart(h)
         \/ \E h \in Handler, q \in conf.requests : StartDelete(h, q) \/ Complete(h, q)
BY DEF Next, HandlerStep, Collect, Rebalance, StartWrite, Create, Abort, AbortFails, WriteTo,
  WriteFails, WriteDone, EraseFrom, EraseDone, GCStart, GCList, GCListFails, GCSweep,
  RebalanceStart, MigrateRead, MigrateCopy, MigrateUpdate, UpdateNodes, Age, Crash

\* The deployment stays, and the nodes stay among those it allows.
LEMMA FixedChange ==
  ASSUME Next, topo \in conf.topologies
  PROVE  conf' = conf /\ topo' \in conf.topologies
BY DEF Next, HandlerStep, Collect, Rebalance, StartWrite, StartDelete, Create, Complete, Abort, AbortFails,
  WriteTo, WriteFails, WriteDone, CommitPut, CommitPart, EraseFrom, EraseDone, GCStart, GCList,
  GCListFails, GCSweep, RebalanceStart, MigrateRead, MigrateCopy, MigrateUpdate, UpdateNodes, Age, Crash

-----------------------------------------------------------------------------
(* Requests and the handlers that serve them.                              *)

LEMMA AcceptEffect ==
  ASSUME UsedShape, NEW h, NEW q, Accept(h, q)
  PROVE  /\ call[h] = Idle /\ q \notin used.requests
         /\ used'.requests = used.requests \cup {q} /\ used'.crashes = used.crashes
         /\ used' = [requests |-> used'.requests, topology |-> used'.topology, fails |-> used'.fails,
                     crashes |-> used'.crashes]
BY DEF Accept, UsedShape

LEMMA UsedStep ==
  ASSUME ChunkShape, Next
  PROVE  conf' = conf /\ UsedShape' /\ used.requests \subseteq used'.requests
<1>1. conf' = conf /\ UsedShape
  BY FixedChange, SMTT(30) DEF ChunkShape
<1>2. CASE used' = used
  BY <1>1, <1>2 DEF UsedShape
<1>3. ASSUME NEW h \in Handler, NEW q \in conf.requests, Accept(h, q)
      PROVE  UsedShape' /\ used.requests \subseteq used'.requests
  <2>1. /\ used'.requests = used.requests \cup {q} /\ used'.crashes = used.crashes
        /\ used' = [requests |-> used'.requests, topology |-> used'.topology, fails |-> used'.fails,
                    crashes |-> used'.crashes]
    BY <1>1, <1>3, AcceptEffect
  <2>2. used'.requests \subseteq conf'.requests /\ used'.crashes \in Nat
    BY <1>1, <2>1 DEF UsedShape
  <2> QED
    BY <2>1, <2>2 DEF UsedShape
<1>4. ASSUME NEW what \in {"topology", "fails", "crashes"}, Spend(what)
      PROVE  UsedShape' /\ used.requests \subseteq used'.requests
  <2>1. /\ used'.requests = used.requests
        /\ used'.crashes = IF what = "crashes" THEN used.crashes + 1 ELSE used.crashes
        /\ used' = [requests |-> used'.requests, topology |-> used'.topology, fails |-> used'.fails,
                    crashes |-> used'.crashes]
    BY <1>1, <1>4 DEF Spend, UsedShape
  <2>2. used'.crashes \in Nat
    BY <1>1, <2>1, SMTT(30) DEF UsedShape
  <2> QED
    BY <1>1, <2>1, <2>2 DEF UsedShape
<1>5. ASSUME NEW h \in Handler, NEW q \in conf.requests, AbortFails(h, q)
      PROVE  UsedShape' /\ used.requests \subseteq used'.requests
  <2>1. /\ used'.requests = used.requests \cup {q} /\ used'.crashes = used.crashes
        /\ used' = [requests |-> used'.requests, topology |-> used'.topology, fails |-> used'.fails,
                    crashes |-> used'.crashes]
    BY <1>1, <1>5 DEF AbortFails, UsedShape
  <2>2. used'.requests \subseteq conf'.requests /\ used'.crashes \in Nat
    BY <1>1, <2>1 DEF UsedShape
  <2> QED
    BY <2>1, <2>2 DEF UsedShape
<1> QED
  BY <1>1, <1>2, <1>3, <1>4, <1>5, UsedChange

\* What is doomed, key by key and part by part.
LEMMA DoomKeys ==
  ASSUME DoomedShape, NEW X \in SUBSET Key, doomed' = [doomed EXCEPT !.keys = X]
  PROVE  DoomedShape' /\ doomed'.keys = X /\ doomed'.parts = doomed.parts
BY SMTT(30) DEF DoomedShape

LEMMA DoomParts ==
  ASSUME DoomedShape, NEW X \in SUBSET (Upload \X PartNos), doomed' = [doomed EXCEPT !.parts = X]
  PROVE  DoomedShape' /\ doomed'.keys = doomed.keys /\ doomed'.parts = X
BY SMTT(30) DEF DoomedShape

LEMMA DoomedSets ==
  ASSUME DoomedShape
  PROVE  doomed.keys \subseteq Key /\ doomed.parts \subseteq Upload \X PartNos
BY SMTT(30) DEF DoomedShape

LEMMA IdleCall == Idle.op = "idle"
BY SMTT(30) DEF Idle

LEMMA IsWriting ==
  ASSUME CallShape, NEW h \in Handler, Writing(h)
  PROVE  WriteShape(call[h])
BY IdleCall DEF CallShape, Writing, EraseShape

LEMMA IsErasing ==
  ASSUME CallShape, NEW h \in Handler, call[h].op # "idle", call[h].at \in {"erase", "erased"}
  PROVE  EraseShape(call[h])
BY IdleCall DEF CallShape, WriteShape

\* Handler h goes on, the others stay where they are.
Turn(h) ==
    /\ \A g \in Handler : g # h => call'[g] = call[g]
    /\ call' = [g \in Handler |-> call'[g]]

LEMMA TurnTo ==
  ASSUME CallShape, NEW h \in Handler, NEW K, call' = [call EXCEPT ![h] = K]
  PROVE  Turn(h) /\ call'[h] = K
<1>1. call = [g \in Handler |-> call[g]]
  BY SMTT(30) DEF CallShape
<1>2. call' = [g \in Handler |-> IF g = h THEN K ELSE call[g]]
  BY <1>1
<1>3. call'[h] = K /\ \A g \in Handler : g # h => call'[g] = call[g]
  BY <1>2
<1>4. call' = [g \in Handler |-> call'[g]]
  BY <1>2
<1> QED
  BY <1>3, <1>4 DEF Turn

LEMMA CallShapeStep ==
  ASSUME CallShape, conf' = conf, used.requests \subseteq used'.requests, NEW h \in Handler, Turn(h),
         (call[h] = Idle \/ WriteShape(call[h]) \/ EraseShape(call[h]))'
  PROVE  CallShape'
<1>1. ASSUME NEW k, WriteShape(k) PROVE WriteShape(k)'
  BY <1>1 DEF WriteShape, Wide
<1>2. ASSUME NEW k, EraseShape(k) PROVE EraseShape(k)'
  BY <1>2 DEF EraseShape
<1>3. ASSUME NEW g \in Handler PROVE (call[g] = Idle \/ WriteShape(call[g]) \/ EraseShape(call[g]))'
  <2>1. CASE g = h
    BY <2>1 DEF WriteShape, EraseShape, Wide
  <2>2. CASE g # h
    <3>1. PICK k : k = call[g]
      BY SMTT(30)
    <3>2. k = Idle \/ WriteShape(k) \/ EraseShape(k)
      BY <3>1 DEF CallShape
    <3>3. k = Idle \/ WriteShape(k)' \/ EraseShape(k)'
      BY <1>1, <1>2, <3>2
    <3>4. call'[g] = k
      BY <2>2, <3>1 DEF Turn
    <3> QED
      BY <3>3, <3>4 DEF WriteShape, EraseShape, Wide
  <2> QED
    BY <2>1, <2>2, SMTT(30)
<1>4. call' = [g \in Handler |-> call'[g]]
  BY SMTT(30) DEF Turn
<1> QED
  BY <1>3, <1>4 DEF CallShape

LEMMA ErasingShape ==
  ASSUME NEW q, NEW refs \in Seq(Refs), q \in used'.requests, q.op \in {"part", "delete", "abort"}
  PROVE  LET K == Erasing(q, refs)
         IN  /\ EraseShape(K)'
             /\ K.op = q.op /\ K.req = q /\ K.refs = refs
             /\ K.at = IF refs = <<>> THEN "erased" ELSE "erase"
<1>1. CASE refs = <<>>
  <2> DEFINE K == [op |-> q.op, req |-> q, at |-> "erased", refs |-> <<>>, todo |-> {}]
  <2>1. Erasing(q, refs) = K
    BY <1>1 DEF Erasing
  <2>2. K.op = q.op /\ K.req = q /\ K.at = "erased" /\ K.refs = <<>> /\ K.todo = {}
    OBVIOUS
  <2>3. EraseRecord(K)
    BY DEF EraseRecord
  <2> HIDE DEF K
  <2>4. EraseShape(K)'
    BY <1>1, <2>2, <2>3 DEF EraseShape
  <2> QED
    BY <1>1, <2>1, <2>2, <2>4
<1>2. CASE refs # <<>>
  <2> DEFINE K == [op |-> q.op, req |-> q, at |-> "erase", refs |-> refs, todo |-> refs[1].replicas]
  <2>1. Erasing(q, refs) = K
    BY <1>2 DEF Erasing
  <2>2. K.op = q.op /\ K.req = q /\ K.at = "erase" /\ K.refs = refs /\ K.todo = refs[1].replicas
    OBVIOUS
  <2>3. refs[1].replicas \subseteq DN
    BY <1>2, TailRefs
  <2>4. EraseRecord(K)
    BY DEF EraseRecord
  <2> HIDE DEF K
  <2>5. EraseShape(K)'
    BY <1>2, <2>2, <2>3, <2>4 DEF EraseShape
  <2> QED
    BY <1>2, <2>1, <2>2, <2>5
<1> QED
  BY <1>1, <1>2, SMTT(30)

\* PUT and UploadPart begin with a handler that has acknowledged nothing.
LEMMA StartWriteEffect ==
  ASSUME ChunkShape, Next, NEW h \in Handler, NEW q \in conf.requests, StartWrite(h, q)
  PROVE  /\ Turn(h) /\ WriteShape(call[h])'
         /\ call'[h].req = q /\ call'[h].refs = <<>> /\ call'[h].acks = {} /\ call'[h].at = "write"
         /\ call[h] = Idle /\ IsWrite(q)
         /\ q \notin used.requests /\ used'.requests = used.requests \cup {q}
<1> DEFINE T == Targets(q.body[1])
           K == [op |-> q.op, req |-> q, at |-> "write", refs |-> <<>>, todo |-> T, acks |-> {}, made |-> {}]
<1>1. call' = [call EXCEPT ![h] = K] /\ q.op \in {"put", "part"}
  BY DEF StartWrite, WriteFirst
<1>2. Accept(h, q) /\ UsedShape /\ CallShape /\ T \subseteq DN
  BY TargetsAreNodes, SMTT(30) DEF StartWrite, ChunkShape
<1>3. q.body \in Seq(Chunk) /\ q.body # <<>>
  BY <1>1, RequestAssumption, SMTT(30) DEF ChunkShape
<1>4. 0 < Len(q.body) /\ 0 <= Len(q.body) /\ Len(<<>>) = 0
  BY <1>3, SMTT(30)
<1>5. Turn(h) /\ call'[h] = K
  BY <1>1, <1>2, TurnTo
<1>6. /\ WriteRecord(K) /\ K.op = q.op /\ K.req = q /\ K.at = "write"
      /\ K.refs = <<>> /\ K.todo = T /\ K.acks = {}
  BY DEF WriteRecord
<1>7. call[h] = Idle /\ q \notin used.requests /\ used'.requests = used.requests \cup {q}
  BY <1>2, AcceptEffect, SMTT(30)
<1> HIDE DEF K, T
<1>12. /\ WriteRecord(call[h])' /\ call'[h].op = q.op /\ call'[h].req = q /\ call'[h].at = "write"
       /\ call'[h].refs = <<>> /\ call'[h].todo = T /\ call'[h].acks = {}
  BY <1>5, <1>6 DEF WriteRecord
<1>8. /\ call'[h].refs \in Seq(Refs) /\ DOMAIN call'[h].refs = {}
      /\ Len(call'[h].refs) < Len(call'[h].req.body) /\ Len(call'[h].refs) <= Len(call'[h].req.body)
  BY <1>4, <1>12, EmptyRefs
<1>9. WriteShape(call[h])'
  BY <1>1, <1>2, <1>12, <1>7, <1>8 DEF WriteShape, Wide
<1> QED
  BY <1>1, <1>5, <1>12, <1>7, <1>9 DEF IsWrite

\* Fields of a call after its node calls, and after its chunks.
LEMMA AnsweredFields ==
  ASSUME NEW k, WriteRecord(k), NEW d, NEW a, NEW m
  PROVE  LET K == Answered(k, d, a, m)
         IN  /\ WriteRecord(K) /\ K.op = k.op /\ K.req = k.req /\ K.at = k.at /\ K.refs = k.refs
             /\ K.todo = k.todo \ {d} /\ K.acks = k.acks \cup a /\ K.made = k.made \cup m
<1> DEFINE K == Answered(k, d, a, m)
<1>1. DOMAIN k = {"op", "req", "at", "refs", "todo", "acks", "made"}
  BY SMTT(30) DEF WriteRecord
<1>2. /\ K.op = k.op /\ K.req = k.req /\ K.at = k.at /\ K.refs = k.refs
      /\ K.todo = k.todo \ {d} /\ K.acks = k.acks \cup a /\ K.made = k.made \cup m
  BY <1>1, SMTT(30) DEF Answered
<1>3. DOMAIN K = {"op", "req", "at", "refs", "todo", "acks", "made"} /\ K = [f \in DOMAIN K |-> K[f]]
  BY <1>1 DEF Answered
<1> HIDE DEF K
<1>4. K = [op |-> k.op, req |-> k.req, at |-> k.at, refs |-> k.refs,
          todo |-> k.todo \ {d}, acks |-> k.acks \cup a, made |-> k.made \cup m]
  BY <1>2, <1>3, SMTT(30)
<1>5. WriteRecord(K)
  BY <1>4 DEF WriteRecord
<1> QED
  BY <1>2, <1>5 DEF K

NextChunk(k, r, t) == [k EXCEPT !.refs = r, !.acks = {}, !.todo = t]

LEMMA WriteNext ==
  ASSUME NEW k, WriteRecord(k), NEW r, NEW t
  PROVE  LET K == NextChunk(k, r, t)
         IN  /\ WriteRecord(K) /\ K.op = k.op /\ K.req = k.req /\ K.at = k.at /\ K.refs = r
             /\ K.todo = t /\ K.acks = {} /\ K.made = k.made
<1> DEFINE K == NextChunk(k, r, t)
<1>1. DOMAIN k = {"op", "req", "at", "refs", "todo", "acks", "made"}
  BY SMTT(30) DEF WriteRecord
<1>2. /\ K.op = k.op /\ K.req = k.req /\ K.at = k.at /\ K.refs = r
      /\ K.todo = t /\ K.acks = {} /\ K.made = k.made
  BY <1>1, SMTT(30) DEF NextChunk
<1>3. DOMAIN K = {"op", "req", "at", "refs", "todo", "acks", "made"} /\ K = [f \in DOMAIN K |-> K[f]]
  BY <1>1 DEF NextChunk
<1> HIDE DEF K
<1>4. K = [op |-> k.op, req |-> k.req, at |-> k.at, refs |-> r, todo |-> t, acks |-> {}, made |-> k.made]
  BY <1>2, <1>3, SMTT(30)
<1>5. WriteRecord(K)
  BY <1>4 DEF WriteRecord
<1> QED
  BY <1>2, <1>5 DEF K

Commit(k, r) == [k EXCEPT !.refs = r, !.acks = {}, !.at = "commit"]

LEMMA WriteCommit ==
  ASSUME NEW k, WriteRecord(k), NEW r
  PROVE  LET K == Commit(k, r)
         IN  /\ WriteRecord(K) /\ K.op = k.op /\ K.req = k.req /\ K.at = "commit" /\ K.refs = r
             /\ K.todo = k.todo /\ K.acks = {} /\ K.made = k.made
<1> DEFINE K == Commit(k, r)
<1>1. DOMAIN k = {"op", "req", "at", "refs", "todo", "acks", "made"}
  BY SMTT(30) DEF WriteRecord
<1>2. /\ K.op = k.op /\ K.req = k.req /\ K.at = "commit" /\ K.refs = r
      /\ K.todo = k.todo /\ K.acks = {} /\ K.made = k.made
  BY <1>1, SMTT(30) DEF Commit
<1>3. DOMAIN K = {"op", "req", "at", "refs", "todo", "acks", "made"} /\ K = [f \in DOMAIN K |-> K[f]]
  BY <1>1 DEF Commit
<1> HIDE DEF K
<1>4. K = [op |-> k.op, req |-> k.req, at |-> "commit", refs |-> r, todo |-> k.todo, acks |-> {}, made |-> k.made]
  BY <1>2, <1>3, SMTT(30)
<1>5. WriteRecord(K)
  BY <1>4 DEF WriteRecord
<1> QED
  BY <1>2, <1>5 DEF K

\* A node answers one of the calls of the fan-out.
LEMMA WriteToEffect ==
  ASSUME ChunkShape, Next, NEW h \in Handler, NEW d \in DN, WriteTo(h, d) \/ WriteFails(h, d)
  PROVE  /\ Turn(h) /\ WriteShape(call[h]) /\ WriteShape(call[h])' /\ Writing(h)
         /\ call[h].at = "write" /\ d \in call[h].todo
         /\ call'[h].req = call[h].req /\ call'[h].refs = call[h].refs /\ call'[h].at = call[h].at
         /\ call'[h].op = call[h].op /\ call'[h].todo = call[h].todo \ {d}
         /\ \/ /\ WriteTo(h, d) /\ call'[h].acks = call[h].acks \cup {d}
               /\ call'[h].made = call[h].made \cup IF HasFile(d, Current(h)) THEN {} ELSE {<<d, Current(h)>>}
            \/ ~WriteTo(h, d) /\ call'[h].acks = call[h].acks /\ call'[h].made = call[h].made
<1> DEFINE k == call[h]
           m == IF HasFile(d, Current(h)) THEN {} ELSE {<<d, Current(h)>>}
<1>1. k.op \in {"put", "part"} /\ k.at = "write" /\ d \in k.todo
  BY DEF WriteTo, WriteFails
<1>2. Writing(h) /\ CallShape
  BY <1>1 DEF Writing, ChunkShape
<1>3. WriteShape(k)
  BY <1>2, IsWriting, SMTT(30)
<1>4. conf' = conf /\ used.requests \subseteq used'.requests
  BY UsedStep, SMTT(30)
<1>5. WriteRecord(k)
  BY <1>3, SMTT(30) DEF WriteShape
<1>6. \E a, x : /\ call' = [call EXCEPT ![h] = Answered(k, d, a, x)] /\ a \subseteq {d}
                /\ (WriteTo(h, d) /\ a = {d} /\ x = m) \/ (~WriteTo(h, d) /\ a = {} /\ x = {})
  <2>1. CASE WriteTo(h, d)
    BY <2>1 DEF WriteTo
  <2>2. CASE WriteFails(h, d) /\ ~WriteTo(h, d)
    BY <2>2 DEF WriteFails
  <2> QED
    BY <2>1, <2>2, SMTT(30)
<1>7. PICK a, x : /\ call' = [call EXCEPT ![h] = Answered(k, d, a, x)] /\ a \subseteq {d}
                  /\ (WriteTo(h, d) /\ a = {d} /\ x = m) \/ (~WriteTo(h, d) /\ a = {} /\ x = {})
  BY <1>6
<1> HIDE DEF k, m
<1> DEFINE K == Answered(k, d, a, x)
<1>8. /\ WriteRecord(K) /\ K.op = k.op /\ K.req = k.req /\ K.at = k.at /\ K.refs = k.refs
      /\ K.todo = k.todo \ {d} /\ K.acks = k.acks \cup a /\ K.made = k.made \cup x
  BY <1>5, AnsweredFields, SMTT(30)
<1>9. call' = [call EXCEPT ![h] = K]
  BY <1>7, SMTT(30)
<1> HIDE DEF K
<1>10. Turn(h) /\ call'[h] = K
  BY <1>2, <1>9, TurnTo
<1>11. WriteRecord(call[h])'
  BY <1>8, <1>10 DEF WriteRecord
<1>12. k.todo \ {d} \subseteq DN /\ k.acks \cup a \subseteq DN
  BY <1>3, <1>7 DEF WriteShape
<1>13. WriteShape(call[h])'
  BY <1>3, <1>4, <1>8, <1>10, <1>11, <1>12 DEF WriteShape, Wide
<1>14. k.made \cup {} = k.made /\ k.acks \cup {} = k.acks
  BY SMTT(30)
<1> QED
  BY <1>1, <1>2, <1>3, <1>7, <1>8, <1>10, <1>13, <1>14 DEF k, m

\* Every node has answered: the request is over, or its list is one reference longer.
LEMMA WriteDoneEffect ==
  ASSUME ChunkShape, Next, NEW h \in Handler, WriteDone(h)
  PROVE  /\ Turn(h) /\ WriteShape(call[h]) /\ Writing(h) /\ call[h].at = "write"
         /\ call'[h] # Idle =>
              /\ WriteShape(call[h])'
              /\ call'[h].req = call[h].req /\ call'[h].op = call[h].op /\ call'[h].made = call[h].made
              /\ call'[h].refs = Append(call[h].refs, Ref(Current(h), call[h].acks))
              /\ Ref(Current(h), call[h].acks) \in Refs
              /\ call'[h].acks = {}
<1> DEFINE k == call[h]
           c == Current(h)
           n == Ref(c, k.acks)
           refs == Append(k.refs, n)
           T == Targets(k.req.body[Len(refs) + 1])
<1>1. k.op \in {"put", "part"} /\ k.at = "write"
  BY DEF WriteDone
<1>2. Writing(h) /\ CallShape
  BY <1>1 DEF Writing, ChunkShape
<1>3. WriteShape(k)
  BY <1>2, IsWriting, SMTT(30)
<1>4. conf' = conf /\ used.requests \subseteq used'.requests /\ k.req \in conf.requests
  BY <1>3, UsedStep, SMTT(30) DEF WriteShape, ChunkShape, UsedShape
<1>5. WriteRecord(k) /\ k.refs \in Seq(Refs) /\ Len(k.refs) < Len(k.req.body) /\ k.acks \subseteq DN
      /\ \A i \in DOMAIN k.refs : k.refs[i].id = k.req.body[i] /\ Cardinality(k.refs[i].replicas) >= conf.w
  BY <1>1, <1>3 DEF WriteShape, Wide
<1>6. k.req.body \in Seq(Chunk)
  BY <1>3, <1>4, RequestAssumption, SMTT(30) DEF WriteShape, ChunkShape
<1>7. c = k.req.body[Len(k.refs) + 1]
  BY SMTT(30) DEF Current
<1>8. /\ call' = [call EXCEPT ![h] =
              IF ~QuorumReached(k.acks) THEN Idle
              ELSE IF Len(refs) < Len(k.req.body)
              THEN NextChunk(k, refs, T) ELSE Commit(k, refs)]
  BY DEF WriteDone, NextChunk, Commit
<1>9. T \subseteq DN
  BY TargetsAreNodes, SMTT(30)
<1>10. c \in Chunk
  <2> HIDE DEF k, c
  <2> QED
    BY <1>5, <1>6, <1>7, SMTT(30)
<1>11. n \in Refs /\ n.id = c /\ n.replicas = k.acks
  <2> HIDE DEF k, c
  <2> QED
    BY <1>5, <1>10, SMTT(30) DEF Ref, Refs
<1> HIDE DEF k, c, n, T
<1>12. /\ refs \in Seq(Refs) /\ Len(refs) <= Len(k.req.body) /\ Len(refs) \in Nat /\ Len(k.req.body) \in Nat
       /\ DOMAIN refs = DOMAIN k.refs \cup {Len(k.refs) + 1}
       /\ \A i \in DOMAIN k.refs : refs[i] = k.refs[i]
       /\ refs[Len(k.refs) + 1] = n
  <2>1. /\ refs \in Seq(Refs) /\ Len(k.refs) \in Nat /\ Len(refs) = Len(k.refs) + 1
        /\ DOMAIN k.refs = 1 .. Len(k.refs) /\ DOMAIN refs = 1 .. Len(k.refs) + 1
        /\ \A i \in 1 .. Len(k.refs) : refs[i] = k.refs[i]
        /\ refs[Len(k.refs) + 1] = n
    BY <1>5, <1>11, AppendRef, SMTT(30)
  <2> HIDE DEF refs
  <2>2. Len(k.req.body) \in Nat
    BY <1>6, SMTT(30)
  <2>3. DOMAIN refs = DOMAIN k.refs \cup {Len(k.refs) + 1} /\ Len(refs) <= Len(k.req.body) /\ Len(refs) \in Nat
    BY <1>5, <2>1, <2>2, SMTT(30)
  <2> QED
    BY <2>1, <2>2, <2>3
<1> HIDE DEF refs
<1>13. ASSUME QuorumReached(k.acks)
       PROVE  \A i \in DOMAIN refs : refs[i].id = k.req.body[i] /\ Cardinality(refs[i].replicas) >= conf.w
  <2>1. Cardinality(k.acks) >= conf.w
    BY <1>13, SMTT(30) DEF QuorumReached
  <2> QED
    BY <1>5, <1>7, <1>11, <1>12, <2>1
<1>14. CASE ~QuorumReached(k.acks)
  <2>1. call' = [call EXCEPT ![h] = Idle]
    BY <1>8, <1>14
  <2> QED
    BY <1>1, <1>2, <1>3, <2>1, TurnTo DEF k
<1> DEFINE A == NextChunk(k, refs, T)
           B == Commit(k, refs)
           Same(l) == /\ WriteRecord(l) /\ l.op = k.op /\ l.req = k.req /\ l.made = k.made /\ l.refs = refs
                      /\ l.acks = {} /\ l.at \in {"write", "commit"} /\ l.todo \subseteq DN
                      /\ l.at = "write" => Len(refs) < Len(k.req.body)
<1>15. CASE QuorumReached(k.acks)
  <2>1. \E K : call' = [call EXCEPT ![h] = K] /\ Same(K)
    <3>1. CASE Len(refs) < Len(k.req.body)
      <4>1. call' = [call EXCEPT ![h] = A]
        BY <1>8, <1>15, <3>1
      <4>2. /\ WriteRecord(A) /\ A.op = k.op /\ A.req = k.req /\ A.made = k.made /\ A.refs = refs
            /\ A.acks = {} /\ A.at = k.at /\ A.todo = T
        BY <1>5, WriteNext, SMTT(30)
      <4> HIDE DEF A
      <4>3. Same(A)
        BY <1>1, <1>9, <3>1, <4>2 DEF k
      <4> HIDE DEF Same
      <4> QED
        BY <4>1, <4>3
    <3>2. CASE ~(Len(refs) < Len(k.req.body))
      <4>1. call' = [call EXCEPT ![h] = B]
        BY <1>8, <1>15, <3>2
      <4>2. /\ WriteRecord(B) /\ B.op = k.op /\ B.req = k.req /\ B.made = k.made /\ B.refs = refs
            /\ B.acks = {} /\ B.at = "commit" /\ B.todo = k.todo
        BY <1>5, WriteCommit, SMTT(30)
      <4>3. k.todo \subseteq DN /\ "commit" # "write"
        BY <1>3, SMTT(30) DEF WriteShape, k
      <4> HIDE DEF B
      <4>4. Same(B)
        BY <4>2, <4>3
      <4> HIDE DEF Same
      <4> QED
        BY <4>1, <4>4
    <3> QED
      BY <3>1, <3>2, SMTT(30)
  <2>2. PICK K : call' = [call EXCEPT ![h] = K] /\ Same(K)
    BY <2>1
  <2>3. Turn(h) /\ call'[h] = K
    BY <1>2, <2>2, TurnTo
  <2>4. Same(call'[h]) /\ WriteRecord(call[h])'
    BY <2>2, <2>3 DEF WriteRecord
  <2>5. WriteShape(call[h])'
    BY <1>3, <1>4, <1>12, <1>13, <1>15, <2>4 DEF WriteShape, Wide, k
  <2> QED
    BY <1>1, <1>2, <1>3, <1>11, <2>3, <2>4, <2>5 DEF k, refs, n, c
<1> QED
  BY <1>14, <1>15, SMTT(30)

LEMMA CommitPutEffect ==
  ASSUME ChunkShape, Next, NEW h \in Handler, CommitPut(h)
  PROVE  /\ Turn(h) /\ WriteShape(call[h]) /\ Writing(h) /\ call[h].at = "commit" /\ call[h].op = "put"
         /\ call'[h] = Idle /\ call[h].req.key \in Key /\ DoomedShape' /\ doomed'.parts = doomed.parts
         /\ \/ /\ meta' = [meta EXCEPT ![call[h].req.key] = call[h].refs]
               /\ doomed'.keys = doomed.keys \ {call[h].req.key}
            \/ meta' = meta /\ doomed' = doomed
<1>1. /\ call[h].op = "put" /\ call[h].at = "commit" /\ call' = [call EXCEPT ![h] = Idle]
      /\ \/ /\ meta' = [meta EXCEPT ![call[h].req.key] = call[h].refs]
            /\ doomed' = [doomed EXCEPT !.keys = doomed.keys \ {call[h].req.key}]
         \/ meta' = meta /\ doomed' = doomed
  BY DEF CommitPut
<1>2. Writing(h) /\ CallShape /\ DoomedShape
  BY <1>1 DEF Writing, ChunkShape
<1>3. WriteShape(call[h])
  BY <1>2, IsWriting, SMTT(30)
<1>4. call[h].req.op = "put" /\ call[h].req \in conf.requests
  BY <1>1, <1>3 DEF WriteShape, ChunkShape, UsedShape
<1>5. call[h].req.key \in Key
  BY <1>4, RequestAssumption, SMTT(30) DEF ChunkShape
<1>6. /\ DoomedShape' /\ doomed'.parts = doomed.parts
      /\ doomed' # doomed => doomed'.keys = doomed.keys \ {call[h].req.key}
  <2>1. PICK k : k = call[h].req.key
    BY SMTT(30)
  <2>2. doomed.keys \ {k} \in SUBSET Key
    BY <1>2, DoomedSets
  <2>3. CASE doomed' = [doomed EXCEPT !.keys = doomed.keys \ {k}]
    BY <1>2, <2>1, <2>2, <2>3, DoomKeys
  <2>4. CASE doomed' = doomed
    BY <1>2, <2>4 DEF DoomedShape
  <2> QED
    BY <1>1, <2>1, <2>3, <2>4
<1>7. doomed' = [doomed EXCEPT !.keys = doomed.keys \ {call[h].req.key}] =>
        doomed'.keys = doomed.keys \ {call[h].req.key}
  BY <1>2, SMTT(30) DEF DoomedShape
<1> QED
  BY <1>1, <1>2, <1>3, <1>5, <1>6, <1>7, TurnTo

\* A part is stored, or its chunks are to be deleted, whether it was stored or not.
Stores(u, n, s) == uploads' = [uploads EXCEPT ![u].parts[n] = s]

LEMMA CommitPartCases ==
  ASSUME NEW h \in Handler, CommitPart(h)
  PROVE  LET q == call[h].req
             slot == <<q.upload, q.part>>
         IN  /\ call[h].op = "part" /\ call[h].at = "commit" /\ meta' = meta
             /\ \/ /\ call' = [call EXCEPT ![h] = Idle] /\ Stores(q.upload, q.part, call[h].refs)
                   /\ doomed' = [doomed EXCEPT !.parts = doomed.parts \ {slot}]
                \/ /\ call' = [call EXCEPT ![h] = Erasing(q, call[h].refs)]
                   /\ \/ uploads' = uploads /\ doomed' = doomed
                      \/ /\ Stores(q.upload, q.part, call[h].refs)
                         /\ doomed' = [doomed EXCEPT !.parts = doomed.parts \cup {slot}]
BY DEF CommitPart, RecordPart, Stores

LEMMA CommitPartEffect ==
  ASSUME ChunkShape, Next, NEW h \in Handler, CommitPart(h)
  PROVE  LET q == call[h].req
             slot == <<q.upload, q.part>>
         IN  /\ Turn(h) /\ WriteShape(call[h]) /\ Writing(h) /\ call[h].at = "commit" /\ call[h].op = "part"
             /\ q.upload \in Upload /\ q.part \in PartNos /\ q \in conf.requests /\ q.op = "part"
             /\ DoomedShape' /\ doomed'.keys = doomed.keys
             /\ \/ /\ call'[h] = Idle /\ Stores(q.upload, q.part, call[h].refs)
                   /\ doomed'.parts = doomed.parts \ {slot}
                \/ /\ EraseShape(call[h])'
                   /\ \/ uploads' = uploads /\ doomed' = doomed
                      \/ Stores(q.upload, q.part, call[h].refs) /\ doomed'.parts = doomed.parts \cup {slot}
                   /\ call'[h].op = q.op /\ call'[h].req = q /\ call'[h].refs = call[h].refs
                   /\ call'[h].at = IF call[h].refs = <<>> THEN "erased" ELSE "erase"
<1>a. PICK q, s : q = call[h].req /\ s = call[h].refs
  BY SMTT(30)
<1>b. PICK slot : slot = <<q.upload, q.part>>
  OBVIOUS
<1>1. call[h].op = "part" /\ call[h].at = "commit"
  BY CommitPartCases
<1>2. Writing(h) /\ CallShape /\ DoomedShape
  BY <1>1 DEF Writing, ChunkShape
<1>3. WriteShape(call[h])
  BY <1>2, IsWriting, SMTT(30)
<1>4. q.op = "part" /\ q \in conf.requests /\ s \in Seq(Refs) /\ q \in used.requests
  BY <1>1, <1>3, <1>a DEF WriteShape, ChunkShape, UsedShape
<1>5. q.upload \in Upload /\ q.part \in PartNos
  BY <1>4, RequestAssumption, SMTT(30) DEF ChunkShape
<1>6. slot \in Upload \X PartNos
  BY <1>5, <1>b, SMTT(30)
<1>7. doomed.parts \ {slot} \in SUBSET (Upload \X PartNos) /\ doomed.parts \cup {slot} \in SUBSET (Upload \X PartNos)
  BY <1>2, <1>6, DoomedSets
<1>8. CASE /\ call' = [call EXCEPT ![h] = Idle] /\ Stores(q.upload, q.part, s)
           /\ doomed' = [doomed EXCEPT !.parts = doomed.parts \ {slot}]
  <2>1. DoomedShape' /\ doomed'.keys = doomed.keys /\ doomed'.parts = doomed.parts \ {slot}
    BY <1>2, <1>7, <1>8, DoomParts
  <2>2. Turn(h) /\ call'[h] = Idle
    BY <1>2, <1>8, TurnTo
  <2> QED
    BY <1>1, <1>2, <1>3, <1>4, <1>5, <1>8, <1>a, <1>b, <2>1, <2>2
<1>9. CASE /\ call' = [call EXCEPT ![h] = Erasing(q, s)]
           /\ \/ uploads' = uploads /\ doomed' = doomed
              \/ /\ Stores(q.upload, q.part, s)
                 /\ doomed' = [doomed EXCEPT !.parts = doomed.parts \cup {slot}]
  <2>1. q \in used'.requests
    BY <1>4, UsedStep
  <2>2. EraseShape(Erasing(q, s))' /\ Erasing(q, s).op = q.op /\ Erasing(q, s).req = q /\ Erasing(q, s).refs = s
        /\ Erasing(q, s).at = IF s = <<>> THEN "erased" ELSE "erase"
    BY <1>4, <2>1, ErasingShape, SMTT(30)
  <2>3. Turn(h) /\ call'[h] = Erasing(q, s)
    BY <1>2, <1>9, TurnTo
  <2>4. EraseShape(call[h])'
    BY <2>2, <2>3 DEF EraseShape, EraseRecord
  <2>5. /\ DoomedShape' /\ doomed'.keys = doomed.keys
        /\ \/ uploads' = uploads /\ doomed' = doomed
           \/ Stores(q.upload, q.part, s) /\ doomed'.parts = doomed.parts \cup {slot}
    <3>1. CASE doomed' = doomed
      BY <1>2, <1>9, <3>1, <1>7, DoomParts DEF DoomedShape
    <3>2. CASE /\ Stores(q.upload, q.part, s)
               /\ doomed' = [doomed EXCEPT !.parts = doomed.parts \cup {slot}]
      BY <1>2, <1>7, <3>2, DoomParts
    <3> QED
      BY <1>9, <3>1, <3>2
  <2> QED
    BY <1>1, <1>2, <1>3, <1>4, <1>5, <1>a, <1>b, <2>2, <2>3, <2>4, <2>5
<1> QED
  BY <1>8, <1>9, <1>a, <1>b, CommitPartCases

\* DELETE and the abort of an upload begin with a list of chunks to erase.
LEMMA EraseStart ==
  ASSUME ChunkShape, Next, NEW h \in Handler, NEW q \in conf.requests, NEW refs \in Seq(Refs),
         q.op \in {"delete", "abort"}, Accept(h, q), call' = [call EXCEPT ![h] = Erasing(q, refs)]
  PROVE  /\ Turn(h) /\ EraseShape(call[h])' /\ call[h] = Idle
         /\ call'[h].op = q.op /\ call'[h].req = q /\ call'[h].refs = refs
         /\ call'[h].at = IF refs = <<>> THEN "erased" ELSE "erase"
         /\ q \notin used.requests /\ used'.requests = used.requests \cup {q}
<1>1. call[h] = Idle /\ q \notin used.requests /\ used'.requests = used.requests \cup {q} /\ CallShape
  BY AcceptEffect DEF ChunkShape
<1>2. q \in used'.requests
  BY <1>1
<1>3. EraseShape(Erasing(q, refs))' /\ Erasing(q, refs).op = q.op /\ Erasing(q, refs).req = q
      /\ Erasing(q, refs).refs = refs /\ Erasing(q, refs).at = IF refs = <<>> THEN "erased" ELSE "erase"
  BY <1>2, ErasingShape, SMTT(30)
<1>4. Turn(h) /\ call'[h] = Erasing(q, refs)
  BY <1>1, TurnTo
<1>5. EraseShape(call[h])'
  BY <1>3, <1>4 DEF EraseShape, EraseRecord
<1> QED
  BY <1>1, <1>3, <1>4, <1>5

LEMMA StartDeleteEffect ==
  ASSUME ChunkShape, Next, NEW h \in Handler, NEW q \in conf.requests, StartDelete(h, q)
  PROVE  /\ Turn(h) /\ EraseShape(call[h])' /\ call[h] = Idle /\ q.op = "delete" /\ q.key \in Key
         /\ call'[h].op = "delete" /\ call'[h].req = q /\ call'[h].refs = meta[q.key]
         /\ call'[h].at = "erase"
         /\ q \notin used.requests /\ used'.requests = used.requests \cup {q}
         /\ DoomedShape' /\ doomed'.keys = doomed.keys \cup {q.key} /\ doomed'.parts = doomed.parts
<1>1. /\ q.op = "delete" /\ meta[q.key] # <<>> /\ Accept(h, q)
      /\ call' = [call EXCEPT ![h] = Erasing(q, meta[q.key])]
      /\ doomed' = [doomed EXCEPT !.keys = doomed.keys \cup {q.key}]
  BY DEF StartDelete
<1>2. q.key \in Key
  BY <1>1, RequestAssumption, SMTT(30) DEF ChunkShape
<1>3. PICK s : s = meta[q.key]
  BY SMTT(30)
<1>4. s \in Seq(Refs)
  BY <1>2, <1>3, SMTT(30) DEF ChunkShape, MetaShape
<1>5. /\ Turn(h) /\ EraseShape(call[h])' /\ call[h] = Idle
      /\ call'[h].op = q.op /\ call'[h].req = q /\ call'[h].refs = s
      /\ call'[h].at = IF s = <<>> THEN "erased" ELSE "erase"
      /\ q \notin used.requests /\ used'.requests = used.requests \cup {q}
  <2>1. q.op \in {"delete", "abort"} /\ call' = [call EXCEPT ![h] = Erasing(q, s)]
    BY <1>1, <1>3
  <2> QED
    BY <1>1, <1>4, <2>1, EraseStart
<1>6. DoomedShape' /\ doomed'.keys = doomed.keys \cup {q.key} /\ doomed'.parts = doomed.parts
  <2>1. DoomedShape
    BY SMTT(30) DEF ChunkShape
  <2>2. doomed.keys \cup {q.key} \in SUBSET Key
    BY <1>2, <2>1, DoomedSets
  <2> QED
    BY <1>1, <2>1, <2>2, DoomKeys
<1> QED
  BY <1>1, <1>2, <1>3, <1>5, <1>6

LEMMA AbortEffect ==
  ASSUME ChunkShape, Next, NEW h \in Handler, NEW q \in conf.requests, Abort(h, q)
  PROVE  /\ Turn(h) /\ EraseShape(call[h])' /\ call[h] = Idle /\ q.op = "abort" /\ q.upload \in Upload
         /\ call'[h].op = "abort" /\ call'[h].req = q /\ call'[h].refs = Joined(uploads[q.upload].parts)
         /\ call'[h].at = IF Joined(uploads[q.upload].parts) = <<>> THEN "erased" ELSE "erase"
         /\ q \notin used.requests /\ used'.requests = used.requests \cup {q}
         /\ uploads' = [uploads EXCEPT ![q.upload] = [st |-> "closed", parts |-> NoParts]]
<1>1. /\ q.op = "abort" /\ Accept(h, q)
      /\ call' = [call EXCEPT ![h] = Erasing(q, Joined(uploads[q.upload].parts))]
      /\ uploads' = [uploads EXCEPT ![q.upload] = [st |-> "closed", parts |-> NoParts]]
  BY DEF Abort
<1>2. q.upload \in Upload
  BY <1>1, RequestAssumption, SMTT(30) DEF ChunkShape
<1>3. PICK s : s = Joined(uploads[q.upload].parts)
  BY SMTT(30)
<1>4. s \in Seq(Refs)
  <2>1. uploads[q.upload].parts \in [PartNos -> Seq(Refs)]
    BY <1>2, SMTT(30) DEF ChunkShape, UploadShape
  <2>2. uploads[q.upload].parts[1] \in Seq(Refs) /\ uploads[q.upload].parts[2] \in Seq(Refs)
    BY <2>1, SMTT(30) DEF PartNos
  <2> QED
    BY <1>3, <2>2, JoinRefs DEF Joined
<1> QED
  BY <1>1, <1>2, <1>3, <1>4, EraseStart

LEMMA AbortFailsEffect ==
  ASSUME ChunkShape, NEW h \in Handler, NEW q \in conf.requests, AbortFails(h, q)
  PROVE  /\ q.upload \in Upload /\ q.op = "abort"
         /\ uploads' = [uploads EXCEPT ![q.upload] = [st |-> "closed", parts |-> NoParts]]
<1>1. /\ q.op = "abort" /\ uploads' = [uploads EXCEPT ![q.upload] = [st |-> "closed", parts |-> NoParts]]
  BY DEF AbortFails
<1>2. q.upload \in Upload
  BY <1>1, RequestAssumption, SMTT(30) DEF ChunkShape
<1> QED
  BY <1>1, <1>2

LEMMA EraseTodo ==
  ASSUME NEW k, EraseRecord(k), NEW t
  PROVE  LET K == [k EXCEPT !.todo = t]
         IN  /\ EraseRecord(K) /\ K.op = k.op /\ K.req = k.req /\ K.at = k.at /\ K.refs = k.refs
             /\ K.todo = t
<1> DEFINE K == [k EXCEPT !.todo = t]
<1>1. DOMAIN k = {"op", "req", "at", "refs", "todo"}
  BY SMTT(30) DEF EraseRecord
<1>2. K.op = k.op /\ K.req = k.req /\ K.at = k.at /\ K.refs = k.refs /\ K.todo = t
  BY <1>1, SMTT(30)
<1>3. DOMAIN K = {"op", "req", "at", "refs", "todo"} /\ K = [f \in DOMAIN K |-> K[f]]
  BY <1>1
<1> HIDE DEF K
<1>4. K = [op |-> k.op, req |-> k.req, at |-> k.at, refs |-> k.refs, todo |-> t]
  BY <1>2, <1>3, SMTT(30)
<1>5. EraseRecord(K)
  BY <1>4 DEF EraseRecord
<1> QED
  BY <1>2, <1>5 DEF K

\* A file of the list is erased, and the list gets no longer.
LEMMA EraseFromEffect ==
  ASSUME ChunkShape, Next, NEW h \in Handler, NEW d \in DN, EraseFrom(h, d)
  PROVE  /\ Turn(h) /\ EraseShape(call[h]) /\ EraseShape(call[h])' /\ Erases(h)
         /\ call'[h].op = call[h].op /\ call'[h].req = call[h].req
         /\ Ids(call'[h].refs) \subseteq Ids(call[h].refs)
         /\ call[h].refs[1].id \in Ids(call[h].refs) /\ call[h].refs[1].id \in Chunk
<1> DEFINE k == call[h]
           t == k.todo \ {d}
<1>1. k.op # "idle" /\ k.at = "erase" /\ call' = [call EXCEPT ![h] = NextErase(k, t)]
  BY DEF EraseFrom
<1>2. Erases(h) /\ CallShape
  BY <1>1 DEF Erases, ChunkShape
<1>3. EraseShape(k)
  BY <1>1, <1>2, IsErasing
<1>4. k.req \in used'.requests
  BY <1>3, UsedStep DEF EraseShape
<1>5. k.refs \in Seq(Refs) /\ k.refs # <<>> /\ EraseRecord(k)
  BY <1>1, <1>3 DEF EraseShape
<1>6. Tail(k.refs) \in Seq(Refs) /\ Ids(Tail(k.refs)) \subseteq Ids(k.refs)
      /\ k.refs[1].id \in Ids(k.refs) /\ k.refs[1].id \in Chunk
  BY <1>5, TailRefs
<1>7. CASE t # {}
  <2> DEFINE K == [k EXCEPT !.todo = t]
  <2>1. call' = [call EXCEPT ![h] = K]
    BY <1>1, <1>7 DEF NextErase
  <2>2. Turn(h) /\ call'[h] = K
    BY <1>2, <2>1, TurnTo
  <2>3. EraseRecord(K) /\ K.op = k.op /\ K.req = k.req /\ K.at = k.at /\ K.refs = k.refs /\ K.todo = t
    <3> HIDE DEF k, t
    <3> QED
      BY <1>5, EraseTodo, SMTT(30)
  <2> HIDE DEF K
  <2>4. t \subseteq DN
    BY <1>3 DEF EraseShape
  <2>5. EraseShape(call[h])'
    BY <1>3, <1>4, <1>5, <2>2, <2>3, <2>4 DEF EraseShape, EraseRecord
  <2> QED
    BY <1>2, <1>3, <1>6, <2>2, <2>3, <2>5
<1>8. CASE t = {}
  <2>1. PICK r, s : r = k.req /\ s = Tail(k.refs)
    OBVIOUS
  <2>2. call' = [call EXCEPT ![h] = Erasing(r, s)]
    BY <1>1, <1>8, <2>1 DEF NextErase
  <2>3. Turn(h) /\ call'[h] = Erasing(r, s)
    BY <1>2, <2>2, TurnTo
  <2>4. r.op \in {"part", "delete", "abort"} /\ r.op = k.op
    BY <1>3, <2>1 DEF EraseShape
  <2>5. EraseShape(Erasing(r, s))' /\ Erasing(r, s).op = r.op /\ Erasing(r, s).req = r /\ Erasing(r, s).refs = s
    <3>1. r \in used'.requests /\ s \in Seq(Refs)
      BY <1>4, <1>6, <2>1
    <3> QED
      BY <2>4, <3>1, ErasingShape, SMTT(30)
  <2>6. EraseShape(call[h])'
    BY <2>3, <2>5 DEF EraseShape, EraseRecord
  <2> QED
    BY <1>2, <1>3, <1>6, <2>1, <2>3, <2>4, <2>5, <2>6
<1> QED
  BY <1>7, <1>8, SMTT(30)

LEMMA EraseDoneEffect ==
  ASSUME ChunkShape, Next, NEW h \in Handler, EraseDone(h)
  PROVE  /\ Turn(h) /\ EraseShape(call[h]) /\ call'[h] = Idle /\ ~Writing(h) /\ call[h].at = "erased"
         /\ \/ meta' = meta
            \/ /\ call[h].op = "delete" /\ call[h].req.key \in Key
               /\ meta' = [meta EXCEPT ![call[h].req.key] = <<>>]
<1>1. /\ call[h].op # "idle" /\ call[h].at = "erased" /\ call' = [call EXCEPT ![h] = Idle]
      /\ \/ meta' = meta
         \/ call[h].op = "delete" /\ meta' = [meta EXCEPT ![call[h].req.key] = <<>>]
  BY DEF EraseDone
<1>2. CallShape
  BY SMTT(30) DEF ChunkShape
<1>3. EraseShape(call[h])
  BY <1>1, <1>2, IsErasing
<1>4. ~Writing(h)
  BY <1>1 DEF Writing
<1>5. call[h].op = "delete" => call[h].req.key \in Key
  <2>1. call[h].req.op = call[h].op /\ call[h].req \in conf.requests
    BY <1>3 DEF EraseShape, ChunkShape, UsedShape
  <2> QED
    BY <2>1, RequestAssumption, SMTT(30) DEF ChunkShape
<1> QED
  BY <1>1, <1>2, <1>3, <1>4, <1>5, TurnTo

-----------------------------------------------------------------------------
(* The shape is kept.                                                      *)

LEMMA CallShapeKept ==
  ASSUME ChunkShape, Next
  PROVE  CallShape'
<1>1. CallShape /\ conf' = conf /\ used.requests \subseteq used'.requests
  BY UsedStep, SMTT(30) DEF ChunkShape
<1>2. ASSUME NEW h \in Handler, Turn(h), (call[h] = Idle \/ WriteShape(call[h]) \/ EraseShape(call[h]))'
      PROVE  CallShape'
  BY <1>1, <1>2, CallShapeStep, SMTT(30)
<1>3. CASE call' = call
  <2>1. ASSUME NEW k, WriteShape(k) PROVE WriteShape(k)'
    BY <1>1, <2>1 DEF WriteShape, Wide
  <2>2. ASSUME NEW k, EraseShape(k) PROVE EraseShape(k)'
    BY <1>1, <2>2 DEF EraseShape
  <2>3. ASSUME NEW g \in Handler PROVE (call[g] = Idle \/ WriteShape(call[g]) \/ EraseShape(call[g]))'
    <3>1. PICK k : k = call[g]
      BY SMTT(30)
    <3>2. k = Idle \/ WriteShape(k)' \/ EraseShape(k)'
      BY <1>1, <2>1, <2>2, <3>1 DEF CallShape
    <3> QED
      BY <1>3, <3>1, <3>2 DEF WriteShape, EraseShape, Wide
  <2>4. call' = [h \in Handler |-> call'[h]]
    BY <1>1, <1>3 DEF CallShape
  <2> QED
    BY <2>3, <2>4 DEF CallShape
<1>4. ASSUME NEW h \in Handler, NEW q \in conf.requests, StartWrite(h, q) \/ StartDelete(h, q) \/ Abort(h, q)
      PROVE  CallShape'
  BY <1>2, <1>4, StartWriteEffect, StartDeleteEffect, AbortEffect
<1>5. ASSUME NEW h \in Handler, NEW d \in DN, WriteTo(h, d) \/ WriteFails(h, d) \/ EraseFrom(h, d)
      PROVE  CallShape'
  BY <1>2, <1>5, WriteToEffect, EraseFromEffect
<1>6. ASSUME NEW h \in Handler, WriteDone(h) \/ CommitPut(h) \/ CommitPart(h) \/ EraseDone(h)
      PROVE  CallShape'
  <2>1. CASE WriteDone(h)
    BY <1>2, <2>1, WriteDoneEffect
  <2>2. CASE CommitPut(h) \/ EraseDone(h)
    BY <1>2, <2>2, CommitPutEffect, EraseDoneEffect
  <2>3. CASE CommitPart(h)
    BY <1>2, <2>3, CommitPartEffect
  <2> QED
    BY <1>6, <2>1, <2>2, <2>3, SMTT(30)
<1>7. CASE Crash
  <2>1. call' = [h \in Handler |-> Idle]
    BY <1>7 DEF Crash
  <2>2. \A h \in Handler : call'[h] = Idle
    BY <2>1
  <2>3. call' = [h \in Handler |-> call'[h]]
    BY <2>1
  <2> QED
    BY <2>2, <2>3 DEF CallShape
<1> QED
  BY <1>3, <1>4, <1>5, <1>6, <1>7, CallChange

LEMMA MetaSet ==
  ASSUME MetaShape, conf' = conf, NEW k \in Key, NEW s \in Seq(Refs), Wide(s), meta' = [meta EXCEPT ![k] = s]
  PROVE  MetaShape' /\ meta'[k] = s /\ \A l \in Key : l # k => meta'[l] = meta[l]
<1>1. meta \in [Key -> Seq(Refs)]
  BY SMTT(30) DEF MetaShape
<1>2. meta' \in [Key -> Seq(Refs)] /\ meta'[k] = s /\ \A l \in Key : l # k => meta'[l] = meta[l]
  BY <1>1, SMTT(30)
<1>3. \A l \in Key : Wide(meta[l])'
  BY <1>2 DEF MetaShape, Wide
<1> QED
  BY <1>2, <1>3 DEF MetaShape

\* What an upload is completed with: its parts, or some of them.
LEMMA PartsShape ==
  ASSUME UploadShape, NEW u \in Upload, NEW n \in PartNos
  PROVE  uploads[u].parts[n] \in Seq(Refs) /\ Wide(uploads[u].parts[n])
BY SMTT(30) DEF UploadShape

LEMMA CompleteEffect ==
  ASSUME ChunkShape, NEW h \in Handler, NEW q \in conf.requests, Complete(h, q)
  PROVE  /\ q.upload \in Upload /\ q.key \in Key /\ q.op = "complete"
         /\ call[h] = Idle /\ q \notin used.requests /\ used'.requests = used.requests \cup {q}
         /\ uploads' = [uploads EXCEPT ![q.upload] = [st |-> "closed", parts |-> NoParts]]
         /\ DoomedShape' /\ doomed'.parts = doomed.parts
         /\ \E S \in SUBSET PartNos : \E s \in Seq(Refs) :
              /\ meta' = [meta EXCEPT ![q.key] = s] /\ Wide(s)
              /\ \A x \in Ids(s) : \E n \in S : x \in Ids(uploads[q.upload].parts[n])
              /\ \A d, c : Refers(s, d, c) => \E n \in S : Refers(uploads[q.upload].parts[n], d, c)
              /\ doomed'.keys = IF \E n \in S : <<q.upload, n>> \in doomed.parts
                                THEN doomed.keys \cup {q.key} ELSE doomed.keys \ {q.key}
<1> DEFINE P == uploads[q.upload].parts
<1>1. q.op = "complete" /\ Accept(h, q)
      /\ uploads' = [uploads EXCEPT ![q.upload] = [st |-> "closed", parts |-> NoParts]]
  BY DEF Complete
<1>2. q.upload \in Upload /\ q.key \in Key
  BY <1>1, RequestAssumption, SMTT(30) DEF ChunkShape
<1>3. call[h] = Idle /\ q \notin used.requests /\ used'.requests = used.requests \cup {q}
  BY <1>1, AcceptEffect DEF ChunkShape
<1>4. \A n \in PartNos : P[n] \in Seq(Refs) /\ Wide(P[n])
  BY <1>2, PartsShape DEF ChunkShape
<1>5. PICK S \in SUBSET {n \in PartNos : P[n] # <<>>} :
        /\ meta' = [meta EXCEPT ![q.key] = Joined([n \in PartNos |-> IF n \in S THEN P[n] ELSE <<>>])]
        /\ doomed' = [doomed EXCEPT !.keys = IF \E n \in S : <<q.upload, n>> \in doomed.parts
                                             THEN doomed.keys \cup {q.key} ELSE doomed.keys \ {q.key}]
  BY DEF Complete
<1> HIDE DEF P
<1> DEFINE a == IF 1 \in S THEN P[1] ELSE <<>>
           b == IF 2 \in S THEN P[2] ELSE <<>>
<1>6. 1 \in PartNos /\ 2 \in PartNos
  BY SMTT(30) DEF PartNos
<1>7. Joined([n \in PartNos |-> IF n \in S THEN P[n] ELSE <<>>]) = a \o b
  BY <1>6 DEF Joined
<1>8. a \in Seq(Refs) /\ b \in Seq(Refs) /\ Wide(a) /\ Wide(b)
  BY <1>4, <1>6, EmptyRefs
<1>9. ASSUME NEW x, x \in Ids(a) \/ x \in Ids(b) PROVE \E n \in S : x \in Ids(P[n])
  BY <1>9, EmptyRefs
<1>10. ASSUME NEW d, NEW c, Refers(a, d, c) \/ Refers(b, d, c) PROVE \E n \in S : Refers(P[n], d, c)
  <2>1. ~Refers(<<>>, d, c)
    BY EmptyRefs DEF Refers
  <2> QED
    BY <1>10, <2>1
<1>13. /\ DoomedShape' /\ doomed'.parts = doomed.parts
       /\ doomed'.keys = IF \E n \in S : <<q.upload, n>> \in doomed.parts
                         THEN doomed.keys \cup {q.key} ELSE doomed.keys \ {q.key}
  <2> DEFINE X == IF \E n \in S : <<q.upload, n>> \in doomed.parts
                  THEN doomed.keys \cup {q.key} ELSE doomed.keys \ {q.key}
  <2>1. DoomedShape
    BY SMTT(30) DEF ChunkShape
  <2>2. X \in SUBSET Key
    BY <1>2, <2>1, DoomedSets
  <2>3. doomed' = [doomed EXCEPT !.keys = X]
    BY <1>5
  <2> HIDE DEF X
  <2>4. DoomedShape' /\ doomed'.keys = X /\ doomed'.parts = doomed.parts
    BY <2>1, <2>2, <2>3, DoomKeys
  <2> QED
    BY <2>4 DEF X
<1> HIDE DEF a, b
<1>11. /\ a \o b \in Seq(Refs) /\ Ids(a \o b) = Ids(a) \cup Ids(b) /\ Wide(a \o b)
       /\ \A d, c : Refers(a \o b, d, c) <=> Refers(a, d, c) \/ Refers(b, d, c)
  BY <1>8, JoinRefs
<1>12. /\ meta' = [meta EXCEPT ![q.key] = a \o b]
       /\ \A x \in Ids(a \o b) : \E n \in S : x \in Ids(P[n])
       /\ \A d, c : Refers(a \o b, d, c) => \E n \in S : Refers(P[n], d, c)
  BY <1>5, <1>7, <1>9, <1>10, <1>11
<1>14. S \in SUBSET PartNos
  BY <1>5
<1> QED
  BY <1>1, <1>2, <1>3, <1>11, <1>12, <1>13, <1>14 DEF P

LEMMA MigrateUpdateEffect ==
  ASSUME ChunkShape, NEW m \in migs, MigrateUpdate(m)
  PROVE  /\ m.key \in Key
         /\ \/ meta' = meta
            \/ /\ m.idx \in DOMAIN meta[m.key]
               /\ \E s \in Seq(Refs) :
                    /\ meta' = [meta EXCEPT ![m.key] = s]
                    /\ Wide(s) /\ DOMAIN s = DOMAIN meta[m.key]
                    /\ s[m.idx].id = meta[m.key][m.idx].id /\ s[m.idx].replicas = FinalReplicas(m)
                    /\ \A j \in DOMAIN s : j # m.idx => s[j] = meta[m.key][j]
<1>1. MigShape(m) /\ m.key \in Key
  BY DEF ChunkShape, MigsShape, MigShape
<1>2. \/ meta' = meta
      \/ /\ m.idx \in DOMAIN meta[m.key]
         /\ meta' = [meta EXCEPT ![m.key][m.idx].replicas = FinalReplicas(m)]
  BY DEF MigrateUpdate
<1>3. CASE meta' = meta
  BY <1>1, <1>3
<1>4. CASE /\ m.idx \in DOMAIN meta[m.key]
           /\ meta' = [meta EXCEPT ![m.key][m.idx].replicas = FinalReplicas(m)]
  <2> DEFINE o == meta[m.key]
             F == FinalReplicas(m)
             s == [o EXCEPT ![m.idx].replicas = F]
  <2>1. meta' = [meta EXCEPT ![m.key] = s]
    BY <1>4
  <2>2. o \in Seq(Refs) /\ Wide(o)
    BY <1>1, SMTT(30) DEF ChunkShape, MetaShape
  <2>3. F \in SUBSET DN /\ Cardinality(F) >= conf.w
    BY <1>1, FinalWide
  <2>5. PICK i : i = m.idx
    BY SMTT(30)
  <2> HIDE DEF o, F
  <2>6. i \in DOMAIN o
    BY <1>4, <2>5, SMTT(30) DEF o
  <2>4. /\ s \in Seq(Refs) /\ DOMAIN s = DOMAIN o
        /\ s[i].id = o[i].id /\ s[i].replicas = F
        /\ \A j \in DOMAIN o : j # i => s[j] = o[j]
    BY <2>2, <2>3, <2>5, <2>6, ReplaceReplicas
  <2> HIDE DEF s
  <2>7. Wide(s)
    BY <2>2, <2>3, <2>4 DEF Wide
  <2> QED
    BY <1>1, <1>4, <2>1, <2>4, <2>5, <2>7 DEF o, F
<1> QED
  BY <1>2, <1>3, <1>4

LEMMA MetaShapeKept ==
  ASSUME ChunkShape, Next
  PROVE  MetaShape'
<1>1. MetaShape /\ conf' = conf
  BY UsedStep, SMTT(30) DEF ChunkShape
<1>2. CASE meta' = meta
  BY <1>1, <1>2 DEF MetaShape, Wide
<1>3. ASSUME NEW h \in Handler, CommitPut(h) PROVE MetaShape'
  <2>1. /\ WriteShape(call[h]) /\ call[h].req.key \in Key
        /\ meta' = meta \/ meta' = [meta EXCEPT ![call[h].req.key] = call[h].refs]
    BY <1>3, CommitPutEffect
  <2>2. PICK k, s : k = call[h].req.key /\ s = call[h].refs
    BY SMTT(30)
  <2>3. k \in Key /\ s \in Seq(Refs) /\ Wide(s) /\ (meta' = meta \/ meta' = [meta EXCEPT ![k] = s])
    BY <2>1, <2>2 DEF WriteShape
  <2> QED
    BY <1>1, <1>2, <2>3, MetaSet
<1>4. ASSUME NEW h \in Handler, EraseDone(h) PROVE MetaShape'
  <2>1. CASE meta' = meta
    BY <1>2, <2>1, SMTT(30)
  <2>2. CASE call[h].req.key \in Key /\ meta' = [meta EXCEPT ![call[h].req.key] = <<>>]
    <3>1. PICK k : k = call[h].req.key
      BY SMTT(30)
    <3> QED
      BY <1>1, <2>2, <3>1, EmptyRefs, MetaSet
  <2> QED
    BY <1>4, <2>1, <2>2, EraseDoneEffect
<1>5. ASSUME NEW h \in Handler, NEW q \in conf.requests, Complete(h, q) PROVE MetaShape'
  BY <1>1, <1>5, CompleteEffect, MetaSet
<1>6. ASSUME NEW m \in migs, MigrateUpdate(m) PROVE MetaShape'
  BY <1>1, <1>2, <1>6, MigrateUpdateEffect, MetaSet
<1> QED
  BY <1>2, <1>3, <1>4, <1>5, <1>6, MetaChange

Uploads == [st : {"none", "open", "closed"}, parts : [PartNos -> Seq(Refs)]]
Replaces(u, r) == uploads' = [uploads EXCEPT ![u] = r]
SoundParts(P) == \A n \in PartNos : Wide(P[n]) /\ (P[n] # <<>> => \E q \in conf.requests : q.op = "part")

LEMMA UploadSet ==
  ASSUME UploadShape, conf' = conf, NEW u \in Upload, NEW r \in Uploads, SoundParts(r.parts), Replaces(u, r)
  PROVE  /\ UploadShape' /\ uploads'[u] = r
         /\ \A v \in Upload : v # u => uploads'[v] = uploads[v]
<1>1. uploads \in [Upload -> Uploads]
  BY SMTT(30) DEF UploadShape, Uploads
<1>2. uploads' \in [Upload -> Uploads] /\ uploads'[u] = r /\ \A v \in Upload : v # u => uploads'[v] = uploads[v]
  BY <1>1, SMTT(30) DEF Replaces
<1>3. ASSUME NEW v \in Upload, NEW n \in PartNos
      PROVE  Wide(uploads[v].parts[n])' /\ (uploads'[v].parts[n] # <<>> => \E q \in conf'.requests : q.op = "part")
  <2>1. CASE v = u
    BY <1>2, <2>1 DEF Wide, SoundParts
  <2>2. CASE v # u
    BY <1>2, <2>2 DEF UploadShape, Wide
  <2> QED
    BY <2>1, <2>2, SMTT(30)
<1>4. uploads' \in [Upload -> [st : {"none", "open", "closed"}, parts : [PartNos -> Seq(Refs)]]]
  BY <1>2 DEF Uploads
<1>5. UploadShape'
  BY <1>3, <1>4 DEF UploadShape
<1> QED
  BY <1>2, <1>5

\* An upload ends: it has no parts, the others keep theirs.
LEMMA UploadClosed ==
  ASSUME UploadShape, conf' = conf, NEW u \in Upload,
         uploads' = [uploads EXCEPT ![u] = [st |-> "closed", parts |-> NoParts]]
  PROVE  /\ UploadShape' /\ \A n \in PartNos : uploads'[u].parts[n] = <<>>
         /\ \A v \in Upload : v # u => uploads'[v] = uploads[v]
<1> DEFINE r == [st |-> "closed", parts |-> NoParts]
<1>1. NoParts \in [PartNos -> Seq(Refs)] /\ \A n \in PartNos : NoParts[n] = <<>>
  BY EmptyRefs, SMTT(30) DEF NoParts
<1>2. r.parts = NoParts
  OBVIOUS
<1>3. r \in Uploads
  BY <1>1, SMTT(30) DEF Uploads
<1>4. Replaces(u, r)
  BY DEF Replaces
<1> HIDE DEF r
<1>5. \A n \in PartNos : r.parts[n] = <<>>
  BY <1>1, <1>2
<1>6. SoundParts(r.parts)
  BY <1>5, EmptyRefs DEF SoundParts
<1>7. UploadShape' /\ uploads'[u] = r /\ \A v \in Upload : v # u => uploads'[v] = uploads[v]
  BY <1>3, <1>4, <1>6, UploadSet
<1> QED
  BY <1>5, <1>7

\* A part is stored: the other parts stay.
LEMMA PartStored ==
  ASSUME UploadShape, conf' = conf, NEW u \in Upload, NEW n \in PartNos, NEW s \in Seq(Refs), Wide(s),
         \E q \in conf.requests : q.op = "part", Stores(u, n, s)
  PROVE  /\ UploadShape' /\ uploads'[u].parts[n] = s
         /\ \A v \in Upload, o \in PartNos : v # u \/ o # n => uploads'[v].parts[o] = uploads[v].parts[o]
<1> DEFINE x == uploads[u]
           p == [x.parts EXCEPT ![n] = s]
           y == [x EXCEPT !.parts = p]
<1>1. x \in Uploads
  BY SMTT(30) DEF UploadShape, Uploads
<1>2. x.parts \in [PartNos -> Seq(Refs)]
  BY <1>1, SMTT(30) DEF Uploads
<1>3. p \in [PartNos -> Seq(Refs)] /\ p[n] = s /\ \A o \in PartNos : o # n => p[o] = x.parts[o]
  BY <1>2, SMTT(30)
<1>4. Replaces(u, y)
  BY DEF Replaces, Stores
<1>5. \A o \in PartNos : Wide(x.parts[o])
  BY PartsShape
<1> HIDE DEF x, p
<1>6. y \in Uploads /\ y.parts = p
  BY <1>1, <1>3 DEF Uploads
<1>7. PICK r : r = y
  OBVIOUS
<1> HIDE DEF y
<1>8. \A o \in PartNos : Wide(p[o]) /\ (p[o] # <<>> => \E q \in conf.requests : q.op = "part")
  BY <1>3, <1>5
<1>9. SoundParts(p)
  BY <1>8 DEF SoundParts
<1>10. r \in Uploads /\ r.parts = p /\ SoundParts(r.parts) /\ Replaces(u, r)
  BY <1>4, <1>6, <1>7, <1>9
<1>11. UploadShape' /\ uploads'[u] = r /\ \A v \in Upload : v # u => uploads'[v] = uploads[v]
  BY <1>10, UploadSet
<1> QED
  BY <1>3, <1>10, <1>11 DEF x

LEMMA UploadOpened ==
  ASSUME UploadShape, conf' = conf, NEW u \in Upload, uploads' = [uploads EXCEPT ![u].st = "open"]
  PROVE  /\ UploadShape'
         /\ \A v \in Upload, o \in PartNos : uploads'[v].parts[o] = uploads[v].parts[o]
<1> DEFINE x == uploads[u]
           y == [x EXCEPT !.st = "open"]
<1>1. x \in Uploads
  BY SMTT(30) DEF UploadShape, Uploads
<1>2. Replaces(u, y)
  BY DEF Replaces
<1>3. SoundParts(x.parts)
  BY DEF UploadShape, SoundParts
<1> HIDE DEF x
<1>4. y \in Uploads /\ y.parts = x.parts
  BY <1>1, SMTT(30) DEF Uploads
<1>5. PICK r : r = y
  OBVIOUS
<1> HIDE DEF y
<1>6. r \in Uploads /\ r.parts = x.parts /\ SoundParts(r.parts) /\ Replaces(u, r)
  BY <1>2, <1>3, <1>4, <1>5
<1>7. UploadShape' /\ uploads'[u] = r /\ \A v \in Upload : v # u => uploads'[v] = uploads[v]
  BY <1>6, UploadSet
<1> QED
  BY <1>6, <1>7 DEF x

LEMMA UploadShapeKept ==
  ASSUME ChunkShape, Next
  PROVE  UploadShape'
<1>1. UploadShape /\ conf' = conf
  BY UsedStep, SMTT(30) DEF ChunkShape
<1>2. CASE uploads' = uploads
  BY <1>1, <1>2 DEF UploadShape, Wide
<1>3. ASSUME NEW h \in Handler, CommitPart(h) PROVE UploadShape'
  <2>1. PICK q, s : q = call[h].req /\ s = call[h].refs
    BY SMTT(30)
  <2>2. /\ WriteShape(call[h]) /\ q.upload \in Upload /\ q.part \in PartNos /\ q \in conf.requests /\ q.op = "part"
        /\ Stores(q.upload, q.part, s) \/ uploads' = uploads
    BY <1>3, <2>1, CommitPartEffect
  <2>3. s \in Seq(Refs) /\ Wide(s)
    BY <2>1, <2>2 DEF WriteShape
  <2> QED
    BY <1>1, <1>2, <2>2, <2>3, PartStored
<1>4. ASSUME NEW h \in Handler, NEW q \in conf.requests, Create(h, q) PROVE UploadShape'
  <2>1. q.op = "create" /\ uploads' = [uploads EXCEPT ![q.upload].st = "open"]
    BY <1>4 DEF Create
  <2>2. q.upload \in Upload
    BY <2>1, RequestAssumption, SMTT(30) DEF ChunkShape
  <2> QED
    BY <1>1, <2>1, <2>2, UploadOpened
<1>5. ASSUME NEW h \in Handler, NEW q \in conf.requests, Complete(h, q) \/ Abort(h, q) \/ AbortFails(h, q)
      PROVE  UploadShape'
  <2>1. q.upload \in Upload /\ uploads' = [uploads EXCEPT ![q.upload] = [st |-> "closed", parts |-> NoParts]]
    BY <1>5, CompleteEffect, AbortEffect, AbortFailsEffect
  <2> QED
    BY <1>1, <2>1, UploadClosed
<1> QED
  BY <1>2, <1>3, <1>4, <1>5, UploadsChange

\* One file changes.
Changes(d, c, v) == file' = [file EXCEPT ![d][c] = v]

LEMMA FileSet ==
  ASSUME FileShape, NEW d \in DN, NEW c \in Chunk, NEW v \in {"none", "new", "old"}, Changes(d, c, v)
  PROVE  /\ FileShape' /\ file'[d][c] = v
         /\ \A e \in DN, x \in Chunk : e # d \/ x # c => file'[e][x] = file[e][x]
<1> DEFINE V == {"none", "new", "old"}
<1>1. file \in [DN -> [Chunk -> V]]
  BY SMTT(30) DEF FileShape
<1>2. file' = [file EXCEPT ![d] = [file[d] EXCEPT ![c] = v]]
  BY DEF Changes
<1> DEFINE g == [file[d] EXCEPT ![c] = v]
<1> HIDE DEF V
<1>3. g \in [Chunk -> V] /\ g[c] = v /\ \A x \in Chunk : x # c => g[x] = file[d][x]
  BY <1>1, SMTT(30) DEF V
<1> HIDE DEF g
<1>4. file' \in [DN -> [Chunk -> V]] /\ file'[d] = g /\ \A e \in DN : e # d => file'[e] = file[e]
  BY <1>1, <1>2, <1>3, SMTT(30) DEF g
<1>5. FileShape'
  BY <1>4 DEF FileShape, V
<1> QED
  BY <1>3, <1>4, <1>5

\* A PUT leaves the file there, and new when it was not.
LEMMA PutFile ==
  ASSUME FileShape, NEW d \in DN, NEW c \in Chunk, file' = DnPut(file, d, c)
  PROVE  /\ FileShape' /\ HasFile(d, c)'
         /\ file'[d][c] = IF HasFile(d, c) THEN file[d][c] ELSE "new"
         /\ \A e \in DN, x \in Chunk : e # d \/ x # c => file'[e][x] = file[e][x]
<1>1. PICK v : v = IF file[d][c] = "none" THEN "new" ELSE file[d][c]
  BY SMTT(30)
<1>2. v \in {"none", "new", "old"} /\ v # "none"
  BY <1>1, SMTT(30) DEF FileShape
<1>3. Changes(d, c, v)
  BY <1>1 DEF Changes, DnPut
<1>4. /\ FileShape' /\ file'[d][c] = v
      /\ \A e \in DN, x \in Chunk : e # d \/ x # c => file'[e][x] = file[e][x]
  BY <1>2, <1>3, FileSet
<1> QED
  BY <1>1, <1>2, <1>4 DEF HasFile

LEMMA DeleteFile ==
  ASSUME FileShape, NEW d \in DN, NEW c \in Chunk, file' = DnDelete(file, d, c)
  PROVE  /\ FileShape' /\ file'[d][c] = "none"
         /\ \A e \in DN, x \in Chunk : e # d \/ x # c => file'[e][x] = file[e][x]
<1>1. PICK v \in {"none", "new", "old"} : v = "none"
  BY SMTT(30)
<1>2. Changes(d, c, v)
  BY <1>1 DEF Changes, DnDelete
<1> QED
  BY <1>1, <1>2, FileSet

LEMMA AgeFile ==
  ASSUME FileShape, NEW d \in DN, NEW c \in Chunk, Age(d, c)
  PROVE  /\ FileShape' /\ file'[d][c] = "old" /\ file[d][c] = "new"
         /\ \A e \in DN, x \in Chunk : e # d \/ x # c => file'[e][x] = file[e][x]
<1>1. PICK v \in {"none", "new", "old"} : v = "old"
  BY SMTT(30)
<1>2. Changes(d, c, v) /\ file[d][c] = "new"
  BY <1>1 DEF Changes, Age
<1> QED
  BY <1>1, <1>2, FileSet

\* The chunk a handler is writing.
LEMMA CurrentChunk ==
  ASSUME ChunkShape, NEW h \in Handler, Writing(h), call[h].at = "write"
  PROVE  /\ Current(h) \in Chunk /\ Len(call[h].refs) \in Nat
         /\ Len(call[h].refs) + 1 \in DOMAIN call[h].req.body
         /\ Current(h) = call[h].req.body[Len(call[h].refs) + 1]
<1>1. WriteShape(call[h])
  BY IsWriting, SMTT(30) DEF ChunkShape
<1>2. PICK q, s : q = call[h].req /\ s = call[h].refs
  BY SMTT(30)
<1>3. s \in Seq(Refs) /\ Len(s) < Len(q.body) /\ q \in conf.requests /\ q.op \in {"put", "part"}
  BY <1>1, <1>2 DEF WriteShape, ChunkShape, UsedShape
<1>4. q.body \in Seq(Chunk)
  BY <1>3, RequestAssumption, SMTT(30) DEF ChunkShape
<1>5. Current(h) = q.body[Len(s) + 1]
  BY <1>2 DEF Current
<1>6. Len(s) \in Nat /\ Len(s) + 1 \in DOMAIN q.body /\ q.body[Len(s) + 1] \in Chunk
  BY <1>3, <1>4, SMTT(30)
<1> QED
  BY <1>2, <1>5, <1>6

\* What the steps that touch files do to them.
LEMMA WriteFile ==
  ASSUME ChunkShape, Next, NEW h \in Handler, NEW d \in DN, WriteTo(h, d) \/ WriteFails(h, d)
  PROVE  LET c == Current(h)
         IN  /\ FileShape'
             /\ WriteTo(h, d) => file' = DnPut(file, d, c)
             /\ \A e \in DN, x \in Chunk : e # d \/ x # c => file'[e][x] = file[e][x]
             /\ HasFile(d, c) => file'[d][c] = file[d][c]
             /\ file'[d][c] = file[d][c] \/ file'[d][c] = "new"
             /\ WriteTo(h, d) => file'[d][c] # "none" /\ (~HasFile(d, c) => file'[d][c] = "new")
<1>1. Writing(h) /\ call[h].at = "write" /\ FileShape
  BY WriteToEffect DEF ChunkShape
<1>2. PICK c : c = Current(h)
  BY SMTT(30)
<1>3. c \in Chunk
  BY <1>1, <1>2, CurrentChunk
<1>4. (WriteTo(h, d) => file' = DnPut(file, d, c)) /\ (file' = file \/ file' = DnPut(file, d, c))
  BY <1>2 DEF WriteTo, WriteFails, DnPutFails
<1>5. CASE file' = DnPut(file, d, c)
  <2>1. /\ FileShape' /\ HasFile(d, c)'
        /\ file'[d][c] = IF HasFile(d, c) THEN file[d][c] ELSE "new"
        /\ \A e \in DN, x \in Chunk : e # d \/ x # c => file'[e][x] = file[e][x]
    BY <1>1, <1>3, <1>5, PutFile
  <2> QED
    BY <1>2, <1>5, <2>1 DEF HasFile
<1>6. CASE file' = file /\ ~(file' = DnPut(file, d, c))
  <2>1. FileShape'
    BY <1>1, <1>6 DEF FileShape
  <2> QED
    BY <1>2, <1>4, <1>6, <2>1
<1> QED
  BY <1>4, <1>5, <1>6, SMTT(30)

LEMMA EraseFile ==
  ASSUME ChunkShape, Next, NEW h \in Handler, NEW d \in DN, EraseFrom(h, d)
  PROVE  /\ FileShape'
         /\ \A e \in DN, x \in Chunk : e # d \/ x # call[h].refs[1].id => file'[e][x] = file[e][x]
         /\ \A e \in DN, x \in Chunk : HasFile(e, x)' => file'[e][x] = file[e][x]
<1>1. PICK c : c = call[h].refs[1].id
  BY SMTT(30)
<1>2. c \in Chunk /\ FileShape
  BY <1>1, EraseFromEffect DEF ChunkShape
<1>3. file' = DnDelete(file, d, c) \/ file' = file
  BY <1>1 DEF EraseFrom
<1>4. CASE file' = DnDelete(file, d, c)
  <2>1. FileShape' /\ file'[d][c] = "none" /\ \A e \in DN, x \in Chunk : e # d \/ x # c => file'[e][x] = file[e][x]
    BY <1>2, <1>4, DeleteFile
  <2> QED
    BY <1>1, <2>1 DEF HasFile
<1>5. CASE file' = file
  BY <1>2, <1>5 DEF FileShape
<1> QED
  BY <1>3, <1>4, <1>5, SMTT(30)

LEMMA SweepFile ==
  ASSUME ChunkShape, NEW p \in gc.sweeps, GCSweep(p)
  PROVE  /\ FileShape' /\ p[1] \in DN /\ p[2] \in Chunk /\ p = <<p[1], p[2]>>
         /\ \A e \in DN, x \in Chunk : e # p[1] \/ x # p[2] => file'[e][x] = file[e][x]
         /\ \A e \in DN, x \in Chunk : HasFile(e, x)' => file'[e][x] = file[e][x]
<1>1. p \in DN \X Chunk /\ FileShape
  BY SMTT(30) DEF ChunkShape, GcShape
<1>2. PICK d, c : d = p[1] /\ c = p[2]
  BY SMTT(30)
<1>3. d \in DN /\ c \in Chunk /\ p = <<p[1], p[2]>>
  BY <1>1, <1>2, SMTT(30)
<1>4. file' = DnDelete(file, d, c) \/ file' = file
  BY <1>2 DEF GCSweep
<1>5. CASE file' = DnDelete(file, d, c)
  <2>1. FileShape' /\ file'[d][c] = "none" /\ \A e \in DN, x \in Chunk : e # d \/ x # c => file'[e][x] = file[e][x]
    BY <1>1, <1>3, <1>5, DeleteFile
  <2> QED
    BY <1>2, <1>3, <2>1 DEF HasFile
<1>6. CASE file' = file
  BY <1>1, <1>2, <1>3, <1>6 DEF FileShape
<1> QED
  BY <1>4, <1>5, <1>6, SMTT(30)

LEMMA CopyFile ==
  ASSUME ChunkShape, NEW m \in migs, NEW d \in DN, MigrateCopy(m, d)
  PROVE  /\ FileShape' /\ m.chunk \in Chunk
         /\ \A e \in DN, x \in Chunk : e # d \/ x # m.chunk => file'[e][x] = file[e][x]
         /\ \A e \in DN, x \in Chunk : HasFile(e, x) => HasFile(e, x)'
         /\ file' = DnPut(file, d, m.chunk) => HasFile(d, m.chunk)'
<1>1. PICK c : c = m.chunk
  BY SMTT(30)
<1>2. c \in Chunk /\ FileShape
  BY <1>1 DEF ChunkShape, MigsShape, MigShape
<1>3. file' = DnPut(file, d, c) \/ file' = file
  BY <1>1 DEF MigrateCopy, DnPutFails
<1>4. CASE file' = DnPut(file, d, c)
  <2>1. FileShape' /\ HasFile(d, c)' /\ \A e \in DN, x \in Chunk : e # d \/ x # c => file'[e][x] = file[e][x]
    BY <1>2, <1>4, PutFile
  <2> QED
    BY <1>1, <1>2, <2>1 DEF HasFile
<1>5. CASE file' = file /\ ~(file' = DnPut(file, d, c))
  BY <1>1, <1>2, <1>5 DEF FileShape, HasFile
<1> QED
  BY <1>3, <1>4, <1>5, SMTT(30)

LEMMA FileShapeKept ==
  ASSUME ChunkShape, Next
  PROVE  FileShape'
<1>1. FileShape
  BY SMTT(30) DEF ChunkShape
<1>2. CASE file' = file
  BY <1>1, <1>2 DEF FileShape
<1> QED
  BY <1>1, <1>2, FileChange, WriteFile, EraseFile, SweepFile, CopyFile, AgeFile

-----------------------------------------------------------------------------
(* The collector.                                                          *)

LEMMA GcFields ==
  ASSUME NEW a, NEW c, NEW l, NEW s
  PROVE  LET g == [at |-> a, claimed |-> c, left |-> l, sweeps |-> s]
         IN  g.at = a /\ g.claimed = c /\ g.left = l /\ g.sweeps = s
BY SMTT(30)

LEMMA GcStartEffect ==
  ASSUME ChunkShape, GCStart
  PROVE  gc'.at = "list" /\ gc'.claimed = Claimed /\ gc'.left = topo /\ gc'.sweeps = {}
         /\ conf.collecting /\ gc' = [at |-> gc'.at, claimed |-> gc'.claimed, left |-> gc'.left, sweeps |-> gc'.sweeps]
BY GcFields DEF GCStart

LEMMA GcIdleFields ==
  /\ GCIdle.at = "idle" /\ GCIdle.claimed = {} /\ GCIdle.left = {} /\ GCIdle.sweeps = {}
  /\ GCIdle = [at |-> GCIdle.at, claimed |-> GCIdle.claimed, left |-> GCIdle.left, sweeps |-> GCIdle.sweeps]
BY SMTT(30) DEF GCIdle

Planning(g, l, s) == [g EXCEPT !.left = l, !.sweeps = s]
Swept(g, s) == [g EXCEPT !.sweeps = s]

LEMMA PlanningFields ==
  ASSUME NEW g, GcRecord(g), NEW l, NEW s
  PROVE  LET n == Planning(g, l, s)
         IN  GcRecord(n) /\ n.at = g.at /\ n.claimed = g.claimed /\ n.left = l /\ n.sweeps = s
<1> DEFINE n == Planning(g, l, s)
<1>1. DOMAIN g = {"at", "claimed", "left", "sweeps"}
  BY SMTT(30) DEF GcRecord
<1>2. n.at = g.at /\ n.claimed = g.claimed /\ n.left = l /\ n.sweeps = s
  BY <1>1, SMTT(30) DEF Planning
<1>3. DOMAIN n = {"at", "claimed", "left", "sweeps"} /\ n = [f \in DOMAIN n |-> n[f]]
  BY <1>1 DEF Planning
<1> HIDE DEF n
<1>4. n = [at |-> n.at, claimed |-> n.claimed, left |-> n.left, sweeps |-> n.sweeps]
  BY <1>3, SMTT(30)
<1> QED
  BY <1>2, <1>4 DEF GcRecord, n

LEMMA SweptFields ==
  ASSUME NEW g, GcRecord(g), NEW s
  PROVE  LET n == Swept(g, s)
         IN  GcRecord(n) /\ n.at = g.at /\ n.claimed = g.claimed /\ n.left = g.left /\ n.sweeps = s
<1> DEFINE n == Swept(g, s)
<1>1. DOMAIN g = {"at", "claimed", "left", "sweeps"}
  BY SMTT(30) DEF GcRecord
<1>2. n.at = g.at /\ n.claimed = g.claimed /\ n.left = g.left /\ n.sweeps = s
  BY <1>1, SMTT(30) DEF Swept
<1>3. DOMAIN n = {"at", "claimed", "left", "sweeps"} /\ n = [f \in DOMAIN n |-> n[f]]
  BY <1>1 DEF Swept
<1> HIDE DEF n
<1>4. n = [at |-> n.at, claimed |-> n.claimed, left |-> n.left, sweeps |-> n.sweeps]
  BY <1>3, SMTT(30)
<1> QED
  BY <1>2, <1>4 DEF GcRecord, n

LEMMA SweepsArePairs ==
  ASSUME NEW d \in DN, NEW claimed
  PROVE  Sweeps(d, claimed) \subseteq DN \X Chunk
<1> SUFFICES ASSUME NEW p \in Sweeps(d, claimed) PROVE p \in DN \X Chunk
  OBVIOUS
<1>1. PICK c \in Chunk : p = <<d, c>>
  BY DEF Sweeps
<1> QED
  BY <1>1, SMTT(30)

LEMMA GcListEffect ==
  ASSUME ChunkShape, NEW d, GCList(d)
  PROVE  LET s == gc.sweeps \cup Sweeps(d, gc.claimed)
         IN  /\ gc.at = "list" /\ d \in gc.left /\ GcRecord(gc)'
             /\ \/ gc'.at = "list" /\ gc'.claimed = gc.claimed /\ gc'.left \subseteq gc.left /\ gc'.sweeps = s
                \/ gc' = GCIdle
                \/ gc'.at = "sweep" /\ gc'.claimed = {} /\ gc'.left = {} /\ gc'.sweeps = s
<1>1. PICK s, l : s = gc.sweeps \cup Sweeps(d, gc.claimed) /\ l = gc.left \ {d}
  OBVIOUS
<1>2. /\ gc.at = "list" /\ d \in gc.left
      /\ gc' = IF l # {} THEN Planning(gc, l, s)
               ELSE IF s = {} THEN GCIdle
               ELSE [at |-> "sweep", claimed |-> {}, left |-> {}, sweeps |-> s]
  BY <1>1 DEF GCList, Planning
<1>3. CASE gc' = Planning(gc, l, s)
  <2>1. GcRecord(gc)
    BY SMTT(30) DEF ChunkShape, GcShape
  <2>2. PICK g : g = Planning(gc, l, s)
    BY SMTT(30)
  <2>3. GcRecord(g) /\ g.at = gc.at /\ g.claimed = gc.claimed /\ g.left = l /\ g.sweeps = s
    BY <2>1, <2>2, PlanningFields, SMTT(30)
  <2>4. gc' = g /\ GcRecord(gc)'
    BY <1>3, <2>2, <2>3 DEF GcRecord
  <2> QED
    BY <1>1, <1>2, <2>3, <2>4
<1>4. CASE gc' = GCIdle
  <2>1. GcRecord(gc)'
    BY <1>4, GcIdleFields DEF GcRecord
  <2> QED
    BY <1>2, <1>4, <2>1
<1>5. CASE gc' = [at |-> "sweep", claimed |-> {}, left |-> {}, sweeps |-> s]
  <2>1. gc'.at = "sweep" /\ gc'.claimed = {} /\ gc'.left = {} /\ gc'.sweeps = s
    BY <1>5, SMTT(30)
  <2>2. GcRecord(gc)'
    BY <1>5, <2>1 DEF GcRecord
  <2> QED
    BY <1>1, <1>2, <2>1, <2>2
<1> QED
  BY <1>2, <1>3, <1>4, <1>5

LEMMA GcSweepEffect ==
  ASSUME ChunkShape, NEW p \in gc.sweeps, GCSweep(p)
  PROVE  /\ gc.at = "sweep" /\ GcRecord(gc)'
         /\ \/ gc' = GCIdle
            \/ gc'.at = "sweep" /\ gc'.claimed = gc.claimed /\ gc'.left = gc.left /\ gc'.sweeps = gc.sweeps \ {p}
<1>1. PICK s : s = gc.sweeps \ {p}
  OBVIOUS
<1>2. gc.at = "sweep" /\ (gc' = GCIdle \/ gc' = Swept(gc, s))
  BY <1>1 DEF GCSweep, Swept
<1>3. CASE gc' = Swept(gc, s)
  <2>1. GcRecord(gc)
    BY SMTT(30) DEF ChunkShape, GcShape
  <2>2. PICK g : g = Swept(gc, s)
    BY SMTT(30)
  <2>3. GcRecord(g) /\ g.at = gc.at /\ g.claimed = gc.claimed /\ g.left = gc.left /\ g.sweeps = s
    BY <2>1, <2>2, SweptFields, SMTT(30)
  <2>4. gc' = g /\ GcRecord(gc)'
    BY <1>3, <2>2, <2>3 DEF GcRecord
  <2> QED
    BY <1>1, <1>2, <2>3, <2>4
<1>4. CASE gc' = GCIdle
  <2>1. GcRecord(gc)'
    BY <1>4, GcIdleFields DEF GcRecord
  <2> QED
    BY <1>2, <1>4, <2>1
<1> QED
  BY <1>2, <1>3, <1>4

LEMMA GcShapeKept ==
  ASSUME ChunkShape, Next
  PROVE  GcShape'
<1>1. GcShape /\ conf' = conf /\ topo \subseteq DN
  BY UsedStep, SetupAssumption, SMTT(30) DEF ChunkShape
<1>2. CASE gc' = gc
  BY <1>1, <1>2 DEF GcShape, GcRecord
<1>3. CASE gc' = GCIdle
  <2>1. GcRecord(gc)'
    BY <1>3, GcIdleFields DEF GcRecord
  <2> QED
    BY <1>3, <2>1, GcIdleFields DEF GcShape
<1>4. CASE GCStart
  <2>1. Claimed \subseteq DN \X Chunk
    BY SMTT(30) DEF Claimed
  <2>2. GcRecord(gc)'
    BY <1>4, GcStartEffect DEF GcRecord
  <2> QED
    BY <1>1, <1>4, <2>1, <2>2, GcStartEffect DEF GcShape
<1>5. ASSUME NEW d \in DN, GCList(d) PROVE GcShape'
  <2>1. conf.collecting
    BY <1>1, <1>5, GcListEffect, GcIdleFields DEF GcShape
  <2>2. gc.sweeps \cup Sweeps(d, gc.claimed) \subseteq DN \X Chunk
    BY <1>1, SweepsArePairs DEF GcShape
  <2>3. /\ GcRecord(gc)'
        /\ \/ gc'.at = "list" /\ gc'.claimed = gc.claimed /\ gc'.left \subseteq gc.left
              /\ gc'.sweeps = gc.sweeps \cup Sweeps(d, gc.claimed)
           \/ gc' = GCIdle
           \/ gc'.at = "sweep" /\ gc'.claimed = {} /\ gc'.left = {} /\ gc'.sweeps = gc.sweeps \cup Sweeps(d, gc.claimed)
    BY <1>5, GcListEffect
  <2> QED
    BY <1>1, <1>3, <2>1, <2>2, <2>3 DEF GcShape
<1>6. ASSUME NEW p \in gc.sweeps, GCSweep(p) PROVE GcShape'
  <2>1. conf.collecting
    BY <1>1, <1>6, GcSweepEffect, GcIdleFields DEF GcShape
  <2> QED
    BY <1>1, <1>3, <1>6, <2>1, GcSweepEffect DEF GcShape
<1>7. GCListFails \/ Crash => gc' = GCIdle
  BY DEF GCListFails, Crash
<1> QED
  BY <1>2, <1>3, <1>4, <1>5, <1>6, <1>7, GcChange DEF Collect

-----------------------------------------------------------------------------
(* The rebalance worker.                                                   *)

Read(m) == [m EXCEPT !.at = "copy"]
Copied(m, d, x) == [m EXCEPT !.todo = @ \ {d}, !.ok = @ \cup {d}, !.made = x]
NotCopied(m, d) == [m EXCEPT !.todo = @ \ {d}]

\* The planned part of a migration, and what is left of it to do.
Same(n, m) ==
    /\ MigRecord(n)
    /\ n.key = m.key /\ n.idx = m.idx /\ n.chunk = m.chunk /\ n.actual = m.actual /\ n.desired = m.desired

LEMMA ReadFields ==
  ASSUME NEW m, MigRecord(m)
  PROVE  LET n == Read(m) IN Same(n, m) /\ n.ok = m.ok /\ n.todo = m.todo /\ n.made = m.made
<1> DEFINE n == Read(m)
           D == {"key", "idx", "chunk", "actual", "desired", "at", "todo", "ok", "made"}
<1>1. DOMAIN m = D
  BY SMTT(30) DEF MigRecord
<1>2. /\ n.key = m.key /\ n.idx = m.idx /\ n.chunk = m.chunk /\ n.actual = m.actual /\ n.desired = m.desired
      /\ n.ok = m.ok /\ n.todo = m.todo /\ n.made = m.made
  BY <1>1, SMTT(30) DEF Read
<1>3. DOMAIN n = D /\ n = [f \in DOMAIN n |-> n[f]]
  BY <1>1 DEF Read
<1> HIDE DEF n
<1>4. n = [key |-> n.key, idx |-> n.idx, chunk |-> n.chunk, actual |-> n.actual,
           desired |-> n.desired, at |-> n.at, todo |-> n.todo, ok |-> n.ok, made |-> n.made]
  BY <1>3, SMTT(30)
<1>5. MigRecord(n)
  BY <1>4 DEF MigRecord
<1> QED
  BY <1>2, <1>5 DEF Same, n

LEMMA CopiedFields ==
  ASSUME NEW m, MigRecord(m), NEW d, NEW x
  PROVE  LET n == Copied(m, d, x) IN Same(n, m) /\ n.ok = m.ok \cup {d} /\ n.todo = m.todo \ {d}
<1> DEFINE n == Copied(m, d, x)
           D == {"key", "idx", "chunk", "actual", "desired", "at", "todo", "ok", "made"}
<1>1. DOMAIN m = D
  BY SMTT(30) DEF MigRecord
<1>2. /\ n.key = m.key /\ n.idx = m.idx /\ n.chunk = m.chunk /\ n.actual = m.actual /\ n.desired = m.desired
      /\ n.ok = m.ok \cup {d} /\ n.todo = m.todo \ {d}
  BY <1>1, SMTT(30) DEF Copied
<1>3. DOMAIN n = D /\ n = [f \in DOMAIN n |-> n[f]]
  BY <1>1 DEF Copied
<1> HIDE DEF n
<1>4. n = [key |-> n.key, idx |-> n.idx, chunk |-> n.chunk, actual |-> n.actual,
           desired |-> n.desired, at |-> n.at, todo |-> n.todo, ok |-> n.ok, made |-> n.made]
  BY <1>3, SMTT(30)
<1>5. MigRecord(n)
  BY <1>4 DEF MigRecord
<1> QED
  BY <1>2, <1>5 DEF Same, n

LEMMA NotCopiedFields ==
  ASSUME NEW m, MigRecord(m), NEW d
  PROVE  LET n == NotCopied(m, d) IN Same(n, m) /\ n.ok = m.ok /\ n.todo = m.todo \ {d}
<1> DEFINE n == NotCopied(m, d)
           D == {"key", "idx", "chunk", "actual", "desired", "at", "todo", "ok", "made"}
<1>1. DOMAIN m = D
  BY SMTT(30) DEF MigRecord
<1>2. /\ n.key = m.key /\ n.idx = m.idx /\ n.chunk = m.chunk /\ n.actual = m.actual /\ n.desired = m.desired
      /\ n.ok = m.ok /\ n.todo = m.todo \ {d}
  BY <1>1, SMTT(30) DEF NotCopied
<1>3. DOMAIN n = D /\ n = [f \in DOMAIN n |-> n[f]]
  BY <1>1 DEF NotCopied
<1> HIDE DEF n
<1>4. n = [key |-> n.key, idx |-> n.idx, chunk |-> n.chunk, actual |-> n.actual,
           desired |-> n.desired, at |-> n.at, todo |-> n.todo, ok |-> n.ok, made |-> n.made]
  BY <1>3, SMTT(30)
<1>5. MigRecord(n)
  BY <1>4 DEF MigRecord
<1> QED
  BY <1>2, <1>5 DEF Same, n

\* What a plan holds: one migration for a chunk of an object.
LEMMA PlanEffect ==
  ASSUME ChunkShape, NEW k \in Key, NEW m \in PlanChunks(k)
  PROVE  /\ MigShape(m) /\ m.key = k /\ m.idx \in DOMAIN meta[k]
         /\ m.chunk = meta[k][m.idx].id /\ m.actual = meta[k][m.idx].replicas /\ m.ok = {}
<1> DEFINE refs == meta[k]
<1>1. refs \in Seq(Refs) /\ Wide(refs)
  BY SMTT(30) DEF ChunkShape, MetaShape
<1>2. PICK i \in DOMAIN refs :
        m = [key |-> k, idx |-> i, chunk |-> refs[i].id, actual |-> refs[i].replicas,
             desired |-> Desired(refs, i), at |-> "read",
             todo |-> Desired(refs, i) \ refs[i].replicas, ok |-> {}, made |-> {}]
  BY DEF PlanChunks
<1>3. PICK D : D = Desired(refs, i)
  BY SMTT(30)
<1>4. D \subseteq DN /\ Cardinality(D) >= conf.w
  BY <1>1, <1>3, DesiredWide
<1>5. refs[i] \in Refs /\ Cardinality(refs[i].replicas) >= conf.w
  BY <1>1, SMTT(30) DEF Wide
<1>6. refs[i].id \in Chunk /\ refs[i].replicas \subseteq DN
  BY <1>5, SMTT(30) DEF Refs
<1> HIDE DEF refs
<1>7. /\ m.key = k /\ m.idx = i /\ m.chunk = refs[i].id /\ m.actual = refs[i].replicas
      /\ m.desired = D /\ m.todo = D \ refs[i].replicas /\ m.ok = {}
  BY <1>2, <1>3, SMTT(30)
<1>8. MigRecord(m)
  BY <1>2, SMTT(30) DEF MigRecord
<1>9. MigShape(m)
  BY <1>4, <1>5, <1>6, <1>7, <1>8 DEF MigShape
<1> QED
  BY <1>6, <1>7, <1>9 DEF refs

\* A step of a migration: it ends, or goes on with the copies it has.
LEMMA MigrateEffect ==
  ASSUME ChunkShape, NEW m \in migs, NEW d \in DN, MigrateRead(m) \/ MigrateCopy(m, d)
  PROVE  \/ MigrateRead(m) /\ migs' = migs \ {m}
         \/ \E n : /\ migs' = (migs \ {m}) \cup {n} /\ Same(n, m) /\ n.todo \subseteq m.todo
                   /\ \/ n.ok = m.ok
                      \/ n.ok = m.ok \cup {d} /\ file' = DnPut(file, d, m.chunk)
<1>1. MigRecord(m)
  BY DEF ChunkShape, MigsShape, MigShape
<1>2. CASE MigrateRead(m)
  <2>1. migs' = migs \ {m} \/ migs' = (migs \ {m}) \cup {Read(m)}
    BY <1>2 DEF MigrateRead, Step, Read
  <2>2. PICK n : n = Read(m)
    BY SMTT(30)
  <2>3. Same(n, m) /\ n.ok = m.ok /\ n.todo = m.todo
    BY <1>1, <2>2, ReadFields, SMTT(30)
  <2> QED
    BY <1>2, <2>1, <2>2, <2>3
<1>3. CASE MigrateCopy(m, d)
  <2>1. \/ /\ file' = DnPut(file, d, m.chunk)
           /\ \E x : migs' = (migs \ {m}) \cup {Copied(m, d, x)}
        \/ migs' = (migs \ {m}) \cup {NotCopied(m, d)}
    BY <1>3 DEF MigrateCopy, Step, Copied, NotCopied
  <2>2. ASSUME NEW x, file' = DnPut(file, d, m.chunk), migs' = (migs \ {m}) \cup {Copied(m, d, x)}
        PROVE  \E n : /\ migs' = (migs \ {m}) \cup {n} /\ Same(n, m) /\ n.todo \subseteq m.todo
                      /\ n.ok = m.ok \cup {d} /\ file' = DnPut(file, d, m.chunk)
    <3>1. PICK n : n = Copied(m, d, x)
      BY SMTT(30)
    <3>2. Same(n, m) /\ n.ok = m.ok \cup {d} /\ n.todo = m.todo \ {d}
      BY <1>1, <3>1, CopiedFields, SMTT(30)
    <3>3. n.todo \subseteq m.todo
      BY <3>2, SMTT(30)
    <3> QED
      BY <2>2, <3>1, <3>2, <3>3
  <2>3. ASSUME migs' = (migs \ {m}) \cup {NotCopied(m, d)}
        PROVE  \E n : /\ migs' = (migs \ {m}) \cup {n} /\ Same(n, m) /\ n.todo \subseteq m.todo /\ n.ok = m.ok
    <3>1. PICK n : n = NotCopied(m, d)
      BY SMTT(30)
    <3>2. Same(n, m) /\ n.ok = m.ok /\ n.todo = m.todo \ {d}
      BY <1>1, <3>1, NotCopiedFields, SMTT(30)
    <3>3. n.todo \subseteq m.todo
      BY <3>2, SMTT(30)
    <3> QED
      BY <2>3, <3>1, <3>2, <3>3
  <2> QED
    BY <2>1, <2>2, <2>3
<1> QED
  BY <1>2, <1>3, SMTT(30)

LEMMA MigsShapeKept ==
  ASSUME ChunkShape, Next
  PROVE  MigsShape'
<1>1. MigsShape /\ conf' = conf
  BY UsedStep, SMTT(30) DEF ChunkShape
<1>2. ASSUME NEW m, MigShape(m) PROVE MigShape(m)'
  BY <1>1, <1>2 DEF MigShape
<1>3. CASE migs' \subseteq migs
  BY <1>1, <1>2, <1>3 DEF MigsShape
<1>4. CASE RebalanceStart
  <2>1. conf.balancing /\ \A m \in migs' : \E k \in Key : m \in PlanChunks(k)
    BY <1>4 DEF RebalanceStart
  <2> QED
    BY <1>1, <1>2, <2>1, PlanEffect DEF MigsShape
<1>5. ASSUME NEW m \in migs, NEW d \in DN, MigrateRead(m) \/ MigrateCopy(m, d) PROVE MigsShape'
  <2>1. MigShape(m) /\ conf.balancing
    BY <1>1 DEF MigsShape
  <2>2. ASSUME NEW n, migs' = (migs \ {m}) \cup {n}, Same(n, m), n.todo \subseteq m.todo,
               n.ok = m.ok \/ n.ok = m.ok \cup {d}
        PROVE  MigsShape'
    <3>1. n.ok \subseteq DN
      BY <2>1, <2>2 DEF MigShape
    <3>2. MigShape(n)
      BY <2>1, <2>2, <3>1 DEF MigShape, Same
    <3>3. \A x \in migs' : MigShape(x)
      BY <1>1, <2>2, <3>2 DEF MigsShape
    <3> QED
      BY <1>1, <1>2, <2>1, <3>3 DEF MigsShape
  <2> QED
    BY <1>3, <1>5, <2>2, MigrateEffect
<1>6. ASSUME NEW m \in migs, MigrateRead(m) PROVE MigsShape'
  <2>1. MigRecord(m)
    BY <1>1 DEF MigsShape, MigShape
  <2>2. \E d \in DN : TRUE
    <3>1. Cardinality(m.actual) >= conf.w /\ conf.w \in Nat /\ conf.w > 0 /\ m.actual \subseteq DN
      BY <1>1, SetupAssumption, SMTT(30) DEF ChunkShape, MigsShape, MigShape
    <3>2. Cardinality({}) = 0
      BY DEF ChunkShape, NodeCounts
    <3> QED
      BY <3>1, <3>2, SMTT(30)
  <2> QED
    BY <1>5, <1>6, <2>2
<1>7. ASSUME NEW m \in migs, MigrateUpdate(m) PROVE migs' \subseteq migs
  BY <1>7 DEF MigrateUpdate
<1>8. Crash \/ migs' = migs => migs' \subseteq migs
  BY DEF Crash
<1> QED
  BY <1>3, <1>4, <1>5, <1>6, <1>7, <1>8, MigsChange DEF Rebalance

LEMMA DoomedShapeKept ==
  ASSUME ChunkShape, Next
  PROVE  DoomedShape'
<1>1. CASE doomed' = doomed
  BY <1>1, SMTT(30) DEF ChunkShape, DoomedShape
<1>2. ASSUME NEW h \in Handler, CommitPut(h) PROVE DoomedShape'
  BY <1>2, CommitPutEffect
<1>3. ASSUME NEW h \in Handler, CommitPart(h) PROVE DoomedShape'
  BY <1>3, CommitPartEffect
<1>4. ASSUME NEW h \in Handler, NEW q \in conf.requests, StartDelete(h, q) \/ Complete(h, q) PROVE DoomedShape'
  BY <1>4, StartDeleteEffect, CompleteEffect
<1> QED
  BY <1>1, <1>2, <1>3, <1>4, DoomedChange

LEMMA ChunkShapeKept ==
  ASSUME ChunkShape, Next
  PROVE  ChunkShape'
<1>1. conf' = conf /\ topo' \in conf.topologies
  BY FixedChange, SMTT(30) DEF ChunkShape
<1> QED
  BY <1>1, UsedStep, MetaShapeKept, UploadShapeKept, FileShapeKept, CallShapeKept, GcShapeKept,
     MigsShapeKept, DoomedShapeKept DEF ChunkShape

LEMMA InitShape ==
  ASSUME Init, NodeCounts
  PROVE  ChunkShape
<1>1. /\ conf \in Setups /\ topo \in conf.topologies
      /\ meta = [k \in Key |-> <<>>] /\ uploads = [u \in Upload |-> [st |-> "none", parts |-> NoParts]]
      /\ file = [d \in DN |-> [c \in Chunk |-> "none"]] /\ call = [h \in Handler |-> Idle]
      /\ gc = GCIdle /\ migs = {} /\ doomed = [keys |-> {}, parts |-> {}]
      /\ used = [requests |-> {}, topology |-> 0, fails |-> 0, crashes |-> 0]
  BY DEF Init
<1>2. MetaShape
  BY <1>1, EmptyRefs, SMTT(30) DEF MetaShape, Wide
<1>3. UploadShape
  <2> DEFINE r == [st |-> "none", parts |-> NoParts]
  <2>1. NoParts \in [PartNos -> Seq(Refs)] /\ \A n \in PartNos : NoParts[n] = <<>>
    BY EmptyRefs, SMTT(30) DEF NoParts
  <2>2. r \in [st : {"none", "open", "closed"}, parts : [PartNos -> Seq(Refs)]] /\ r.parts = NoParts
    BY <2>1, SMTT(30)
  <2>3. uploads = [u \in Upload |-> r]
    BY <1>1, SMTT(30)
  <2> HIDE DEF r
  <2>4. uploads \in [Upload -> [st : {"none", "open", "closed"}, parts : [PartNos -> Seq(Refs)]]]
    BY <2>2, <2>3
  <2>5. \A u \in Upload : \A n \in PartNos : uploads[u].parts[n] = <<>>
    BY <2>1, <2>2, <2>3
  <2> QED
    BY <2>4, <2>5, EmptyRefs DEF UploadShape
<1>4. FileShape
  BY <1>1, SMTT(30) DEF FileShape
<1>5. CallShape
  BY <1>1 DEF CallShape
<1>6. GcShape
  <2>1. GcRecord(gc)
    BY <1>1, GcIdleFields DEF GcRecord
  <2> QED
    BY <1>1, <2>1, GcIdleFields DEF GcShape
<1>7. MigsShape
  BY <1>1 DEF MigsShape
<1>8. UsedShape
  <2>1. used.requests = {} /\ used.topology = 0 /\ used.fails = 0 /\ used.crashes = 0
    BY <1>1, SMTT(30)
  <2> QED
    BY <1>1, <2>1, SMTT(30) DEF UsedShape
<1>9. DoomedShape
  BY <1>1, SMTT(30) DEF DoomedShape
<1> QED
  BY <1>1, <1>2, <1>3, <1>4, <1>5, <1>6, <1>7, <1>8, <1>9 DEF ChunkShape

LEMMA IdleShape ==
  ASSUME ChunkShape, UNCHANGED vars
  PROVE  ChunkShape'
<1>1. /\ meta' = meta /\ uploads' = uploads /\ file' = file /\ topo' = topo /\ call' = call /\ gc' = gc
      /\ migs' = migs /\ doomed' = doomed /\ used' = used /\ conf' = conf
  BY SMTT(30) DEF vars
<1>2. CallShape'
  <2>1. ASSUME NEW g \in Handler PROVE (call[g] = Idle \/ WriteShape(call[g]) \/ EraseShape(call[g]))'
    BY <1>1 DEF ChunkShape, CallShape, WriteShape, WriteRecord, EraseShape, EraseRecord, Wide
  <2>2. call' = [h \in Handler |-> call'[h]]
    BY <1>1 DEF ChunkShape, CallShape
  <2> QED
    BY <2>1, <2>2 DEF CallShape
<1>3. MetaShape' /\ UploadShape' /\ FileShape'
  BY <1>1 DEF ChunkShape, MetaShape, UploadShape, FileShape, Wide
<1>4. GcShape'
  BY <1>1 DEF ChunkShape, GcShape, GcRecord
<1>5. MigsShape'
  BY <1>1 DEF ChunkShape, MigsShape, MigShape, MigRecord
<1>6. UsedShape'
  BY <1>1 DEF ChunkShape, UsedShape
<1>7. DoomedShape'
  BY <1>1 DEF ChunkShape, DoomedShape
<1> QED
  BY <1>1, <1>2, <1>3, <1>4, <1>5, <1>6, <1>7 DEF ChunkShape

LEMMA ShapeTyped ==
  ASSUME ChunkShape
  PROVE  ChunkTypeOK
<1>1. meta \in [Key -> Seq(Refs)] /\ topo \in conf.topologies
  BY SMTT(30) DEF ChunkShape, MetaShape
<1>2. \A u \in Upload : uploads[u].st \in {"none", "open", "closed"} /\ uploads[u].parts \in [PartNos -> Seq(Refs)]
  BY SMTT(30) DEF ChunkShape, UploadShape
<1>3. file \in [DN -> [Chunk -> {"none", "new", "old"}]]
  BY SMTT(30) DEF ChunkShape, FileShape
<1>4. ASSUME NEW h \in Handler
      PROVE  \/ call[h] = Idle
             \/ /\ call[h].op \in {"put", "part", "delete", "abort"} /\ call[h].req \in conf.requests
                /\ call[h].at \in {"write", "commit", "erase", "erased"}
                /\ call[h].refs \in Seq(Refs) /\ call[h].todo \subseteq DN
  <2>1. call[h] = Idle \/ WriteShape(call[h]) \/ EraseShape(call[h])
    BY DEF ChunkShape, CallShape
  <2>2. used.requests \subseteq conf.requests
    BY SMTT(30) DEF ChunkShape, UsedShape
  <2>3. CASE WriteShape(call[h])
    BY <2>2, <2>3 DEF WriteShape
  <2>4. CASE EraseShape(call[h])
    BY <2>2, <2>4 DEF EraseShape
  <2> QED
    BY <2>1, <2>3, <2>4, SMTT(30)
<1>5. gc.at \in {"idle", "list", "sweep"} /\ gc.left \subseteq DN /\ gc.sweeps \cup gc.claimed \subseteq DN \X Chunk
  BY DEF ChunkShape, GcShape
<1>6. \A m \in migs : m.key \in Key /\ m.chunk \in Chunk /\ m.actual \cup m.desired \subseteq DN
  BY DEF ChunkShape, MigsShape, MigShape
<1>7. doomed.keys \subseteq Key /\ doomed.parts \subseteq Upload \X PartNos
  BY DoomedSets DEF ChunkShape
<1> QED
  BY <1>1, <1>2, <1>3, <1>4, <1>5, <1>6, <1>7 DEF ChunkTypeOK

-----------------------------------------------------------------------------
(* Who may still refer to a chunk.                                         *)

\* The deployments in which nothing interferes with a stored object: no content
\* is written twice; the collector runs without requests that outlast its
\* min-age, without migrations and without pending uploads; where migrations
\* run, a key is written once.
Steady ==
    /\ \A p, q \in conf.requests : IsWrite(p) /\ IsWrite(q) =>
         \A i \in DOMAIN p.body, j \in DOMAIN q.body : p.body[i] = q.body[j] => p = q /\ i = j
    /\ conf.collecting => /\ ~conf.slow /\ ~conf.balancing
                          /\ \A q \in conf.requests : q.op # "part"
    /\ conf.balancing => \A p, q \in conf.requests :
         p.op \in {"put", "complete"} /\ q.op \in {"put", "complete"} /\ p.key = q.key => p = q

\* Requests that were sent and are not, or no longer, writing.
Settled == {q \in used.requests : \A h \in Handler : Writing(h) => call[h].req # q}

\* The chunks of write requests that are over.
Landed == {c \in Chunk : \E q \in Settled : IsWrite(q) /\ \E i \in DOMAIN q.body : q.body[i] = c}

\* No request is served twice, and each list of chunks has its own.
IdLedger ==
    /\ \A g, h \in Handler : Writing(g) /\ Writing(h) /\ call[g].req = call[h].req => g = h
    /\ \A k \in Key :
         /\ Ids(meta[k]) \subseteq Landed
         /\ meta[k] # <<>> => \E q \in Settled : q.op \in {"put", "complete"} /\ q.key = k
    /\ \A u \in Upload, n \in PartNos : Ids(uploads[u].parts[n]) \subseteq Landed
    /\ \A h \in Handler : Erases(h) => Ids(call[h].refs) \subseteq Landed
    /\ \A m \in migs : /\ m.chunk \in Landed
                       /\ m.idx \in DOMAIN meta[m.key] => meta[m.key][m.idx].id = m.chunk
                       /\ \E q \in Settled : q.op \in {"put", "complete"} /\ q.key = m.key

ApartLedger ==
    /\ \A k, l \in Key : k # l => Ids(meta[k]) \cap Ids(meta[l]) = {}
    /\ \A u \in Upload, n \in PartNos :
         /\ \A k \in Key : Ids(meta[k]) \cap Ids(uploads[u].parts[n]) = {}
         /\ \A v \in Upload, o \in PartNos : <<u, n>> # <<v, o>> =>
              Ids(uploads[u].parts[n]) \cap Ids(uploads[v].parts[o]) = {}
    /\ \A h \in Handler : Erases(h) =>
         /\ \A u \in Upload, n \in PartNos : <<u, n>> \in doomed.parts
                                             \/ Ids(call[h].refs) \cap Ids(uploads[u].parts[n]) = {}
         /\ \A k \in Key : k \in doomed.keys \/ Ids(call[h].refs) \cap Ids(meta[k]) = {}

-----------------------------------------------------------------------------
(* Which files must be there, and which cannot be.                         *)

Pair == DN \X Chunk

\* Pairs of a request's chunks that nobody has written yet.
Blank == {p \in Pair :
    \/ \E q \in conf.requests \ used.requests : IsWrite(q) /\ \E i \in DOMAIN q.body : q.body[i] = p[2]
    \/ \E h \in Handler : Writing(h) /\ \E i \in DOMAIN call[h].req.body :
         /\ call[h].req.body[i] = p[2]
         /\ \/ i > Len(call[h].refs) + 1
            \/ i = Len(call[h].refs) + 1 /\ call[h].at = "write" /\ p[1] \in call[h].todo}

\* Pairs that handler h has had acknowledged.
Acked(h) == {p \in Pair : Writing(h) /\
    \/ Refers(call[h].refs, p[1], p[2])
    \/ call[h].at = "write" /\ p[1] \in call[h].acks /\ p[2] = Current(h)}

AllAcked == UNION {Acked(h) : h \in Handler}

Listed == {p \in Pair : \E k \in Key : k \notin doomed.keys /\ Refers(meta[k], p[1], p[2])}
InParts == {p \in Pair : \E u \in Upload, n \in PartNos :
                <<u, n>> \notin doomed.parts /\ Refers(uploads[u].parts[n], p[1], p[2])}
Moved == {p \in Pair : \E m \in migs : /\ m.key \notin doomed.keys /\ m.idx \in DOMAIN meta[m.key]
                                       /\ p[1] \in m.actual \cup m.ok /\ p[2] = m.chunk}

Needed == AllAcked \cup Listed \cup InParts \cup Moved
Reserved == Blank \cup AllAcked \cup Claimed

FileLedger ==
    /\ \A p \in Blank : ~HasFile(p[1], p[2])
    /\ \A p \in Needed : HasFile(p[1], p[2])

\* The collector: what it plans to delete is nobody's.
SweepLedger ==
    conf.collecting =>
        /\ \A h \in Handler : \A p \in Acked(h) : file[p[1]][p[2]] = "new" /\ p \in call[h].made
        /\ gc.at = "list" => \A p \in Claimed : file[p[1]][p[2]] = "old" => p \in gc.claimed
        /\ gc.sweeps \cap Reserved = {}

Ledger == ChunkShape /\ (Steady => IdLedger /\ ApartLedger /\ FileLedger /\ SweepLedger)

-----------------------------------------------------------------------------
(* Who writes what.                                                        *)

LEMMA CallCases ==
  ASSUME ChunkShape, Next, NEW h \in Handler
  PROVE  \/ call'[h] = call[h]
         \/ \E q \in conf.requests : StartWrite(h, q) \/ StartDelete(h, q) \/ Abort(h, q)
         \/ \E d \in DN : WriteTo(h, d) \/ WriteFails(h, d) \/ EraseFrom(h, d)
         \/ WriteDone(h) \/ CommitPut(h) \/ CommitPart(h) \/ EraseDone(h)
         \/ Crash /\ call'[h] = Idle
<1>1. ASSUME NEW g \in Handler, Turn(g), g # h PROVE call'[h] = call[h]
  BY <1>1 DEF Turn
<1>2. ASSUME NEW g \in Handler, NEW q \in conf.requests, StartWrite(g, q) \/ StartDelete(g, q) \/ Abort(g, q)
      PROVE  Turn(g)
  BY <1>2, StartWriteEffect, StartDeleteEffect, AbortEffect
<1>3. ASSUME NEW g \in Handler, NEW d \in DN, WriteTo(g, d) \/ WriteFails(g, d) \/ EraseFrom(g, d)
      PROVE  Turn(g)
  BY <1>3, WriteToEffect, EraseFromEffect
<1>4. ASSUME NEW g \in Handler, WriteDone(g) \/ CommitPut(g) \/ CommitPart(g) \/ EraseDone(g)
      PROVE  Turn(g)
  BY <1>4, WriteDoneEffect, CommitPutEffect, CommitPartEffect, EraseDoneEffect
<1>5. Crash => call'[h] = Idle
  BY DEF Crash
<1> QED
  BY <1>1, <1>2, <1>3, <1>4, <1>5, CallChange

LEMMA EraseIsNoWrite ==
  ASSUME NEW k, EraseShape(k)
  PROVE  k.at \notin {"write", "commit"}
BY DEF EraseShape

\* A handler that writes was writing the same request, or has just accepted it.
LEMMA WritingStep ==
  ASSUME ChunkShape, Next, NEW h \in Handler, Writing(h)'
  PROVE  \/ Writing(h) /\ call'[h].req = call[h].req
         \/ /\ call[h] = Idle /\ Turn(h) /\ call'[h].req \notin used.requests
            /\ call'[h].req \in conf.requests /\ call'[h].refs = <<>> /\ call'[h].acks = {}
<1>1. call'[h] # Idle
  BY IdleCall DEF Writing
<1>2. ~EraseShape(call[h])'
  BY DEF Writing, EraseShape
<1>3. CASE call'[h] = call[h]
  BY <1>3 DEF Writing
<1>4. ASSUME NEW q \in conf.requests, StartWrite(h, q) PROVE
        /\ call[h] = Idle /\ Turn(h) /\ call'[h].req \notin used.requests
        /\ call'[h].req \in conf.requests /\ call'[h].refs = <<>> /\ call'[h].acks = {}
  BY <1>4, StartWriteEffect
<1>5. ASSUME NEW q \in conf.requests, StartDelete(h, q) \/ Abort(h, q) PROVE FALSE
  BY <1>2, <1>5, StartDeleteEffect, AbortEffect
<1>6. ASSUME NEW d \in DN, WriteTo(h, d) \/ WriteFails(h, d) PROVE Writing(h) /\ call'[h].req = call[h].req
  BY <1>6, WriteToEffect
<1>7. ASSUME NEW d \in DN, EraseFrom(h, d) PROVE FALSE
  BY <1>2, <1>7, EraseFromEffect
<1>8. CASE WriteDone(h)
  BY <1>1, <1>8, WriteDoneEffect
<1>9. CASE CommitPut(h) \/ CommitPart(h) \/ EraseDone(h)
  BY <1>1, <1>2, <1>9, CommitPutEffect, CommitPartEffect, EraseDoneEffect
<1> QED
  BY <1>1, <1>3, <1>4, <1>5, <1>6, <1>7, <1>8, <1>9, CallCases

LEMMA WriterFacts ==
  ASSUME ChunkShape, NEW h \in Handler, Writing(h)
  PROVE  /\ call[h].req \in used.requests /\ call[h].req \in conf.requests /\ IsWrite(call[h].req)
         /\ call[h].req.body \in Seq(Chunk) /\ call[h].refs \in Seq(Refs)
         /\ \A x \in Ids(call[h].refs) : \E i \in DOMAIN call[h].req.body : call[h].req.body[i] = x
<1>1. WriteShape(call[h])
  BY IsWriting, SMTT(30) DEF ChunkShape
<1>2. PICK q, s : q = call[h].req /\ s = call[h].refs
  BY SMTT(30)
<1>3. /\ s \in Seq(Refs) /\ Len(s) <= Len(q.body) /\ q \in conf.requests /\ q \in used.requests
      /\ q.op \in {"put", "part"} /\ \A i \in DOMAIN s : s[i].id = q.body[i]
  BY <1>1, <1>2 DEF WriteShape, ChunkShape, UsedShape
<1>4. q.body \in Seq(Chunk)
  BY <1>3, RequestAssumption, SMTT(30) DEF ChunkShape
<1>5. \A i \in DOMAIN s : i \in DOMAIN q.body
  BY <1>3, <1>4, SMTT(30)
<1>6. \A x \in Ids(s) : \E i \in DOMAIN q.body : q.body[i] = x
  BY <1>3, <1>5 DEF Ids
<1> QED
  BY <1>2, <1>3, <1>4, <1>6 DEF IsWrite

\* What is settled stays so, and a request that is no longer written is.
LEMMA SettledGrows ==
  ASSUME ChunkShape, Next
  PROVE  Settled \subseteq Settled'
<1> SUFFICES ASSUME NEW q \in Settled PROVE q \in Settled'
  OBVIOUS
<1>1. q \in used.requests /\ \A h \in Handler : Writing(h) => call[h].req # q
  BY DEF Settled
<1>2. q \in used'.requests
  BY <1>1, UsedStep
<1>3. ASSUME NEW h \in Handler, Writing(h)' PROVE call'[h].req # q
  BY <1>1, <1>3, WritingStep
<1> QED
  BY <1>2, <1>3 DEF Settled

LEMMA LandedGrows ==
  ASSUME ChunkShape, Next
  PROVE  Landed \subseteq Landed'
BY SettledGrows DEF Landed

LEMMA Settles ==
  ASSUME ChunkShape, IdLedger, Next, NEW h \in Handler, Writing(h), ~Writing(h)'
  PROVE  /\ call[h].req \in Settled'
         /\ \A i \in DOMAIN call[h].req.body : call[h].req.body[i] \in Landed'
<1>1. PICK q : q = call[h].req
  BY SMTT(30)
<1>2. q \in used.requests /\ IsWrite(q) /\ q.body \in Seq(Chunk)
  BY <1>1, WriterFacts
<1>3. q \in used'.requests
  BY <1>2, UsedStep
<1>4. ASSUME NEW g \in Handler, Writing(g)', call'[g].req = q PROVE FALSE
  <2>1. Writing(g) /\ call[g].req = q
    BY <1>2, <1>4, WritingStep
  <2>2. g = h
    BY <1>1, <2>1 DEF IdLedger
  <2> QED
    BY <1>4, <2>2, SMTT(30)
<1>5. q \in Settled'
  BY <1>3, <1>4 DEF Settled
<1>6. \A i \in DOMAIN q.body : q.body[i] \in Chunk
  BY <1>2, SMTT(30)
<1>7. \A i \in DOMAIN q.body : q.body[i] \in Landed'
  BY <1>2, <1>5, <1>6 DEF Landed
<1> QED
  BY <1>1, <1>5, <1>7

\* Contents that are written or still to be written are nobody else's.
LEMMA FreshChunk ==
  ASSUME ChunkShape, Steady, NEW h \in Handler, Writing(h), NEW i \in DOMAIN call[h].req.body
  PROVE  call[h].req.body[i] \notin Landed
<1>1. PICK p : p = call[h].req
  BY SMTT(30)
<1>2. p \in conf.requests /\ IsWrite(p) /\ i \in DOMAIN p.body
  BY <1>1, WriterFacts
<1> SUFFICES ASSUME p.body[i] \in Landed PROVE FALSE
  BY <1>1
<1>3. PICK q \in Settled : IsWrite(q) /\ \E j \in DOMAIN q.body : q.body[j] = p.body[i]
  BY DEF Landed
<1>4. q \in conf.requests /\ q # p
  BY <1>1 DEF Settled, ChunkShape, UsedShape
<1> QED
  BY <1>2, <1>3, <1>4 DEF Steady

LEMMA FreshRefs ==
  ASSUME ChunkShape, Steady, NEW h \in Handler, Writing(h)
  PROVE  Ids(call[h].refs) \cap Landed = {}
<1>1. ASSUME NEW x \in Ids(call[h].refs) PROVE x \notin Landed
  <2>1. PICK i \in DOMAIN call[h].req.body : call[h].req.body[i] = x
    BY WriterFacts
  <2> QED
    BY <2>1, FreshChunk
<1> QED
  BY <1>1

LEMMA UnsentChunk ==
  ASSUME ChunkShape, Steady, NEW p \in conf.requests \ used.requests, IsWrite(p), NEW i \in DOMAIN p.body
  PROVE  p.body[i] \notin Landed
<1> SUFFICES ASSUME p.body[i] \in Landed PROVE FALSE
  OBVIOUS
<1>1. PICK q \in Settled : IsWrite(q) /\ \E j \in DOMAIN q.body : q.body[j] = p.body[i]
  BY DEF Landed
<1>2. q \in conf.requests /\ q # p
  BY DEF Settled, ChunkShape, UsedShape
<1> QED
  BY <1>1, <1>2 DEF Steady

-----------------------------------------------------------------------------
(* How a list of references changes: an object's, a part's, an erasure's.  *)

PutInto(h, k) == Writing(h) /\ ~Writing(h)' /\ CommitPut(h) /\ call[h].req.key = k /\ meta'[k] = call[h].refs

CompletedInto(h, q, k) ==
    /\ Complete(h, q) /\ q.upload \in Upload /\ q.key = k /\ q.op = "complete"
    /\ q \notin used.requests /\ q \in used'.requests
    /\ \A x \in Ids(meta'[k]) : \E n \in PartNos : x \in Ids(uploads[q.upload].parts[n])
    /\ \/ k \in doomed'.keys
       \/ /\ \A x \in Ids(meta'[k]) : \E n \in PartNos :
               <<q.upload, n>> \notin doomed.parts /\ x \in Ids(uploads[q.upload].parts[n])
          /\ \A d, c : Refers(meta'[k], d, c) => \E n \in PartNos :
               <<q.upload, n>> \notin doomed.parts /\ Refers(uploads[q.upload].parts[n], d, c)

MigratedIn(m, k) ==
    /\ MigrateUpdate(m) /\ m.key = k /\ m.idx \in DOMAIN meta[k] /\ DOMAIN meta'[k] = DOMAIN meta[k]
    /\ meta'[k][m.idx].id = meta[k][m.idx].id
    /\ meta'[k][m.idx].replicas = FinalReplicas(m)
    /\ \A j \in DOMAIN meta[k] : j # m.idx => meta'[k][j] = meta[k][j]

LEMMA CompletedEffect ==
  ASSUME ChunkShape, Next, NEW h \in Handler, NEW q \in conf.requests, Complete(h, q)
  PROVE  /\ CompletedInto(h, q, q.key)
         /\ \A l \in Key : l # q.key => meta'[l] = meta[l] /\ (l \in doomed'.keys <=> l \in doomed.keys)
<1>0. MetaShape /\ conf' = conf
  BY UsedStep, SMTT(30) DEF ChunkShape
<1>1. /\ q.upload \in Upload /\ q.key \in Key /\ q.op = "complete"
      /\ q \notin used.requests /\ used'.requests = used.requests \cup {q}
  BY CompleteEffect
<1>2. PICK S \in SUBSET PartNos : \E s \in Seq(Refs) :
            /\ meta' = [meta EXCEPT ![q.key] = s] /\ Wide(s)
            /\ \A x \in Ids(s) : \E n \in S : x \in Ids(uploads[q.upload].parts[n])
            /\ \A d, c : Refers(s, d, c) => \E n \in S : Refers(uploads[q.upload].parts[n], d, c)
            /\ doomed'.keys = IF \E n \in S : <<q.upload, n>> \in doomed.parts
                              THEN doomed.keys \cup {q.key} ELSE doomed.keys \ {q.key}
  BY CompleteEffect
<1>6. PICK s \in Seq(Refs) :
            /\ meta' = [meta EXCEPT ![q.key] = s] /\ Wide(s)
            /\ \A x \in Ids(s) : \E n \in S : x \in Ids(uploads[q.upload].parts[n])
            /\ \A d, c : Refers(s, d, c) => \E n \in S : Refers(uploads[q.upload].parts[n], d, c)
            /\ doomed'.keys = IF \E n \in S : <<q.upload, n>> \in doomed.parts
                              THEN doomed.keys \cup {q.key} ELSE doomed.keys \ {q.key}
  BY <1>2
<1>3. meta'[q.key] = s /\ \A l \in Key : l # q.key => meta'[l] = meta[l]
  BY <1>0, <1>1, <1>6, MetaSet
<1>4. \A x \in Ids(s) : \E n \in PartNos : x \in Ids(uploads[q.upload].parts[n])
  BY <1>6
<1>7. \/ q.key \in doomed'.keys
      \/ /\ \A x \in Ids(s) : \E n \in PartNos :
              <<q.upload, n>> \notin doomed.parts /\ x \in Ids(uploads[q.upload].parts[n])
         /\ \A d, c : Refers(s, d, c) => \E n \in PartNos :
              <<q.upload, n>> \notin doomed.parts /\ Refers(uploads[q.upload].parts[n], d, c)
  <2>1. CASE \E n \in S : <<q.upload, n>> \in doomed.parts
    BY <1>6, <2>1
  <2>2. CASE \A n \in S : <<q.upload, n>> \notin doomed.parts
    BY <1>6, <2>2
  <2> QED
    BY <2>1, <2>2
<1>5. q \in used'.requests
  BY <1>1
<1>8. \A l \in Key : l # q.key => (l \in doomed'.keys <=> l \in doomed.keys)
  BY <1>6
<1> QED
  BY <1>1, <1>3, <1>4, <1>5, <1>7, <1>8 DEF CompletedInto

LEMMA MetaCases ==
  ASSUME ChunkShape, Next, NEW k \in Key
  PROVE  \/ meta'[k] = meta[k]
         \/ meta'[k] = <<>>
         \/ \E h \in Handler : PutInto(h, k)
         \/ \E h \in Handler, q \in conf.requests : CompletedInto(h, q, k)
         \/ \E m \in migs : MigratedIn(m, k)
<1>1. MetaShape /\ conf' = conf
  BY UsedStep, SMTT(30) DEF ChunkShape
<1>2. ASSUME NEW h \in Handler, CommitPut(h) PROVE meta'[k] = meta[k] \/ PutInto(h, k)
  <2>1. PICK l, s : l = call[h].req.key /\ s = call[h].refs
    BY SMTT(30)
  <2>2. /\ WriteShape(call[h]) /\ Writing(h) /\ call'[h] = Idle
        /\ l \in Key /\ (meta' = meta \/ meta' = [meta EXCEPT ![l] = s])
    BY <1>2, <2>1, CommitPutEffect
  <2>3. s \in Seq(Refs) /\ Wide(s)
    BY <2>1, <2>2 DEF WriteShape
  <2>4. meta' = meta \/ (meta'[l] = s /\ (l # k => meta'[k] = meta[k]))
    BY <1>1, <2>2, <2>3, MetaSet
  <2>5. ~Writing(h)'
    BY <2>2, IdleCall DEF Writing
  <2> QED
    BY <1>2, <2>1, <2>2, <2>4, <2>5 DEF PutInto
<1>3. ASSUME NEW h \in Handler, EraseDone(h) PROVE meta'[k] = meta[k] \/ meta'[k] = <<>>
  <2>1. PICK l : l = call[h].req.key
    BY SMTT(30)
  <2>2. meta' = meta \/ (l \in Key /\ meta' = [meta EXCEPT ![l] = <<>>])
    BY <1>3, <2>1, EraseDoneEffect
  <2> QED
    BY <1>1, <2>2, EmptyRefs, MetaSet
<1>4. ASSUME NEW h \in Handler, NEW q \in conf.requests, Complete(h, q)
      PROVE  meta'[k] = meta[k] \/ CompletedInto(h, q, k)
  BY <1>4, CompletedEffect
<1>5. ASSUME NEW m \in migs, MigrateUpdate(m) PROVE meta'[k] = meta[k] \/ MigratedIn(m, k)
  <2>1. m.key \in Key
    BY <1>5, MigrateUpdateEffect
  <2>2. CASE m.idx \in DOMAIN meta[m.key] /\
              \E s \in Seq(Refs) :
                    /\ meta' = [meta EXCEPT ![m.key] = s]
                    /\ Wide(s) /\ DOMAIN s = DOMAIN meta[m.key]
                    /\ s[m.idx].id = meta[m.key][m.idx].id /\ s[m.idx].replicas = FinalReplicas(m)
                    /\ \A j \in DOMAIN s : j # m.idx => s[j] = meta[m.key][j]
    <3>1. PICK s \in Seq(Refs) :
                    /\ meta' = [meta EXCEPT ![m.key] = s]
                    /\ Wide(s) /\ DOMAIN s = DOMAIN meta[m.key]
                    /\ s[m.idx].id = meta[m.key][m.idx].id /\ s[m.idx].replicas = FinalReplicas(m)
                    /\ \A j \in DOMAIN s : j # m.idx => s[j] = meta[m.key][j]
      BY <2>2
    <3>2. meta'[m.key] = s /\ (m.key # k => meta'[k] = meta[k])
      BY <1>1, <2>1, <3>1, MetaSet
    <3> QED
      BY <1>5, <2>2, <3>1, <3>2 DEF MigratedIn
  <2> QED
    BY <1>5, <2>2, MigrateUpdateEffect
<1> QED
  BY <1>2, <1>3, <1>4, <1>5, MetaChange

LEMMA MigratedIds ==
  ASSUME NEW m, NEW k, MigratedIn(m, k)
  PROVE  Ids(meta'[k]) = Ids(meta[k]) /\ \A j \in DOMAIN meta[k] : meta'[k][j].id = meta[k][j].id
<1>1. DOMAIN meta'[k] = DOMAIN meta[k] /\ \A j \in DOMAIN meta[k] : meta'[k][j].id = meta[k][j].id
  BY DEF MigratedIn
<1>2. Ids(meta'[k]) \subseteq Ids(meta[k])
  BY <1>1 DEF Ids
<1>3. Ids(meta[k]) \subseteq Ids(meta'[k])
  BY <1>1 DEF Ids
<1> QED
  BY <1>1, <1>2, <1>3

StoredIn(h, u, n) ==
    /\ Writing(h) /\ ~Writing(h)' /\ CommitPart(h)
    /\ call'[h] = Idle \/ <<u, n>> \in doomed'.parts
    /\ call[h].req.upload = u /\ call[h].req.part = n
    /\ uploads'[u].parts[n] = call[h].refs

LEMMA PartCases ==
  ASSUME ChunkShape, Next, NEW u \in Upload, NEW n \in PartNos
  PROVE  \/ uploads'[u].parts[n] = uploads[u].parts[n]
         \/ uploads'[u].parts[n] = <<>>
         \/ \E h \in Handler : StoredIn(h, u, n)
<1>1. UploadShape /\ conf' = conf
  BY UsedStep, SMTT(30) DEF ChunkShape
<1>2. ASSUME NEW h \in Handler, CommitPart(h)
      PROVE  uploads'[u].parts[n] = uploads[u].parts[n] \/ StoredIn(h, u, n)
  <2>1. PICK q, s : q = call[h].req /\ s = call[h].refs
    BY SMTT(30)
  <2>2. /\ WriteShape(call[h]) /\ Writing(h)
        /\ q.upload \in Upload /\ q.part \in PartNos /\ q \in conf.requests /\ q.op = "part"
        /\ \/ /\ Stores(q.upload, q.part, s) /\ ~Writing(h)'
              /\ call'[h] = Idle \/ <<q.upload, q.part>> \in doomed'.parts
           \/ uploads' = uploads
    <3>1. call'[h] = Idle \/ EraseShape(call[h])' => ~Writing(h)'
      BY IdleCall DEF Writing, EraseShape
    <3> QED
      BY <1>2, <2>1, <3>1, CommitPartEffect
  <2>3. s \in Seq(Refs) /\ Wide(s)
    BY <2>1, <2>2 DEF WriteShape
  <2>4. CASE /\ Stores(q.upload, q.part, s) /\ ~Writing(h)'
             /\ call'[h] = Idle \/ <<q.upload, q.part>> \in doomed'.parts
    <3>b. PICK w, o : w = q.upload /\ o = q.part
      BY SMTT(30)
    <3>c. w \in Upload /\ o \in PartNos /\ Stores(w, o, s) /\ \E p \in conf.requests : p.op = "part"
      BY <2>2, <2>4, <3>b
    <3>d. /\ uploads'[w].parts[o] = s
          /\ \A v \in Upload, i \in PartNos : v # w \/ i # o => uploads'[v].parts[i] = uploads[v].parts[i]
      BY <1>1, <2>3, <3>c, PartStored
    <3>0. /\ uploads'[q.upload].parts[q.part] = s
          /\ \A v \in Upload, i \in PartNos :
               v # q.upload \/ i # q.part => uploads'[v].parts[i] = uploads[v].parts[i]
      BY <3>b, <3>d
    <3>1. /\ uploads'[q.upload].parts[q.part] = s
          /\ q.upload # u \/ q.part # n => uploads'[u].parts[n] = uploads[u].parts[n]
      BY <3>0
    <3> QED
      BY <1>2, <2>1, <2>2, <2>4, <3>1 DEF StoredIn
  <2> QED
    BY <2>2, <2>4
<1>3. ASSUME NEW h \in Handler, NEW q \in conf.requests, Create(h, q)
      PROVE  uploads'[u].parts[n] = uploads[u].parts[n]
  <2>1. q.op = "create" /\ uploads' = [uploads EXCEPT ![q.upload].st = "open"]
    BY <1>3 DEF Create
  <2>2. q.upload \in Upload
    BY <2>1, RequestAssumption, SMTT(30) DEF ChunkShape
  <2> QED
    BY <1>1, <2>1, <2>2, UploadOpened
<1>4. ASSUME NEW h \in Handler, NEW q \in conf.requests, Complete(h, q) \/ Abort(h, q) \/ AbortFails(h, q)
      PROVE  uploads'[u].parts[n] = uploads[u].parts[n] \/ uploads'[u].parts[n] = <<>>
  <2>1. q.upload \in Upload /\ uploads' = [uploads EXCEPT ![q.upload] = [st |-> "closed", parts |-> NoParts]]
    BY <1>4, CompleteEffect, AbortEffect, AbortFailsEffect
  <2> QED
    BY <1>1, <2>1, UploadClosed
<1> QED
  BY <1>2, <1>3, <1>4, UploadsChange

\* An upload that ends has no parts any more.
LEMMA EndedUpload ==
  ASSUME ChunkShape, Next, NEW h \in Handler, NEW q \in conf.requests, Complete(h, q) \/ Abort(h, q)
  PROVE  q.upload \in Upload /\ \A n \in PartNos : uploads'[q.upload].parts[n] = <<>>
<1>1. UploadShape /\ conf' = conf
  BY UsedStep, SMTT(30) DEF ChunkShape
<1>2. q.upload \in Upload /\ uploads' = [uploads EXCEPT ![q.upload] = [st |-> "closed", parts |-> NoParts]]
  BY CompleteEffect, AbortEffect
<1> QED
  BY <1>1, <1>2, UploadClosed

\* What is no longer doomed has been written anew.
LEMMA KeyCleared ==
  ASSUME ChunkShape, Next, NEW k \in Key, k \in doomed.keys, k \notin doomed'.keys
  PROVE  \/ \E h \in Handler : PutInto(h, k)
         \/ \E h \in Handler, q \in conf.requests : CompletedInto(h, q, k)
<1>1. MetaShape /\ conf' = conf
  BY UsedStep, SMTT(30) DEF ChunkShape
<1>2. ASSUME NEW h \in Handler, CommitPut(h) PROVE PutInto(h, k)
  <2>1. PICK l, s : l = call[h].req.key /\ s = call[h].refs
    BY SMTT(30)
  <2>2. /\ WriteShape(call[h]) /\ Writing(h) /\ call'[h] = Idle
        /\ l \in Key /\ meta' = [meta EXCEPT ![l] = s] /\ doomed'.keys = doomed.keys \ {l}
    BY <1>2, <2>1, CommitPutEffect
  <2>3. s \in Seq(Refs) /\ Wide(s) /\ l = k
    BY <2>1, <2>2 DEF WriteShape
  <2>4. meta'[k] = s
    BY <1>1, <2>2, <2>3, MetaSet
  <2>5. ~Writing(h)'
    BY <2>2, IdleCall DEF Writing
  <2> QED
    BY <1>2, <2>1, <2>2, <2>3, <2>4, <2>5 DEF PutInto
<1>3. ASSUME NEW h \in Handler, NEW q \in conf.requests, Complete(h, q) PROVE CompletedInto(h, q, k)
  BY <1>3, CompletedEffect
<1>4. ASSUME NEW h \in Handler, CommitPart(h) PROVE FALSE
  BY <1>4, CommitPartEffect
<1>5. ASSUME NEW h \in Handler, NEW q \in conf.requests, StartDelete(h, q) PROVE FALSE
  BY <1>5, StartDeleteEffect
<1> QED
  BY <1>2, <1>3, <1>4, <1>5, DoomedChange

LEMMA PartCleared ==
  ASSUME ChunkShape, Next, NEW u \in Upload, NEW n \in PartNos,
         <<u, n>> \in doomed.parts, <<u, n>> \notin doomed'.parts
  PROVE  \E h \in Handler : StoredIn(h, u, n)
<1>1. UploadShape /\ conf' = conf
  BY UsedStep, SMTT(30) DEF ChunkShape
<1>2. ASSUME NEW h \in Handler, CommitPart(h) PROVE StoredIn(h, u, n)
  <2>1. PICK q, s : q = call[h].req /\ s = call[h].refs
    BY SMTT(30)
  <2>2. /\ WriteShape(call[h]) /\ Writing(h) /\ q.upload \in Upload /\ q.part \in PartNos
        /\ q \in conf.requests /\ q.op = "part"
        /\ call'[h] = Idle /\ Stores(q.upload, q.part, s) /\ doomed'.parts = doomed.parts \ {<<q.upload, q.part>>}
    BY <1>2, <2>1, CommitPartEffect
  <2>3. u = q.upload /\ n = q.part
    BY <2>2, SMTT(30)
  <2>4. s \in Seq(Refs) /\ Wide(s) /\ Stores(u, n, s) /\ \E p \in conf.requests : p.op = "part"
    BY <2>1, <2>2, <2>3 DEF WriteShape
  <2>5. uploads'[u].parts[n] = s
    BY <1>1, <2>4, PartStored
  <2>6. ~Writing(h)'
    BY <2>2, IdleCall DEF Writing
  <2> QED
    BY <1>2, <2>1, <2>2, <2>3, <2>5, <2>6 DEF StoredIn
<1>3. ASSUME NEW h \in Handler, CommitPut(h) PROVE FALSE
  BY <1>3, CommitPutEffect
<1>4. ASSUME NEW h \in Handler, NEW q \in conf.requests, StartDelete(h, q) \/ Complete(h, q) PROVE FALSE
  BY <1>4, StartDeleteEffect, CompleteEffect
<1> QED
  BY <1>2, <1>3, <1>4, DoomedChange

LEMMA JoinedIds ==
  ASSUME UploadShape, NEW u \in Upload
  PROVE  \A x \in Ids(Joined(uploads[u].parts)) : \E n \in PartNos : x \in Ids(uploads[u].parts[n])
<1>1. PICK s, t : s = uploads[u].parts[1] /\ t = uploads[u].parts[2]
  BY SMTT(30)
<1>2. 1 \in PartNos /\ 2 \in PartNos
  BY SMTT(30) DEF PartNos
<1>3. s \in Seq(Refs) /\ t \in Seq(Refs)
  BY <1>1, <1>2, PartsShape
<1>4. Ids(s \o t) = Ids(s) \cup Ids(t)
  BY <1>3, JoinRefs
<1> QED
  BY <1>1, <1>2, <1>4 DEF Joined

RefusedTo(h) == Writing(h) /\ ~Writing(h)' /\ CommitPart(h) /\ call'[h].op = "part" /\ call'[h].refs = call[h].refs

LEMMA EraseCases ==
  ASSUME ChunkShape, Next, NEW h \in Handler, Erases(h)'
  PROVE  \/ /\ Erases(h) /\ call'[h].op = call[h].op /\ call'[h].req = call[h].req
            /\ Ids(call'[h].refs) \subseteq Ids(call[h].refs)
         \/ \E q \in conf.requests :
              /\ StartDelete(h, q) /\ q.key \in Key /\ call'[h].op = "delete" /\ call'[h].req = q
              /\ call'[h].refs = meta[q.key]
         \/ \E q \in conf.requests :
              /\ Abort(h, q) /\ q.upload \in Upload
              /\ \A x \in Ids(call'[h].refs) : \E n \in PartNos : x \in Ids(uploads[q.upload].parts[n])
         \/ RefusedTo(h)
<1>1. call'[h] # Idle /\ ~Writing(h)' /\ call'[h].at = "erase"
  BY IdleCall DEF Erases, Writing
<1>2. ~WriteShape(call[h])'
  BY <1>1 DEF WriteShape
<1>3. CASE call'[h] = call[h]
  BY <1>3 DEF Erases
<1>4. ASSUME NEW q \in conf.requests, StartWrite(h, q) PROVE FALSE
  BY <1>2, <1>4, StartWriteEffect
<1>5. ASSUME NEW q \in conf.requests, StartDelete(h, q) PROVE
         /\ StartDelete(h, q) /\ q.key \in Key /\ call'[h].op = "delete" /\ call'[h].req = q
         /\ call'[h].refs = meta[q.key]
  BY <1>5, StartDeleteEffect
<1>6. ASSUME NEW q \in conf.requests, Abort(h, q) PROVE
         /\ Abort(h, q) /\ q.upload \in Upload
         /\ \A x \in Ids(call'[h].refs) : \E n \in PartNos : x \in Ids(uploads[q.upload].parts[n])
  <2>1. q.upload \in Upload /\ call'[h].refs = Joined(uploads[q.upload].parts)
    BY <1>6, AbortEffect
  <2>2. UploadShape
    BY SMTT(30) DEF ChunkShape
  <2> QED
    BY <1>6, <2>1, <2>2, JoinedIds
<1>7. ASSUME NEW d \in DN, WriteTo(h, d) \/ WriteFails(h, d) PROVE FALSE
  BY <1>2, <1>7, WriteToEffect
<1>8. ASSUME NEW d \in DN, EraseFrom(h, d) PROVE
            /\ Erases(h) /\ call'[h].op = call[h].op /\ call'[h].req = call[h].req
            /\ Ids(call'[h].refs) \subseteq Ids(call[h].refs)
  BY <1>8, EraseFromEffect
<1>9. ~WriteDone(h)
  BY <1>1, <1>2, WriteDoneEffect
<1>10. ~CommitPut(h) /\ ~EraseDone(h)
  BY <1>1, CommitPutEffect, EraseDoneEffect
<1>11. CASE CommitPart(h)
  BY <1>1, <1>11, CommitPartEffect DEF RefusedTo
<1> QED
  BY <1>1, <1>3, <1>4, <1>5, <1>6, <1>7, <1>8, <1>9, <1>10, <1>11, CallCases

-----------------------------------------------------------------------------
(* Each list of chunks keeps its own.                                      *)

LEMMA WritersApart ==
  ASSUME ChunkShape, IdLedger, Next, NEW g \in Handler, NEW h \in Handler,
         Writing(g)', Writing(h)', call'[g].req = call'[h].req
  PROVE  g = h
<1>1. ASSUME NEW f \in Handler, Writing(f)' PROVE call'[f] # Idle
  BY <1>1, IdleCall DEF Writing
<1>2. ASSUME NEW f \in Handler, Writing(f) PROVE call[f].req \in used.requests
  BY <1>2, WriterFacts
<1>3. CASE Writing(g) /\ call'[g].req = call[g].req /\ Writing(h) /\ call'[h].req = call[h].req
  BY <1>3 DEF IdLedger
<1>4. CASE call[g] = Idle /\ Turn(g) /\ call[h] = Idle
  BY <1>1, <1>4 DEF Turn
<1> QED
  BY <1>2, <1>3, <1>4, WritingStep

LEMMA CompletedSettles ==
  ASSUME ChunkShape, Next, NEW h \in Handler, NEW q \in conf.requests, NEW k, CompletedInto(h, q, k)
  PROVE  q \in Settled'
<1>1. call' = call /\ q \notin used.requests /\ q \in used'.requests
  BY DEF CompletedInto, Complete
<1>2. ASSUME NEW g \in Handler, Writing(g)' PROVE call'[g].req # q
  <2>1. Writing(g)
    BY <1>1, <1>2 DEF Writing
  <2> QED
    BY <1>1, <2>1, WriterFacts
<1> QED
  BY <1>1, <1>2 DEF Settled

LEMMA WrittenLands ==
  ASSUME ChunkShape, IdLedger, Next, NEW h \in Handler, Writing(h), ~Writing(h)'
  PROVE  Ids(call[h].refs) \subseteq Landed'
<1>1. ASSUME NEW x \in Ids(call[h].refs) PROVE x \in Landed'
  <2>1. PICK i \in DOMAIN call[h].req.body : call[h].req.body[i] = x
    BY WriterFacts
  <2> QED
    BY <2>1, Settles
<1> QED
  BY <1>1

LEMMA MetaLanded ==
  ASSUME ChunkShape, IdLedger, Next, NEW k \in Key
  PROVE  /\ Ids(meta'[k]) \subseteq Landed'
         /\ meta'[k] # <<>> => \E q \in Settled' : q.op \in {"put", "complete"} /\ q.key = k
<1>1. /\ Ids(meta[k]) \subseteq Landed'
      /\ meta[k] # <<>> => \E q \in Settled' : q.op \in {"put", "complete"} /\ q.key = k
  BY SettledGrows, LandedGrows DEF IdLedger
<1>2. CASE meta'[k] = meta[k]
  BY <1>1, <1>2
<1>3. CASE meta'[k] = <<>>
  BY <1>3, EmptyRefs
<1>4. ASSUME NEW h \in Handler, PutInto(h, k)
      PROVE  /\ Ids(meta'[k]) \subseteq Landed'
             /\ \E q \in Settled' : q.op \in {"put", "complete"} /\ q.key = k
  <2>1. /\ Writing(h) /\ ~Writing(h)' /\ CommitPut(h) /\ call[h].req.key = k /\ meta'[k] = call[h].refs
    BY <1>4 DEF PutInto
  <2>2. call[h].req \in Settled' /\ Ids(call[h].refs) \subseteq Landed'
    BY <2>1, Settles, WrittenLands
  <2>3. call[h].req.op = "put"
    BY <2>1, CommitPutEffect DEF WriteShape
  <2> QED
    BY <2>1, <2>2, <2>3
<1>5. ASSUME NEW h \in Handler, NEW q \in conf.requests, CompletedInto(h, q, k)
      PROVE  /\ Ids(meta'[k]) \subseteq Landed'
             /\ \E p \in Settled' : p.op \in {"put", "complete"} /\ p.key = k
  <2>1. /\ q.upload \in Upload /\ q.key = k /\ q.op = "complete"
        /\ \A x \in Ids(meta'[k]) : \E n \in PartNos : x \in Ids(uploads[q.upload].parts[n])
    BY <1>5 DEF CompletedInto
  <2>2. q \in Settled'
    BY <1>5, CompletedSettles
  <2>3. \A n \in PartNos : Ids(uploads[q.upload].parts[n]) \subseteq Landed'
    BY <2>1, LandedGrows DEF IdLedger
  <2> QED
    BY <2>1, <2>2, <2>3
<1>6. ASSUME NEW m \in migs, MigratedIn(m, k)
      PROVE  /\ Ids(meta'[k]) \subseteq Landed'
             /\ \E q \in Settled' : q.op \in {"put", "complete"} /\ q.key = k
  <2>1. Ids(meta'[k]) = Ids(meta[k]) /\ m.idx \in DOMAIN meta[k]
    BY <1>6, MigratedIds DEF MigratedIn
  <2>2. meta[k] # <<>>
    BY <2>1, EmptyRefs
  <2> QED
    BY <1>1, <2>1, <2>2
<1> QED
  BY <1>2, <1>3, <1>4, <1>5, <1>6, MetaCases

LEMMA PartsLanded ==
  ASSUME ChunkShape, IdLedger, Next, NEW u \in Upload, NEW n \in PartNos
  PROVE  Ids(uploads'[u].parts[n]) \subseteq Landed'
<1>1. Ids(uploads[u].parts[n]) \subseteq Landed'
  BY LandedGrows DEF IdLedger
<1>2. ASSUME NEW h \in Handler, StoredIn(h, u, n) PROVE Ids(uploads'[u].parts[n]) \subseteq Landed'
  BY <1>2, WrittenLands DEF StoredIn
<1> QED
  BY <1>1, <1>2, PartCases, EmptyRefs

LEMMA ErasuresLanded ==
  ASSUME ChunkShape, IdLedger, Next, NEW h \in Handler, Erases(h)'
  PROVE  Ids(call'[h].refs) \subseteq Landed'
<1>1. \A k \in Key : Ids(meta[k]) \subseteq Landed'
  BY LandedGrows DEF IdLedger
<1>2. \A u \in Upload, n \in PartNos : Ids(uploads[u].parts[n]) \subseteq Landed'
  BY LandedGrows DEF IdLedger
<1>3. Erases(h) => Ids(call[h].refs) \subseteq Landed'
  BY LandedGrows DEF IdLedger
<1>4. RefusedTo(h) => Ids(call'[h].refs) \subseteq Landed'
  BY WrittenLands DEF RefusedTo
<1> QED
  BY <1>1, <1>2, <1>3, <1>4, EraseCases

\* What becomes of the migrations.
Planned(m) ==
    /\ RebalanceStart /\ m.key \in Key /\ m.idx \in DOMAIN meta[m.key]
    /\ m.chunk = meta[m.key][m.idx].id /\ m.actual = meta[m.key][m.idx].replicas /\ m.ok = {}

Continues(m, o) ==
    /\ m.key = o.key /\ m.idx = o.idx /\ m.chunk = o.chunk /\ m.actual = o.actual
    /\ \/ m.ok = o.ok
       \/ \E d \in DN : m.ok = o.ok \cup {d} /\ MigrateCopy(o, d) /\ file' = DnPut(file, d, o.chunk)

LEMMA MigCases ==
  ASSUME ChunkShape, Next, NEW m \in migs'
  PROVE  Planned(m) \/ \E o \in migs : Continues(m, o)
<1>1. m \in migs => Continues(m, m)
  BY DEF Continues
<1>2. CASE RebalanceStart
  <2>1. PICK k \in Key : m \in PlanChunks(k)
    BY <1>2 DEF RebalanceStart
  <2>2. /\ m.key = k /\ m.idx \in DOMAIN meta[k]
        /\ m.chunk = meta[k][m.idx].id /\ m.actual = meta[k][m.idx].replicas /\ m.ok = {}
    BY <2>1, PlanEffect, SMTT(30)
  <2> QED
    BY <1>2, <2>2 DEF Planned
<1>3. ASSUME NEW o \in migs, NEW n, migs' = (migs \ {o}) \cup {n}, Continues(n, o)
      PROVE  \E x \in migs : Continues(m, x)
  BY <1>1, <1>3
<1>7. ASSUME NEW o \in migs, NEW d \in DN, MigrateCopy(o, d) PROVE \E x \in migs : Continues(m, x)
  <2>1. \/ MigrateRead(o) /\ migs' = migs \ {o}
        \/ \E n : /\ migs' = (migs \ {o}) \cup {n} /\ Same(n, o)
                  /\ n.ok = o.ok \/ (n.ok = o.ok \cup {d} /\ file' = DnPut(file, d, o.chunk))
    BY <1>7, MigrateEffect
  <2>2. CASE migs' = migs \ {o}
    BY <1>1, <2>2
  <2>3. ASSUME NEW n, Same(n, o), n.ok = o.ok \/ (n.ok = o.ok \cup {d} /\ file' = DnPut(file, d, o.chunk))
        PROVE  Continues(n, o)
    BY <1>7, <2>3 DEF Continues, Same
  <2> QED
    BY <1>3, <2>1, <2>2, <2>3
<1>4. ASSUME NEW o \in migs, MigrateUpdate(o) PROVE m \in migs
  BY <1>4 DEF MigrateUpdate
<1>5. ASSUME NEW o \in migs, MigrateRead(o) PROVE \E x \in migs : Continues(m, x)
  <2>1. PICK r : r = Read(o)
    OBVIOUS
  <2>2. migs' = migs \ {o} \/ migs' = (migs \ {o}) \cup {r}
    BY <1>5, <2>1 DEF MigrateRead, Step, Read
  <2>3. MigRecord(o)
    BY DEF ChunkShape, MigsShape, MigShape
  <2>4. Same(r, o) /\ r.ok = o.ok
    BY <2>1, <2>3, ReadFields
  <2>5. Continues(r, o)
    BY <2>4 DEF Continues, Same
  <2> QED
    BY <1>1, <1>3, <2>2, <2>5
<1>6. ~Crash
  BY DEF Crash
<1> QED
  BY <1>1, <1>2, <1>4, <1>5, <1>6, <1>7, MigsChange DEF Rebalance

\* Where a migration runs, its object is not written again.
LEMMA NoPutOver ==
  ASSUME ChunkShape, Steady, IdLedger, Next, NEW m \in migs
  PROVE  /\ \A h \in Handler : ~PutInto(h, m.key)
         /\ \A h \in Handler, q \in conf.requests : ~CompletedInto(h, q, m.key)
<1>1. PICK q \in Settled : q.op \in {"put", "complete"} /\ q.key = m.key
  BY DEF IdLedger
<1>2. q \in used.requests /\ q \in conf.requests
  BY DEF Settled, ChunkShape, UsedShape
<1>3. conf.balancing
  BY DEF ChunkShape, MigsShape
<1>4. ASSUME NEW p \in conf.requests, p.op \in {"put", "complete"}, p.key = m.key PROVE p = q
  BY <1>1, <1>2, <1>3, <1>4 DEF Steady
<1>5. ASSUME NEW h \in Handler, PutInto(h, m.key) PROVE FALSE
  <2>1. Writing(h) /\ CommitPut(h) /\ call[h].req.key = m.key
    BY <1>5 DEF PutInto
  <2>2. call[h].req.op = "put" /\ call[h].req \in conf.requests
    BY <2>1, CommitPutEffect, WriterFacts DEF WriteShape
  <2>3. call[h].req = q
    BY <1>4, <2>1, <2>2
  <2> QED
    BY <2>1, <2>3 DEF Settled
<1>6. ASSUME NEW h \in Handler, NEW p \in conf.requests, CompletedInto(h, p, m.key) PROVE FALSE
  <2>1. p.op = "complete" /\ p.key = m.key /\ p \notin used.requests
    BY <1>6 DEF CompletedInto
  <2> QED
    BY <1>2, <1>4, <2>1
<1> QED
  BY <1>5, <1>6

LEMMA MigsLanded ==
  ASSUME ChunkShape, Steady, IdLedger, Next, NEW m \in migs'
  PROVE  /\ m.chunk \in Landed'
         /\ m.idx \in DOMAIN meta'[m.key] => meta'[m.key][m.idx].id = m.chunk
         /\ \E q \in Settled' : q.op \in {"put", "complete"} /\ q.key = m.key
<1>1. CASE Planned(m)
  <2>1. /\ meta' = meta /\ m.key \in Key /\ m.idx \in DOMAIN meta[m.key] /\ m.chunk = meta[m.key][m.idx].id
    BY <1>1 DEF Planned, RebalanceStart
  <2>2. m.chunk \in Ids(meta[m.key]) /\ meta[m.key] # <<>>
    BY <2>1, EmptyRefs DEF Ids
  <2>3. m.chunk \in Landed /\ \E q \in Settled : q.op \in {"put", "complete"} /\ q.key = m.key
    BY <2>1, <2>2 DEF IdLedger
  <2> QED
    BY <2>1, <2>3, SettledGrows, LandedGrows
<1>2. ASSUME NEW o \in migs, Continues(m, o)
      PROVE  /\ m.chunk \in Landed'
             /\ m.idx \in DOMAIN meta'[m.key] => meta'[m.key][m.idx].id = m.chunk
             /\ \E q \in Settled' : q.op \in {"put", "complete"} /\ q.key = m.key
  <2>1. m.key = o.key /\ m.idx = o.idx /\ m.chunk = o.chunk
    BY <1>2 DEF Continues
  <2>2. /\ o.chunk \in Landed /\ \E q \in Settled : q.op \in {"put", "complete"} /\ q.key = o.key
        /\ o.idx \in DOMAIN meta[o.key] => meta[o.key][o.idx].id = o.chunk
    BY DEF IdLedger
  <2>3. o.key \in Key
    BY DEF ChunkShape, MigsShape, MigShape
  <2>4. o.idx \in DOMAIN meta'[o.key] => meta'[o.key][o.idx].id = o.chunk
    <3>1. ASSUME NEW x \in migs, MigratedIn(x, o.key)
          PROVE  o.idx \in DOMAIN meta'[o.key] => meta'[o.key][o.idx].id = o.chunk
      <4>1. DOMAIN meta'[o.key] = DOMAIN meta[o.key]
        BY <3>1 DEF MigratedIn
      <4>2. \A j \in DOMAIN meta[o.key] : meta'[o.key][j].id = meta[o.key][j].id
        BY <3>1, MigratedIds
      <4> QED
        BY <2>2, <4>1, <4>2
    <3> QED
      BY <2>2, <2>3, <3>1, MetaCases, NoPutOver, EmptyRefs
  <2> QED
    BY <2>1, <2>2, <2>4, SettledGrows, LandedGrows
<1> QED
  BY <1>1, <1>2, MigCases

LEMMA IdLedgerKept ==
  ASSUME ChunkShape, Steady, IdLedger, Next
  PROVE  IdLedger'
<1>1. \A g, h \in Handler : Writing(g)' /\ Writing(h)' /\ call'[g].req = call'[h].req => g = h
  BY WritersApart
<1>2. \A h \in Handler : Erases(h)' => Ids(call'[h].refs) \subseteq Landed'
  BY ErasuresLanded
<1> QED
  BY <1>1, <1>2, MetaLanded, PartsLanded, MigsLanded DEF IdLedger

-----------------------------------------------------------------------------
(* No chunk is in two lists.                                               *)

LEMMA KeyCases ==
  ASSUME ChunkShape, Next, NEW k \in Key
  PROVE  \/ Ids(meta'[k]) \subseteq Ids(meta[k])
         \/ \E h \in Handler : PutInto(h, k)
         \/ \E h \in Handler, q \in conf.requests : CompletedInto(h, q, k)
<1>1. ASSUME NEW m \in migs, MigratedIn(m, k) PROVE Ids(meta'[k]) \subseteq Ids(meta[k])
  BY <1>1, MigratedIds
<1> QED
  BY <1>1, MetaCases, EmptyRefs

LEMMA OneMover ==
  ASSUME ChunkShape, Next, NEW g \in Handler, NEW h \in Handler, CommitPut(g) \/ CommitPart(g),
         Writing(h), ~Writing(h)'
  PROVE  g = h
<1>1. Turn(g)
  BY CommitPutEffect, CommitPartEffect
<1> QED
  BY <1>1 DEF Turn, Writing

LEMMA PutFresh ==
  ASSUME ChunkShape, Steady, NEW h \in Handler, NEW k, PutInto(h, k)
  PROVE  Ids(meta'[k]) \cap Landed = {}
<1>1. Writing(h) /\ meta'[k] = call[h].refs
  BY DEF PutInto
<1> QED
  BY <1>1, FreshRefs

LEMMA StoredFresh ==
  ASSUME ChunkShape, Steady, NEW h \in Handler, NEW u, NEW n, StoredIn(h, u, n)
  PROVE  Ids(uploads'[u].parts[n]) \cap Landed = {}
<1>1. Writing(h) /\ uploads'[u].parts[n] = call[h].refs
  BY DEF StoredIn
<1> QED
  BY <1>1, FreshRefs

LEMMA CompletedFrom ==
  ASSUME ChunkShape, Next, NEW h \in Handler, NEW q \in conf.requests, NEW k, CompletedInto(h, q, k)
  PROVE  /\ q.upload \in Upload /\ q.key = k
         /\ \A x \in Ids(meta'[k]) : \E n \in PartNos : x \in Ids(uploads[q.upload].parts[n])
         /\ \A n \in PartNos : Ids(uploads'[q.upload].parts[n]) = {}
         /\ used'.requests = used.requests \cup {q} /\ q \notin used.requests
<1>1. /\ Complete(h, q) /\ q.key = k
      /\ \A x \in Ids(meta'[k]) : \E n \in PartNos : x \in Ids(uploads[q.upload].parts[n])
  BY DEF CompletedInto
<1>2. q.upload \in Upload /\ \A n \in PartNos : uploads'[q.upload].parts[n] = <<>>
  BY <1>1, EndedUpload
<1>3. used'.requests = used.requests \cup {q} /\ q \notin used.requests
  BY <1>1, CompleteEffect
<1> QED
  BY <1>1, <1>2, <1>3, EmptyRefs

LEMMA KeysApart ==
  ASSUME ChunkShape, Steady, IdLedger, ApartLedger, Next, NEW k \in Key, NEW l \in Key, k # l
  PROVE  Ids(meta'[k]) \cap Ids(meta'[l]) = {}
<1>1. ASSUME NEW j \in Key PROVE Ids(meta[j]) \subseteq Landed
  BY DEF IdLedger
<1>2. ASSUME NEW u \in Upload, NEW n \in PartNos PROVE Ids(uploads[u].parts[n]) \subseteq Landed
  BY DEF IdLedger
<1>3. ASSUME NEW h \in Handler, NEW q \in conf.requests, NEW j \in Key, CompletedInto(h, q, j)
      PROVE  Ids(meta'[j]) \subseteq Landed
  <2>1. q.upload \in Upload /\ \A x \in Ids(meta'[j]) : \E n \in PartNos : x \in Ids(uploads[q.upload].parts[n])
    BY <1>3, CompletedFrom
  <2> QED
    BY <1>2, <2>1
<1>4. ASSUME NEW i \in Key, NEW j \in Key, i # j, NEW h \in Handler, PutInto(h, i)
      PROVE  Ids(meta'[i]) \cap Ids(meta'[j]) = {}
  <2>1. Ids(meta'[i]) \cap Landed = {}
    BY <1>4, PutFresh
  <2>2. ASSUME NEW g \in Handler, PutInto(g, j) PROVE FALSE
    <3>1. CommitPut(g) /\ Writing(h) /\ ~Writing(h)' /\ call[g].req.key = j /\ call[h].req.key = i
      BY <1>4, <2>2 DEF PutInto
    <3>2. g = h
      BY <3>1, OneMover
    <3> QED
      BY <1>4, <3>1, <3>2
  <2>3. Ids(meta'[j]) \subseteq Landed
    BY <1>1, <1>3, <2>2, KeyCases
  <2> QED
    BY <2>1, <2>3
<1>5. ASSUME NEW i \in Key, NEW j \in Key, i # j, NEW h \in Handler, NEW q \in conf.requests,
             CompletedInto(h, q, i), Ids(meta'[j]) \subseteq Ids(meta[j])
      PROVE  Ids(meta'[i]) \cap Ids(meta'[j]) = {}
  <2>1. q.upload \in Upload /\ \A x \in Ids(meta'[i]) : \E n \in PartNos : x \in Ids(uploads[q.upload].parts[n])
    BY <1>5, CompletedFrom
  <2>2. \A n \in PartNos : Ids(meta[j]) \cap Ids(uploads[q.upload].parts[n]) = {}
    BY <2>1 DEF ApartLedger
  <2> QED
    BY <1>5, <2>1, <2>2
<1>6. ASSUME NEW g \in Handler, NEW h \in Handler, NEW p \in conf.requests, NEW q \in conf.requests,
             CompletedInto(g, p, k), CompletedInto(h, q, l)
      PROVE  FALSE
  <2>1. /\ used'.requests = used.requests \cup {p} /\ used'.requests = used.requests \cup {q}
        /\ p \notin used.requests /\ q \notin used.requests /\ p.key = k /\ q.key = l
    <3>1. used'.requests = used.requests \cup {p} /\ p \notin used.requests /\ p.key = k
      BY <1>6, CompletedFrom
    <3>2. used'.requests = used.requests \cup {q} /\ q \notin used.requests /\ q.key = l
      BY <1>6, CompletedFrom
    <3> QED
      BY <3>1, <3>2, SMTT(30)
  <2>2. p \in used.requests \cup {q}
    BY <2>1
  <2> QED
    BY <2>1, <2>2
<1>7. CASE Ids(meta'[k]) \subseteq Ids(meta[k]) /\ Ids(meta'[l]) \subseteq Ids(meta[l])
  <2>1. Ids(meta[k]) \cap Ids(meta[l]) = {}
    BY DEF ApartLedger
  <2> QED
    BY <1>7, <2>1
<1>8. /\ \A h \in Handler : PutInto(h, k) => Ids(meta'[k]) \cap Ids(meta'[l]) = {}
      /\ \A h \in Handler : PutInto(h, l) => Ids(meta'[k]) \cap Ids(meta'[l]) = {}
  BY <1>4
<1>9. /\ \A h \in Handler, q \in conf.requests :
           CompletedInto(h, q, k) /\ Ids(meta'[l]) \subseteq Ids(meta[l]) => Ids(meta'[k]) \cap Ids(meta'[l]) = {}
      /\ \A h \in Handler, q \in conf.requests :
           CompletedInto(h, q, l) /\ Ids(meta'[k]) \subseteq Ids(meta[k]) => Ids(meta'[k]) \cap Ids(meta'[l]) = {}
  BY <1>5
<1> QED
  BY <1>6, <1>7, <1>8, <1>9, KeyCases

LEMMA PartsApartFromKeys ==
  ASSUME ChunkShape, Steady, IdLedger, ApartLedger, Next, NEW k \in Key, NEW u \in Upload, NEW n \in PartNos
  PROVE  Ids(meta'[k]) \cap Ids(uploads'[u].parts[n]) = {}
<1>1. Ids(meta[k]) \subseteq Landed /\ Ids(uploads[u].parts[n]) \subseteq Landed
  BY DEF IdLedger
<1>2. Ids(meta[k]) \cap Ids(uploads[u].parts[n]) = {}
  BY DEF ApartLedger
<1>3. CASE Ids(uploads'[u].parts[n]) = {}
  BY <1>3
<1>4. CASE uploads'[u].parts[n] = uploads[u].parts[n]
  <2>1. ASSUME NEW h \in Handler, PutInto(h, k) PROVE Ids(meta'[k]) \cap Ids(uploads'[u].parts[n]) = {}
    BY <1>1, <1>4, <2>1, PutFresh
  <2>2. ASSUME NEW h \in Handler, NEW q \in conf.requests, CompletedInto(h, q, k)
        PROVE  Ids(meta'[k]) \cap Ids(uploads'[u].parts[n]) = {}
    <3>1. /\ q.upload \in Upload
          /\ \A x \in Ids(meta'[k]) : \E o \in PartNos : x \in Ids(uploads[q.upload].parts[o])
          /\ \A o \in PartNos : Ids(uploads'[q.upload].parts[o]) = {}
      BY <2>2, CompletedFrom
    <3>2. CASE u = q.upload
      BY <3>1, <3>2
    <3>3. CASE u # q.upload
      <4>1. ASSUME NEW o \in PartNos PROVE <<q.upload, o>> # <<u, n>>
        BY <3>3, SMTT(30)
      <4>2. \A o \in PartNos : Ids(uploads[q.upload].parts[o]) \cap Ids(uploads[u].parts[n]) = {}
        BY <3>1, <4>1 DEF ApartLedger
      <4> QED
        BY <1>4, <3>1, <4>2
    <3> QED
      BY <3>2, <3>3, SMTT(30)
  <2> QED
    BY <1>2, <1>4, <2>1, <2>2, KeyCases
<1>5. ASSUME NEW g \in Handler, StoredIn(g, u, n) PROVE Ids(meta'[k]) \cap Ids(uploads'[u].parts[n]) = {}
  <2>1. Ids(uploads'[u].parts[n]) \cap Landed = {}
    BY <1>5, StoredFresh
  <2>2. meta' = meta
    BY <1>5 DEF StoredIn, CommitPart
  <2> QED
    BY <1>1, <2>1, <2>2
<1> QED
  BY <1>3, <1>4, <1>5, PartCases, EmptyRefs

LEMMA PartsApart ==
  ASSUME ChunkShape, Steady, IdLedger, ApartLedger, Next,
         NEW u \in Upload, NEW n \in PartNos, NEW v \in Upload, NEW o \in PartNos, <<u, n>> # <<v, o>>
  PROVE  Ids(uploads'[u].parts[n]) \cap Ids(uploads'[v].parts[o]) = {}
<1>1. ASSUME NEW w \in Upload, NEW i \in PartNos PROVE Ids(uploads[w].parts[i]) \subseteq Landed
  BY DEF IdLedger
<1>2. Ids(uploads[u].parts[n]) \cap Ids(uploads[v].parts[o]) = {}
  BY DEF ApartLedger
<1>3. ASSUME NEW g \in Handler, NEW h \in Handler, StoredIn(g, u, n), StoredIn(h, v, o) PROVE FALSE
  <2>1. g = h
    BY <1>3, OneMover DEF StoredIn
  <2>2. u = v /\ n = o
    BY <1>3, <2>1 DEF StoredIn
  <2> QED
    BY <2>2, SMTT(30)
<1>4. ASSUME NEW g \in Handler, NEW w \in Upload, NEW i \in PartNos, StoredIn(g, w, i)
      PROVE  Ids(uploads'[w].parts[i]) \cap Landed = {}
  BY <1>4, StoredFresh
<1>5. ASSUME NEW w \in Upload, NEW i \in PartNos
      PROVE  \/ Ids(uploads'[w].parts[i]) = {} \/ uploads'[w].parts[i] = uploads[w].parts[i]
             \/ \E h \in Handler : StoredIn(h, w, i)
  BY PartCases, EmptyRefs
<1>6. CASE uploads'[u].parts[n] = uploads[u].parts[n] /\ uploads'[v].parts[o] = uploads[v].parts[o]
  BY <1>2, <1>6
<1>7. CASE uploads'[u].parts[n] = uploads[u].parts[n] /\ \E h \in Handler : StoredIn(h, v, o)
  BY <1>1, <1>4, <1>7
<1>8. CASE uploads'[v].parts[o] = uploads[v].parts[o] /\ \E h \in Handler : StoredIn(h, u, n)
  BY <1>1, <1>4, <1>8
<1> QED
  BY <1>3, <1>5, <1>6, <1>7, <1>8

LEMMA ErasuresApartFromParts ==
  ASSUME ChunkShape, Steady, IdLedger, ApartLedger, Next,
         NEW h \in Handler, Erases(h)', NEW u \in Upload, NEW n \in PartNos
  PROVE  <<u, n>> \in doomed'.parts \/ Ids(call'[h].refs) \cap Ids(uploads'[u].parts[n]) = {}
<1>1. /\ Ids(uploads[u].parts[n]) \subseteq Landed
      /\ Erases(h) => Ids(call[h].refs) \subseteq Landed
      /\ \A k \in Key : Ids(meta[k]) \subseteq Landed
      /\ \A v \in Upload, o \in PartNos : Ids(uploads[v].parts[o]) \subseteq Landed
  BY DEF IdLedger
<1>2. Ids(uploads'[u].parts[n]) = {} \/ uploads'[u].parts[n] = uploads[u].parts[n]
        \/ \E g \in Handler : StoredIn(g, u, n)
  BY PartCases, EmptyRefs
<1>3. CASE Erases(h) /\ Ids(call'[h].refs) \subseteq Ids(call[h].refs)
  <2>1. <<u, n>> \in doomed.parts \/ Ids(call[h].refs) \cap Ids(uploads[u].parts[n]) = {}
    BY <1>3 DEF ApartLedger
  <2>2. ASSUME NEW g \in Handler, StoredIn(g, u, n) PROVE Ids(call'[h].refs) \cap Ids(uploads'[u].parts[n]) = {}
    BY <1>1, <1>3, <2>2, StoredFresh
  <2> QED
    BY <1>2, <1>3, <2>1, <2>2, PartCleared
<1>4. ASSUME NEW q \in conf.requests, StartDelete(h, q), q.key \in Key, call'[h].refs = meta[q.key]
      PROVE  Ids(call'[h].refs) \cap Ids(uploads'[u].parts[n]) = {}
  <2>1. uploads' = uploads
    BY <1>4 DEF StartDelete
  <2>2. Ids(meta[q.key]) \cap Ids(uploads[u].parts[n]) = {}
    BY <1>4 DEF ApartLedger
  <2> QED
    BY <1>4, <2>1, <2>2
<1>5. ASSUME NEW q \in conf.requests, Abort(h, q), q.upload \in Upload,
             \A x \in Ids(call'[h].refs) : \E o \in PartNos : x \in Ids(uploads[q.upload].parts[o])
      PROVE  Ids(call'[h].refs) \cap Ids(uploads'[u].parts[n]) = {}
  <2>1. \A o \in PartNos : uploads'[q.upload].parts[o] = <<>>
    BY <1>5, EndedUpload
  <2>2. CASE u = q.upload
    BY <2>1, <2>2, EmptyRefs
  <2>3. CASE u # q.upload
    <3>1. ASSUME NEW o \in PartNos PROVE <<q.upload, o>> # <<u, n>>
      BY <2>3, SMTT(30)
    <3>2. \A o \in PartNos : Ids(uploads[q.upload].parts[o]) \cap Ids(uploads[u].parts[n]) = {}
      BY <1>5, <3>1 DEF ApartLedger
    <3>3. Ids(call'[h].refs) \subseteq Landed
      BY <1>1, <1>5
    <3>4. ASSUME NEW g \in Handler, StoredIn(g, u, n) PROVE Ids(call'[h].refs) \cap Ids(uploads'[u].parts[n]) = {}
      BY <3>3, <3>4, StoredFresh
    <3>5. CASE uploads'[u].parts[n] = uploads[u].parts[n]
      BY <1>5, <3>2, <3>5
    <3> QED
      BY <1>2, <3>4, <3>5
  <2> QED
    BY <2>2, <2>3, SMTT(30)
<1>6. CASE RefusedTo(h)
  <2>1. Writing(h) /\ ~Writing(h)' /\ call'[h].refs = call[h].refs /\ call'[h].op = "part"
    BY <1>6 DEF RefusedTo
  <2>2. Ids(call'[h].refs) \cap Landed = {}
    BY <2>1, FreshRefs
  <2>3. ASSUME NEW g \in Handler, StoredIn(g, u, n) PROVE <<u, n>> \in doomed'.parts
    <3>1. g = h
      BY <2>1, <2>3, OneMover DEF StoredIn
    <3>2. call'[h] = Idle \/ <<u, n>> \in doomed'.parts
      BY <2>3, <3>1 DEF StoredIn
    <3> QED
      BY <2>1, <3>2, IdleCall
  <2> QED
    BY <1>1, <1>2, <2>2, <2>3
<1> QED
  BY <1>3, <1>4, <1>5, <1>6, EraseCases

LEMMA ErasuresApartFromKeys ==
  ASSUME ChunkShape, Steady, IdLedger, ApartLedger, Next, NEW h \in Handler, Erases(h)', NEW k \in Key
  PROVE  \/ k \in doomed'.keys
         \/ Ids(call'[h].refs) \cap Ids(meta'[k]) = {}
<1>1. /\ Ids(meta[k]) \subseteq Landed
      /\ Erases(h) => Ids(call[h].refs) \subseteq Landed
      /\ \A v \in Upload, o \in PartNos : Ids(uploads[v].parts[o]) \subseteq Landed
  BY DEF IdLedger
<1>2. CASE /\ Erases(h) /\ call'[h].op = call[h].op /\ call'[h].req = call[h].req
           /\ Ids(call'[h].refs) \subseteq Ids(call[h].refs)
  <2>1. \/ k \in doomed.keys
        \/ Ids(call[h].refs) \cap Ids(meta[k]) = {}
    BY <1>2 DEF ApartLedger
  <2>2. ASSUME NEW g \in Handler, PutInto(g, k) PROVE Ids(call'[h].refs) \cap Ids(meta'[k]) = {}
    BY <1>1, <1>2, <2>2, PutFresh
  <2>3. ASSUME NEW g \in Handler, NEW q \in conf.requests, CompletedInto(g, q, k)
        PROVE  k \in doomed'.keys \/ Ids(call'[h].refs) \cap Ids(meta'[k]) = {}
    <3>1. /\ q.upload \in Upload
          /\ \/ k \in doomed'.keys
             \/ \A x \in Ids(meta'[k]) : \E n \in PartNos :
                  <<q.upload, n>> \notin doomed.parts /\ x \in Ids(uploads[q.upload].parts[n])
      BY <2>3 DEF CompletedInto
    <3>2. \A n \in PartNos : <<q.upload, n>> \in doomed.parts
                              \/ Ids(call[h].refs) \cap Ids(uploads[q.upload].parts[n]) = {}
      BY <1>2, <3>1 DEF ApartLedger
    <3> QED
      BY <1>2, <3>1, <3>2
  <2> QED
    BY <1>2, <2>1, <2>2, <2>3, KeyCases, KeyCleared
<1>3. ASSUME NEW q \in conf.requests, StartDelete(h, q), q.key \in Key, call'[h].op = "delete",
             call'[h].req = q, call'[h].refs = meta[q.key], q.key # k
      PROVE  Ids(call'[h].refs) \cap Ids(meta'[k]) = {}
  <2>1. meta' = meta
    BY <1>3 DEF StartDelete
  <2>2. Ids(meta[q.key]) \cap Ids(meta[k]) = {}
    BY <1>3 DEF ApartLedger
  <2> QED
    BY <1>3, <2>1, <2>2
<1>4. ASSUME NEW q \in conf.requests, Abort(h, q), q.upload \in Upload,
             \A x \in Ids(call'[h].refs) : \E o \in PartNos : x \in Ids(uploads[q.upload].parts[o])
      PROVE  Ids(call'[h].refs) \cap Ids(meta'[k]) = {}
  <2>1. meta' = meta
    BY <1>4 DEF Abort
  <2>2. \A o \in PartNos : Ids(meta[k]) \cap Ids(uploads[q.upload].parts[o]) = {}
    BY <1>4 DEF ApartLedger
  <2> QED
    BY <1>4, <2>1, <2>2
<1>5. CASE RefusedTo(h)
  <2>1. Writing(h) /\ call'[h].refs = call[h].refs /\ meta' = meta
    BY <1>5, CommitPartCases DEF RefusedTo
  <2>2. Ids(call'[h].refs) \cap Landed = {}
    BY <2>1, FreshRefs
  <2> QED
    BY <1>1, <2>1, <2>2
<1>6. ASSUME NEW q \in conf.requests, StartDelete(h, q), q.key = k PROVE k \in doomed'.keys
  <2>1. doomed'.keys = doomed.keys \cup {q.key}
    BY <1>6, StartDeleteEffect
  <2> QED
    BY <1>6, <2>1
<1> QED
  BY <1>2, <1>3, <1>4, <1>5, <1>6, EraseCases

LEMMA ApartLedgerKept ==
  ASSUME ChunkShape, Steady, IdLedger, ApartLedger, Next
  PROVE  ApartLedger'
<1>1. ASSUME NEW h \in Handler, Erases(h)'
      PROVE  /\ \A u \in Upload, n \in PartNos : <<u, n>> \in doomed'.parts
                                                 \/ Ids(call'[h].refs) \cap Ids(uploads'[u].parts[n]) = {}
             /\ \A k \in Key : k \in doomed'.keys \/ Ids(call'[h].refs) \cap Ids(meta'[k]) = {}
  BY <1>1, ErasuresApartFromParts, ErasuresApartFromKeys
<1>2. \A k, l \in Key : k # l => Ids(meta'[k]) \cap Ids(meta'[l]) = {}
  BY KeysApart
<1>3. \A u \in Upload, n \in PartNos :
         /\ \A k \in Key : Ids(meta'[k]) \cap Ids(uploads'[u].parts[n]) = {}
         /\ \A v \in Upload, o \in PartNos : <<u, n>> # <<v, o>> =>
              Ids(uploads'[u].parts[n]) \cap Ids(uploads'[v].parts[o]) = {}
  BY PartsApartFromKeys, PartsApart
<1> QED
  BY <1>1, <1>2, <1>3 DEF ApartLedger

-----------------------------------------------------------------------------
(* What a step adds to the pairs that are awaited, acknowledged or needed. *)

LEMMA PairParts ==
  ASSUME NEW p \in Pair
  PROVE  p[1] \in DN /\ p[2] \in Chunk /\ p = <<p[1], p[2]>>
BY SMTT(30) DEF Pair

\* A handler that goes on writing.
Grew(h) ==
    /\ WriteDone(h) /\ call[h].at = "write" /\ call'[h].made = call[h].made /\ call'[h].acks = {}
    /\ call'[h].refs = Append(call[h].refs, Ref(Current(h), call[h].acks))
    /\ Ref(Current(h), call[h].acks) \in Refs

LEMMA WriteProgress ==
  ASSUME ChunkShape, Next, NEW h \in Handler, Writing(h), Writing(h)'
  PROVE  /\ call'[h].req = call[h].req
         /\ \/ call'[h] = call[h]
            \/ \E d \in DN : WriteTo(h, d) \/ WriteFails(h, d)
            \/ Grew(h)
<1>1. call'[h] # Idle /\ call[h] # Idle /\ call[h].at \notin {"erase", "erased"}
  BY IdleCall DEF Writing
<1>2. ~EraseShape(call[h])' /\ ~EraseShape(call[h])
  BY DEF Writing, EraseShape
<1>3. call'[h].req = call[h].req
  BY <1>1, WritingStep
<1>4. ~\E q \in conf.requests : StartWrite(h, q) \/ StartDelete(h, q) \/ Abort(h, q)
  BY <1>1, StartWriteEffect, StartDeleteEffect, AbortEffect
<1>5. ~\E d \in DN : EraseFrom(h, d)
  BY <1>2, EraseFromEffect
<1>6. ~CommitPut(h) /\ ~EraseDone(h) /\ ~CommitPart(h)
  BY <1>1, <1>2, CommitPutEffect, CommitPartEffect, EraseDoneEffect
<1>7. WriteDone(h) => Grew(h)
  BY <1>1, WriteDoneEffect DEF Grew
<1> QED
  BY <1>1, <1>3, <1>4, <1>5, <1>6, <1>7, CallCases

LEMMA WritesAfter ==
  ASSUME ChunkShape, Next, NEW h \in Handler, Writing(h)'
  PROVE  WriteShape(call[h])' /\ IsWrite(call'[h].req) /\ call'[h].req \in conf.requests
<1>1. ChunkShape' /\ conf' = conf
  BY ChunkShapeKept, UsedStep
<1>2. WriteShape(call[h])'
  BY <1>1, IdleCall DEF ChunkShape, CallShape, Writing, EraseShape
<1>3. call'[h].req \in conf.requests
  BY <1>1, <1>2 DEF WriteShape, ChunkShape, UsedShape
<1>4. IsWrite(call'[h].req)
  BY <1>2 DEF WriteShape, IsWrite
<1> QED
  BY <1>2, <1>3, <1>4, SMTT(30)

LEMMA OneBody ==
  ASSUME Steady, NEW p \in conf.requests, NEW q \in conf.requests, IsWrite(p), IsWrite(q),
         NEW i \in DOMAIN p.body, NEW j \in DOMAIN q.body, p.body[i] = q.body[j]
  PROVE  p = q /\ i = j
BY DEF Steady

LEMMA BlankShrinks ==
  ASSUME ChunkShape, Next, NEW p \in Blank'
  PROVE  p \in Blank
<1>1. conf' = conf /\ used.requests \subseteq used'.requests
  BY UsedStep
<1>2. p \in Pair
  BY DEF Blank
<1>3. ASSUME NEW q \in conf.requests \ used.requests, IsWrite(q), NEW i \in DOMAIN q.body, q.body[i] = p[2]
      PROVE  p \in Blank
  BY <1>2, <1>3 DEF Blank
<1>4. CASE \E q \in conf'.requests \ used'.requests : IsWrite(q) /\ \E i \in DOMAIN q.body : q.body[i] = p[2]
  BY <1>1, <1>3, <1>4
<1>5. ASSUME NEW h \in Handler, Writing(h)', NEW i \in DOMAIN call'[h].req.body, call'[h].req.body[i] = p[2],
             \/ i > Len(call'[h].refs) + 1
             \/ i = Len(call'[h].refs) + 1 /\ call'[h].at = "write" /\ p[1] \in call'[h].todo
      PROVE  p \in Blank
  <2>1. CASE call'[h].req \notin used.requests /\ call'[h].req \in conf.requests
    <3>2. IsWrite(call'[h].req)
      BY <1>5, WritesAfter
    <3> QED
      BY <1>3, <1>5, <2>1, <3>2
  <2>2. CASE Writing(h)
    <3>1. call'[h].req = call[h].req
      BY <1>5, <2>2, WriteProgress
    <3>2. call[h].req.body \in Seq(Chunk) /\ call[h].refs \in Seq(Refs)
      BY <2>2, WriterFacts
    <3>3. \/ i > Len(call[h].refs) + 1
          \/ i = Len(call[h].refs) + 1 /\ call[h].at = "write" /\ p[1] \in call[h].todo
      <4>1. CASE call'[h] = call[h]
        BY <1>5, <4>1, SMTT(30)
      <4>2. ASSUME NEW d \in DN, WriteTo(h, d) \/ WriteFails(h, d)
            PROVE  \/ i > Len(call[h].refs) + 1
                   \/ i = Len(call[h].refs) + 1 /\ call[h].at = "write" /\ p[1] \in call[h].todo
        <5>1. call'[h].refs = call[h].refs /\ call'[h].at = call[h].at /\ call'[h].todo = call[h].todo \ {d}
          BY <4>2, WriteToEffect
        <5> QED
          BY <1>5, <5>1
      <4>3. CASE Grew(h)
        <5>1. PICK s, r : s = call[h].refs /\ r = Ref(Current(h), call[h].acks)
          OBVIOUS
        <5>2. call'[h].refs = Append(s, r) /\ s \in Seq(Refs) /\ r \in Refs
          BY <3>2, <4>3, <5>1 DEF Grew
        <5>3. Len(call'[h].refs) = Len(s) + 1 /\ Len(s) \in Nat
          BY <5>2, SMTT(30)
        <5>4. i \in Nat
          BY <1>5, <3>1, <3>2, SMTT(30)
        <5>5. i > Len(s) + 1
          BY <1>5, <5>3, <5>4, SMTT(30)
        <5> QED
          BY <5>1, <5>5, SMTT(30)
      <4> QED
        BY <1>5, <2>2, <4>1, <4>2, <4>3, WriteProgress
    <3> QED
      BY <1>2, <1>5, <2>2, <3>1, <3>3 DEF Blank
  <2> QED
    BY <1>5, <2>1, <2>2, WritingStep
<1> QED
  BY <1>4, <1>5 DEF Blank

LEMMA BlankNotLanded ==
  ASSUME ChunkShape, Steady, NEW p \in Blank
  PROVE  p[2] \notin Landed
BY UnsentChunk, FreshChunk DEF Blank

LEMMA AckedNotLanded ==
  ASSUME ChunkShape, Steady, NEW h \in Handler, NEW p \in Acked(h)
  PROVE  p[2] \notin Landed
<1>1. Writing(h) /\ (Refers(call[h].refs, p[1], p[2]) \/ (call[h].at = "write" /\ p[2] = Current(h)))
  BY DEF Acked
<1>2. CASE Refers(call[h].refs, p[1], p[2])
  <2>1. p[2] \in Ids(call[h].refs)
    BY <1>2 DEF Refers, Ids
  <2> QED
    BY <1>1, <2>1, FreshRefs
<1>3. CASE call[h].at = "write" /\ p[2] = Current(h)
  BY <1>1, <1>3, CurrentChunk, FreshChunk
<1> QED
  BY <1>1, <1>2, <1>3, SMTT(30)

\* The pair that a PUT to a data node is about.
LEMMA SentWasBlank ==
  ASSUME ChunkShape, Next, NEW h \in Handler, NEW d \in DN, WriteTo(h, d) \/ WriteFails(h, d), NEW p \in Pair,
         p[1] = d, p[2] = Current(h)
  PROVE  p \in Blank
<1>1. Writing(h) /\ call[h].at = "write" /\ d \in call[h].todo
  BY WriteToEffect
<1>2. /\ Len(call[h].refs) + 1 \in DOMAIN call[h].req.body
      /\ Current(h) = call[h].req.body[Len(call[h].refs) + 1]
  BY <1>1, CurrentChunk
<1> QED
  BY <1>1, <1>2 DEF Blank

LEMMA SentNotBlank ==
  ASSUME ChunkShape, Steady, IdLedger, Next, NEW h \in Handler, NEW d \in DN, WriteTo(h, d) \/ WriteFails(h, d),
         NEW p \in Blank', p[1] = d, p[2] = Current(h)
  PROVE  FALSE
<1>1. /\ Writing(h) /\ call[h].at = "write" /\ call'[h].req = call[h].req /\ call'[h].refs = call[h].refs
      /\ call'[h].todo = call[h].todo \ {d} /\ WriteShape(call[h])'
  BY WriteToEffect
<1>2. Writing(h)'
  BY <1>1 DEF WriteShape, Writing
<1>3. PICK r, j : r = call[h].req /\ j = Len(call[h].refs) + 1
  OBVIOUS
<1>4. r \in conf.requests /\ r \in used.requests /\ IsWrite(r) /\ j \in DOMAIN r.body /\ p[2] = r.body[j] /\ j \in Nat
  <2>1. Len(call[h].refs) \in Nat
    BY <1>1, CurrentChunk
  <2>2. j \in Nat
    BY <1>3, <2>1, SMTT(30)
  <2> QED
    BY <1>1, <1>3, <2>2, WriterFacts, CurrentChunk
<1>5. conf' = conf /\ used.requests \subseteq used'.requests
  BY UsedStep
<1>6. ASSUME NEW q \in conf'.requests \ used'.requests, IsWrite(q), NEW i \in DOMAIN q.body, q.body[i] = p[2]
      PROVE  FALSE
  <2>0. q \in conf.requests /\ q.body[i] = r.body[j]
    BY <1>4, <1>5, <1>6
  <2>1. q = r
    BY <1>4, <1>6, <2>0, OneBody
  <2> QED
    BY <1>4, <1>5, <2>1
<1>7. ASSUME NEW g \in Handler, Writing(g)', NEW i \in DOMAIN call'[g].req.body, call'[g].req.body[i] = p[2],
             \/ i > Len(call'[g].refs) + 1
             \/ i = Len(call'[g].refs) + 1 /\ call'[g].at = "write" /\ p[1] \in call'[g].todo
      PROVE  FALSE
  <2>3. IsWrite(call'[g].req) /\ call'[g].req \in conf.requests
    BY <1>7, WritesAfter
  <2>1. PICK q : q = call'[g].req
    OBVIOUS
  <2>2. q \in conf.requests /\ IsWrite(q) /\ i \in DOMAIN q.body /\ q.body[i] = r.body[j]
    BY <1>4, <1>7, <2>1, <2>3
  <2>7. q = r /\ i = j
    BY <1>4, <2>2, OneBody, SMTT(30)
  <2>4. call'[g].req = r /\ i = j
    BY <2>1, <2>7
  <2>5. g = h
    BY <1>1, <1>2, <1>3, <1>7, <2>4, WritersApart
  <2>6. Len(call'[g].refs) + 1 = j /\ p[1] \notin call'[g].todo
    BY <1>1, <1>3, <2>5
  <2> QED
    BY <1>4, <1>7, <2>4, <2>6, SMTT(30)
<1> QED
  BY <1>6, <1>7 DEF Blank

LEMMA AckedStep ==
  ASSUME ChunkShape, Next, NEW h \in Handler, NEW p \in Acked(h)'
  PROVE  \/ p \in Acked(h) /\ call[h].made \subseteq call'[h].made
         \/ p \in Pair /\ WriteTo(h, p[1]) /\ p[2] = Current(h)
<1>1. p \in Pair /\ Writing(h)'
  BY DEF Acked
<1>2. \/ Refers(call'[h].refs, p[1], p[2])
      \/ call'[h].at = "write" /\ p[1] \in call'[h].acks /\ p[2] = Current(h)'
  BY DEF Acked
<1>3. CASE call'[h].refs = <<>> /\ call'[h].acks = {}
  BY <1>2, <1>3, EmptyRefs DEF Refers
<1>4. ASSUME Writing(h), Refers(call[h].refs, p[1], p[2]) \/ (call[h].at = "write" /\ p[1] \in call[h].acks /\ p[2] = Current(h))
      PROVE  p \in Acked(h)
  BY <1>1, <1>4 DEF Acked
<1>5. CASE Writing(h)
  <2>1. CASE call'[h] = call[h]
    <3>1. Current(h)' = Current(h)
      BY <2>1 DEF Current
    <3> QED
      BY <1>2, <1>4, <1>5, <2>1, <3>1
  <2>2. ASSUME NEW d \in DN, WriteTo(h, d) \/ WriteFails(h, d)
        PROVE  \/ p \in Acked(h) /\ call[h].made \subseteq call'[h].made
               \/ WriteTo(h, p[1]) /\ p[2] = Current(h)
    <3>1. /\ call'[h].req = call[h].req /\ call'[h].refs = call[h].refs /\ call'[h].at = call[h].at
          /\ call[h].at = "write" /\ call[h].made \subseteq call'[h].made
          /\ \/ WriteTo(h, d) /\ call'[h].acks = call[h].acks \cup {d}
             \/ call'[h].acks = call[h].acks
      BY <2>2, WriteToEffect
    <3>2. Current(h)' = Current(h)
      BY <3>1 DEF Current
    <3> QED
      BY <1>2, <1>4, <1>5, <3>1, <3>2
  <2>3. CASE Grew(h)
    <3>1. PICK s, r : s = call[h].refs /\ r = Ref(Current(h), call[h].acks)
      OBVIOUS
    <3>2. /\ call'[h].refs = Append(s, r) /\ r \in Refs /\ call'[h].acks = {} /\ call[h].at = "write"
          /\ call'[h].made = call[h].made
      BY <2>3, <3>1 DEF Grew
    <3>3. s \in Seq(Refs)
      BY <1>5, <3>1, WriterFacts
    <3>4. r.id = Current(h) /\ r.replicas = call[h].acks
      BY <3>1, SMTT(30) DEF Ref
    <3>5. Refers(Append(s, r), p[1], p[2])
      BY <1>2, <3>2
    <3>6. Refers(s, p[1], p[2]) \/ (p[2] = r.id /\ p[1] \in r.replicas)
      <4>1. PICK i \in DOMAIN Append(s, r) : Append(s, r)[i].id = p[2] /\ p[1] \in Append(s, r)[i].replicas
        BY <3>5 DEF Refers
      <4>2. CASE i \in DOMAIN s
        <5>1. Append(s, r)[i] = s[i]
          BY <3>2, <3>3, <4>2, SMTT(30)
        <5> QED
          BY <4>1, <4>2, <5>1 DEF Refers
      <4>3. CASE i \notin DOMAIN s
        <5>1. Append(s, r)[i] = r
          BY <3>2, <3>3, <4>1, <4>3, AppendRef, SMTT(30)
        <5> QED
          BY <4>1, <5>1, SMTT(30)
      <4> QED
        BY <4>2, <4>3, SMTT(30)
    <3> QED
      BY <1>4, <1>5, <3>1, <3>2, <3>4, <3>6
  <2> QED
    BY <1>1, <1>5, <2>1, <2>2, <2>3, WriteProgress
<1> QED
  BY <1>1, <1>3, <1>5, WritingStep

LEMMA ListedStep ==
  ASSUME ChunkShape, Steady, IdLedger, Next, NEW p \in Listed'
  PROVE  p \in Needed
<1>1. p \in Pair
  BY DEF Listed
<1>2. PICK k \in Key : k \notin doomed'.keys /\ Refers(meta'[k], p[1], p[2])
  BY DEF Listed
<1>3. meta'[k] # <<>>
  BY <1>2, EmptyRefs DEF Refers
<1>5. k \notin doomed.keys /\ Refers(meta[k], p[1], p[2]) => p \in Needed
  BY <1>1 DEF Listed, Needed
<1>6. ASSUME NEW h \in Handler, PutInto(h, k) PROVE p \in Needed
  <2>1. p \in Acked(h)
    BY <1>1, <1>2, <1>6 DEF PutInto, Acked
  <2> QED
    BY <2>1 DEF Needed, AllAcked
<1>7. ASSUME NEW h \in Handler, NEW q \in conf.requests, CompletedInto(h, q, k) PROVE p \in Needed
  <2>1. q.upload \in Upload /\ \E n \in PartNos :
          <<q.upload, n>> \notin doomed.parts /\ Refers(uploads[q.upload].parts[n], p[1], p[2])
    BY <1>2, <1>7 DEF CompletedInto
  <2> QED
    BY <1>1, <2>1 DEF InParts, Needed
<1>8. ASSUME NEW m \in migs, MigratedIn(m, k), k \notin doomed.keys PROVE p \in Needed
  <2>1. PICK j \in DOMAIN meta'[k] : meta'[k][j].id = p[2] /\ p[1] \in meta'[k][j].replicas
    BY <1>2 DEF Refers
  <2>2. /\ m.key = k /\ m.idx \in DOMAIN meta[k] /\ j \in DOMAIN meta[k]
        /\ meta'[k][m.idx].id = meta[k][m.idx].id /\ meta'[k][m.idx].replicas = FinalReplicas(m)
        /\ j # m.idx => meta'[k][j] = meta[k][j]
    BY <1>8, <2>1 DEF MigratedIn
  <2>3. CASE j # m.idx
    BY <1>5, <1>8, <2>1, <2>2, <2>3 DEF Refers
  <2>4. CASE j = m.idx
    <3>1. MigShape(m)
      BY DEF ChunkShape, MigsShape
    <3>2. FinalReplicas(m) \subseteq m.actual \cup m.ok
      BY <3>1, FinalWide
    <3>3. meta[k][m.idx].id = m.chunk
      BY <2>2 DEF IdLedger
    <3>4. p[1] \in m.actual \cup m.ok /\ p[2] = m.chunk
      BY <2>1, <2>2, <2>4, <3>2, <3>3
    <3>5. p \in Moved
      BY <1>1, <1>8, <2>2, <3>4 DEF Moved
    <3> QED
      BY <3>5 DEF Needed
  <2> QED
    BY <2>3, <2>4, SMTT(30)
<1> QED
  BY <1>2, <1>3, <1>5, <1>6, <1>7, <1>8, MetaCases, KeyCleared

LEMMA InPartsStep ==
  ASSUME ChunkShape, Next, NEW p \in InParts'
  PROVE  p \in Needed
<1>1. p \in Pair
  BY DEF InParts
<1>2. PICK u \in Upload, n \in PartNos : <<u, n>> \notin doomed'.parts /\ Refers(uploads'[u].parts[n], p[1], p[2])
  BY DEF InParts
<1>3. CASE <<u, n>> \notin doomed.parts /\ uploads'[u].parts[n] = uploads[u].parts[n]
  <2>1. p \in InParts
    BY <1>1, <1>2, <1>3 DEF InParts
  <2> QED
    BY <2>1 DEF Needed
<1>4. uploads'[u].parts[n] # <<>>
  BY <1>2, EmptyRefs DEF Refers
<1>5. ASSUME NEW h \in Handler, StoredIn(h, u, n) PROVE p \in Needed
  <2>1. p \in Acked(h)
    BY <1>1, <1>2, <1>5 DEF StoredIn, Acked
  <2> QED
    BY <2>1 DEF Needed, AllAcked
<1> QED
  BY <1>2, <1>3, <1>4, <1>5, PartCases, PartCleared

LEMMA MovedStep ==
  ASSUME ChunkShape, Steady, IdLedger, Next, NEW p \in Moved'
  PROVE  p \in Needed \/ HasFile(p[1], p[2])'
<1>1. p \in Pair
  BY DEF Moved
<1>2. PICK m \in migs' : /\ m.key \notin doomed'.keys /\ m.idx \in DOMAIN meta'[m.key]
                         /\ p[1] \in m.actual \cup m.ok /\ p[2] = m.chunk
  BY DEF Moved
<1>3. meta'[m.key] # <<>>
  BY <1>2, EmptyRefs
<1>4. CASE Planned(m)
  <2>1. /\ doomed' = doomed /\ m.key \in Key /\ m.idx \in DOMAIN meta[m.key]
        /\ m.chunk = meta[m.key][m.idx].id /\ m.actual = meta[m.key][m.idx].replicas /\ m.ok = {}
    BY <1>4 DEF Planned, RebalanceStart
  <2>2. m.key \notin doomed.keys
    BY <1>2, <2>1
  <2>3. Refers(meta[m.key], p[1], p[2])
    BY <1>2, <2>1 DEF Refers
  <2>4. p \in Listed
    BY <1>1, <2>1, <2>2, <2>3 DEF Listed
  <2> QED
    BY <2>4 DEF Needed
<1>5. ASSUME NEW o \in migs, Continues(m, o) PROVE p \in Needed \/ HasFile(p[1], p[2])'
  <2>1. /\ m.key = o.key /\ m.idx = o.idx /\ m.chunk = o.chunk /\ m.actual = o.actual
        /\ \/ m.ok = o.ok
           \/ \E d \in DN : m.ok = o.ok \cup {d} /\ MigrateCopy(o, d) /\ file' = DnPut(file, d, o.chunk)
    BY <1>5 DEF Continues
  <2>2. o.key \in Key
    BY DEF ChunkShape, MigsShape, MigShape
  <2>3. o.key \notin doomed.keys
    BY <1>2, <2>1, <2>2, KeyCleared, NoPutOver
  <2>4. o.idx \in DOMAIN meta[o.key]
    <3>1. ASSUME NEW x \in migs, MigratedIn(x, o.key) PROVE DOMAIN meta'[o.key] = DOMAIN meta[o.key]
      BY <3>1 DEF MigratedIn
    <3>2. meta'[o.key] # <<>> /\ o.idx \in DOMAIN meta'[o.key]
      BY <1>2, <1>3, <2>1
    <3> QED
      BY <2>2, <3>1, <3>2, MetaCases, NoPutOver
  <2>5. CASE p[1] \in o.actual \cup o.ok
    <3>1. p \in Moved
      BY <1>1, <1>2, <2>1, <2>3, <2>4, <2>5 DEF Moved
    <3> QED
      BY <3>1 DEF Needed
  <2>6. ASSUME NEW d \in DN, p[1] = d, MigrateCopy(o, d), file' = DnPut(file, d, o.chunk)
        PROVE  HasFile(p[1], p[2])'
    <3>1. HasFile(d, o.chunk)'
      BY <2>6, CopyFile
    <3>2. p[1] = d /\ p[2] = o.chunk
      BY <1>2, <2>1, <2>6
    <3> QED
      BY <3>1, <3>2 DEF HasFile
  <2> QED
    BY <1>2, <2>1, <2>5, <2>6
<1> QED
  BY <1>4, <1>5, MigCases

LEMMA NeededStep ==
  ASSUME ChunkShape, Steady, IdLedger, Next, NEW p \in Needed'
  PROVE  p \in Pair /\ (p \in Needed \/ HasFile(p[1], p[2])')
<1>1. p \in Pair
  BY DEF Needed, AllAcked, Acked, Listed, InParts, Moved
<1>2. ASSUME NEW h \in Handler, p \in Acked(h)' PROVE p \in Needed \/ HasFile(p[1], p[2])'
  <2>1. CASE p \in Acked(h)
    BY <2>1 DEF Needed, AllAcked
  <2>2. CASE WriteTo(h, p[1]) /\ p[2] = Current(h)
    <3>1. p[1] \in DN
      BY <1>1, PairParts
    <3>2. file'[p[1]][Current(h)] # "none"
      BY <2>2, <3>1, WriteFile
    <3> QED
      BY <2>2, <3>2 DEF HasFile
  <2> QED
    BY <1>2, <2>1, <2>2, AckedStep
<1>3. CASE \E h \in Handler : p \in Acked(h)'
  <2>1. PICK h \in Handler : p \in Acked(h)'
    BY <1>3, SMTT(30)
  <2> QED
    BY <1>1, <1>2, <2>1
<1>4. (\E h \in Handler : p \in Acked(h)') \/ p \in Listed' \/ p \in InParts' \/ p \in Moved'
  BY DEF Needed, AllAcked
<1> QED
  BY <1>1, <1>3, <1>4, ListedStep, InPartsStep, MovedStep

=============================================================================
