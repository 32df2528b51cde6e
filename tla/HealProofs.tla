----------------------------- MODULE HealProofs -----------------------------
(***************************************************************************)
(* Proofs about the coordinator's audit and repair, for any deployment,    *)
(* any cap, any number of workers and any interleaving with PUT, DELETE,   *)
(* repair, rebalance, scrubbers and faults.                                *)
(*                                                                         *)
(* A run succeeds at most as often as its cap allows, and gives a chunk up *)
(* only if nobody can serve it.                                            *)
(***************************************************************************)
EXTENDS AntiEntropy, FiniteSetTheorems, TLAPS

\* The provers tried at a leaf that names none, in this order.
USE SMTT(30), ZenonT(30)

-----------------------------------------------------------------------------
(* Sets, sequences, smallest and largest elements.                         *)

\* The image of a finite set is finite.
LEMMA FiniteImage ==
  ASSUME NEW S, IsFiniteSet(S), NEW f, f = [x \in S |-> f[x]]
  PROVE  IsFiniteSet({f[x] : x \in S})
<1>1. f \in [S -> {f[x] : x \in S}]
  OBVIOUS
<1>2. \A y \in {f[x] : x \in S} : \E x \in S : f[x] = y
  OBVIOUS
<1>3. f \in Surjection(S, {f[x] : x \in S})
  BY <1>1, <1>2, Zenon DEF Surjection
<1> QED
  BY <1>3, FS_Surjection

LEMMA LargestOfTwo ==
  ASSUME NEW x \in Int
  PROVE  Max({0, x}) # 0 => x > 0
<1>1. \E m \in {0, x} : \A y \in {0, x} : m >= y
  OBVIOUS
<1>2. Max({0, x}) \in {0, x} /\ \A y \in {0, x} : Max({0, x}) >= y
  BY <1>1 DEF Max
<1> QED
  BY <1>2

LEMMA SmallestOfTwo ==
  ASSUME NEW x \in Int, NEW y \in Int
  PROVE  Min({x, y}) <= x /\ Min({x, y}) \in {x, y}
<1>1. \E m \in {x, y} : \A z \in {x, y} : m <= z
  OBVIOUS
<1> QED
  BY <1>1 DEF Min

LEMMA SmallestOfMany ==
  ASSUME NEW S \in SUBSET Nat, S # {}
  PROVE  Min(S) \in S
<1> DEFINE R == OpToRel(<, Nat)
<1>1. \A x, y \in Nat : x < y => <<x, y>> \in R
  BY DEF OpToRel
<1>2. IsWellFoundedOn(R, Nat)
  BY NatLessThanWellFounded, Zenon
<1> HIDE DEF R
<1>3. PICK m \in S : \A z \in S : ~(<<z, m>> \in R)
  BY <1>2, WFMin, Zenon
<1>4. \A z \in S : ~(z < m)
  BY <1>1, <1>3, Zenon
<1>5. \A z \in S : m <= z
  BY <1>4
<1> QED
  BY <1>5 DEF Min

LEMMA AddOne ==
  ASSUME NEW S, IsFiniteSet(S), NEW x
  PROVE  IsFiniteSet(S \cup {x}) /\ Cardinality(S \cup {x}) \in Nat /\ Cardinality(S) \in Nat
         /\ Cardinality(S \cup {x}) <= Cardinality(S) + 1
<1>1. IsFiniteSet(S \cup {x}) /\ Cardinality(S \cup {x}) = IF x \in S THEN Cardinality(S) ELSE Cardinality(S) + 1
  BY FS_AddElement, Zenon
<1>2. Cardinality(S \cup {x}) \in Nat /\ Cardinality(S) \in Nat
  BY <1>1, FS_CardinalityType, Zenon
<1> QED
  BY <1>1, <1>2

LEMMA DropOne ==
  ASSUME NEW S, IsFiniteSet(S), NEW x \in S
  PROVE  IsFiniteSet(S \ {x}) /\ Cardinality(S \ {x}) = Cardinality(S) - 1
         /\ Cardinality(S \ {x}) \in Nat /\ Cardinality(S) \in Nat
<1>1. IsFiniteSet(S \ {x}) /\ Cardinality(S \ {x}) = Cardinality(S) - 1
  BY FS_RemoveElement, Zenon
<1> QED
  BY <1>1, FS_CardinalityType, Zenon

LEMMA SwapOne ==
  ASSUME NEW S, IsFiniteSet(S), NEW x \in S, NEW y
  PROVE  LET T == (S \ {x}) \cup {y}
         IN  IsFiniteSet(T) /\ Cardinality(T) \in Nat /\ Cardinality(T) <= Cardinality(S)
<1> DEFINE D == S \ {x}
<1>1. IsFiniteSet(D) /\ Cardinality(D) = Cardinality(S) - 1 /\ Cardinality(S) \in Nat
  BY DropOne, Zenon
<1> HIDE DEF D
<1>2. IsFiniteSet(D \cup {y}) /\ Cardinality(D \cup {y}) \in Nat /\ Cardinality(D \cup {y}) <= Cardinality(D) + 1
  BY <1>1, AddOne, Zenon
<1>3. Cardinality(D \cup {y}) <= Cardinality(S)
  BY <1>1, <1>2
<1> QED
  BY <1>2, <1>3, Zenon DEF D

\* A sequence over a set is one over any set that holds its elements.
LEMMA SeqOver ==
  ASSUME NEW S, NEW s \in Seq(S), NEW T, \A i \in 1..Len(s) : s[i] \in T
  PROVE  s \in Seq(T)
<1>1. Len(s) \in Nat /\ s = [i \in 1..Len(s) |-> s[i]]
  OBVIOUS
<1> QED
  BY <1>1

LEMMA SeqOfRange ==
  ASSUME NEW S, NEW s \in Seq(S)
  PROVE  s \in Seq(Range(s))
<1>1. DOMAIN s = 1..Len(s)
  OBVIOUS
<1>2. \A i \in 1..Len(s) : s[i] \in Range(s)
  BY <1>1, Zenon DEF Range
<1> QED
  BY <1>2, SeqOver, Zenon

\* A sequence of whatever its elements are.
IsSeq(s) == s \in Seq(Range(s))

LEMMA EmptyIsSeq == IsSeq(<<>>) /\ DOMAIN <<>> = {}
BY DEF IsSeq

LEMMA AppendIsSeq ==
  ASSUME NEW s, IsSeq(s), NEW e
  PROVE  /\ IsSeq(Append(s, e))
         /\ DOMAIN Append(s, e) = DOMAIN s \cup {Len(s) + 1}
         /\ \A i \in DOMAIN s : Append(s, e)[i] = s[i]
         /\ Append(s, e)[Len(s) + 1] = e
<1> DEFINE T == Range(s) \cup {e}
<1>1. s \in Seq(T) /\ e \in T
  <2>1. s \in Seq(Range(s)) /\ DOMAIN s = 1..Len(s)
    BY DEF IsSeq
  <2>2. \A i \in 1..Len(s) : s[i] \in T
    BY <2>1, Zenon DEF Range
  <2> QED
    BY <2>1, <2>2, SeqOver, Zenon
<1> HIDE DEF T
<1>2. /\ Append(s, e) \in Seq(T) /\ Len(Append(s, e)) = Len(s) + 1 /\ Len(s) \in Nat
      /\ DOMAIN s = 1 .. Len(s) /\ DOMAIN Append(s, e) = 1 .. Len(s) + 1
      /\ \A i \in 1 .. Len(s) : Append(s, e)[i] = s[i]
      /\ Append(s, e)[Len(s) + 1] = e
  BY <1>1
<1>3. IsSeq(Append(s, e))
  BY <1>2, SeqOfRange, Zenon DEF IsSeq
<1> QED
  BY <1>2, <1>3

LEMMA SeqFinite == ASSUME NEW s, IsSeq(s) PROVE IsFiniteSet(DOMAIN s)
<1>1. DOMAIN s = 1 .. Len(s) /\ Len(s) \in Nat
  BY DEF IsSeq
<1> QED
  BY <1>1, FS_Interval

-----------------------------------------------------------------------------
(* The shape of the state, as far as the proofs need it.                   *)

Running == ae # AeIdle

\* Finitely many groups of finitely many references.
FiniteObject(o) ==
    /\ DOMAIN o = {"k", "groups"}
    /\ IsFiniteSet(DOMAIN o.groups)
    /\ \A s \in DOMAIN o.groups : IsFiniteSet(DOMAIN o.groups[s])

MetaShape == DOMAIN meta = Key /\ \A k \in Key : FiniteObject(meta[k])

PutShape ==
    put # PutIdle =>
        /\ put = [f \in {"at", "req", "groups", "addrs", "refs"} |-> put[f]]
        /\ IsSeq(put.groups) /\ IsSeq(put.refs)
        /\ \A s \in DOMAIN put.groups : IsSeq(put.groups[s])

FileShape == up \subseteq DN /\ file \in [DN -> [Chunk -> {"none", "good", "bad"}]]

\* A scrubber that is busy with a file knows which.
ScrubShape ==
    /\ corrupt \in [DN -> SUBSET Chunk] /\ saved \in [DN -> SUBSET Chunk]
    /\ scrub \in [DN -> [pos : 0..Len(ChunkOrder), at : {"visit", "healthy", "damaged", "done"}]]
    /\ \A d \in DN : scrub[d].at # "done" => scrub[d].pos # 0

RepFields == {"by", "key", "s", "k", "surv", "dead", "got", "at"}
RepShape == \A r \in reps : r = [f \in RepFields |-> r[f]]

AeFields == {"at", "exp", "left", "differ", "missing", "reached", "flagged", "objs", "jobs", "work",
             "succ", "lost", "quiet"}

RunShape ==
    Running =>
        /\ ae = [f \in AeFields |-> ae[f]]
        /\ ae.at \in {"audit", "collect", "copy", "ec"}
        /\ DOMAIN ae.missing = DN /\ DOMAIN ae.differ = DN /\ DOMAIN ae.flagged = DN
        /\ \A d \in DN : DOMAIN ae.missing[d] = Chunk /\ ae.flagged[d] \subseteq Chunk
        /\ \A k \in Key : FiniteObject(ae.objs[k])

\* UpdateShardReplicas replaces a list and nothing else.
LEMMA UpdateShape ==
  ASSUME MetaShape, NEW k, NEW s, NEW i, NEW list, UpdateShardReplicas(k, s, i, list)
  PROVE  MetaShape'
<1>1. DOMAIN meta' = Key /\ DOMAIN meta = Key
  BY DEF MetaShape, UpdateShardReplicas
<1>2. ASSUME NEW x \in Key PROVE FiniteObject(meta'[x])
  <2>0. FiniteObject(meta[x])
    BY DEF MetaShape
  <2>1. CASE x # k
    BY <1>1, <2>0, <2>1 DEF UpdateShardReplicas
  <2>2. CASE x = k
    <3>1. meta' = [meta EXCEPT ![k].groups[s][i].replicas = list] /\ DOMAIN meta[k] = {"k", "groups"}
      BY <2>0, <2>2 DEF UpdateShardReplicas, FiniteObject
    <3>2. /\ DOMAIN meta'[x] = DOMAIN meta[x]
          /\ DOMAIN (meta'[x].groups) = DOMAIN (meta[x].groups)
          /\ \A t \in DOMAIN (meta[x].groups) : DOMAIN (meta'[x].groups[t]) = DOMAIN (meta[x].groups[t])
      BY <1>1, <2>2, <3>1
    <3> QED
      BY <2>0, <3>2, Zenon DEF FiniteObject
  <2> QED
    BY <2>1, <2>2
<1> QED
  BY <1>1, <1>2 DEF MetaShape

LEMMA NoObjectFinite == FiniteObject(NoObject)
<1>1. NoObject = [k |-> 0, groups |-> <<>>]
  BY DEF NoObject, Object
<1>2. DOMAIN <<>> = {} /\ IsFiniteSet({})
  BY EmptyIsSeq, FS_EmptySet
<1> QED
  BY <1>1, <1>2 DEF FiniteObject

LEMMA ReplaceShape ==
  ASSUME MetaShape, NEW k, NEW o, FiniteObject(o), meta' = [meta EXCEPT ![k] = o]
  PROVE  MetaShape'
BY DEF MetaShape

\* The steps of a stripe's repair.
LEMMA RepStepEffect ==
  ASSUME RepShape, MetaShape, FileShape, NEW r \in reps, RepStep(r)
  PROVE  /\ MetaShape'
         /\ UNCHANGED <<up, nodes, put, conf>>
         /\ \E n : n = [f \in RepFields |-> n[f]] /\ n.by = r.by /\ Becomes(r, n)
<1>r. r = [f \in RepFields |-> r[f]]
  BY DEF RepShape
<1>e. \A a : /\ [r EXCEPT !.at = a] = [f \in RepFields |-> [r EXCEPT !.at = a][f]]
             /\ [r EXCEPT !.at = a].by = r.by
  BY <1>r DEF RepFields
<1>g. \A a, b : /\ [r EXCEPT !.got = b, !.at = a] = [f \in RepFields |-> [r EXCEPT !.got = b, !.at = a][f]]
                /\ [r EXCEPT !.got = b, !.at = a].by = r.by
  BY <1>r, Zenon DEF RepFields
<1>d. \A a, b : /\ [r EXCEPT !.dead = b, !.at = a] = [f \in RepFields |-> [r EXCEPT !.dead = b, !.at = a][f]]
                /\ [r EXCEPT !.dead = b, !.at = a].by = r.by
  BY <1>r, Zenon DEF RepFields
<1>1. CASE RepBegin(r)
  <2>1. UNCHANGED <<meta, up, nodes, put, conf>> /\ \E a : Becomes(r, [r EXCEPT !.at = a])
    BY <1>1, Zenon DEF RepBegin
  <2> QED
    BY <1>e, <2>1, Zenon DEF MetaShape
<1>2. CASE RepRead(r)
  <2>1. /\ UNCHANGED <<meta, up, nodes, put, conf>>
        /\ \/ \E a : Becomes(r, [r EXCEPT !.at = a])
           \/ \E a, b : Becomes(r, [r EXCEPT !.got = b, !.at = a])
    BY <1>2, Zenon DEF RepRead, Fails
  <2> QED
    BY <1>e, <1>g, <2>1, Zenon DEF MetaShape
<1>3. CASE RepPut(r)
  <2>1. UNCHANGED <<meta, up, nodes, put, conf>>
    BY <1>3, Zenon DEF RepPut
  <2>2. \E a : Becomes(r, [r EXCEPT !.at = a])
    BY <1>3, Zenon DEF RepPut, Fails
  <2> QED
    BY <1>e, <2>1, <2>2, Zenon DEF MetaShape
<1>4. CASE RepUpdate(r)
  <2>1. MetaShape'
    <3>1. meta' = meta \/ \E d : UpdateShardReplicas(r.key, r.s, d.i, <<d.new>>)
      BY <1>4, Zenon DEF RepUpdate
    <3> QED
      BY <3>1, UpdateShape, Zenon DEF MetaShape
  <2>2. UNCHANGED <<up, nodes, put, conf>>
    BY <1>4, Zenon DEF RepUpdate
  <2>3. \/ \E a : Becomes(r, [r EXCEPT !.at = a])
        \/ \E a, b : Becomes(r, [r EXCEPT !.dead = b, !.at = a])
    BY <1>4, Zenon DEF RepUpdate, Fails
  <2> QED
    BY <1>d, <1>e, <2>1, <2>2, <2>3, Zenon
<1> QED
  BY <1>1, <1>2, <1>3, <1>4 DEF RepStep

\* What the activities of Stripes do to the metadata.
LEMMA StripesMeta ==
  ASSUME MetaShape, PutShape, RepShape, FileShape, StripesNext
  PROVE  MetaShape'
<1>0. ASSUME meta' = meta PROVE MetaShape'
  BY <1>0 DEF MetaShape
<1>1. ASSUME PutCommit PROVE MetaShape'
  <2>1. put # PutIdle
    BY <1>1 DEF PutCommit, PutIdle
  <2>2. /\ IsFiniteSet(DOMAIN put.groups)
        /\ \A s \in DOMAIN put.groups : IsFiniteSet(DOMAIN put.groups[s])
    BY <2>1, SeqFinite, Zenon DEF PutShape
  <2>3. FiniteObject(Object(put.req.k, put.groups))
    BY <2>2 DEF FiniteObject, Object
  <2> QED
    BY <1>0, <1>1, <2>3, ReplaceShape, Zenon DEF PutCommit
<1>2. ASSUME DelMeta PROVE MetaShape'
  BY <1>0, <1>2, NoObjectFinite, ReplaceShape, Zenon DEF DelMeta
<1>3. ASSUME NEW r \in reps, RepStep(r) PROVE MetaShape'
  BY <1>3, RepStepEffect, Zenon
<1>4. ASSUME NEW m \in migs, MigUpdate(m) PROVE MetaShape'
  BY <1>0, <1>4, UpdateShape, Zenon DEF MigUpdate
<1> QED
  BY <1>0, <1>1, <1>2, <1>3, <1>4, Zenon
  DEF StripesNext, PutStart, PutStep, PutPlace, PutShard, DelStart, DelStep, DelChunk, RepairStart, RepCount,
      Rebalance, RebalanceStart, MigRead, MigPut, UpdateNodes, Decay, NodeDown, NodeUp, EdgeDies

LEMMA StripesPut ==
  ASSUME PutShape, StripesNext, MetaShape, RepShape, FileShape
  PROVE  PutShape'
<1>0. ASSUME put' = put \/ put' = PutIdle PROVE PutShape'
  BY <1>0 DEF PutShape
<1>1. ASSUME NEW q, PutStart(q) PROVE PutShape'
  <2>1. put' = [at |-> "place", req |-> q, groups |-> <<>>, addrs |-> <<>>, refs |-> <<>>]
    BY <1>1 DEF PutStart
  <2>2. /\ put' = [f \in {"at", "req", "groups", "addrs", "refs"} |-> put'[f]]
        /\ put'.groups = <<>> /\ put'.refs = <<>>
    BY <2>1
  <2> QED
    BY <2>2, EmptyIsSeq, Zenon DEF PutShape
<1>2. ASSUME PutPlace PROVE PutShape'
  <2>1. put # PutIdle
    BY <1>2 DEF PutPlace, PutIdle
  <2>2. put' = PutIdle \/ \E a : put' = [put EXCEPT !.at = "write", !.addrs = a]
    BY <1>2, Zenon DEF PutPlace
  <2>3. ASSUME NEW a, put' = [put EXCEPT !.at = "write", !.addrs = a] PROVE PutShape'
    <3>1. put = [f \in {"at", "req", "groups", "addrs", "refs"} |-> put[f]]
      BY <2>1 DEF PutShape
    <3>2. /\ put' = [f \in {"at", "req", "groups", "addrs", "refs"} |-> put'[f]]
          /\ put'.groups = put.groups /\ put'.refs = put.refs
      BY <2>3, <3>1, Zenon
    <3> QED
      BY <2>1, <3>2, Zenon DEF PutShape
  <2> QED
    BY <1>0, <2>2, <2>3, Zenon
<1>3. ASSUME PutShard PROVE PutShape'
  <2> DEFINE i == Len(put.refs) + 1
             refs == Append(put.refs, Ref(Current[i], <<put.addrs[i]>>))
             groups == Append(put.groups, refs)
  <2>1. put # PutIdle
    BY <1>3 DEF PutShard, PutIdle
  <2>2. \/ put' = PutIdle
        \/ put' = [put EXCEPT !.refs = refs]
        \/ \E a : put' = [put EXCEPT !.refs = <<>>, !.groups = groups, !.at = a]
    BY <1>3, Zenon DEF PutShard
  <2>3. /\ IsSeq(put.groups) /\ IsSeq(put.refs)
        /\ \A s \in DOMAIN put.groups : IsSeq(put.groups[s])
        /\ put = [f \in {"at", "req", "groups", "addrs", "refs"} |-> put[f]]
    BY <2>1 DEF PutShape
  <2>4. IsSeq(refs)
    BY <2>3, AppendIsSeq, Zenon
  <2> HIDE DEF refs
  <2>5. IsSeq(groups) /\ \A s \in DOMAIN groups : IsSeq(groups[s])
    <3>1. /\ IsSeq(groups) /\ DOMAIN groups = DOMAIN put.groups \cup {Len(put.groups) + 1}
          /\ \A s \in DOMAIN put.groups : groups[s] = put.groups[s]
          /\ groups[Len(put.groups) + 1] = refs
      BY <2>3, AppendIsSeq
    <3> QED
      BY <2>3, <2>4, <3>1, Zenon
  <2> HIDE DEF groups
  <2>6. ASSUME put' = [put EXCEPT !.refs = refs] PROVE PutShape'
    <3>1. /\ put' = [f \in {"at", "req", "groups", "addrs", "refs"} |-> put'[f]]
          /\ put'.groups = put.groups /\ put'.refs = refs
      BY <2>3, <2>6
    <3> QED
      BY <2>3, <2>4, <3>1, Zenon DEF PutShape
  <2>7. ASSUME NEW a, put' = [put EXCEPT !.refs = <<>>, !.groups = groups, !.at = a] PROVE PutShape'
    <3>1. /\ put' = [f \in {"at", "req", "groups", "addrs", "refs"} |-> put'[f]]
          /\ put'.groups = groups /\ put'.refs = <<>>
      BY <2>3, <2>7, Zenon
    <3> QED
      BY <2>5, <3>1, EmptyIsSeq, Zenon DEF PutShape
  <2> QED
    BY <1>0, <2>2, <2>6, <2>7, Zenon
<1>4. ASSUME NEW r \in reps, RepStep(r) PROVE PutShape'
  BY <1>0, <1>4, RepStepEffect, Zenon
<1> QED
  BY <1>0, <1>1, <1>2, <1>3, <1>4, Zenon
  DEF StripesNext, PutStep, PutCommit, DelStart, DelStep, DelMeta, DelChunk, RepairStart, RepCount,
      Rebalance, RebalanceStart, MigRead, MigPut, MigUpdate, UpdateNodes, Decay, NodeDown, NodeUp, EdgeDies


Files == [DN -> [Chunk -> {"none", "good", "bad"}]]

\* Writing one file.
LEMMA WriteFile ==
  ASSUME NEW f \in Files, NEW d, NEW c, NEW x \in {"none", "good", "bad"}
  PROVE  [f EXCEPT ![d][c] = x] \in Files
BY Zenon DEF Files

LEMMA DnPutFiles ==
  ASSUME NEW f \in Files, NEW d, NEW c, NEW force
  PROVE  /\ DnPut(f, d, c, force) \in Files
         /\ \A e \in DN, b \in Chunk : DnPut(f, d, c, force)[e][b] = f[e][b] \/ (e = d /\ b = c)
<1>1. CASE d \in DN /\ c \in Chunk
  <2> DEFINE x == IF f[d][c] = "none" \/ force THEN "good" ELSE f[d][c]
  <2>1. DnPut(f, d, c, force) = [f EXCEPT ![d][c] = x]
    BY Zenon DEF DnPut
  <2>2. x \in {"none", "good", "bad"}
    BY <1>1 DEF Files
  <2> HIDE DEF x
  <2>3. [f EXCEPT ![d][c] = x] \in Files
    BY <2>2, WriteFile, Zenon
  <2>4. \A e \in DN, b \in Chunk : [f EXCEPT ![d][c] = x][e][b] = f[e][b] \/ (e = d /\ b = c)
    BY <1>1, <2>2 DEF Files
  <2> QED
    BY <2>1, <2>3, <2>4, Zenon
<1>2. CASE ~(d \in DN /\ c \in Chunk)
  <2>1. DnPut(f, d, c, force) = f
    BY <1>2 DEF DnPut, Files
  <2> QED
    BY <2>1, Zenon
<1> QED
  BY <1>1, <1>2

LEMMA PutCalls ==
  ASSUME file \in Files, NEW d, NEW c, NEW force, Stored(d, c, force) \/ NotStored(d, c, force)
  PROVE  file' \in Files /\ \A e \in DN, b \in Chunk : file'[e][b] = file[e][b] \/ (e = d /\ b = c)
<1>1. file' = file \/ file' = DnPut(file, d, c, force)
  BY DEF Stored, NotStored
<1> QED
  BY <1>1, DnPutFiles

LEMMA StripesFile ==
  ASSUME FileShape, StripesNext
  PROVE  FileShape'
<1>0. file \in Files /\ (FileShape' <=> (up' \subseteq DN /\ file' \in Files)) /\ up \subseteq DN
  BY DEF FileShape, Files
<1>1. up' \subseteq DN
  <2>1. up' = up \/ \E d \in DN : NodeDown(d) \/ NodeUp(d)
    BY Zenon
    DEF StripesNext, PutStart, PutStep, PutPlace, PutShard, PutCommit, DelStart, DelStep, DelMeta, DelChunk,
        RepairStart, RepStep, RepBegin, RepRead, RepPut, RepUpdate, RepCount, Rebalance, RebalanceStart,
        MigRead, MigPut, MigUpdate, UpdateNodes, Decay, EdgeDies
  <2> QED
    BY <1>0, <2>1 DEF NodeDown, NodeUp
<1>2. file' \in Files
  <2>1. \/ UNCHANGED file
        \/ \E d, c, force : Stored(d, c, force) \/ NotStored(d, c, force)
        \/ \E p \in DN \X Chunk : DelChunk(p)
        \/ \E d \in DN, c \in Chunk, to \in {"none", "bad"} : Decay(d, c, to)
    BY Zenon
    DEF StripesNext, PutStart, PutStep, PutPlace, PutShard, PutCommit, DelStart, DelStep, DelMeta,
        RepairStart, RepStep, RepBegin, RepRead, RepPut, RepUpdate, RepCount, Rebalance, RebalanceStart,
        MigRead, MigPut, MigUpdate, UpdateNodes, NodeDown, NodeUp, EdgeDies
  <2>2. ASSUME NEW p \in DN \X Chunk, DelChunk(p) PROVE file' \in Files
    <3> DEFINE d == p[1]
               c == p[2]
    <3>1. file' = file \/ file' = [file EXCEPT ![d][c] = "none"]
      BY <2>2, Zenon DEF DelChunk
    <3> HIDE DEF d, c
    <3>2. [file EXCEPT ![d][c] = "none"] \in Files
      BY <1>0, WriteFile, Zenon
    <3> QED
      BY <1>0, <3>1, <3>2, Zenon
  <2>3. ASSUME NEW d, NEW c, NEW to \in {"none", "bad"}, Decay(d, c, to) PROVE file' \in Files
    <3>1. file' = [file EXCEPT ![d][c] = to]
      BY <2>3 DEF Decay
    <3> QED
      BY <1>0, <3>1, WriteFile, Zenon
  <2> QED
    BY <1>0, <2>1, <2>2, <2>3, PutCalls, Zenon
<1> QED
  BY <1>0, <1>1, <1>2

\* The stripe repairs the audit asked for.
AuditReps == {r \in reps : r.by = "audit"}

\* A step of a repair keeps its owner.
LEMMA BecomesReps ==
  ASSUME RepShape, NEW r \in reps, NEW n, n = [f \in RepFields |-> n[f]], n.by = r.by, Becomes(r, n)
  PROVE  /\ RepShape'
         /\ r.by = "operator" => AuditReps' = AuditReps
         /\ r.by = "audit" => AuditReps' = (AuditReps \ {r}) \cup {n} /\ r \in AuditReps
<1>1. RepShape'
  BY Zenon DEF RepShape, Becomes
<1>2. r.by = "operator" => AuditReps' = AuditReps
  BY DEF AuditReps, Becomes
<1>3. r.by = "audit" => AuditReps' = (AuditReps \ {r}) \cup {n} /\ r \in AuditReps
  BY DEF AuditReps, Becomes
<1> QED
  BY <1>1, <1>2, <1>3

\* The activities of Stripes leave the repairs of the audit alone.
LEMMA StripesReps ==
  ASSUME RepShape, MetaShape, FileShape, StripesNext
  PROVE  RepShape' /\ AuditReps' = AuditReps
<1> DEFINE Goal == RepShape' /\ AuditReps' = AuditReps
<1>0. ASSUME UNCHANGED reps PROVE Goal
  BY <1>0 DEF RepShape, AuditReps
<1>1. ASSUME RepairStart PROVE Goal
  <2>1. PICK P \in SUBSET ComputePlan : reps' = reps \cup P
    BY <1>1, Zenon DEF RepairStart
  <2>2. ASSUME NEW r \in ComputePlan PROVE r = [f \in RepFields |-> r[f]] /\ r.by = "operator"
    <3>1. \E k, s, need, surv, dead : r = StripeRepair("operator", k, s, need, surv, dead)
      <4>1. \E k, s : r = Rehome(k, s)
        BY <2>2, Zenon DEF ComputePlan
      <4> QED
        BY <4>1, Zenon DEF Rehome
    <3> QED
      BY <3>1 DEF StripeRepair, RepFields
  <2> HIDE DEF Goal
  <2>3. RepShape'
    BY <2>1, <2>2, Zenon DEF RepShape
  <2>4. AuditReps' = AuditReps
    BY <2>1, <2>2 DEF AuditReps
  <2> QED
    BY <2>3, <2>4 DEF Goal
<1>2. ASSUME NEW r \in reps, r.by = "operator", RepStep(r) PROVE Goal
  BY <1>2, RepStepEffect, BecomesReps, Zenon
<1>3. ASSUME NEW r \in reps, r.by = "operator", RepCount(r) PROVE Goal
  BY <1>3 DEF RepCount, RepShape, AuditReps
<1>4. ASSUME EdgeDies PROVE Goal
  <2>1. reps' = {r \in reps : r.by # "operator"}
    BY <1>4 DEF EdgeDies
  <2> QED
    BY <2>1 DEF RepShape, AuditReps
<1> HIDE DEF Goal
<1>5. Goal
  BY <1>0, <1>1, <1>2, <1>3, <1>4, Zenon
  DEF StripesNext, PutStart, PutStep, PutPlace, PutShard, PutCommit, DelStart, DelStep, DelMeta, DelChunk,
      Rebalance, RebalanceStart, MigRead, MigPut, MigUpdate, UpdateNodes, Decay, NodeDown, NodeUp
<1> QED
  BY <1>5 DEF Goal


-----------------------------------------------------------------------------
(* The scrubbers.                                                          *)

Positioned(s) == s \in [pos : 0..Len(ChunkOrder), at : {"visit", "healthy", "damaged", "done"}]
                 /\ (s.at # "done" => s.pos # 0)

LEMMA OrderFacts ==
  /\ DOMAIN ChunkOrder = 1..Len(ChunkOrder) /\ Len(ChunkOrder) \in Nat
  /\ \A n \in 1..Len(ChunkOrder) : ChunkOrder[n] \in Chunk
<1>1. ChunkOrder \in Seq(Chunk)
  BY ChunkOrderAssumption
<1>2. DOMAIN ChunkOrder = 1..Len(ChunkOrder) /\ Len(ChunkOrder) \in Nat
  BY <1>1
<1>3. \A n \in 1..Len(ChunkOrder) : ChunkOrder[n] \in Chunk
  BY <1>1
<1> QED
  BY <1>2, <1>3

LEMMA NextFilePosition ==
  ASSUME NEW d, NEW pos
  PROVE  NextFile(d, pos) \in 0..Len(ChunkOrder)
<1> DEFINE later == {n \in DOMAIN ChunkOrder : n > pos /\ file[d][ChunkOrder[n]] # "none"}
<1>1. NextFile(d, pos) = IF later = {} THEN 0 ELSE Min(later)
  BY Zenon DEF NextFile
<1>2. later \subseteq 1..Len(ChunkOrder) /\ Len(ChunkOrder) \in Nat
  BY OrderFacts
<1> HIDE DEF later
<1>3. later # {} => Min(later) \in later
  <2>1. later \in SUBSET Nat
    BY <1>2
  <2> QED
    BY <2>1, SmallestOfMany
<1>4. later = {} \/ Min(later) \in 1..Len(ChunkOrder)
  BY <1>2, <1>3, Zenon
<1>5. NextFile(d, pos) = 0 \/ NextFile(d, pos) \in 1..Len(ChunkOrder)
  BY <1>1, <1>4, Zenon
<1> QED
  BY <1>2, <1>5

LEMMA PositionedStep ==
  ASSUME NEW d \in DN, NEW s, Positioned(s), ScrubShape, scrub' = [scrub EXCEPT ![d] = s],
         corrupt' \in [DN -> SUBSET Chunk], saved' \in [DN -> SUBSET Chunk]
  PROVE  ScrubShape'
<1>1. scrub' \in [DN -> [pos : 0..Len(ChunkOrder), at : {"visit", "healthy", "damaged", "done"}]]
  BY DEF ScrubShape, Positioned
<1>2. ASSUME NEW e \in DN, scrub'[e].at # "done" PROVE scrub'[e].pos # 0
  <2>1. scrub'[e] = IF e = d THEN s ELSE scrub[e]
    BY DEF ScrubShape
  <2> QED
    BY <1>2, <2>1, Zenon DEF ScrubShape, Positioned
<1> QED
  BY <1>1, <1>2, Zenon DEF ScrubShape

\* The scrubber of a node.
LEMMA ScrubStep ==
  ASSUME ScrubShape, NEW d \in DN, Scrub(d) \/ DnRestart(d)
  PROVE  ScrubShape'
<1>s. /\ corrupt \in [DN -> SUBSET Chunk] /\ saved \in [DN -> SUBSET Chunk]
      /\ scrub[d] \in [pos : 0..Len(ChunkOrder), at : {"visit", "healthy", "damaged", "done"}]
      /\ scrub[d].at # "done" => scrub[d].pos # 0
      /\ scrub \in [DN -> [pos : 0..Len(ChunkOrder), at : {"visit", "healthy", "damaged", "done"}]]
  BY DEF ScrubShape
<1>0. Positioned(ScanStart)
  BY OrderFacts DEF Positioned, ScanStart
<1>1. CASE ScrubVisit(d)
  <2> DEFINE n == NextFile(d, scrub[d].pos)
             s == IF n = 0 THEN ScanStart ELSE [pos |-> n, at |-> "visit"]
  <2>1. scrub' = [scrub EXCEPT ![d] = s] /\ UNCHANGED <<corrupt, saved>>
    BY <1>1, Zenon DEF ScrubVisit
  <2>2. n \in 0..Len(ChunkOrder)
    BY NextFilePosition
  <2> HIDE DEF n
  <2>3. Positioned(s)
    BY <1>0, <2>2 DEF Positioned
  <2> QED
    BY <1>s, <2>1, <2>3, PositionedStep, Zenon
<1>2. CASE ScrubRead(d)
  <2>1. PICK a \in {"healthy", "damaged"} : scrub' = [scrub EXCEPT ![d].at = a]
    BY <1>2, Zenon DEF ScrubRead
  <2>2. scrub' = [scrub EXCEPT ![d] = [scrub[d] EXCEPT !.at = a]] /\ UNCHANGED <<corrupt, saved>>
    BY <1>2, <2>1, Zenon DEF ScrubRead
  <2>3. Positioned([scrub[d] EXCEPT !.at = a])
    BY <1>2, <1>s DEF Positioned, ScrubRead
  <2> QED
    BY <1>s, <2>2, <2>3, PositionedStep, Zenon
<1>3. CASE ScrubMark(d)
  <2> DEFINE c == ChunkOrder[scrub[d].pos]
             t == IF scrub[d].at = "damaged" THEN corrupt[d] \cup {c} ELSE corrupt[d] \ {c}
  <2>1. corrupt' = [corrupt EXCEPT ![d] = t]
    BY <1>3, Zenon DEF ScrubMark
  <2>2. c \in Chunk
    BY <1>3, <1>s, OrderFacts DEF ScrubMark
  <2>3. t \in SUBSET Chunk
    BY <1>s, <2>2
  <2> HIDE DEF t
  <2>4. corrupt' \in [DN -> SUBSET Chunk] /\ corrupt'[d] \in SUBSET Chunk
    BY <1>s, <2>1, <2>3
  <2>5. saved' = saved \/ saved' = [saved EXCEPT ![d] = corrupt'[d]]
    BY <1>3, Zenon DEF ScrubMark, persistCorruptSet
  <2>6. saved' \in [DN -> SUBSET Chunk]
    BY <1>s, <2>4, <2>5
  <2>7. scrub' = [scrub EXCEPT ![d] = [scrub[d] EXCEPT !.at = "done"]]
    BY <1>3, Zenon DEF ScrubMark
  <2>8. Positioned([scrub[d] EXCEPT !.at = "done"])
    BY <1>s DEF Positioned
  <2> QED
    BY <2>4, <2>6, <2>7, <2>8, PositionedStep, Zenon
<1>4. CASE DnRestart(d)
  <2>1. /\ corrupt' = [corrupt EXCEPT ![d] = saved[d]] /\ saved' = saved
        /\ scrub' = [scrub EXCEPT ![d] = ScanStart]
    BY <1>4, Zenon DEF DnRestart
  <2>2. corrupt' \in [DN -> SUBSET Chunk]
    BY <1>s, <2>1
  <2> QED
    BY <1>0, <1>s, <2>1, <2>2, PositionedStep, Zenon
<1> QED
  BY <1>1, <1>2, <1>3, <1>4 DEF Scrub


-----------------------------------------------------------------------------
(* The steps of a run, field by field.                                     *)

\* The run goes on, and of its fields only those in F change.
Changes(F) ==
    /\ Running /\ ae' = [f \in AeFields |-> ae'[f]]
    /\ \A f \in AeFields \ F : ae'[f] = ae[f]

LEMMA AtRunning == ae.at # "idle" => Running
BY DEF Running, AeIdle

LEMMA DisturbedEffect ==
  ASSUME RunShape, Disturbed
  PROVE  /\ Running' <=> Running
         /\ Running => Changes({"quiet"}) /\ ~ae'.quiet
<1>1. CASE ~Running
  BY <1>1 DEF Disturbed, Running
<1>2. CASE Running
  <2>1. ae' = [ae EXCEPT !.quiet = FALSE] /\ ae = [f \in AeFields |-> ae[f]]
        /\ ae.at \in {"audit", "collect", "copy", "ec"}
    BY <1>2 DEF Disturbed, Running, RunShape
  <2>2. ae' = [f \in AeFields |-> ae'[f]] /\ (\A f \in AeFields \ {"quiet"} : ae'[f] = ae[f]) /\ ae'.at = ae.at
    BY <2>1, Zenon DEF AeFields
  <2>3. ae'.quiet = FALSE
    BY <2>1 DEF AeFields
  <2>4. Running'
    BY <2>1, <2>2, AtRunning DEF Running, AeIdle
  <2> QED
    BY <1>2, <2>2, <2>3, <2>4 DEF Changes
<1> QED
  BY <1>1, <1>2

LEMMA StartEffect ==
  ASSUME AeStart
  PROVE  /\ ~Running /\ UNCHANGED <<stripeVars, corrupt, saved, scrub>>
         /\ ae' = [f \in AeFields |-> ae'[f]] /\ ae'.at = "audit"
         /\ ae'.exp = expectedChunksByDN /\ ae'.left = nodes /\ ae'.differ = NoFlags
         /\ ae'.missing = NoIds /\ ae'.reached = {} /\ ae'.flagged = NoFlags /\ ae'.objs = NoObjects
         /\ ae'.jobs = {} /\ ae'.work = {} /\ ae'.succ = 0 /\ ae'.lost = {}
<1>1. ~Running /\ UNCHANGED <<stripeVars, corrupt, saved, scrub>>
  BY DEF AeStart, Running
<1> DEFINE e == expectedChunksByDN
<1>2. ae' = [at |-> "audit", exp |-> e, left |-> nodes, differ |-> NoFlags,
             missing |-> NoIds, reached |-> {}, flagged |-> NoFlags,
             objs |-> NoObjects, jobs |-> {}, work |-> {}, succ |-> 0, lost |-> {},
             quiet |-> TRUE]
  BY DEF AeStart
<1> HIDE DEF e
<1>3. ae' = [f \in AeFields |-> ae'[f]] /\ ae'.at = "audit"
         /\ ae'.exp = e /\ ae'.left = nodes /\ ae'.differ = NoFlags
         /\ ae'.missing = NoIds /\ ae'.reached = {} /\ ae'.flagged = NoFlags /\ ae'.objs = NoObjects
         /\ ae'.jobs = {} /\ ae'.work = {} /\ ae'.succ = 0 /\ ae'.lost = {}
  BY <1>2 DEF AeFields
<1> QED
  BY <1>1, <1>3 DEF e

\* What a run's step that reads leaves alone.
runFrame == <<meta, file, up, nodes, put, del, reps, migs, conf, corrupt, saved, scrub>>

LEMMA RootEffect ==
  ASSUME RunShape, NEW d, AuditRoot(d)
  PROVE  /\ Changes({"left", "reached", "differ", "quiet"}) /\ ae.at = "audit" /\ UNCHANGED runFrame
         /\ DOMAIN ae'.differ = DOMAIN ae.differ
         /\ ae'.left = ae.left \ {d}
         /\ \/ ae'.reached = ae.reached \cup {d} /\ (ae'.quiet => ae.quiet)
            \/ ae'.reached = ae.reached /\ (ae'.quiet => ae.quiet /\ d \notin up)
<1>1. ae.at = "audit" /\ UNCHANGED runFrame /\ Running
  BY AtRunning DEF AuditRoot, runFrame
<1>2. ae = [f \in AeFields |-> ae[f]]
  BY <1>1 DEF RunShape
<1> DEFINE b == Differing(d)
           q == ae.quiet /\ d \notin up
<1>3. \/ ae' = [ae EXCEPT !.left = ae.left \ {d}, !.reached = ae.reached \cup {d}, !.differ[d] = b]
      \/ ae' = [ae EXCEPT !.left = ae.left \ {d}, !.quiet = q]
  BY Zenon DEF AuditRoot
<1> HIDE DEF b
<1>4. CASE ae' = [ae EXCEPT !.left = ae.left \ {d}, !.reached = ae.reached \cup {d}, !.differ[d] = b]
  <2>1. /\ ae' = [f \in AeFields |-> ae'[f]]
        /\ \A f \in AeFields \ {"left", "reached", "differ", "quiet"} : ae'[f] = ae[f]
        /\ DOMAIN ae'.differ = DOMAIN ae.differ
        /\ ae'.left = ae.left \ {d} /\ ae'.reached = ae.reached \cup {d}
    BY <1>2, <1>4, Zenon DEF AeFields
  <2>2. ae'.quiet = ae.quiet
    BY <1>2, <1>4 DEF AeFields
  <2> QED
    BY <1>1, <2>1, <2>2, Zenon DEF Changes
<1>5. CASE ae' = [ae EXCEPT !.left = ae.left \ {d}, !.quiet = q]
  <2> HIDE DEF q
  <2>1. /\ ae' = [f \in AeFields |-> ae'[f]]
        /\ \A f \in AeFields \ {"left", "reached", "differ", "quiet"} : ae'[f] = ae[f]
        /\ ae'.differ = ae.differ /\ ae'.left = ae.left \ {d} /\ ae'.reached = ae.reached
    BY <1>2, <1>5, Zenon DEF AeFields
  <2>2. ae'.quiet = q
    BY <1>2, <1>5, Zenon DEF AeFields
  <2> QED
    BY <1>1, <2>1, <2>2, Zenon DEF Changes, q
<1> QED
  BY <1>3, <1>4, <1>5, Zenon

LEMMA BucketEffect ==
  ASSUME RunShape, NEW d, NEW b, AuditBucket(d, b)
  PROVE  /\ Changes({"differ", "missing", "quiet"}) /\ ae.at = "audit" /\ UNCHANGED runFrame
         /\ DOMAIN ae'.differ = DOMAIN ae.differ
         /\ \/ ae'.missing = [ae.missing EXCEPT ![d] = OnlyExpected(d, b)] /\ (ae'.quiet => ae.quiet)
            \/ ae'.missing = ae.missing /\ ~ae'.quiet
<1>1. ae.at = "audit" /\ UNCHANGED runFrame /\ Running
  BY AtRunning DEF AuditBucket, runFrame
<1>2. ae = [f \in AeFields |-> ae[f]]
  BY <1>1 DEF RunShape
<1> DEFINE m == OnlyExpected(d, b)
           r == ae.differ[d] \ {b}
<1>3. \/ ae' = [ae EXCEPT !.differ[d] = r, !.missing[d] = m]
      \/ ae' = [ae EXCEPT !.differ[d] = r, !.quiet = FALSE]
  <2> USE DEF AuditBucket
  <2> QED
    BY Zenon
<1> HIDE DEF m, r
<1>4. CASE ae' = [ae EXCEPT !.differ[d] = r, !.missing[d] = m]
  <2>1. /\ ae' = [f \in AeFields |-> ae'[f]]
        /\ \A f \in AeFields \ {"differ", "missing", "quiet"} : ae'[f] = ae[f]
        /\ DOMAIN ae'.differ = DOMAIN ae.differ
    BY <1>2, <1>4, Zenon DEF AeFields
  <2>2. ae'.missing = [ae.missing EXCEPT ![d] = m]
    BY <1>2, <1>4, Zenon DEF AeFields
  <2>3. ae'.quiet = ae.quiet
    BY <1>2, <1>4 DEF AeFields
  <2> QED
    BY <1>1, <2>1, <2>2, <2>3, Zenon DEF Changes, m
<1>5. CASE ae' = [ae EXCEPT !.differ[d] = r, !.quiet = FALSE]
  <2>1. /\ ae' = [f \in AeFields |-> ae'[f]]
        /\ \A f \in AeFields \ {"differ", "missing", "quiet"} : ae'[f] = ae[f]
        /\ DOMAIN ae'.differ = DOMAIN ae.differ /\ ae'.missing = ae.missing /\ ae'.quiet = FALSE
    BY <1>2, <1>5, Zenon DEF AeFields
  <2> QED
    BY <1>1, <2>1, Zenon DEF Changes
<1> QED
  BY <1>3, <1>4, <1>5, Zenon


LEMMA ListEffect ==
  ASSUME RunShape, AeList
  PROVE  /\ Changes({"at", "exp", "objs", "left"}) /\ ae.at = "audit" /\ UNCHANGED runFrame
         /\ ae'.at = "collect" /\ ae'.objs = meta /\ ae.left = {}
<1>1. ae.at = "audit" /\ UNCHANGED runFrame /\ Running /\ ae.left = {}
  BY AtRunning DEF AeList, runFrame, stripeVars
<1>2. ae = [f \in AeFields |-> ae[f]]
  BY <1>1 DEF RunShape
<1>3. PICK l : ae' = [ae EXCEPT !.at = "collect", !.exp = NoIds, !.objs = meta, !.left = l]
  BY Zenon DEF AeList
<1>4. /\ ae' = [f \in AeFields |-> ae'[f]]
      /\ \A f \in AeFields \ {"at", "exp", "objs", "left"} : ae'[f] = ae[f]
      /\ ae'.at = "collect" /\ ae'.objs = meta
  BY <1>2, <1>3, Zenon DEF AeFields
<1> QED
  BY <1>1, <1>4, Zenon DEF Changes

LEMMA CollectEffect ==
  ASSUME RunShape, NEW d, AeCollect(d)
  PROVE  /\ Changes({"left", "flagged", "quiet"}) /\ ae.at = "collect" /\ UNCHANGED runFrame
         /\ \/ ae'.flagged = [ae.flagged EXCEPT ![d] = corrupt[d]] /\ (ae'.quiet => ae.quiet)
            \/ ae'.flagged = ae.flagged /\ ~ae'.quiet
<1>1. ae.at = "collect" /\ UNCHANGED runFrame /\ Running
  BY AtRunning DEF AeCollect, runFrame
<1>2. ae = [f \in AeFields |-> ae[f]]
  BY <1>1 DEF RunShape
<1>3. \/ ae' = [ae EXCEPT !.left = ae.left \ {d}, !.flagged[d] = corrupt[d]]
      \/ ae' = [ae EXCEPT !.left = ae.left \ {d}, !.quiet = FALSE]
  BY Zenon DEF AeCollect
<1>4. CASE ae' = [ae EXCEPT !.left = ae.left \ {d}, !.flagged[d] = corrupt[d]]
  <2>1. /\ ae' = [f \in AeFields |-> ae'[f]]
        /\ \A f \in AeFields \ {"left", "flagged", "quiet"} : ae'[f] = ae[f]
    BY <1>2, <1>4, Zenon DEF AeFields
  <2>2. ae'.flagged = [ae.flagged EXCEPT ![d] = corrupt[d]]
    BY <1>2, <1>4, Zenon DEF AeFields
  <2>3. ae'.quiet = ae.quiet
    BY <1>2, <1>4 DEF AeFields
  <2> QED
    BY <1>1, <2>1, <2>2, <2>3, Zenon DEF Changes
<1>5. CASE ae' = [ae EXCEPT !.left = ae.left \ {d}, !.quiet = FALSE]
  <2>1. /\ ae' = [f \in AeFields |-> ae'[f]]
        /\ \A f \in AeFields \ {"left", "flagged", "quiet"} : ae'[f] = ae[f]
        /\ ae'.flagged = ae.flagged /\ ae'.quiet = FALSE
    BY <1>2, <1>5, Zenon DEF AeFields
  <2> QED
    BY <1>1, <2>1, Zenon DEF Changes
<1> QED
  BY <1>3, <1>4, <1>5, Zenon

LEMMA PlanEffect ==
  ASSUME RunShape, AePlan
  PROVE  /\ Changes({"at", "jobs"}) /\ ae.at = "collect" /\ UNCHANGED runFrame
         /\ ae'.at = "copy" /\ ae'.jobs = Jobs
<1>1. ae.at = "collect" /\ UNCHANGED runFrame /\ Running
  BY AtRunning DEF AePlan, runFrame, stripeVars
<1>2. ae = [f \in AeFields |-> ae[f]]
  BY <1>1 DEF RunShape
<1> DEFINE js == Jobs
<1>3. ae' = [ae EXCEPT !.at = "copy", !.jobs = js]
  BY Zenon DEF AePlan
<1> HIDE DEF js
<1>4. /\ ae' = [f \in AeFields |-> ae'[f]]
      /\ \A f \in AeFields \ {"at", "jobs"} : ae'[f] = ae[f]
      /\ ae'.at = "copy" /\ ae'.jobs = js
  BY <1>2, <1>3, Zenon DEF AeFields
<1> QED
  BY <1>1, <1>4, Zenon DEF Changes, js

\* A worker's job as it is taken.
Taken(j, o) == [job |-> j, src |-> o, at |-> "read", data |-> "none"]

LEMMA RepairOneEffect ==
  ASSUME RunShape, NEW j, repairOne(j)
  PROVE  /\ Changes({"jobs", "lost", "work"}) /\ ae.at = "copy" /\ UNCHANGED runFrame
         /\ j \in ae.jobs /\ Cardinality(ae.work) < conf.conc
         /\ ae'.jobs = ae.jobs \ {j}
         /\ \/ ae'.lost = ae.lost /\ ae'.work = ae.work
            \/ Sources(j.dn, j.id) = {} /\ ae'.lost = ae.lost \cup {j.id} /\ ae'.work = ae.work
            \/ /\ ~Throttled
               /\ \E o \in Sources(j.dn, j.id) : ae'.work = ae.work \cup {Taken(j, o)}
               /\ ae'.lost = ae.lost
<1>1. /\ ae.at = "copy" /\ UNCHANGED runFrame /\ Running
      /\ j \in ae.jobs /\ Cardinality(ae.work) < conf.conc
  BY AtRunning, Zenon DEF repairOne, runFrame, stripeVars
<1>2. ae = [f \in AeFields |-> ae[f]]
  BY <1>1 DEF RunShape
<1>3. \/ ae' = [ae EXCEPT !.jobs = ae.jobs \ {j}]
      \/ /\ Sources(j.dn, j.id) = {}
         /\ ae' = [ae EXCEPT !.jobs = ae.jobs \ {j}, !.lost = ae.lost \cup {j.id}]
      \/ /\ ~Throttled
         /\ \E o \in Sources(j.dn, j.id) :
              ae' = [ae EXCEPT !.jobs = ae.jobs \ {j}, !.work = ae.work \cup {Taken(j, o)}]
  BY Zenon DEF repairOne, Taken
<1>4. CASE ae' = [ae EXCEPT !.jobs = ae.jobs \ {j}]
  <2>1. /\ ae' = [f \in AeFields |-> ae'[f]]
        /\ \A f \in AeFields \ {"jobs", "lost", "work"} : ae'[f] = ae[f]
        /\ ae'.jobs = ae.jobs \ {j} /\ ae'.lost = ae.lost /\ ae'.work = ae.work
    BY <1>2, <1>4, Zenon DEF AeFields
  <2> QED
    BY <1>1, <2>1, Zenon DEF Changes
<1>5. ASSUME ae' = [ae EXCEPT !.jobs = ae.jobs \ {j}, !.lost = ae.lost \cup {j.id}]
      PROVE  /\ ae' = [f \in AeFields |-> ae'[f]]
             /\ \A f \in AeFields \ {"jobs", "lost", "work"} : ae'[f] = ae[f]
             /\ ae'.jobs = ae.jobs \ {j} /\ ae'.lost = ae.lost \cup {j.id} /\ ae'.work = ae.work
  BY <1>2, <1>5, Zenon DEF AeFields
<1>6. ASSUME NEW w, ae' = [ae EXCEPT !.jobs = ae.jobs \ {j}, !.work = ae.work \cup {w}]
      PROVE  /\ ae' = [f \in AeFields |-> ae'[f]]
             /\ \A f \in AeFields \ {"jobs", "lost", "work"} : ae'[f] = ae[f]
             /\ ae'.jobs = ae.jobs \ {j} /\ ae'.work = ae.work \cup {w} /\ ae'.lost = ae.lost
  BY <1>2, <1>6, Zenon DEF AeFields
<1> QED
  BY <1>1, <1>3, <1>4, <1>5, <1>6, Zenon DEF Changes


LEMMA CopyReadEffect ==
  ASSUME RunShape, NEW w, CopyRead(w), ae.at = "copy"
  PROVE  /\ Changes({"work"}) /\ UNCHANGED runFrame /\ w \in ae.work
         /\ \/ ae'.work = ae.work \ {w}
            \/ \E b : ae'.work = (ae.work \ {w}) \cup {[w EXCEPT !.at = "put", !.data = b]}
<1>1. UNCHANGED runFrame /\ Running /\ w \in ae.work
  BY AtRunning, Zenon DEF CopyRead, runFrame
<1>2. ae = [f \in AeFields |-> ae[f]]
  BY <1>1 DEF RunShape
<1>3. \/ ae' = [ae EXCEPT !.work = ae.work \ {w}]
      \/ \E b : ae' = [ae EXCEPT !.work = (ae.work \ {w}) \cup {[w EXCEPT !.at = "put", !.data = b]}]
  BY Zenon DEF CopyRead
<1>4. ASSUME NEW x, ae' = [ae EXCEPT !.work = x]
      PROVE  /\ ae' = [f \in AeFields |-> ae'[f]]
             /\ \A f \in AeFields \ {"work"} : ae'[f] = ae[f]
             /\ ae'.work = x
  BY <1>2, <1>4, Zenon DEF AeFields
<1> QED
  BY <1>1, <1>3, <1>4, Zenon DEF Changes

LEMMA CopyPutEffect ==
  ASSUME RunShape, NEW w, CopyPut(w), ae.at = "copy"
  PROVE  /\ Changes({"work", "succ"}) /\ w \in ae.work
         /\ UNCHANGED <<meta, up, nodes, put, reps, conf, corrupt, saved, scrub>>
         /\ \/ UNCHANGED file
            \/ \E force : Stored(w.job.dn, w.job.id, force) \/ NotStored(w.job.dn, w.job.id, force)
         /\ ae'.work = ae.work \ {w}
         /\ ae'.succ = ae.succ \/ ae'.succ = ae.succ + 1
<1>1. /\ Running /\ w \in ae.work
      /\ UNCHANGED <<meta, up, nodes, put, reps, conf, corrupt, saved, scrub>>
  BY AtRunning, Zenon DEF CopyPut
<1>2. ae = [f \in AeFields |-> ae[f]]
  BY <1>1 DEF RunShape
<1>3. \/ UNCHANGED file
      \/ \E force : Stored(w.job.dn, w.job.id, force) \/ NotStored(w.job.dn, w.job.id, force)
  BY Zenon DEF CopyPut
<1>4. \/ ae' = [ae EXCEPT !.work = ae.work \ {w}]
      \/ ae' = [ae EXCEPT !.work = ae.work \ {w}, !.succ = ae.succ + 1]
  BY Zenon DEF CopyPut
<1>5. CASE ae' = [ae EXCEPT !.work = ae.work \ {w}]
  <2>1. /\ ae' = [f \in AeFields |-> ae'[f]]
        /\ \A f \in AeFields \ {"work", "succ"} : ae'[f] = ae[f]
        /\ ae'.work = ae.work \ {w} /\ ae'.succ = ae.succ
    BY <1>2, <1>5, Zenon DEF AeFields
  <2> QED
    BY <1>1, <1>3, <2>1, Zenon DEF Changes
<1>6. CASE ae' = [ae EXCEPT !.work = ae.work \ {w}, !.succ = ae.succ + 1]
  <2>1. /\ ae' = [f \in AeFields |-> ae'[f]]
        /\ \A f \in AeFields \ {"work", "succ"} : ae'[f] = ae[f]
        /\ ae'.work = ae.work \ {w} /\ ae'.succ = ae.succ + 1
    BY <1>2, <1>6, Zenon DEF AeFields
  <2> QED
    BY <1>1, <1>3, <2>1, Zenon DEF Changes
<1> QED
  BY <1>4, <1>5, <1>6, Zenon

LEMMA StripesEffect ==
  ASSUME RunShape, AeStripes
  PROVE  /\ Changes({"at", "missing", "reached", "flagged", "objs", "lost"}) /\ ae.at = "copy"
         /\ UNCHANGED <<meta, file, up, nodes, put, conf, corrupt, saved, scrub>>
         /\ ae'.at = "ec" /\ ae'.missing = NoIds /\ ae'.flagged = NoFlags /\ ae'.objs = NoObjects
         /\ ae'.lost = {} /\ ae.work = {}
         /\ \/ reps' = reps
            \/ \E S \in SUBSET StripePlans : /\ Cardinality(S) = Min({Budget, Cardinality(StripePlans)})
                                             /\ reps' = reps \cup S
<1>1. /\ ae.at = "copy" /\ Running /\ ae.work = {}
      /\ UNCHANGED <<meta, file, up, nodes, put, conf, corrupt, saved, scrub>>
  BY AtRunning, Zenon DEF AeStripes
<1>2. ae = [f \in AeFields |-> ae[f]]
  BY <1>1 DEF RunShape
<1>3. ae' = [ae EXCEPT !.at = "ec", !.missing = NoIds, !.reached = {}, !.flagged = NoFlags, !.objs = NoObjects,
                       !.lost = {}]
  BY DEF AeStripes
<1>4. /\ ae' = [f \in AeFields |-> ae'[f]]
      /\ \A f \in AeFields \ {"at", "missing", "reached", "flagged", "objs", "lost"} : ae'[f] = ae[f]
      /\ ae'.at = "ec" /\ ae'.missing = NoIds /\ ae'.flagged = NoFlags /\ ae'.objs = NoObjects
      /\ ae'.lost = {}
  BY <1>2, <1>3, Zenon DEF AeFields
<1>5. \/ reps' = reps
      \/ \E S \in SUBSET StripePlans : /\ Cardinality(S) = Min({Budget, Cardinality(StripePlans)})
                                       /\ reps' = reps \cup S
  BY Zenon DEF AeStripes
<1> QED
  BY <1>1, <1>4, <1>5, Zenon DEF Changes

LEMMA DoneEffect ==
  ASSUME RunShape, Running, NEW r, StripeDone(r)
  PROVE  /\ Changes({"succ"})
         /\ UNCHANGED <<meta, file, up, nodes, put, conf, corrupt, saved, scrub>>
         /\ r.by = "audit" /\ reps' = reps \ {r}
         /\ ae'.succ = ae.succ \/ ae'.succ = ae.succ + 1
<1>1. /\ r.by = "audit" /\ reps' = reps \ {r}
      /\ UNCHANGED <<meta, file, up, nodes, put, conf, corrupt, saved, scrub>>
  BY Zenon DEF StripeDone
<1>2. ae = [f \in AeFields |-> ae[f]]
  BY DEF RunShape
<1>3. PICK n : ae' = [ae EXCEPT !.succ = n] /\ (n = ae.succ \/ n = ae.succ + 1)
  BY Zenon DEF StripeDone
<1>4. /\ ae' = [f \in AeFields |-> ae'[f]]
      /\ \A f \in AeFields \ {"succ"} : ae'[f] = ae[f]
      /\ ae'.succ = n
  BY <1>2, <1>3, Zenon DEF AeFields
<1> QED
  BY <1>1, <1>3, <1>4, Zenon DEF Changes


\* The fields a step does not change.
LEMMA ChangesKeep ==
  ASSUME NEW F, Changes(F)
  PROVE  /\ "at" \notin F => ae'.at = ae.at
         /\ "exp" \notin F => ae'.exp = ae.exp
         /\ "left" \notin F => ae'.left = ae.left
         /\ "differ" \notin F => ae'.differ = ae.differ
         /\ "missing" \notin F => ae'.missing = ae.missing
         /\ "reached" \notin F => ae'.reached = ae.reached
         /\ "flagged" \notin F => ae'.flagged = ae.flagged
         /\ "objs" \notin F => ae'.objs = ae.objs
         /\ "jobs" \notin F => ae'.jobs = ae.jobs
         /\ "work" \notin F => ae'.work = ae.work
         /\ "succ" \notin F => ae'.succ = ae.succ
         /\ "lost" \notin F => ae'.lost = ae.lost
         /\ "quiet" \notin F => ae'.quiet = ae.quiet
BY Zenon DEF Changes, AeFields

\* A run that is not idle in the next state.
LEMMA StillRunning == ae'.at # "idle" => Running'
BY DEF Running, AeIdle

\* The shape of every part of the state.
HealShape ==
    /\ MetaShape /\ PutShape /\ FileShape /\ ScrubShape /\ RepShape /\ RunShape
    /\ conf \in Setups

\* Repairs of the audit exist in the EC phase of a run only.
RepsOfRun == AuditReps # {} => Running /\ ae.at = "ec"

\* Steps that leave the run as it is or disturb it.
Aside ==
    \/ ae' = ae
    \/ Disturbed
    \/ ae' = AeIdle

\* A step that leaves the run alone, or ends it, keeps its shape.
LEMMA RunShapeAside ==
  ASSUME RunShape, Aside
  PROVE  RunShape'
<1>1. CASE ae' = ae
  BY <1>1, Zenon DEF RunShape, Running, AeIdle
<1>2. CASE ae' = AeIdle
  BY <1>2, Zenon DEF RunShape, Running
<1>3. CASE Disturbed
  <2>1. CASE ~Running
    BY <1>3, <2>1, DisturbedEffect, Zenon DEF RunShape
  <2>2. CASE Running
    <3>1. Changes({"quiet"})
      BY <1>3, <2>2, DisturbedEffect, Zenon
    <3>2. /\ ae'.at = ae.at /\ ae'.missing = ae.missing /\ ae'.differ = ae.differ
          /\ ae'.flagged = ae.flagged /\ ae'.objs = ae.objs
      BY <3>1, ChangesKeep
    <3> QED
      BY <2>2, <3>1, <3>2, Zenon DEF RunShape, Changes
  <2> QED
    BY <2>1, <2>2
<1> QED
  BY <1>1, <1>2, <1>3 DEF Aside

LEMMA StartShape == 
  ASSUME HealShape, AeStart
  PROVE  RunShape'
<1>1. /\ DOMAIN NoIds = DN /\ DOMAIN NoFlags = DN
      /\ \A d \in DN : DOMAIN NoIds[d] = Chunk /\ NoFlags[d] = {}
  BY DEF NoIds, NoFlags
<1>2. \A k \in Key : FiniteObject(NoObjects[k])
  BY NoObjectFinite, Zenon DEF NoObjects
<1> QED
  BY <1>1, <1>2, StartEffect DEF RunShape

LEMMA AuditShape ==
  ASSUME HealShape, NEW d, AuditRoot(d) \/ (\E b : AuditBucket(d, b)) \/ AeCollect(d)
  PROVE  RunShape'
<1>s. RunShape /\ ScrubShape
  BY DEF HealShape
<1>1. CASE AuditRoot(d)
  <2>1. /\ Changes({"left", "reached", "differ", "quiet"}) /\ ae.at = "audit"
        /\ DOMAIN ae'.differ = DOMAIN ae.differ
    BY <1>1, <1>s, RootEffect, Zenon
  <2>2. ae'.at = ae.at /\ ae'.missing = ae.missing /\ ae'.flagged = ae.flagged /\ ae'.objs = ae.objs
    BY <2>1, ChangesKeep
  <2> QED
    BY <1>s, <2>1, <2>2, Zenon DEF RunShape, Changes
<1>2. ASSUME NEW b, AuditBucket(d, b) PROVE RunShape'
  <2>1. /\ Changes({"differ", "missing", "quiet"}) /\ ae.at = "audit"
        /\ DOMAIN ae'.differ = DOMAIN ae.differ
        /\ ae'.missing = [ae.missing EXCEPT ![d] = OnlyExpected(d, b)] \/ ae'.missing = ae.missing
    BY <1>2, <1>s, BucketEffect, Zenon
  <2>2. ae'.at = ae.at /\ ae'.flagged = ae.flagged /\ ae'.objs = ae.objs
    BY <2>1, ChangesKeep
  <2>3. DOMAIN OnlyExpected(d, b) = Chunk
    BY Zenon DEF OnlyExpected
  <2>4. DOMAIN ae.missing = DN /\ \A e \in DN : DOMAIN ae.missing[e] = Chunk
    BY <1>s, <2>1, Zenon DEF RunShape, Changes
  <2>5. DOMAIN ae'.missing = DN /\ \A e \in DN : DOMAIN ae'.missing[e] = Chunk
    BY <2>1, <2>3, <2>4
  <2> QED
    BY <1>s, <2>1, <2>2, <2>5, Zenon DEF RunShape, Changes
<1>3. CASE AeCollect(d)
  <2>1. /\ Changes({"left", "flagged", "quiet"}) /\ ae.at = "collect"
        /\ ae'.flagged = [ae.flagged EXCEPT ![d] = corrupt[d]] \/ ae'.flagged = ae.flagged
    BY <1>3, <1>s, CollectEffect, Zenon
  <2>2. ae'.at = ae.at /\ ae'.missing = ae.missing /\ ae'.differ = ae.differ /\ ae'.objs = ae.objs
    BY <2>1, ChangesKeep
  <2>3. DOMAIN ae.flagged = DN /\ \A e \in DN : ae.flagged[e] \subseteq Chunk /\ corrupt[e] \subseteq Chunk
    BY <1>s, <2>1 DEF RunShape, Changes, ScrubShape
  <2>4. DOMAIN ae'.flagged = DN /\ \A e \in DN : ae'.flagged[e] \subseteq Chunk
    BY <2>1, <2>3
  <2> QED
    BY <1>s, <2>1, <2>2, <2>4, Zenon DEF RunShape, Changes
<1> QED
  BY <1>1, <1>2, <1>3

LEMMA LaterShape ==
  ASSUME HealShape,
         \/ AeList \/ AePlan \/ AeStripes
         \/ (\E j : repairOne(j)) \/ (ae.at = "copy" /\ \E w : CopyRead(w) \/ CopyPut(w))
         \/ (Running /\ \E r : StripeDone(r))
  PROVE  RunShape'
<1>s. RunShape /\ MetaShape
  BY DEF HealShape
<1>1. ASSUME Changes({"jobs", "lost", "work", "succ"}) PROVE RunShape'
  <2>1. /\ ae'.at = ae.at /\ ae'.missing = ae.missing /\ ae'.differ = ae.differ
        /\ ae'.flagged = ae.flagged /\ ae'.objs = ae.objs
    BY <1>1, ChangesKeep
  <2> QED
    BY <1>s, <1>1, <2>1, Zenon DEF RunShape, Changes
<1>2. ASSUME NEW F, F \subseteq {"jobs", "lost", "work", "succ"}, Changes(F) PROVE RunShape'
  BY <1>1, <1>2, Zenon DEF Changes
<1>3. CASE AeList
  <2>1. Changes({"at", "exp", "objs", "left"}) /\ ae'.at = "collect" /\ ae'.objs = meta
    BY <1>3, <1>s, ListEffect, Zenon
  <2>2. ae'.missing = ae.missing /\ ae'.differ = ae.differ /\ ae'.flagged = ae.flagged
    BY <2>1, ChangesKeep
  <2> QED
    BY <1>s, <2>1, <2>2, Zenon DEF RunShape, Changes, MetaShape
<1>4. CASE AePlan
  <2>1. Changes({"at", "jobs"}) /\ ae'.at = "copy"
    BY <1>4, <1>s, PlanEffect, Zenon
  <2>2. /\ ae'.missing = ae.missing /\ ae'.differ = ae.differ /\ ae'.flagged = ae.flagged
        /\ ae'.objs = ae.objs
    BY <2>1, ChangesKeep
  <2> QED
    BY <1>s, <2>1, <2>2, Zenon DEF RunShape, Changes
<1>5. CASE AeStripes
  <2>1. /\ Changes({"at", "missing", "reached", "flagged", "objs", "lost"})
        /\ ae'.at = "ec" /\ ae'.missing = NoIds /\ ae'.flagged = NoFlags /\ ae'.objs = NoObjects
    BY <1>5, <1>s, StripesEffect, Zenon
  <2>2. ae'.differ = ae.differ
    BY <2>1, ChangesKeep
  <2>3. /\ DOMAIN NoIds = DN /\ DOMAIN NoFlags = DN
        /\ \A d \in DN : DOMAIN NoIds[d] = Chunk /\ NoFlags[d] \subseteq Chunk
    BY DEF NoIds, NoFlags
  <2>4. \A k \in Key : FiniteObject(NoObjects[k])
    BY NoObjectFinite, Zenon DEF NoObjects
  <2> QED
    BY <1>s, <2>1, <2>2, <2>3, <2>4, Zenon DEF RunShape, Changes
<1>6. ASSUME NEW j, repairOne(j) PROVE RunShape'
  BY <1>2, <1>6, <1>s, RepairOneEffect
<1>7. ASSUME NEW w, ae.at = "copy", CopyRead(w) PROVE RunShape'
  BY <1>2, <1>7, <1>s, CopyReadEffect, Zenon
<1>8. ASSUME NEW w, ae.at = "copy", CopyPut(w) PROVE RunShape'
  BY <1>2, <1>8, <1>s, CopyPutEffect
<1>9. ASSUME NEW r, Running, StripeDone(r) PROVE RunShape'
  BY <1>2, <1>9, <1>s, DoneEffect
<1> QED
  BY <1>3, <1>4, <1>5, <1>6, <1>7, <1>8, <1>9


-----------------------------------------------------------------------------
(* The stripe repairs an audit plans.                                      *)

LEMMA PlanFacts ==
  ASSUME RunShape, Running
  PROVE  /\ IsFiniteSet(StripePlans)
         /\ \A r \in StripePlans : r = [f \in RepFields |-> r[f]] /\ r.by = "audit"
<1> DEFINE Of(k) == {PlanStripe(k, s) : s \in DOMAIN ae.objs[k].groups}
           All == UNION {Of(k) : k \in Key}
<1>1. StripePlans \subseteq All
  <2>1. ASSUME NEW r \in StripePlans PROVE r \in All
    <3>1. PICK k \in Key : r \in Of(k)
      BY <2>1, Zenon DEF StripePlans
    <3> HIDE DEF Of
    <3> QED
      BY <3>1, Zenon
  <2> HIDE DEF All
  <2> QED
    BY <2>1, Zenon
<1>2. ASSUME NEW k \in Key PROVE IsFiniteSet(Of(k))
  <2> DEFINE f == [s \in DOMAIN ae.objs[k].groups |-> PlanStripe(k, s)]
  <2>1. IsFiniteSet(DOMAIN ae.objs[k].groups)
    BY Zenon DEF RunShape, FiniteObject
  <2>2. f = [s \in DOMAIN ae.objs[k].groups |-> f[s]] /\ Of(k) = {f[s] : s \in DOMAIN ae.objs[k].groups}
    BY Zenon
  <2> HIDE DEF f
  <2>3. IsFiniteSet({f[s] : s \in DOMAIN ae.objs[k].groups})
    BY <2>1, <2>2, FiniteImage, Zenon
  <2> QED
    BY <2>2, <2>3, Zenon
<1>3. IsFiniteSet({Of(k) : k \in Key})
  <2> DEFINE g == [k \in Key |-> Of(k)]
  <2>1. g = [k \in Key |-> g[k]] /\ {Of(k) : k \in Key} = {g[k] : k \in Key}
    BY Zenon
  <2> HIDE DEF g, Of
  <2>2. IsFiniteSet({g[k] : k \in Key})
    <3>1. IsFiniteSet(Key) /\ g = [k \in Key |-> g[k]]
      BY <2>1, SetupAssumption, Zenon
    <3> QED
      BY <3>1, FiniteImage
  <2> QED
    BY <2>1, <2>2, Zenon
<1>4. IsFiniteSet(All)
  BY <1>2, <1>3, FS_UNION, Zenon
<1>5. IsFiniteSet(StripePlans)
  BY <1>1, <1>4, FS_Subset, Zenon
<1>6. ASSUME NEW r \in StripePlans PROVE r = [f \in RepFields |-> r[f]] /\ r.by = "audit"
  <2>1. PICK k, s : r = PlanStripe(k, s)
    BY <1>6, Zenon DEF StripePlans
  <2>2. \E a, b, c : PlanStripe(k, s) = StripeRepair("audit", k, s, a, b, c)
    BY Zenon DEF PlanStripe
  <2>3. PICK a, b, c : r = StripeRepair("audit", k, s, a, b, c)
    BY <2>1, <2>2, Zenon
  <2> QED
    BY <2>3 DEF StripeRepair, RepFields
<1> QED
  BY <1>5, <1>6, Zenon

\* The repairs after the plan was made.
LEMMA PlannedReps ==
  ASSUME RunShape, Running, RepShape, AuditReps = {}, NEW S \in SUBSET StripePlans, reps' = reps \cup S
  PROVE  RepShape' /\ AuditReps' = S /\ IsFiniteSet(S)
<1>1. \A r \in S : r = [f \in RepFields |-> r[f]] /\ r.by = "audit"
  BY PlanFacts, Zenon
<1>2. RepShape'
  BY <1>1, Zenon DEF RepShape
<1>3. AuditReps' = S
  BY <1>1, Zenon DEF AuditReps
<1> QED
  BY <1>2, <1>3, PlanFacts, FS_Subset, Zenon

\* A run and a step of one of its stripe repairs.
LEMMA AuditRepStep ==
  ASSUME HealShape, NEW r \in reps, r.by = "audit", RepStep(r), UNCHANGED aeVars
  PROVE  /\ MetaShape' /\ FileShape' /\ RepShape'
         /\ UNCHANGED <<up, nodes, put, conf, corrupt, saved, scrub, ae>>
         /\ r \in AuditReps /\ \E n : AuditReps' = (AuditReps \ {r}) \cup {n}
<1>1. PICK n : n = [f \in RepFields |-> n[f]] /\ n.by = r.by /\ Becomes(r, n)
  BY RepStepEffect, Zenon DEF HealShape
<1>2. MetaShape' /\ UNCHANGED <<up, nodes, put, conf>>
  BY RepStepEffect, Zenon DEF HealShape
<1>3. RepShape' /\ AuditReps' = (AuditReps \ {r}) \cup {n} /\ r \in AuditReps
  BY <1>1, BecomesReps, Zenon DEF HealShape
<1>4. file' \in Files
  <2>0. file \in Files
    BY DEF HealShape, FileShape, Files
  <2>1. file' = file \/ \E d, c, force : Stored(d, c, force) \/ NotStored(d, c, force)
    BY Zenon DEF RepStep, RepBegin, RepRead, RepPut, RepUpdate
  <2> QED
    BY <2>0, <2>1, PutCalls, Zenon
<1>5. FileShape'
  BY <1>2, <1>4 DEF FileShape, Files, HealShape
<1>6. UNCHANGED <<corrupt, saved, scrub, ae>>
  BY DEF aeVars
<1> QED
  BY <1>2, <1>3, <1>5, <1>6, Zenon

\* What Stripes does on the whole.
LEMMA WorldStep ==
  ASSUME HealShape, StripesNext, UNCHANGED <<corrupt, saved, scrub>>
  PROVE  /\ MetaShape' /\ PutShape' /\ FileShape' /\ RepShape' /\ ScrubShape'
         /\ AuditReps' = AuditReps /\ UNCHANGED conf
<1>1. MetaShape' /\ PutShape' /\ FileShape' /\ RepShape' /\ AuditReps' = AuditReps
  BY StripesMeta, StripesPut, StripesFile, StripesReps, Zenon DEF HealShape
<1>2. ScrubShape'
  BY DEF HealShape, ScrubShape
<1>3. UNCHANGED conf
  BY Zenon
  DEF StripesNext, PutStart, PutStep, PutPlace, PutShard, PutCommit, DelStart, DelStep, DelMeta, DelChunk,
      RepairStart, RepStep, RepBegin, RepRead, RepPut, RepUpdate, RepCount, Rebalance, RebalanceStart,
      MigRead, MigPut, MigUpdate, UpdateNodes, Decay, NodeDown, NodeUp, EdgeDies
<1> QED
  BY <1>1, <1>2, <1>3, Zenon


LEMMA HealShapeStep ==
  ASSUME HealShape, RepsOfRun, Next
  PROVE  HealShape'
<1> DEFINE Rest == MetaShape' /\ PutShape' /\ FileShape' /\ ScrubShape' /\ RepShape' /\ conf' \in Setups
<1>s. /\ MetaShape /\ PutShape /\ FileShape /\ ScrubShape /\ RepShape /\ RunShape /\ conf \in Setups
  BY DEF HealShape
<1>u. /\ UNCHANGED meta => MetaShape'
      /\ UNCHANGED put => PutShape'
      /\ UNCHANGED <<file, up>> => FileShape'
      /\ UNCHANGED <<corrupt, saved, scrub>> => ScrubShape'
      /\ UNCHANGED reps => RepShape'
      /\ UNCHANGED conf => conf' \in Setups
  BY <1>s DEF MetaShape, PutShape, FileShape, ScrubShape, RepShape
<1>1. CASE StripesNext /\ Disturbed /\ UNCHANGED <<corrupt, saved, scrub>>
  BY <1>1, <1>s, WorldStep, RunShapeAside, Zenon DEF HealShape, Aside
<1>2. ASSUME NEW d \in DN, Scrub(d) \/ DnRestart(d) PROVE HealShape'
  <2>1. UNCHANGED <<meta, file, up, put, reps, conf>> /\ (ae' = ae \/ Disturbed)
    BY <1>2, Zenon DEF Scrub, ScrubVisit, ScrubRead, ScrubMark, DnRestart, stripeVars
  <2> QED
    BY <1>2, <1>s, <1>u, <2>1, ScrubStep, RunShapeAside, Zenon DEF HealShape, Aside
<1>3. ASSUME UNCHANGED runFrame PROVE Rest
  BY <1>3, <1>u, Zenon DEF runFrame
<1>4. CASE AeStart
  <2>1. UNCHANGED runFrame
    BY <1>4, Zenon DEF AeStart, runFrame, stripeVars
  <2> QED
    BY <1>3, <1>4, <2>1, StartShape, Zenon DEF HealShape
<1>5. CASE AeList \/ AePlan \/ \E j : repairOne(j)
  BY <1>3, <1>5, <1>s, LaterShape, ListEffect, PlanEffect, RepairOneEffect, Zenon DEF HealShape
<1>6. ASSUME NEW d, AuditRoot(d) \/ (\E b : AuditBucket(d, b)) \/ AeCollect(d) PROVE HealShape'
  BY <1>3, <1>6, <1>s, AuditShape, RootEffect, BucketEffect, CollectEffect, Zenon DEF HealShape
<1>7. CASE AeStripes
  <2>1. UNCHANGED <<meta, file, up, put, conf, corrupt, saved, scrub>> /\ ae.at = "copy" /\ Running
    BY <1>7, AtRunning, Zenon DEF AeStripes
  <2>2. AuditReps = {}
    BY <2>1, Zenon DEF RepsOfRun
  <2>3. reps' = reps \/ \E S \in SUBSET StripePlans : reps' = reps \cup S
    BY <1>7, <1>s, StripesEffect, Zenon
  <2>4. RepShape'
    BY <1>s, <1>u, <2>1, <2>2, <2>3, PlannedReps, Zenon
  <2> QED
    BY <1>7, <1>u, <2>1, <2>4, LaterShape, Zenon DEF HealShape
<1>8. CASE AeEnd
  BY <1>3, <1>8, <1>s, RunShapeAside, Zenon DEF HealShape, Aside, AeEnd, runFrame, stripeVars
<1>9. ASSUME NEW w, ae.at = "copy", CopyRead(w) PROVE HealShape'
  BY <1>3, <1>9, <1>s, LaterShape, CopyReadEffect, Zenon DEF HealShape
<1>10. ASSUME NEW w, ae.at = "copy", CopyPut(w) PROVE HealShape'
  <2>1. /\ UNCHANGED <<meta, up, put, reps, conf, corrupt, saved, scrub>>
        /\ \/ UNCHANGED file
           \/ \E force : Stored(w.job.dn, w.job.id, force) \/ NotStored(w.job.dn, w.job.id, force)
    BY <1>10, <1>s, CopyPutEffect, Zenon
  <2>2. file \in Files /\ up \subseteq DN
    BY <1>s DEF FileShape, Files
  <2>3. file' \in Files
    BY <2>1, <2>2, PutCalls, Zenon
  <2>4. FileShape'
    BY <2>1, <2>2, <2>3 DEF FileShape, Files
  <2> QED
    BY <1>10, <1>u, <2>1, <2>4, LaterShape, Zenon DEF HealShape
<1>11. ASSUME NEW r \in reps, r.by = "audit", RepStep(r), UNCHANGED aeVars PROVE HealShape'
  BY <1>11, <1>s, <1>u, AuditRepStep, RunShapeAside, Zenon DEF HealShape, Aside
<1>12. ASSUME NEW r \in reps, r.by = "audit", StripeDone(r) PROVE HealShape'
  <2>1. Running
    BY <1>12, Zenon DEF RepsOfRun, AuditReps
  <2>2. UNCHANGED <<meta, file, up, put, conf, corrupt, saved, scrub>> /\ reps' = reps \ {r}
    BY <1>12, <1>s, <2>1, DoneEffect, Zenon
  <2>3. RepShape'
    BY <1>s, <2>2, Zenon DEF RepShape
  <2> QED
    BY <1>12, <1>u, <2>1, <2>2, <2>3, LaterShape, Zenon DEF HealShape
<1>13. CASE CoordDies
  <2>1. /\ ae' = AeIdle /\ reps' = {r \in reps : r.by # "audit"}
        /\ UNCHANGED <<meta, file, up, put, conf, corrupt, saved, scrub>>
    BY <1>13, Zenon DEF CoordDies
  <2>2. RepShape'
    BY <1>s, <2>1, Zenon DEF RepShape
  <2> QED
    BY <1>s, <1>u, <2>1, <2>2, RunShapeAside, Zenon DEF HealShape, Aside
<1> HIDE DEF Rest
<1> QED
  BY <1>1, <1>2, <1>4, <1>5, <1>6, <1>7, <1>8, <1>9, <1>10, <1>11, <1>12, <1>13, Zenon DEF Next, Heal


-----------------------------------------------------------------------------
(* The cap.  Copies count when they are done, but a worker passes the      *)
(* check before: what the run has done, what its workers are copying and   *)
(* what it has scheduled stay within the cap and the further workers.      *)

CapLedger ==
    /\ IsFiniteSet(AuditReps)
    /\ ~Running => AuditReps = {}
    /\ Running =>
         /\ ae.succ \in Nat /\ IsFiniteSet(ae.work)
         /\ ae.at # "ec" => AuditReps = {}
         /\ ae.at # "copy" => ae.work = {}
         /\ conf.max > 0 => ae.succ + Cardinality(ae.work) + Cardinality(AuditReps) <= conf.max + conf.conc - 1

LEMMA ConfFacts == ASSUME conf \in Setups PROVE conf.max \in Nat /\ conf.conc \in Nat \ {0}
BY SetupAssumption, Zenon

\* The counts of a run, in the current and in the next state.
LEMMA CapNext ==
  ASSUME Running', UNCHANGED conf,
         IsFiniteSet(AuditReps'), ae'.succ \in Nat, IsFiniteSet(ae'.work),
         ae'.at # "ec" => AuditReps' = {}, ae'.at # "copy" => ae'.work = {},
         conf.max > 0 => ae'.succ + Cardinality(ae'.work) + Cardinality(AuditReps') <= conf.max + conf.conc - 1
  PROVE  CapLedger'
BY Zenon DEF CapLedger

\* Steps that do not touch the counts.
LEMMA CapSame ==
  ASSUME CapLedger, Running, Running', UNCHANGED conf, AuditReps' = AuditReps,
         ae'.succ = ae.succ, ae'.work = ae.work,
         ae'.at = ae.at \/ (ae.at # "copy" /\ ae.at # "ec" /\ ae'.at # "ec")
  PROVE  CapLedger'
<1>1. /\ IsFiniteSet(AuditReps) /\ ae.succ \in Nat /\ IsFiniteSet(ae.work)
      /\ ae.at # "ec" => AuditReps = {}
      /\ ae.at # "copy" => ae.work = {}
      /\ conf.max > 0 => ae.succ + Cardinality(ae.work) + Cardinality(AuditReps) <= conf.max + conf.conc - 1
  BY Zenon DEF CapLedger
<1> QED
  BY <1>1, CapNext, Zenon

LEMMA CapIdle ==
  ASSUME CapLedger, ~Running', AuditReps' = {}
  PROVE  CapLedger'
BY FS_EmptySet, Zenon DEF CapLedger

LEMMA CapAside ==
  ASSUME CapLedger, RunShape, UNCHANGED conf, AuditReps' = AuditReps, ae' = ae \/ Disturbed
  PROVE  CapLedger'
<1>1. CASE ae' = ae
  <2>1. Running' <=> Running
    BY <1>1 DEF Running, AeIdle
  <2> QED
    BY <1>1, <2>1, CapIdle, CapSame, Zenon DEF CapLedger
<1>2. CASE Disturbed
  <2>1. (Running' <=> Running) /\ (Running => Changes({"quiet"}))
    BY <1>2, DisturbedEffect, Zenon
  <2>2. Running => ae'.succ = ae.succ /\ ae'.work = ae.work /\ ae'.at = ae.at
    BY <2>1, ChangesKeep
  <2> QED
    BY <2>1, <2>2, CapIdle, CapSame, Zenon DEF CapLedger
<1> QED
  BY <1>1, <1>2

\* A worker takes a job, reads, writes.
LEMMA CapCopy ==
  ASSUME CapLedger, HealShape,
         (\E j : repairOne(j)) \/ (ae.at = "copy" /\ \E w : CopyRead(w) \/ CopyPut(w))
  PROVE  CapLedger'
<1>s. RunShape /\ conf.max \in Nat /\ conf.conc \in Nat \ {0}
  BY ConfFacts, Zenon DEF HealShape
<1>a. ae.at = "copy"
  BY Zenon DEF repairOne
<1>b. Running
  BY <1>a, AtRunning
<1>c. /\ AuditReps = {} /\ ae.succ \in Nat /\ IsFiniteSet(ae.work) /\ Cardinality(ae.work) \in Nat
      /\ conf.max > 0 => ae.succ + Cardinality(ae.work) + Cardinality(AuditReps) <= conf.max + conf.conc - 1
  BY <1>a, <1>b, FS_CardinalityType, Zenon DEF CapLedger
<1>d. Cardinality({}) = 0 /\ IsFiniteSet({})
  BY FS_EmptySet
<1>e. conf.max > 0 => ae.succ + Cardinality(ae.work) <= conf.max + conf.conc - 1
  BY <1>c, <1>d, <1>s
<1>g. ASSUME UNCHANGED <<reps, conf>>, Changes({"jobs", "lost", "work", "succ"}),
             ae'.succ \in Nat, IsFiniteSet(ae'.work),
             conf.max > 0 => ae'.succ + Cardinality(ae'.work) <= conf.max + conf.conc - 1
      PROVE  CapLedger'
  <2>1. ae'.at = "copy" /\ Running'
    BY <1>a, <1>g, ChangesKeep, StillRunning
  <2>2. AuditReps' = {}
    BY <1>c, <1>g, Zenon DEF AuditReps
  <2>3. Cardinality(ae'.work) \in Nat
    BY <1>g, FS_CardinalityType
  <2>4. conf.max > 0 => ae'.succ + Cardinality(ae'.work) + Cardinality(AuditReps') <= conf.max + conf.conc - 1
    BY <1>d, <1>g, <1>s, <2>2, <2>3
  <2> QED
    BY <1>d, <1>g, <2>1, <2>2, <2>4, CapNext, Zenon
<1>h. ASSUME NEW F, F \subseteq {"jobs", "lost", "work", "succ"}, Changes(F)
      PROVE  Changes({"jobs", "lost", "work", "succ"})
  BY <1>h, Zenon DEF Changes
<1>1. ASSUME NEW j, repairOne(j) PROVE CapLedger'
  <2>1. /\ UNCHANGED <<reps, conf>> /\ Changes({"jobs", "lost", "work"}) /\ Cardinality(ae.work) < conf.conc
        /\ ae'.work = ae.work \/ (~Throttled /\ \E w : ae'.work = ae.work \cup {w})
    BY <1>1, <1>s, RepairOneEffect, Zenon DEF runFrame
  <2>2. ae'.succ = ae.succ
    BY <2>1, ChangesKeep
  <2>3. CASE ae'.work = ae.work
    <3>1. Changes({"jobs", "lost", "work", "succ"})
      BY <1>h, <2>1
    <3> QED
      BY <1>c, <1>e, <1>g, <2>1, <2>2, <2>3, <3>1, Zenon
  <2>4. ASSUME ~Throttled, NEW w, ae'.work = ae.work \cup {w} PROVE CapLedger'
    <3>1. IsFiniteSet(ae'.work) /\ Cardinality(ae'.work) \in Nat /\ Cardinality(ae'.work) <= Cardinality(ae.work) + 1
      BY <1>c, <2>4, AddOne, Zenon
    <3>2. conf.max > 0 => ae.succ < conf.max
      BY <1>c, <1>s, <2>4 DEF Throttled
    <3>3. conf.max > 0 => ae'.succ + Cardinality(ae'.work) <= conf.max + conf.conc - 1
      BY <1>c, <1>s, <2>1, <2>2, <3>1, <3>2
    <3>4. Changes({"jobs", "lost", "work", "succ"})
      BY <1>h, <2>1
    <3> QED
      BY <1>c, <1>g, <2>1, <2>2, <3>1, <3>3, <3>4, Zenon
  <2> QED
    BY <2>1, <2>3, <2>4, Zenon
<1>2. ASSUME NEW w, CopyRead(w) PROVE CapLedger'
  <2>1. /\ UNCHANGED <<reps, conf>> /\ Changes({"work"}) /\ w \in ae.work
        /\ ae'.work = ae.work \ {w} \/ \E x : ae'.work = (ae.work \ {w}) \cup {x}
    BY <1>2, <1>a, <1>s, CopyReadEffect, Zenon DEF runFrame
  <2>2. ae'.succ = ae.succ
    BY <2>1, ChangesKeep
  <2>4. IsFiniteSet(ae'.work) /\ Cardinality(ae'.work) \in Nat /\ Cardinality(ae'.work) <= Cardinality(ae.work)
    <3>1. CASE ae'.work = ae.work \ {w}
      BY <1>c, <2>1, <3>1, DropOne
    <3>2. ASSUME NEW x, ae'.work = (ae.work \ {w}) \cup {x}
          PROVE  IsFiniteSet(ae'.work) /\ Cardinality(ae'.work) \in Nat /\ Cardinality(ae'.work) <= Cardinality(ae.work)
      <4>1. IsFiniteSet(ae.work) /\ w \in ae.work
        BY <1>c, <2>1, Zenon
      <4> QED
        BY <3>2, <4>1, SwapOne
    <3> QED
      BY <2>1, <3>1, <3>2, Zenon
  <2>5. conf.max > 0 => ae'.succ + Cardinality(ae'.work) <= conf.max + conf.conc - 1
    BY <1>c, <1>e, <1>s, <2>2, <2>4
  <2>6. Changes({"jobs", "lost", "work", "succ"})
    BY <1>h, <2>1
  <2> QED
    BY <1>c, <1>g, <2>1, <2>2, <2>4, <2>5, <2>6, Zenon
<1>3. ASSUME NEW w, CopyPut(w) PROVE CapLedger'
  <2>1. /\ UNCHANGED <<reps, conf>> /\ Changes({"work", "succ"}) /\ w \in ae.work
        /\ ae'.work = ae.work \ {w} /\ (ae'.succ = ae.succ \/ ae'.succ = ae.succ + 1)
    BY <1>3, <1>a, <1>s, CopyPutEffect, Zenon
  <2>3. /\ IsFiniteSet(ae'.work) /\ Cardinality(ae'.work) = Cardinality(ae.work) - 1
    <3>1. IsFiniteSet(ae.work) /\ w \in ae.work /\ ae'.work = ae.work \ {w}
      BY <1>c, <2>1, Zenon
    <3> QED
      BY <3>1, DropOne
  <2>4. conf.max > 0 => ae'.succ + Cardinality(ae'.work) <= conf.max + conf.conc - 1
    BY <1>c, <1>e, <1>s, <2>1, <2>3
  <2>5. Changes({"jobs", "lost", "work", "succ"}) /\ ae'.succ \in Nat
    BY <1>c, <1>h, <2>1
  <2> QED
    BY <1>g, <2>1, <2>3, <2>4, <2>5, Zenon
<1> QED
  BY <1>1, <1>2, <1>3, Zenon


\* The stripes are scheduled within what is left of the cap.
LEMMA CapStripes ==
  ASSUME CapLedger, HealShape, AeStripes
  PROVE  CapLedger'
<1>s. RunShape /\ RepShape /\ conf.max \in Nat /\ conf.conc \in Nat \ {0}
  BY ConfFacts, Zenon DEF HealShape
<1>1. /\ Changes({"at", "missing", "reached", "flagged", "objs", "lost"}) /\ ae.at = "copy" /\ UNCHANGED conf
      /\ ae'.at = "ec" /\ ae.work = {}
      /\ \/ reps' = reps
         \/ \E S \in SUBSET StripePlans : /\ Cardinality(S) = Min({Budget, Cardinality(StripePlans)})
                                          /\ reps' = reps \cup S
  BY <1>s, StripesEffect, Zenon
<1>2. Running /\ Running'
  BY <1>1, AtRunning, StillRunning
<1>3. ae'.succ = ae.succ /\ ae'.work = ae.work
  BY <1>1, ChangesKeep
<1>4. /\ AuditReps = {} /\ ae.succ \in Nat
      /\ conf.max > 0 => ae.succ + Cardinality(ae.work) + Cardinality(AuditReps) <= conf.max + conf.conc - 1
  BY <1>1, <1>2, Zenon DEF CapLedger
<1>5. Cardinality({}) = 0 /\ IsFiniteSet({})
  BY FS_EmptySet
<1>6. conf.max > 0 => ae.succ <= conf.max + conf.conc - 1
  BY <1>1, <1>4, <1>5, <1>s
<1>7. ASSUME IsFiniteSet(AuditReps'), conf.max > 0 => ae.succ + Cardinality(AuditReps') <= conf.max + conf.conc - 1
      PROVE  CapLedger'
  <2>1. Cardinality(AuditReps') \in Nat
    BY <1>7, FS_CardinalityType
  <2>2. conf.max > 0 => ae'.succ + Cardinality(ae'.work) + Cardinality(AuditReps') <= conf.max + conf.conc - 1
    BY <1>1, <1>3, <1>4, <1>5, <1>7, <1>s, <2>1
  <2> QED
    BY <1>1, <1>2, <1>3, <1>4, <1>5, <1>7, <2>2, CapNext, Zenon
<1>8. CASE reps' = reps
  <2>1. AuditReps' = {}
    BY <1>4, <1>8, Zenon DEF AuditReps
  <2> QED
    BY <1>4, <1>5, <1>6, <1>7, <2>1
<1>9. ASSUME NEW S \in SUBSET StripePlans, Cardinality(S) = Min({Budget, Cardinality(StripePlans)}), reps' = reps \cup S
      PROVE  CapLedger'
  <2>1. AuditReps' = S /\ IsFiniteSet(S)
    BY <1>2, <1>4, <1>9, <1>s, PlannedReps, Zenon
  <2>2. Cardinality(StripePlans) \in Int /\ Cardinality(S) \in Nat
    BY <1>2, <1>s, <2>1, PlanFacts, FS_CardinalityType
  <2>3. ASSUME conf.max > 0 PROVE ae.succ + Cardinality(S) <= conf.max + conf.conc - 1
    <3>1. Budget = IF ae.succ > conf.max THEN 0 ELSE conf.max - ae.succ
      BY <1>s, <2>3 DEF Budget
    <3>2. Budget \in Int
      BY <1>4, <1>s, <3>1
    <3>3. Cardinality(S) <= Budget
      BY <1>9, <2>2, <3>2, SmallestOfTwo
    <3> QED
      BY <1>4, <1>6, <1>s, <2>2, <2>3, <3>1, <3>3
  <2> QED
    BY <1>7, <2>1, <2>3
<1> QED
  BY <1>1, <1>8, <1>9, Zenon

\* A stripe repair moves on, or is counted.
LEMMA CapReps ==
  ASSUME CapLedger, HealShape, NEW r \in reps, r.by = "audit",
         (RepStep(r) /\ UNCHANGED aeVars) \/ StripeDone(r)
  PROVE  CapLedger'
<1>s. RunShape /\ RepShape /\ conf.max \in Nat /\ conf.conc \in Nat \ {0}
  BY ConfFacts, Zenon DEF HealShape
<1>1. r \in AuditReps
  BY Zenon DEF AuditReps
<1>2. /\ Running /\ ae.at = "ec" /\ IsFiniteSet(AuditReps) /\ ae.succ \in Nat /\ ae.work = {}
      /\ conf.max > 0 => ae.succ + Cardinality(ae.work) + Cardinality(AuditReps) <= conf.max + conf.conc - 1
  BY <1>1, Zenon DEF CapLedger
<1>3. Cardinality({}) = 0 /\ IsFiniteSet({}) /\ Cardinality(AuditReps) \in Nat
  BY <1>2, FS_EmptySet, FS_CardinalityType
<1>4. conf.max > 0 => ae.succ + Cardinality(AuditReps) <= conf.max + conf.conc - 1
  BY <1>2, <1>3, <1>s
<1>5. ASSUME UNCHANGED conf, ae'.at = "ec", ae'.work = {}, ae'.succ \in Nat, IsFiniteSet(AuditReps'),
             conf.max > 0 => ae'.succ + Cardinality(AuditReps') <= conf.max + conf.conc - 1
      PROVE  CapLedger'
  <2>1. Cardinality(AuditReps') \in Nat /\ Running'
    BY <1>5, FS_CardinalityType, StillRunning
  <2>2. conf.max > 0 => ae'.succ + Cardinality(ae'.work) + Cardinality(AuditReps') <= conf.max + conf.conc - 1
    BY <1>3, <1>5, <1>s, <2>1
  <2> QED
    BY <1>3, <1>5, <2>1, <2>2, CapNext, Zenon
<1>6. CASE RepStep(r) /\ UNCHANGED aeVars
  <2>1. UNCHANGED <<conf, ae>>
    BY <1>6, AuditRepStep, Zenon
  <2>2. PICK n : AuditReps' = (AuditReps \ {r}) \cup {n}
    BY <1>6, AuditRepStep, Zenon
  <2>3. /\ IsFiniteSet(AuditReps') /\ Cardinality(AuditReps') \in Nat
        /\ Cardinality(AuditReps') <= Cardinality(AuditReps)
    BY <1>1, <1>2, <2>2, SwapOne, Zenon
  <2>4. conf.max > 0 => ae'.succ + Cardinality(AuditReps') <= conf.max + conf.conc - 1
    BY <1>2, <1>3, <1>4, <1>s, <2>1, <2>3
  <2> QED
    BY <1>2, <1>5, <2>1, <2>3, <2>4, Zenon
<1>7. CASE StripeDone(r)
  <2>1. /\ Changes({"succ"}) /\ UNCHANGED conf /\ reps' = reps \ {r}
        /\ ae'.succ = ae.succ \/ ae'.succ = ae.succ + 1
    BY <1>2, <1>7, <1>s, DoneEffect, Zenon
  <2>2. ae'.at = ae.at /\ ae'.work = ae.work
    BY <2>1, ChangesKeep
  <2>3. AuditReps' = AuditReps \ {r}
    BY <2>1, Zenon DEF AuditReps
  <2>4. IsFiniteSet(AuditReps') /\ Cardinality(AuditReps') = Cardinality(AuditReps) - 1
    BY <1>1, <1>2, <2>3, DropOne
  <2>5. (conf.max > 0 => ae'.succ + Cardinality(AuditReps') <= conf.max + conf.conc - 1) /\ ae'.succ \in Nat
    BY <1>2, <1>3, <1>4, <1>s, <2>1, <2>4
  <2> QED
    BY <1>2, <1>5, <2>1, <2>2, <2>4, <2>5, Zenon
<1> QED
  BY <1>6, <1>7

LEMMA CapStart ==
  ASSUME CapLedger, HealShape, AeStart
  PROVE  CapLedger'
<1>1. conf.max \in Nat /\ conf.conc \in Nat \ {0}
  BY ConfFacts, Zenon DEF HealShape
<1>2. ~Running /\ UNCHANGED <<reps, conf>> /\ ae'.at = "audit" /\ ae'.work = {} /\ ae'.succ = 0
  BY StartEffect DEF stripeVars
<1>3. AuditReps' = {} /\ Running'
  BY <1>2, StillRunning DEF CapLedger, AuditReps
<1>4. Cardinality({}) = 0 /\ IsFiniteSet({})
  BY FS_EmptySet
<1>5. conf.max > 0 => ae'.succ + Cardinality(ae'.work) + Cardinality(AuditReps') <= conf.max + conf.conc - 1
  BY <1>1, <1>2, <1>3, <1>4
<1>6. ae'.succ \in Nat
  BY <1>2
<1> QED
  BY <1>2, <1>3, <1>4, <1>5, <1>6, CapNext, Zenon

LEMMA CapStep ==
  ASSUME CapLedger, HealShape, Next
  PROVE  CapLedger'
<1>s. RunShape
  BY DEF HealShape
<1>0. ASSUME UNCHANGED reps PROVE AuditReps' = AuditReps
  BY <1>0, Zenon DEF AuditReps
<1>1. CASE StripesNext /\ Disturbed /\ UNCHANGED <<corrupt, saved, scrub>>
  BY <1>1, <1>s, WorldStep, CapAside, Zenon
<1>2. ASSUME NEW d \in DN, Scrub(d) \/ DnRestart(d) PROVE CapLedger'
  <2>1. UNCHANGED <<reps, conf>> /\ (ae' = ae \/ Disturbed)
    BY <1>2, Zenon DEF Scrub, ScrubVisit, ScrubRead, ScrubMark, DnRestart, stripeVars
  <2> QED
    BY <1>0, <1>s, <2>1, CapAside, Zenon
<1>3. ASSUME NEW F, "succ" \notin F, "work" \notin F, Changes(F), UNCHANGED runFrame, ae.at \in {"audit", "collect"},
             "at" \notin F \/ ae'.at \in {"collect", "copy"}
      PROVE  CapLedger'
  <2>1. ae'.succ = ae.succ /\ ae'.work = ae.work /\ ("at" \notin F => ae'.at = ae.at)
    BY <1>3, ChangesKeep, Zenon
  <2>2. Running /\ Running'
    BY <1>3, <2>1, AtRunning, StillRunning
  <2>3. AuditReps' = AuditReps /\ UNCHANGED conf
    BY <1>0, <1>3, Zenon DEF runFrame
  <2>4. ae'.at = ae.at \/ (ae.at # "copy" /\ ae.at # "ec" /\ ae'.at # "ec")
    BY <1>3, <2>1
  <2> QED
    BY <2>1, <2>2, <2>3, <2>4, CapSame, Zenon
<1>4. CASE AeList
  BY <1>3, <1>4, <1>s, ListEffect
<1>5. CASE AePlan
  BY <1>3, <1>5, <1>s, PlanEffect
<1>6. ASSUME NEW d, AuditRoot(d) PROVE CapLedger'
  BY <1>3, <1>6, <1>s, RootEffect
<1>7. ASSUME NEW d, NEW b, AuditBucket(d, b) PROVE CapLedger'
  BY <1>3, <1>7, <1>s, BucketEffect, Zenon
<1>8. ASSUME NEW d, AeCollect(d) PROVE CapLedger'
  BY <1>3, <1>8, <1>s, CollectEffect, Zenon
<1>9. ASSUME ae' = AeIdle, AuditReps' = {} PROVE CapLedger'
  BY <1>9, CapIdle, Zenon DEF Running
<1>10. CASE AeEnd
  BY <1>9, <1>10, Zenon DEF AeEnd, AuditReps, stripeVars
<1>11. CASE CoordDies
  BY <1>9, <1>11, Zenon DEF CoordDies, AuditReps
<1> QED
  BY <1>1, <1>2, <1>4, <1>5, <1>6, <1>7, <1>8, <1>10, <1>11, CapStart, CapCopy, CapStripes, CapReps, Zenon
  DEF Next, Heal


LEMMA HealInit ==
  ASSUME Init
  PROVE  HealShape /\ CapLedger
<1>1. /\ conf \in Setups /\ meta = conf.stored /\ up = DN /\ put = PutIdle /\ reps = {} /\ ae = AeIdle
      /\ file = [d \in DN |-> [c \in Chunk |->
                   IF \E k \in Key : <<d, c>> \in Copies(conf.stored[k]) THEN "good" ELSE "none"]]
      /\ corrupt = [d \in DN |-> {}] /\ saved = [d \in DN |-> {}] /\ scrub = [d \in DN |-> ScanStart]
  BY Zenon DEF Init, StripesInit
<1>2. MetaShape
  <2>1. meta \in [Key -> [k : Nat, groups : Seq(Seq([id : Chunk, replicas : Seq(DN)]))]]
    BY <1>1, SetupAssumption, Zenon
  <2>2. ASSUME NEW k \in Key PROVE FiniteObject(meta[k])
    <3> DEFINE T == [id : Chunk, replicas : Seq(DN)]
               g == meta[k].groups
    <3>1. meta[k] \in [k : Nat, groups : Seq(Seq(T))]
      BY <2>1, Zenon
    <3>2. DOMAIN meta[k] = {"k", "groups"} /\ g \in Seq(Seq(T))
      BY <3>1
    <3> HIDE DEF T, g
    <3>3. IsFiniteSet(DOMAIN g) /\ \A s \in DOMAIN g : g[s] \in Seq(T)
      <4>1. DOMAIN g = 1..Len(g) /\ Len(g) \in Nat
        BY <3>2
      <4>2. \A s \in DOMAIN g : g[s] \in Seq(T)
        BY <3>2, <4>1
      <4> QED
        BY <4>1, <4>2, FS_Interval
    <3>4. ASSUME NEW s \in DOMAIN g PROVE IsFiniteSet(DOMAIN g[s])
      <4>1. DOMAIN g[s] = 1..Len(g[s]) /\ Len(g[s]) \in Nat
        BY <3>3
      <4> QED
        BY <4>1, FS_Interval
    <3> QED
      BY <3>2, <3>3, <3>4, Zenon DEF FiniteObject, g
  <2> QED
    BY <2>1, <2>2 DEF MetaShape
<1>3. PutShape /\ RepShape /\ RunShape
  BY <1>1 DEF PutShape, RepShape, RunShape, Running
<1>4. FileShape
  BY <1>1 DEF FileShape
<1>5. ScrubShape
  BY <1>1, OrderFacts DEF ScrubShape, ScanStart
<1>6. CapLedger
  <2>1. AuditReps = {} /\ ~Running
    BY <1>1 DEF AuditReps, Running
  <2> QED
    BY <2>1, FS_EmptySet, Zenon DEF CapLedger
<1> QED
  BY <1>1, <1>2, <1>3, <1>4, <1>5, <1>6, Zenon DEF HealShape

LEMMA CapReady == CapLedger => RepsOfRun
BY Zenon DEF CapLedger, RepsOfRun

LEMMA HealStutter == ASSUME HealShape, CapLedger, UNCHANGED vars PROVE HealShape' /\ CapLedger'
<1>1. HealShape'
  BY DEF HealShape, MetaShape, PutShape, FileShape, ScrubShape, RepShape, RunShape, Running, vars
<1>2. UNCHANGED <<conf, ae, reps>> /\ RunShape
  BY DEF vars, HealShape
<1>3. AuditReps' = AuditReps
  BY <1>2 DEF AuditReps
<1> QED
  BY <1>1, <1>2, <1>3, CapAside, Zenon

\* The state keeps its shape, and the counts of a run add up.
THEOREM HealLedgers == Spec => [](HealShape /\ CapLedger)
<1>1. Init => HealShape /\ CapLedger
  BY HealInit
<1>2. HealShape /\ CapLedger /\ [Next]_vars => HealShape' /\ CapLedger'
  BY HealShapeStep, CapStep, CapReady, HealStutter
<1> QED
  BY <1>1, <1>2, PTL DEF Spec

\* repairOne looks at the cap before the copy and counts after it, so every
\* worker that had passed the check may still add one; never more, whatever the
\* stripes and the copies of a run do together.
THEOREM CapBoundHolds == Spec => []CapBound
<1>1. HealShape /\ CapLedger => CapBound
  <2> SUFFICES ASSUME HealShape, CapLedger, ae # AeIdle, conf.max > 0
               PROVE  ae.succ <= conf.max + conf.conc - 1
    BY DEF CapBound
  <2>1. /\ ae.succ \in Nat /\ IsFiniteSet(ae.work) /\ IsFiniteSet(AuditReps)
        /\ ae.succ + Cardinality(ae.work) + Cardinality(AuditReps) <= conf.max + conf.conc - 1
    BY Zenon DEF CapLedger, Running
  <2>2. Cardinality(ae.work) \in Nat /\ Cardinality(AuditReps) \in Nat
    BY <2>1, FS_CardinalityType
  <2>3. conf.max \in Nat /\ conf.conc \in Nat
    BY ConfFacts DEF HealShape
  <2> QED
    BY <2>1, <2>2, <2>3
<1> QED
  BY <1>1, HealLedgers, PTL


-----------------------------------------------------------------------------
(* Giving up.  A run gives a chunk up when no owner looks like a source;   *)
(* in a run nobody disturbs what it has collected stays true of the nodes, *)
(* because the run itself only writes chunks that have a source.           *)

\* No owner of the chunk looks like a source.
Hopeless(c) == \A o \in Owners(c) : o \notin ae.reached \/ ae.missing[o][c] # 0 \/ c \in ae.flagged[o]

Unservable(d, c) == file[d][c] = "none" \/ c \in corrupt[d] \/ expectedChunksByDN[d][c] > 1

JobLedger ==
    Running =>
        /\ ae.reached \subseteq DN
        /\ ae.at # "copy" => ae.lost = {}
        /\ ae.at = "copy" =>
             /\ \A j \in ae.jobs : j.id \in Chunk /\ (ae.missing[j.dn][j.id] # 0 \/ j.id \in ae.flagged[j.dn])
             /\ \A w \in ae.work : w = [f \in {"job", "src", "at", "data"} |-> w[f]] /\ ~Hopeless(w.job.id)
             /\ \A c \in ae.lost : c \in Chunk /\ Hopeless(c)

QuietLedger ==
    Running /\ ae.quiet =>
        /\ ae.at = "audit" => /\ ae.exp = expectedChunksByDN
                              /\ up \cap nodes \subseteq ae.left \cup ae.reached
                              /\ \A d \in DN : ae.flagged[d] = {}
        /\ ae.at \in {"collect", "copy"} => /\ up \cap nodes \subseteq ae.reached
                                            /\ \A d \in DN : ae.flagged[d] \subseteq corrupt[d]
        /\ ae.at \in {"audit", "collect"} =>
             \A d \in DN, c \in Chunk : ae.missing[d][c] # 0 => file[d][c] = "none" \/ expectedChunksByDN[d][c] > 1
        /\ ae.at = "copy" =>
             \A c \in Chunk : Hopeless(c) => \A d \in Owners(c) \cap up \cap nodes : Unservable(d, c)

\* The audit counts references: finitely many.
LEMMA ExpectedNat ==
  ASSUME MetaShape, NEW d \in DN, NEW c \in Chunk
  PROVE  expectedChunksByDN[d][c] \in Nat
<1> DEFINE At(k, s) == {x \in DOMAIN meta[k].groups[s] : /\ meta[k].groups[s][x].id = c
                                                         /\ d \in Range(meta[k].groups[s][x].replicas)}
           Group(k, s) == {<<k, s, i>> : i \in At(k, s)}
           Obj(k) == UNION {Group(k, s) : s \in DOMAIN meta[k].groups}
           All == UNION {Obj(k) : k \in Key}
<1>1. expectedChunksByDN[d][c] = Cardinality(All)
  BY Zenon DEF expectedChunksByDN
<1>2. ASSUME NEW k \in Key, NEW s \in DOMAIN meta[k].groups PROVE IsFiniteSet(Group(k, s))
  <2>1. IsFiniteSet(DOMAIN meta[k].groups[s])
    BY Zenon DEF MetaShape, FiniteObject
  <2>2. IsFiniteSet(At(k, s))
    BY <2>1, FS_Subset
  <2> DEFINE f == [i \in At(k, s) |-> <<k, s, i>>]
  <2>3. f = [i \in At(k, s) |-> f[i]] /\ Group(k, s) = {f[i] : i \in At(k, s)}
    BY Zenon
  <2> HIDE DEF f, At
  <2>4. IsFiniteSet({f[i] : i \in At(k, s)})
    BY <2>2, <2>3, FiniteImage
  <2> QED
    BY <2>3, <2>4, Zenon
<1> HIDE DEF Group
<1>3. ASSUME NEW k \in Key PROVE IsFiniteSet(Obj(k))
  <2> DEFINE f == [s \in DOMAIN meta[k].groups |-> Group(k, s)]
  <2>1. IsFiniteSet(DOMAIN meta[k].groups)
    BY Zenon DEF MetaShape, FiniteObject
  <2>2. f = [s \in DOMAIN meta[k].groups |-> f[s]]
        /\ {Group(k, s) : s \in DOMAIN meta[k].groups} = {f[s] : s \in DOMAIN meta[k].groups}
    BY Zenon
  <2> HIDE DEF f
  <2>4. IsFiniteSet({f[s] : s \in DOMAIN meta[k].groups})
    BY <2>1, <2>2, FiniteImage, Zenon
  <2>3. IsFiniteSet({Group(k, s) : s \in DOMAIN meta[k].groups})
    BY <2>2, <2>4, Zenon
  <2> QED
    BY <1>2, <2>3, FS_UNION, Zenon
<1> HIDE DEF Obj
<1>4. IsFiniteSet(All)
  <2> DEFINE f == [k \in Key |-> Obj(k)]
  <2>1. IsFiniteSet(Key)
    BY SetupAssumption
  <2>2. f = [k \in Key |-> f[k]] /\ {Obj(k) : k \in Key} = {f[k] : k \in Key}
    BY Zenon
  <2> HIDE DEF f
  <2>4. IsFiniteSet({f[k] : k \in Key})
    BY <2>1, <2>2, FiniteImage, Zenon
  <2>3. IsFiniteSet({Obj(k) : k \in Key})
    BY <2>2, <2>4, Zenon
  <2> QED
    BY <1>3, <2>3, FS_UNION, Zenon
<1> QED
  BY <1>1, <1>4, FS_CardinalityType, Zenon

\* What the audit finds missing in a bucket is not there, or listed repeatedly.
LEMMA MissingMeans ==
  ASSUME MetaShape, NEW d \in DN, NEW b, NEW c \in Chunk, ae.exp = expectedChunksByDN,
         ae.missing[d][c] # 0 => file[d][c] = "none" \/ expectedChunksByDN[d][c] > 1,
         OnlyExpected(d, b)[c] # 0
  PROVE  file[d][c] = "none" \/ expectedChunksByDN[d][c] > 1
<1> DEFINE n == Cardinality({c} \cap listBucket(d, b))
           e == expectedChunksByDN[d][c]
<1>0. e \in Nat
  BY ExpectedNat
<1>1. OnlyExpected(d, b)[c] = IF BucketOf[c] # b THEN ae.missing[d][c] ELSE Max({0, e - n})
  BY Zenon DEF OnlyExpected
<1>2. CASE BucketOf[c] # b
  BY <1>1, <1>2, Zenon
<1>3. CASE BucketOf[c] = b /\ file[d][c] # "none"
  <2>1. {c} \cap listBucket(d, b) = {c}
    BY <1>3 DEF listBucket
  <2>2. n = 1
    BY <2>1, FS_Singleton, Zenon
  <2> HIDE DEF n, e
  <2>3. Max({0, e - n}) # 0
    BY <1>1, <1>3, Zenon
  <2>4. e - n \in Int
    BY <1>0, <2>2
  <2>5. e - n > 0
    BY <2>3, <2>4, LargestOfTwo, Zenon
  <2> QED
    BY <1>0, <2>2, <2>5 DEF e
<1> QED
  BY <1>2, <1>3, Zenon


LEMMA OwnersSame == ASSUME ae'.objs = ae.objs PROVE \A c : Owners(c)' = Owners(c)
BY Zenon DEF Owners

LEMMA HopelessSame ==
  ASSUME ae'.objs = ae.objs, ae'.reached = ae.reached, ae'.missing = ae.missing, ae'.flagged = ae.flagged
  PROVE  \A c : Hopeless(c)' <=> Hopeless(c)
BY OwnersSame, Zenon DEF Hopeless

LEMMA ExpectedSame == ASSUME UNCHANGED meta PROVE expectedChunksByDN' = expectedChunksByDN
<1> DEFINE E(m) ==
      [d \in DN |-> [c \in Chunk |->
        Cardinality(UNION {UNION {{<<k, s, i>> : i \in {x \in DOMAIN m[k].groups[s] :
                                       /\ m[k].groups[s][x].id = c
                                       /\ d \in Range(m[k].groups[s][x].replicas)}} :
                                  s \in DOMAIN m[k].groups} : k \in Key})]]
<1>1. expectedChunksByDN = E(meta) /\ expectedChunksByDN' = E(meta')
  BY Zenon DEF expectedChunksByDN
<1> HIDE DEF E
<1> QED
  BY <1>1

\* The ledgers of a run in its copy phase are about what it has collected.
LEMMA JobAside ==
  ASSUME JobLedger, RunShape, ae' = ae \/ Disturbed
  PROVE  JobLedger'
<1>1. /\ Running' <=> Running
      /\ Running => /\ ae'.at = ae.at /\ ae'.lost = ae.lost /\ ae'.jobs = ae.jobs /\ ae'.work = ae.work
                    /\ ae'.objs = ae.objs /\ ae'.reached = ae.reached /\ ae'.missing = ae.missing
                    /\ ae'.flagged = ae.flagged
  <2>1. CASE ae' = ae
    BY <2>1, Zenon DEF Running, AeIdle
  <2>2. CASE Disturbed
    <3>1. (Running' <=> Running) /\ (Running => Changes({"quiet"}))
      BY <2>2, DisturbedEffect, Zenon
    <3> QED
      BY <3>1, ChangesKeep
  <2> QED
    BY <2>1, <2>2
<1> QED
  BY <1>1, HopelessSame, Zenon DEF JobLedger

\* Before the copies there is nothing to account for.
LEMMA JobEarly ==
  ASSUME JobLedger, Running, ae'.lost = ae.lost, ae.at # "copy", ae'.at # "copy", ae'.reached \subseteq DN
  PROVE  JobLedger'
BY Zenon DEF JobLedger

LEMMA JobPlan ==
  ASSUME JobLedger, CapLedger, RunShape, AePlan
  PROVE  JobLedger'
<1>1. /\ Changes({"at", "jobs"}) /\ ae.at = "collect" /\ ae'.at = "copy" /\ ae'.jobs = Jobs
  BY PlanEffect, Zenon
<1>2. /\ ae'.missing = ae.missing /\ ae'.flagged = ae.flagged /\ ae'.reached = ae.reached
      /\ ae'.work = ae.work /\ ae'.lost = ae.lost
  BY <1>1, ChangesKeep
<1>3. /\ ae.reached \subseteq DN /\ ae.lost = {} /\ ae.work = {}
      /\ \A d \in DN : ae.flagged[d] \subseteq Chunk
  BY <1>1, Zenon DEF JobLedger, CapLedger, RunShape, Changes
<1>4. ASSUME NEW j \in Jobs PROVE j.id \in Chunk /\ (ae.missing[j.dn][j.id] # 0 \/ j.id \in ae.flagged[j.dn])
  <2>1. \/ \E d \in ae.reached, c \in Chunk : \E n \in 1..ae.missing[d][c] :
               j = [dn |-> d, id |-> c, reason |-> "missing", n |-> n]
        \/ \E d \in ae.reached : \E c \in ae.flagged[d] :
               j = [dn |-> d, id |-> c, reason |-> "corrupt", n |-> 1]
    <3> DEFINE Miss(d, c) == {[dn |-> d, id |-> c, reason |-> "missing", n |-> n] : n \in 1..ae.missing[d][c]}
               Flag(d) == {[dn |-> d, id |-> c, reason |-> "corrupt", n |-> 1] : c \in ae.flagged[d]}
               On(d) == Flag(d) \cup UNION {Miss(d, c) : c \in Chunk}
    <3>1. Jobs = UNION {On(d) : d \in ae.reached}
      BY DEF Jobs
    <3> HIDE DEF Miss, Flag
    <3>2. PICK d \in ae.reached : (\E c \in Chunk : j \in Miss(d, c)) \/ j \in Flag(d)
      <4>1. ASSUME NEW d, j \in On(d) PROVE (\E c \in Chunk : j \in Miss(d, c)) \/ j \in Flag(d)
        BY <4>1, Zenon
      <4> HIDE DEF On
      <4>2. \E d \in ae.reached : j \in On(d)
        BY <1>4, <3>1
      <4> QED
        BY <4>1, <4>2, Zenon
    <3>3. ASSUME NEW c, j \in Miss(d, c)
          PROVE  \E n \in 1..ae.missing[d][c] : j = [dn |-> d, id |-> c, reason |-> "missing", n |-> n]
      BY <3>3, Zenon DEF Miss
    <3>4. ASSUME j \in Flag(d)
          PROVE  \E c \in ae.flagged[d] : j = [dn |-> d, id |-> c, reason |-> "corrupt", n |-> 1]
      BY <3>4, Zenon DEF Flag
    <3> QED
      BY <3>2, <3>3, <3>4, Zenon
  <2>2. ASSUME NEW d, NEW c \in Chunk, NEW n \in 1..ae.missing[d][c],
               j = [dn |-> d, id |-> c, reason |-> "missing", n |-> n]
        PROVE  j.id \in Chunk /\ ae.missing[j.dn][j.id] # 0
    <3>1. j.dn = d /\ j.id = c
      BY <2>2
    <3>2. ae.missing[d][c] # 0
      BY <2>2
    <3> QED
      BY <3>1, <3>2, Zenon
  <2>3. ASSUME NEW d \in ae.reached, NEW c \in ae.flagged[d],
               j = [dn |-> d, id |-> c, reason |-> "corrupt", n |-> 1]
        PROVE  j.id \in Chunk /\ j.id \in ae.flagged[j.dn]
    <3>1. j.dn = d /\ j.id = c
      BY <2>3
    <3> QED
      BY <1>3, <3>1, Zenon
  <2> QED
    BY <2>1, <2>2, <2>3, Zenon
<1> QED
  BY <1>1, <1>2, <1>3, <1>4, Zenon DEF JobLedger

LEMMA JobCopy ==
  ASSUME JobLedger, RunShape,
         (\E j : repairOne(j)) \/ (ae.at = "copy" /\ \E w : CopyRead(w) \/ CopyPut(w))
  PROVE  JobLedger'
<1>a. ae.at = "copy"
  BY Zenon DEF repairOne
<1>b. Running
  BY <1>a, AtRunning
<1>c. /\ ae.reached \subseteq DN
      /\ \A j \in ae.jobs : j.id \in Chunk /\ (ae.missing[j.dn][j.id] # 0 \/ j.id \in ae.flagged[j.dn])
      /\ \A w \in ae.work : w = [f \in {"job", "src", "at", "data"} |-> w[f]] /\ ~Hopeless(w.job.id)
      /\ \A c \in ae.lost : c \in Chunk /\ Hopeless(c)
  BY <1>a, <1>b, Zenon DEF JobLedger
<1>g. ASSUME Changes({"jobs", "lost", "work", "succ"}), ae'.jobs \subseteq ae.jobs,
             \A w \in ae'.work : w = [f \in {"job", "src", "at", "data"} |-> w[f]] /\ ~Hopeless(w.job.id),
             \A c \in ae'.lost : c \in Chunk /\ Hopeless(c)
      PROVE  JobLedger'
  <2>1. /\ ae'.at = "copy" /\ ae'.missing = ae.missing /\ ae'.flagged = ae.flagged
        /\ ae'.reached = ae.reached /\ ae'.objs = ae.objs
    BY <1>a, <1>g, ChangesKeep
  <2>2. \A c : Hopeless(c)' <=> Hopeless(c)
    BY <2>1, HopelessSame, Zenon
  <2> QED
    BY <1>c, <1>g, <2>1, <2>2, Zenon DEF JobLedger
<1>h. ASSUME NEW F, F \subseteq {"jobs", "lost", "work", "succ"}, Changes(F)
      PROVE  Changes({"jobs", "lost", "work", "succ"})
  BY <1>h, Zenon DEF Changes
<1>1. ASSUME NEW j, repairOne(j) PROVE JobLedger'
  <2>1. /\ Changes({"jobs", "lost", "work"}) /\ j \in ae.jobs /\ ae'.jobs = ae.jobs \ {j}
        /\ \/ ae'.lost = ae.lost /\ ae'.work = ae.work
           \/ Sources(j.dn, j.id) = {} /\ ae'.lost = ae.lost \cup {j.id} /\ ae'.work = ae.work
           \/ (\E o \in Sources(j.dn, j.id) : ae'.work = ae.work \cup {Taken(j, o)}) /\ ae'.lost = ae.lost
    BY <1>1, RepairOneEffect, Zenon
  <2>2. Changes({"jobs", "lost", "work", "succ"}) /\ ae'.jobs \subseteq ae.jobs
    BY <1>h, <2>1
  <2>3. ASSUME Sources(j.dn, j.id) = {} PROVE j.id \in Chunk /\ Hopeless(j.id)
    <3>1. j.id \in Chunk /\ (ae.missing[j.dn][j.id] # 0 \/ j.id \in ae.flagged[j.dn])
      BY <1>c, <2>1, Zenon
    <3> QED
      BY <2>3, <3>1, Zenon DEF Hopeless, Sources
  <2>4. ASSUME NEW o \in Sources(j.dn, j.id)
        PROVE  LET w == Taken(j, o)
               IN  w = [f \in {"job", "src", "at", "data"} |-> w[f]] /\ ~Hopeless(w.job.id)
    <3>1. /\ Taken(j, o) = [f \in {"job", "src", "at", "data"} |-> Taken(j, o)[f]]
          /\ Taken(j, o).job = j
      BY DEF Taken
    <3>2. ~Hopeless(j.id)
      BY <2>4, Zenon DEF Hopeless, Sources
    <3> QED
      BY <3>1, <3>2, Zenon
  <2> QED
    BY <1>c, <1>g, <2>1, <2>2, <2>3, <2>4, Zenon
<1>2. ASSUME NEW w, CopyRead(w) PROVE JobLedger'
  <2>1. /\ Changes({"work"}) /\ w \in ae.work
        /\ \/ ae'.work = ae.work \ {w}
           \/ \E b : ae'.work = (ae.work \ {w}) \cup {[w EXCEPT !.at = "put", !.data = b]}
    BY <1>2, <1>a, CopyReadEffect, Zenon
  <2>c. Changes({"work"}) /\ w = [f \in {"job", "src", "at", "data"} |-> w[f]]
    BY <1>c, <2>1, Zenon
  <2>2. ae'.jobs = ae.jobs /\ ae'.lost = ae.lost /\ Changes({"jobs", "lost", "work", "succ"})
    BY <1>h, <2>c, ChangesKeep
  <2>3. ASSUME NEW b
        PROVE  LET x == [w EXCEPT !.at = "put", !.data = b]
               IN  x = [f \in {"job", "src", "at", "data"} |-> x[f]] /\ x.job = w.job
    BY <2>c, Zenon
  <2> QED
    BY <1>c, <1>g, <2>1, <2>2, <2>3, Zenon
<1>3. ASSUME NEW w, CopyPut(w) PROVE JobLedger'
  <2>1. Changes({"work", "succ"}) /\ ae'.work = ae.work \ {w}
    BY <1>3, <1>a, CopyPutEffect, Zenon
  <2>2. ae'.jobs = ae.jobs /\ ae'.lost = ae.lost /\ Changes({"jobs", "lost", "work", "succ"})
    BY <1>h, <2>1, ChangesKeep
  <2> QED
    BY <1>c, <1>g, <2>1, <2>2, Zenon
<1> QED
  BY <1>1, <1>2, <1>3, Zenon


LEMMA JobStep ==
  ASSUME JobLedger, CapLedger, HealShape, Next
  PROVE  JobLedger'
<1>s. RunShape
  BY DEF HealShape
<1>1. CASE StripesNext /\ Disturbed /\ UNCHANGED <<corrupt, saved, scrub>>
  BY <1>1, <1>s, JobAside, Zenon
<1>2. ASSUME NEW d \in DN, Scrub(d) \/ DnRestart(d) PROVE JobLedger'
  <2>1. ae' = ae \/ Disturbed
    BY <1>2, Zenon DEF Scrub, ScrubVisit, ScrubRead, ScrubMark, DnRestart
  <2> QED
    BY <1>s, <2>1, JobAside, Zenon
<1>3. CASE AeStart
  <2>1. ae'.at = "audit" /\ ae'.lost = {} /\ ae'.reached = {}
    BY <1>3, StartEffect, Zenon
  <2> QED
    BY <2>1, Zenon DEF JobLedger
<1>4. CASE AeList
  <2>1. Changes({"at", "exp", "objs", "left"}) /\ ae.at = "audit" /\ ae'.at = "collect"
    BY <1>4, <1>s, ListEffect, Zenon
  <2>2. ae'.lost = ae.lost /\ ae'.reached = ae.reached /\ Running
    BY <2>1, ChangesKeep DEF Changes
  <2>3. ae.reached \subseteq DN
    BY <2>2, Zenon DEF JobLedger
  <2> QED
    BY <2>1, <2>2, <2>3, JobEarly, Zenon
<1>5. ASSUME NEW d \in DN, AuditRoot(d) PROVE JobLedger'
  <2>1. /\ Changes({"left", "reached", "differ", "quiet"}) /\ ae.at = "audit"
        /\ ae'.reached = ae.reached \cup {d} \/ ae'.reached = ae.reached
    BY <1>5, <1>s, RootEffect, Zenon
  <2>2. ae'.lost = ae.lost /\ ae'.at = ae.at /\ Running
    BY <2>1, ChangesKeep DEF Changes
  <2>3. ae'.reached \subseteq DN
    BY <2>1, <2>2, Zenon DEF JobLedger
  <2> QED
    BY <2>1, <2>2, <2>3, JobEarly, Zenon
<1>6. ASSUME NEW F, F \subseteq {"left", "differ", "missing", "flagged", "quiet"}, Changes(F), ae.at \in {"audit", "collect"}
      PROVE  JobLedger'
  <2>1. ae'.lost = ae.lost /\ ae'.at = ae.at /\ ae'.reached = ae.reached /\ Running
    BY <1>6, ChangesKeep DEF Changes
  <2>2. ae'.reached \subseteq DN /\ ae.at # "copy"
    BY <1>6, <2>1, Zenon DEF JobLedger
  <2> QED
    BY <2>1, <2>2, JobEarly, Zenon
<1>7. ASSUME NEW d, NEW b, AuditBucket(d, b) PROVE JobLedger'
  <2>1. Changes({"differ", "missing", "quiet"}) /\ ae.at = "audit"
    BY <1>7, <1>s, BucketEffect, Zenon
  <2> QED
    BY <1>6, <2>1, Zenon
<1>8. ASSUME NEW d, AeCollect(d) PROVE JobLedger'
  <2>1. Changes({"left", "flagged", "quiet"}) /\ ae.at = "collect"
    BY <1>8, <1>s, CollectEffect, Zenon
  <2> QED
    BY <1>6, <2>1, Zenon
<1>9. CASE AeStripes
  <2>1. /\ Changes({"at", "missing", "reached", "flagged", "objs", "lost"})
        /\ ae'.at = "ec" /\ ae'.lost = {}
    BY <1>9, <1>s, StripesEffect, Zenon
  <2>2. ae'.reached = {}
    <3>1. ae' = [ae EXCEPT !.at = "ec", !.missing = NoIds, !.reached = {}, !.flagged = NoFlags, !.objs = NoObjects,
                           !.lost = {}]
      BY <1>9 DEF AeStripes
    <3>2. ae = [f \in AeFields |-> ae[f]]
      BY <1>s, <2>1 DEF RunShape, Changes
    <3> QED
      BY <3>1, <3>2, Zenon DEF AeFields
  <2> QED
    BY <2>1, <2>2, Zenon DEF JobLedger
<1>10. CASE AeEnd \/ CoordDies
  <2>1. ae' = AeIdle
    BY <1>10, Zenon DEF AeEnd, CoordDies
  <2> QED
    BY <2>1, Zenon DEF JobLedger, Running
<1>11. ASSUME NEW r \in reps, r.by = "audit", StripeDone(r) PROVE JobLedger'
  <2>1. r \in AuditReps
    BY <1>11, Zenon DEF AuditReps
  <2>2. Running /\ ae.at = "ec"
    BY <2>1, Zenon DEF CapLedger
  <2>3. Changes({"succ"})
    BY <1>11, <1>s, <2>2, DoneEffect, Zenon
  <2>4. ae'.lost = ae.lost /\ ae'.at = ae.at /\ ae'.reached = ae.reached
    BY <2>3, ChangesKeep
  <2>5. ae'.reached \subseteq DN
    BY <2>2, <2>4, Zenon DEF JobLedger
  <2> QED
    BY <2>2, <2>4, <2>5, JobEarly, Zenon
<1>12. ASSUME UNCHANGED aeVars PROVE JobLedger'
  <2>1. ae' = ae
    BY <1>12 DEF aeVars
  <2> QED
    BY <1>s, <2>1, JobAside, Zenon
<1>13. CASE AePlan
  BY <1>13, <1>s, JobPlan, Zenon
<1>14. CASE (\E j : repairOne(j)) \/ (ae.at = "copy" /\ \E w : CopyRead(w) \/ CopyPut(w))
  BY <1>14, <1>s, JobCopy, Zenon
<1> QED
  BY <1>1, <1>2, <1>3, <1>4, <1>5, <1>7, <1>8, <1>9, <1>10, <1>11, <1>12, <1>13, <1>14, Zenon DEF Next, Heal


\* A run that is disturbed, or has nothing left to give up, is out of account.
LEMMA QuietOver ==
  ASSUME ~ae'.quiet \/ ae'.at \notin {"audit", "collect", "copy"} \/ ~Running'
  PROVE  QuietLedger'
BY Zenon DEF QuietLedger

\* Nothing the ledger speaks of changes.
LEMMA QuietSame ==
  ASSUME QuietLedger, ae' = ae, UNCHANGED <<meta, file, up, nodes, corrupt>>
  PROVE  QuietLedger'
<1>1. Running' <=> Running
  BY DEF Running, AeIdle
<1>2. expectedChunksByDN' = expectedChunksByDN
  BY ExpectedSame, Zenon
<1>3. \A c : (Hopeless(c)' <=> Hopeless(c)) /\ Owners(c)' = Owners(c)
  BY HopelessSame, OwnersSame, Zenon
<1>4. \A d, c : Unservable(d, c)' <=> Unservable(d, c)
  BY <1>2, Zenon DEF Unservable
<1> QED
  BY <1>1, <1>2, <1>3, <1>4, Zenon DEF QuietLedger

LEMMA QuietStart ==
  ASSUME AeStart
  PROVE  QuietLedger'
<1>1. /\ ae'.at = "audit" /\ ae'.exp = expectedChunksByDN /\ ae'.left = nodes /\ ae'.missing = NoIds
      /\ ae'.flagged = NoFlags /\ UNCHANGED <<meta, nodes>>
  BY StartEffect, Zenon DEF stripeVars
<1>2. expectedChunksByDN' = expectedChunksByDN
  BY <1>1, ExpectedSame, Zenon
<1>3. \A d \in DN : NoFlags[d] = {} /\ \A c \in Chunk : NoIds[d][c] = 0
  BY Zenon DEF NoFlags, NoIds
<1>4. up' \cap nodes' \subseteq ae'.left \cup ae'.reached
  BY <1>1, Zenon
<1> QED
  BY <1>1, <1>2, <1>3, <1>4, Zenon DEF QuietLedger

\* What a quiet run in its audit knows.
LEMMA QuietRoot ==
  ASSUME QuietLedger, RunShape, NEW d, AuditRoot(d)
  PROVE  QuietLedger'
<1>1. /\ Changes({"left", "reached", "differ", "quiet"}) /\ ae.at = "audit" /\ UNCHANGED runFrame
      /\ ae'.left = ae.left \ {d}
      /\ \/ ae'.reached = ae.reached \cup {d} /\ (ae'.quiet => ae.quiet)
         \/ ae'.reached = ae.reached /\ (ae'.quiet => ae.quiet /\ d \notin up)
  BY RootEffect, Zenon
<1>2. ae'.at = "audit" /\ ae'.exp = ae.exp /\ ae'.flagged = ae.flagged /\ ae'.missing = ae.missing /\ Running
  BY <1>1, ChangesKeep DEF Changes
<1>3. UNCHANGED <<meta, file, up, nodes, corrupt>>
  BY <1>1, Zenon DEF runFrame
<1>4. expectedChunksByDN' = expectedChunksByDN
  BY <1>3, ExpectedSame, Zenon
<1> SUFFICES ASSUME ae'.quiet PROVE QuietLedger'
  BY QuietOver, Zenon
<1>5. ae.quiet /\ (ae'.reached = ae.reached \cup {d} \/ (ae'.reached = ae.reached /\ d \notin up))
  BY <1>1, Zenon
<1>6. /\ ae.exp = expectedChunksByDN /\ up \cap nodes \subseteq ae.left \cup ae.reached
      /\ \A e \in DN : ae.flagged[e] = {}
      /\ \A e \in DN, c \in Chunk : ae.missing[e][c] # 0 => file[e][c] = "none" \/ expectedChunksByDN[e][c] > 1
  BY <1>1, <1>2, <1>5, Zenon DEF QuietLedger
<1>7. up' \cap nodes' \subseteq ae'.left \cup ae'.reached
  BY <1>1, <1>3, <1>5, <1>6, Zenon
<1> QED
  BY <1>2, <1>3, <1>4, <1>6, <1>7, Zenon DEF QuietLedger

LEMMA QuietBucket ==
  ASSUME QuietLedger, HealShape, NEW d \in DN, NEW b, AuditBucket(d, b)
  PROVE  QuietLedger'
<1>s. RunShape /\ MetaShape
  BY DEF HealShape
<1>1. /\ Changes({"differ", "missing", "quiet"}) /\ ae.at = "audit" /\ UNCHANGED runFrame
      /\ \/ ae'.missing = [ae.missing EXCEPT ![d] = OnlyExpected(d, b)] /\ (ae'.quiet => ae.quiet)
         \/ ae'.missing = ae.missing /\ ~ae'.quiet
  BY <1>s, BucketEffect, Zenon
<1>2. ae'.at = "audit" /\ ae'.exp = ae.exp /\ ae'.flagged = ae.flagged /\ ae'.reached = ae.reached
      /\ ae'.left = ae.left /\ Running
  BY <1>1, ChangesKeep DEF Changes
<1>3. UNCHANGED <<meta, file, up, nodes, corrupt>>
  BY <1>1, Zenon DEF runFrame
<1>4. expectedChunksByDN' = expectedChunksByDN
  BY <1>3, ExpectedSame, Zenon
<1> SUFFICES ASSUME ae'.quiet PROVE QuietLedger'
  BY QuietOver, Zenon
<1>5. ae.quiet /\ ae'.missing = [ae.missing EXCEPT ![d] = OnlyExpected(d, b)]
  BY <1>1, Zenon
<1>6. /\ ae.exp = expectedChunksByDN /\ up \cap nodes \subseteq ae.left \cup ae.reached
      /\ \A e \in DN : ae.flagged[e] = {}
      /\ \A e \in DN, c \in Chunk : ae.missing[e][c] # 0 => file[e][c] = "none" \/ expectedChunksByDN[e][c] > 1
  BY <1>1, <1>2, <1>5, Zenon DEF QuietLedger
<1>7. DOMAIN ae.missing = DN
  BY <1>2, <1>s, Zenon DEF RunShape
<1>8. ASSUME NEW e \in DN, NEW c \in Chunk, ae'.missing[e][c] # 0
      PROVE  file[e][c] = "none" \/ expectedChunksByDN[e][c] > 1
  <2>1. CASE e = d
    <3>1. OnlyExpected(d, b)[c] # 0
      BY <1>5, <1>7, <1>8, <2>1, Zenon
    <3>2. file[d][c] = "none" \/ expectedChunksByDN[d][c] > 1
      BY <1>6, <1>s, <3>1, MissingMeans, Zenon
    <3> QED
      BY <2>1, <3>2, Zenon
  <2>2. CASE e # d
    <3>1. ae'.missing[e] = ae.missing[e]
      BY <1>5, <1>7, <2>2, Zenon
    <3> QED
      BY <1>6, <1>8, <3>1, Zenon
  <2> QED
    BY <2>1, <2>2
<1> QED
  BY <1>2, <1>3, <1>4, <1>6, <1>8, Zenon DEF QuietLedger

LEMMA QuietList ==
  ASSUME QuietLedger, RunShape, AeList
  PROVE  QuietLedger'
<1>1. /\ Changes({"at", "exp", "objs", "left"}) /\ ae.at = "audit" /\ UNCHANGED runFrame
      /\ ae'.at = "collect" /\ ae.left = {}
  BY ListEffect, Zenon
<1>2. /\ ae'.quiet = ae.quiet /\ ae'.flagged = ae.flagged /\ ae'.reached = ae.reached
      /\ ae'.missing = ae.missing /\ Running
  BY <1>1, ChangesKeep, Zenon DEF Changes
<1>3. UNCHANGED <<meta, file, up, nodes, corrupt>>
  BY <1>1, Zenon DEF runFrame
<1>4. expectedChunksByDN' = expectedChunksByDN
  BY <1>3, ExpectedSame, Zenon
<1> SUFFICES ASSUME ae'.quiet PROVE QuietLedger'
  BY QuietOver, Zenon
<1>5. /\ up \cap nodes \subseteq ae.left \cup ae.reached
      /\ \A e \in DN : ae.flagged[e] = {}
      /\ \A e \in DN, c \in Chunk : ae.missing[e][c] # 0 => file[e][c] = "none" \/ expectedChunksByDN[e][c] > 1
  BY <1>1, <1>2, Zenon DEF QuietLedger
<1>6. up' \cap nodes' \subseteq ae'.reached /\ \A e \in DN : ae'.flagged[e] \subseteq corrupt'[e]
  BY <1>1, <1>2, <1>3, <1>5, Zenon
<1> QED
  BY <1>1, <1>2, <1>3, <1>4, <1>5, <1>6, Zenon DEF QuietLedger


LEMMA QuietCollect ==
  ASSUME QuietLedger, RunShape, NEW d \in DN, AeCollect(d)
  PROVE  QuietLedger'
<1>1. /\ Changes({"left", "flagged", "quiet"}) /\ ae.at = "collect" /\ UNCHANGED runFrame
      /\ \/ ae'.flagged = [ae.flagged EXCEPT ![d] = corrupt[d]] /\ (ae'.quiet => ae.quiet)
         \/ ae'.flagged = ae.flagged /\ ~ae'.quiet
  BY CollectEffect, Zenon
<1>2. ae'.at = "collect" /\ ae'.reached = ae.reached /\ ae'.missing = ae.missing /\ Running
  BY <1>1, ChangesKeep DEF Changes
<1>3. UNCHANGED <<meta, file, up, nodes, corrupt>>
  BY <1>1, Zenon DEF runFrame
<1>4. expectedChunksByDN' = expectedChunksByDN
  BY <1>3, ExpectedSame, Zenon
<1> SUFFICES ASSUME ae'.quiet PROVE QuietLedger'
  BY QuietOver, Zenon
<1>5. ae.quiet /\ ae'.flagged = [ae.flagged EXCEPT ![d] = corrupt[d]]
  BY <1>1, Zenon
<1>6. /\ up \cap nodes \subseteq ae.reached
      /\ \A e \in DN : ae.flagged[e] \subseteq corrupt[e]
      /\ \A e \in DN, c \in Chunk : ae.missing[e][c] # 0 => file[e][c] = "none" \/ expectedChunksByDN[e][c] > 1
  BY <1>1, <1>2, <1>5, Zenon DEF QuietLedger
<1>7. DOMAIN ae.flagged = DN
  BY <1>2, Zenon DEF RunShape
<1>8. \A e \in DN : ae'.flagged[e] \subseteq corrupt'[e]
  BY <1>3, <1>5, <1>6, <1>7
<1> QED
  BY <1>2, <1>3, <1>4, <1>6, <1>8, Zenon DEF QuietLedger

\* The collected facts decide about every chunk.
LEMMA QuietPlan ==
  ASSUME QuietLedger, HealShape, AePlan
  PROVE  QuietLedger'
<1>1. Changes({"at", "jobs"}) /\ ae.at = "collect" /\ UNCHANGED runFrame /\ ae'.at = "copy"
  BY PlanEffect, Zenon DEF HealShape
<1>2. /\ ae'.quiet = ae.quiet /\ ae'.flagged = ae.flagged /\ ae'.reached = ae.reached
      /\ ae'.missing = ae.missing /\ ae'.objs = ae.objs /\ Running
  BY <1>1, ChangesKeep, Zenon DEF Changes
<1>3. UNCHANGED <<meta, file, up, nodes, corrupt>>
  BY <1>1, Zenon DEF runFrame
<1>4. expectedChunksByDN' = expectedChunksByDN
  BY <1>3, ExpectedSame, Zenon
<1>5. \A c : (Hopeless(c)' <=> Hopeless(c)) /\ Owners(c)' = Owners(c)
  BY <1>2, HopelessSame, OwnersSame, Zenon
<1> SUFFICES ASSUME ae'.quiet PROVE QuietLedger'
  BY QuietOver, Zenon
<1>6. /\ up \cap nodes \subseteq ae.reached
      /\ \A e \in DN : ae.flagged[e] \subseteq corrupt[e]
      /\ \A e \in DN, c \in Chunk : ae.missing[e][c] # 0 => file[e][c] = "none" \/ expectedChunksByDN[e][c] > 1
  BY <1>1, <1>2, Zenon DEF QuietLedger
<1>7. ASSUME NEW c \in Chunk, Hopeless(c), NEW d \in Owners(c) \cap up \cap nodes PROVE Unservable(d, c)
  <2>1. d \in Owners(c) /\ d \in ae.reached /\ d \in DN
    BY <1>6, Zenon DEF HealShape, FileShape
  <2>2. ae.missing[d][c] # 0 \/ c \in ae.flagged[d]
    BY <1>7, <2>1, Zenon DEF Hopeless
  <2> QED
    BY <1>6, <2>1, <2>2, Zenon DEF Unservable
<1>8. \A d, c : Unservable(d, c)' <=> Unservable(d, c)
  BY <1>3, <1>4, Zenon DEF Unservable
<1>9. up' \cap nodes' \subseteq ae'.reached /\ \A e \in DN : ae'.flagged[e] \subseteq corrupt'[e]
  BY <1>2, <1>3, <1>6, Zenon
<1>10. \A c \in Chunk : Hopeless(c)' => \A d \in Owners(c)' \cap up' \cap nodes' : Unservable(d, c)'
  BY <1>3, <1>5, <1>7, <1>8, Zenon
<1> QED
  BY <1>1, <1>9, <1>10, Zenon DEF QuietLedger

\* A copy lands on a chunk that had a source: what was given up stays given up
\* rightly.
LEMMA QuietCopy ==
  ASSUME QuietLedger, JobLedger, HealShape,
         (\E j : repairOne(j)) \/ (ae.at = "copy" /\ \E w : CopyRead(w) \/ CopyPut(w))
  PROVE  QuietLedger'
<1>s. RunShape /\ file \in Files /\ up \subseteq DN
  BY DEF HealShape, FileShape, Files
<1>a. ae.at = "copy"
  BY Zenon DEF repairOne
<1>b. Running
  BY <1>a, AtRunning
<1>g. ASSUME Changes({"jobs", "lost", "work", "succ"}), UNCHANGED <<meta, up, nodes, corrupt>>,
             \A d \in DN, c \in Chunk : file'[d][c] = file[d][c] \/ ~Hopeless(c)
      PROVE  QuietLedger'
  <2>1. /\ ae'.at = "copy" /\ ae'.missing = ae.missing /\ ae'.flagged = ae.flagged
        /\ ae'.reached = ae.reached /\ ae'.objs = ae.objs /\ ae'.quiet = ae.quiet
    BY <1>a, <1>g, ChangesKeep
  <2>2. expectedChunksByDN' = expectedChunksByDN
    BY <1>g, ExpectedSame, Zenon
  <2>3. \A c : (Hopeless(c)' <=> Hopeless(c)) /\ Owners(c)' = Owners(c)
    BY <2>1, HopelessSame, OwnersSame, Zenon
  <2> SUFFICES ASSUME ae'.quiet PROVE QuietLedger'
    BY QuietOver, Zenon
  <2>4. /\ up \cap nodes \subseteq ae.reached
        /\ \A d \in DN : ae.flagged[d] \subseteq corrupt[d]
        /\ \A c \in Chunk : Hopeless(c) => \A d \in Owners(c) \cap up \cap nodes : Unservable(d, c)
    BY <1>a, <1>b, <2>1, Zenon DEF QuietLedger
  <2>5. ASSUME NEW c \in Chunk, Hopeless(c), NEW d \in Owners(c) \cap up \cap nodes PROVE Unservable(d, c)'
    <3>1. d \in DN /\ Unservable(d, c)
      BY <1>s, <2>4, <2>5, Zenon
    <3>2. file'[d][c] = file[d][c]
      BY <1>g, <2>5, <3>1, Zenon
    <3> QED
      BY <1>g, <2>2, <3>1, <3>2, Zenon DEF Unservable
  <2>6. up' \cap nodes' \subseteq ae'.reached /\ \A d \in DN : ae'.flagged[d] \subseteq corrupt'[d]
    BY <1>g, <2>1, <2>4, Zenon
  <2>7. \A c \in Chunk : Hopeless(c)' => \A d \in Owners(c)' \cap up' \cap nodes' : Unservable(d, c)'
    <3>1. UNCHANGED <<up, nodes>>
      BY <1>g
    <3> QED
      BY <2>3, <2>5, <3>1, Zenon
  <2> QED
    BY <2>1, <2>6, <2>7, Zenon DEF QuietLedger
<1>h. ASSUME NEW F, F \subseteq {"jobs", "lost", "work", "succ"}, Changes(F)
      PROVE  Changes({"jobs", "lost", "work", "succ"})
  BY <1>h, Zenon DEF Changes
<1>1. ASSUME NEW j, repairOne(j) PROVE QuietLedger'
  <2>1. Changes({"jobs", "lost", "work"}) /\ UNCHANGED <<meta, up, nodes, corrupt, file>>
    BY <1>1, <1>s, RepairOneEffect, Zenon DEF runFrame
  <2> QED
    BY <1>g, <1>h, <2>1, Zenon
<1>2. ASSUME NEW w, CopyRead(w) PROVE QuietLedger'
  <2>1. Changes({"work"}) /\ UNCHANGED <<meta, up, nodes, corrupt, file>>
    BY <1>2, <1>a, <1>s, CopyReadEffect, Zenon DEF runFrame
  <2> QED
    BY <1>g, <1>h, <2>1, Zenon
<1>3. ASSUME NEW w, CopyPut(w) PROVE QuietLedger'
  <2>1. /\ Changes({"work", "succ"}) /\ UNCHANGED <<meta, up, nodes, corrupt>> /\ w \in ae.work
        /\ \/ UNCHANGED file
           \/ \E force : Stored(w.job.dn, w.job.id, force) \/ NotStored(w.job.dn, w.job.id, force)
    BY <1>3, <1>a, <1>s, CopyPutEffect, Zenon
  <2>2. ~Hopeless(w.job.id)
    BY <1>a, <1>b, <2>1, Zenon DEF JobLedger
  <2>3. \A d \in DN, c \in Chunk : file'[d][c] = file[d][c] \/ (d = w.job.dn /\ c = w.job.id)
    <3>1. CASE UNCHANGED file
      BY <3>1, Zenon
    <3>2. ASSUME NEW force, Stored(w.job.dn, w.job.id, force) \/ NotStored(w.job.dn, w.job.id, force)
          PROVE  \A d \in DN, c \in Chunk : file'[d][c] = file[d][c] \/ (d = w.job.dn /\ c = w.job.id)
      BY <1>s, <3>2, PutCalls
    <3> QED
      BY <2>1, <3>1, <3>2, Zenon
  <2>4. \A d \in DN, c \in Chunk : file'[d][c] = file[d][c] \/ ~Hopeless(c)
    BY <2>2, <2>3, Zenon
  <2> QED
    BY <1>g, <1>h, <2>1, <2>4, Zenon
<1> QED
  BY <1>1, <1>2, <1>3, Zenon

LEMMA QuietStep ==
  ASSUME QuietLedger, JobLedger, CapLedger, HealShape, Next
  PROVE  QuietLedger'
<1>s. RunShape
  BY DEF HealShape
<1>0. ASSUME Disturbed PROVE QuietLedger'
  BY <1>0, <1>s, DisturbedEffect, QuietOver, Zenon
<1>1. ASSUME NEW d \in DN, Scrub(d) \/ DnRestart(d) PROVE QuietLedger'
  <2>1. Disturbed \/ (ae' = ae /\ UNCHANGED <<meta, file, up, nodes, corrupt>>)
    BY <1>1, Zenon DEF Scrub, ScrubVisit, ScrubRead, ScrubMark, DnRestart, stripeVars
  <2> QED
    BY <1>0, <2>1, QuietSame, Zenon
<1>2. CASE AeStripes
  <2>1. ae'.at = "ec"
    BY <1>2, <1>s, StripesEffect, Zenon
  <2> QED
    BY <2>1, QuietOver, Zenon
<1>3. CASE AeEnd \/ CoordDies
  <2>1. ae' = AeIdle
    BY <1>3, Zenon DEF AeEnd, CoordDies
  <2> QED
    BY <2>1, QuietOver, Zenon DEF Running
<1>4. ASSUME NEW r \in reps, r.by = "audit", (RepStep(r) /\ UNCHANGED aeVars) \/ StripeDone(r) PROVE QuietLedger'
  <2>1. r \in AuditReps
    BY <1>4, Zenon DEF AuditReps
  <2>2. Running /\ ae.at = "ec"
    BY <2>1, Zenon DEF CapLedger
  <2>3. UNCHANGED ae \/ Changes({"succ"})
    BY <1>4, <1>s, <2>2, DoneEffect, Zenon DEF aeVars
  <2>4. ae'.at = "ec"
    BY <2>2, <2>3, ChangesKeep
  <2> QED
    BY <2>4, QuietOver, Zenon
<1> QED
  BY <1>0, <1>1, <1>2, <1>3, <1>4, <1>s, QuietStart, QuietRoot, QuietBucket, QuietList, QuietCollect, QuietPlan,
     QuietCopy, Zenon
  DEF Next, Heal

LEMMA GivenUpStutter ==
  ASSUME JobLedger, QuietLedger, HealShape, UNCHANGED vars
  PROVE  JobLedger' /\ QuietLedger'
<1>1. ae' = ae /\ UNCHANGED <<meta, file, up, nodes, corrupt>> /\ RunShape
  BY DEF vars, HealShape
<1> QED
  BY <1>1, JobAside, QuietSame, Zenon

\* repairOne answers "no healthy replica found" only when every node that is
\* listed for the chunk and answers lacks it or has flagged it, as long as
\* nothing but the run has happened since it began; and what it writes in the
\* meantime, with any number of workers, does not change that.  A node that
\* several references list for the chunk is exempt: the audit counts references,
\* so it misses one copy for each further one.
THEOREM GivenUpRightlyHolds == Spec => []GivenUpRightly
<1>1. Init => JobLedger /\ QuietLedger
  BY Zenon DEF Init, JobLedger, QuietLedger, Running
<1>2. HealShape /\ CapLedger /\ JobLedger /\ QuietLedger /\ [Next]_vars => JobLedger' /\ QuietLedger'
  BY JobStep, QuietStep, GivenUpStutter, Zenon
<1>3. JobLedger /\ QuietLedger => GivenUpRightly
  <2> SUFFICES ASSUME JobLedger, QuietLedger, ae # AeIdle, ae.quiet, NEW c \in ae.lost,
                      NEW d \in Owners(c) \cap up \cap nodes
               PROVE  Unservable(d, c)
    BY Zenon DEF GivenUpRightly, Unservable
  <2>1. Running /\ ae.at = "copy" /\ c \in Chunk /\ Hopeless(c)
    BY Zenon DEF JobLedger, Running
  <2> QED
    BY <2>1, Zenon DEF QuietLedger
<1> QED
  BY <1>1, <1>2, <1>3, HealLedgers, PTL DEF Spec

=============================================================================
