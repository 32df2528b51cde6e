-------------------------- MODULE ChunkLedgerProofs --------------------------
(***************************************************************************)
(* Proofs about the data path: an object that is stored is kept.  Each of  *)
(* its chunks lists W nodes at least, and they have the file.              *)
(***************************************************************************)
EXTENDS ChunkProofs, FiniteSetTheorems

\* The prover tried at a leaf that names none.
USE ZenonT(30)

-----------------------------------------------------------------------------
(* Files come by a PUT of a handler or of a migration, and go by an        *)
(* erasure or a sweep.                                                     *)

LEMMA FileAppears ==
  ASSUME ChunkShape, Next, NEW e \in DN, NEW x \in Chunk, ~HasFile(e, x), HasFile(e, x)'
  PROVE  \/ \E h \in Handler : (WriteTo(h, e) \/ WriteFails(h, e)) /\ x = Current(h)
         \/ \E m \in migs : x = m.chunk
<1>1. file'[e][x] # file[e][x]
  BY DEF HasFile
<1>2. ASSUME NEW h \in Handler, NEW d \in DN, WriteTo(h, d) \/ WriteFails(h, d) PROVE d = e /\ x = Current(h)
  BY <1>1, <1>2, WriteFile
<1>3. ASSUME NEW h \in Handler, NEW d \in DN, EraseFrom(h, d) PROVE FALSE
  BY <1>1, <1>3, EraseFile
<1>4. ASSUME NEW p \in gc.sweeps, GCSweep(p) PROVE FALSE
  BY <1>1, <1>4, SweepFile
<1>5. ASSUME NEW m \in migs, NEW d \in DN, MigrateCopy(m, d) PROVE x = m.chunk
  BY <1>1, <1>5, CopyFile
<1>6. ASSUME NEW d \in DN, NEW c \in Chunk, Age(d, c) PROVE FALSE
  <2>1. FileShape
    BY SMTT(30) DEF ChunkShape
  <2>3. file[d][c] = "new" /\ \A y \in DN, z \in Chunk : y # d \/ z # c => file'[y][z] = file[y][z]
    BY <1>6, <2>1, AgeFile, SMTT(30)
  <2>2. d = e /\ c = x /\ file[d][c] = "new"
    BY <1>1, <2>3
  <2> QED
    BY <2>2 DEF HasFile
<1> QED
  BY <1>1, <1>2, <1>3, <1>4, <1>5, <1>6, FileChange

LEMMA FileVanishes ==
  ASSUME ChunkShape, Next, NEW e \in DN, NEW x \in Chunk, HasFile(e, x), ~HasFile(e, x)'
  PROVE  \/ \E h \in Handler : EraseFrom(h, e) /\ x = call[h].refs[1].id
         \/ \E p \in gc.sweeps : GCSweep(p) /\ p = <<e, x>>
<1>1. file'[e][x] # file[e][x]
  BY DEF HasFile
<1>2. ASSUME NEW h \in Handler, NEW d \in DN, WriteTo(h, d) \/ WriteFails(h, d) PROVE FALSE
  <2>1. d = e /\ x = Current(h)
    BY <1>1, <1>2, WriteFile
  <2>2. HasFile(d, Current(h))
    BY <2>1
  <2>3. file'[d][Current(h)] = file[d][Current(h)]
    BY <1>2, <2>2, WriteFile
  <2> QED
    BY <1>1, <2>1, <2>3
<1>3. ASSUME NEW h \in Handler, NEW d \in DN, EraseFrom(h, d) PROVE d = e /\ x = call[h].refs[1].id
  BY <1>1, <1>3, EraseFile
<1>4. ASSUME NEW p \in gc.sweeps, GCSweep(p) PROVE p = <<e, x>>
  BY <1>1, <1>4, SweepFile
<1>5. ASSUME NEW m \in migs, NEW d \in DN, MigrateCopy(m, d) PROVE FALSE
  BY <1>5, CopyFile
<1>6. ASSUME NEW d \in DN, NEW c \in Chunk, Age(d, c) PROVE FALSE
  <2>1. FileShape
    BY SMTT(30) DEF ChunkShape
  <2>3. file'[d][c] = "old" /\ \A y \in DN, z \in Chunk : y # d \/ z # c => file'[y][z] = file[y][z]
    BY <1>6, <2>1, AgeFile, SMTT(30)
  <2>2. d = e /\ c = x /\ file'[d][c] = "old"
    BY <1>1, <2>3
  <2> QED
    BY <2>2 DEF HasFile
<1> QED
  BY <1>1, <1>2, <1>3, <1>4, <1>5, <1>6, FileChange

\* A file that stays keeps its age, unless time passes.
LEMMA FileStays ==
  ASSUME ChunkShape, Next, NEW e \in DN, NEW x \in Chunk, HasFile(e, x), HasFile(e, x)', ~Age(e, x)
  PROVE  file'[e][x] = file[e][x]
<1> SUFFICES ASSUME file'[e][x] # file[e][x] PROVE FALSE
  BY SMTT(30)
<1>2. ASSUME NEW h \in Handler, NEW d \in DN, WriteTo(h, d) \/ WriteFails(h, d) PROVE FALSE
  <2>1. d = e /\ x = Current(h)
    BY <1>2, WriteFile
  <2>2. HasFile(d, Current(h))
    BY <2>1
  <2>3. file'[d][Current(h)] = file[d][Current(h)]
    BY <1>2, <2>2, WriteFile
  <2> QED
    BY <2>1, <2>3
<1>3. ASSUME NEW h \in Handler, NEW d \in DN, EraseFrom(h, d) PROVE FALSE
  BY <1>3, EraseFile
<1>4. ASSUME NEW p \in gc.sweeps, GCSweep(p) PROVE FALSE
  BY <1>4, SweepFile
<1>5. ASSUME NEW m \in migs, NEW d \in DN, MigrateCopy(m, d) PROVE FALSE
  <2>1. e = d /\ x = m.chunk
    BY <1>5, CopyFile
  <2>2. file' = file \/ file' = DnPut(file, e, x)
    BY <1>5, <2>1 DEF MigrateCopy, DnPutFails
  <2>3. FileShape
    BY SMTT(30) DEF ChunkShape
  <2> QED
    BY <2>2, <2>3, PutFile
<1>6. ASSUME NEW d \in DN, NEW c \in Chunk, Age(d, c) PROVE FALSE
  <2>1. FileShape
    BY SMTT(30) DEF ChunkShape
  <2>3. \A y \in DN, z \in Chunk : y # d \/ z # c => file'[y][z] = file[y][z]
    BY <1>6, <2>1, AgeFile, SMTT(30)
  <2>2. d = e /\ c = x
    BY <2>3
  <2> QED
    BY <1>6, <2>2
<1> QED
  BY <1>2, <1>3, <1>4, <1>5, <1>6, FileChange

LEMMA ErasedNotNeeded ==
  ASSUME ChunkShape, Steady, IdLedger, ApartLedger, NEW h \in Handler, Erases(h), NEW p \in Needed,
         p[2] \in Ids(call[h].refs)
  PROVE  FALSE
<1>1. p[2] \in Landed
  BY DEF IdLedger
<1>2. p \notin AllAcked
  <2>1. ASSUME NEW g \in Handler, p \in Acked(g) PROVE FALSE
    BY <1>1, <2>1, AckedNotLanded
  <2> QED
    BY <2>1 DEF AllAcked
<1>3. ASSUME NEW s, NEW d, NEW c, Refers(s, d, c) PROVE c \in Ids(s)
  BY <1>3 DEF Refers, Ids
<1>4. ASSUME NEW k \in Key, k \notin doomed.keys, p[2] \in Ids(meta[k]) PROVE FALSE
  BY <1>4 DEF ApartLedger
<1>5. p \notin Listed
  BY <1>3, <1>4 DEF Listed
<1>6. p \notin InParts
  <2>1. ASSUME NEW u \in Upload, NEW n \in PartNos, <<u, n>> \notin doomed.parts,
               Refers(uploads[u].parts[n], p[1], p[2])
        PROVE  FALSE
    <3>1. p[2] \in Ids(uploads[u].parts[n])
      BY <1>3, <2>1
    <3>2. Ids(call[h].refs) \cap Ids(uploads[u].parts[n]) = {}
      BY <2>1 DEF ApartLedger
    <3> QED
      BY <3>1, <3>2
  <2> QED
    BY <2>1 DEF InParts
<1>7. p \notin Moved
  <2>1. ASSUME NEW m \in migs, m.key \notin doomed.keys, m.idx \in DOMAIN meta[m.key], p[2] = m.chunk PROVE FALSE
    <3>1. m.key \in Key
      BY DEF ChunkShape, MigsShape, MigShape
    <3>2. meta[m.key][m.idx].id = m.chunk
      BY <2>1 DEF IdLedger
    <3>3. p[2] \in Ids(meta[m.key])
      BY <2>1, <3>2 DEF Ids
    <3> QED
      BY <1>4, <2>1, <3>1, <3>3
  <2> QED
    BY <2>1 DEF Moved
<1> QED
  BY <1>2, <1>5, <1>6, <1>7 DEF Needed

\* While the collector runs nothing else is in the way of its claims.
LEMMA CollectorAlone ==
  ASSUME ChunkShape, Steady, conf.collecting
  PROVE  migs = {} /\ \A u \in Upload, n \in PartNos : uploads[u].parts[n] = <<>>
<1>1. ~conf.balancing /\ ~\E q \in conf.requests : q.op = "part"
  BY DEF Steady
<1> QED
  BY <1>1 DEF ChunkShape, MigsShape, UploadShape

LEMMA NeededReserved ==
  ASSUME ChunkShape, Steady, conf.collecting, NEW p \in Needed
  PROVE  p \in Reserved
<1>1. p \notin Moved /\ p \notin InParts
  BY CollectorAlone, EmptyRefs DEF Moved, InParts, Refers
<1>2. p \in Listed => p \in Claimed
  BY DEF Listed, Claimed, Pair
<1> QED
  BY <1>1, <1>2 DEF Needed, Reserved

LEMMA FileLedgerKept ==
  ASSUME ChunkShape, Steady, IdLedger, ApartLedger, FileLedger, SweepLedger, Next
  PROVE  FileLedger'
<1>1. ASSUME NEW p \in Blank' PROVE ~HasFile(p[1], p[2])'
  <2>1. p \in Blank /\ p \in Pair
    BY BlankShrinks DEF Blank
  <2>2. p[1] \in DN /\ p[2] \in Chunk /\ ~HasFile(p[1], p[2])
    BY <2>1, PairParts DEF FileLedger
  <2>3. ASSUME NEW h \in Handler, WriteTo(h, p[1]) \/ WriteFails(h, p[1]), p[2] = Current(h) PROVE FALSE
    BY <1>1, <2>2, <2>3, SentNotBlank
  <2>4. ASSUME NEW m \in migs, p[2] = m.chunk PROVE FALSE
    BY <2>1, <2>4, BlankNotLanded DEF IdLedger
  <2> QED
    BY <2>2, <2>3, <2>4, FileAppears
<1>2. ASSUME NEW p \in Needed' PROVE HasFile(p[1], p[2])'
  <2> SUFFICES ASSUME ~HasFile(p[1], p[2])' PROVE FALSE
    OBVIOUS
  <2>1. p \in Pair /\ p \in Needed
    BY NeededStep
  <2>2. p[1] \in DN /\ p[2] \in Chunk /\ p = <<p[1], p[2]>> /\ HasFile(p[1], p[2])
    BY <2>1, PairParts DEF FileLedger
  <2>3. ASSUME NEW h \in Handler, EraseFrom(h, p[1]), p[2] = call[h].refs[1].id PROVE FALSE
    <3>1. Erases(h) /\ p[2] \in Ids(call[h].refs)
      BY <2>2, <2>3, EraseFromEffect
    <3> QED
      BY <2>1, <3>1, ErasedNotNeeded
  <2>4. ASSUME NEW q \in gc.sweeps, GCSweep(q), q = p PROVE FALSE
    <3>1. conf.collecting
      BY <2>4, GcSweepEffect, GcIdleFields DEF ChunkShape, GcShape
    <3>2. p \in Reserved
      BY <2>1, <3>1, NeededReserved
    <3> QED
      BY <2>4, <3>1, <3>2 DEF SweepLedger
  <2> QED
    BY <2>2, <2>3, <2>4, FileVanishes
<1> QED
  BY <1>1, <1>2 DEF FileLedger, HasFile

LEMMA ClaimedStep ==
  ASSUME ChunkShape, Steady, conf.collecting, Next, NEW p \in Claimed'
  PROVE  p \in Pair /\ (p \in Claimed \/ p \in AllAcked)
<1>1. p \in Pair
  BY DEF Claimed, Pair
<1>2. PICK k \in Key : Refers(meta'[k], p[1], p[2])
  BY DEF Claimed
<1>3. meta'[k] # <<>>
  BY <1>2, EmptyRefs DEF Refers
<1>4. CASE meta'[k] = meta[k]
  BY <1>1, <1>2, <1>4 DEF Claimed, Pair
<1>5. ASSUME NEW h \in Handler, PutInto(h, k) PROVE p \in AllAcked
  <2>1. p \in Acked(h)
    BY <1>1, <1>2, <1>5 DEF PutInto, Acked
  <2> QED
    BY <2>1 DEF AllAcked
<1>6. ASSUME NEW h \in Handler, NEW q \in conf.requests, CompletedInto(h, q, k) PROVE FALSE
  <2>1. p[2] \in Ids(meta'[k])
    BY <1>2 DEF Refers, Ids
  <2>2. q.upload \in Upload /\ \E n \in PartNos : p[2] \in Ids(uploads[q.upload].parts[n])
    BY <1>6, <2>1 DEF CompletedInto
  <2> QED
    BY <2>2, CollectorAlone, EmptyRefs
<1>7. migs = {}
  BY CollectorAlone
<1> QED
  BY <1>1, <1>3, <1>4, <1>5, <1>6, <1>7, MetaCases

LEMMA ReservedStep ==
  ASSUME ChunkShape, Steady, conf.collecting, Next, NEW p \in Reserved'
  PROVE  p \in Reserved
<1>1. CASE p \in Blank'
  BY <1>1, BlankShrinks DEF Reserved
<1>2. ASSUME NEW h \in Handler, p \in Acked(h)' PROVE p \in Reserved
  <2>1. CASE p \in Acked(h)
    BY <2>1 DEF Reserved, AllAcked
  <2>2. CASE p \in Pair /\ WriteTo(h, p[1]) /\ p[2] = Current(h)
    <3>1. p[1] \in DN
      BY <2>2, PairParts
    <3>2. p \in Blank
      BY <2>2, <3>1, SentWasBlank
    <3> QED
      BY <3>2 DEF Reserved
  <2> QED
    BY <1>2, <2>1, <2>2, AckedStep
<1>3. CASE p \in Claimed'
  BY <1>3, ClaimedStep DEF Reserved
<1>4. p \in Blank' \/ p \in Claimed' \/ \E h \in Handler : p \in Acked(h)'
  BY DEF Reserved, AllAcked
<1>5. CASE \E h \in Handler : p \in Acked(h)'
  <2>1. PICK h \in Handler : p \in Acked(h)'
    BY <1>5, SMTT(30)
  <2> QED
    BY <1>2, <2>1, SMTT(30)
<1> QED
  BY <1>1, <1>3, <1>4, <1>5

\* What is written while the collector runs is young, and its writer's own.
LEMMA AckedIsYoung ==
  ASSUME ChunkShape, Steady, IdLedger, FileLedger, SweepLedger, FileLedger', conf.collecting, Next,
         NEW h \in Handler, NEW p \in Acked(h)'
  PROVE  file'[p[1]][p[2]] = "new" /\ p \in call'[h].made
<1>1. p \in Pair /\ Writing(h)'
  BY DEF Acked
<1>2. p[1] \in DN /\ p[2] \in Chunk /\ p = <<p[1], p[2]>>
  BY <1>1, PairParts
<1>3. CASE p \in Acked(h) /\ call[h].made \subseteq call'[h].made
  <2>1. Writing(h)
    BY <1>3 DEF Acked
  <2>2. file[p[1]][p[2]] = "new" /\ p \in call[h].made
    BY <1>3 DEF SweepLedger
  <2>3. call[h] # Idle /\ call[h].at \in {"write", "commit"}
    BY <2>1, IdleCall DEF Writing
  <2>4. p \in InFlight
    BY <2>2, <2>3 DEF InFlight
  <2>5. ~conf.slow
    BY DEF Steady
  <2>6. ~Age(p[1], p[2])
    BY <1>2, <2>4, <2>5 DEF Age
  <2>7. HasFile(p[1], p[2])
    BY <2>2 DEF HasFile
  <2>8. p \in Needed'
    BY DEF Needed, AllAcked
  <2>9. HasFile(p[1], p[2])'
    BY <2>8 DEF FileLedger, HasFile
  <2>10. file'[p[1]][p[2]] = file[p[1]][p[2]]
    BY <1>2, <2>6, <2>7, <2>9, FileStays
  <2> QED
    BY <1>3, <2>2, <2>10
<1>4. CASE WriteTo(h, p[1]) /\ p[2] = Current(h)
  <2>1. p \in Blank
    BY <1>1, <1>2, <1>4, SentWasBlank
  <2>2. ~HasFile(p[1], Current(h))
    BY <1>4, <2>1 DEF FileLedger
  <2>3. file'[p[1]][Current(h)] = "new"
    BY <1>2, <1>4, <2>2, WriteFile
  <2>4. call'[h].made = call[h].made \cup {<<p[1], Current(h)>>}
    BY <1>2, <1>4, <2>2, WriteToEffect
  <2> QED
    BY <1>2, <1>4, <2>3, <2>4
<1> QED
  BY <1>3, <1>4, AckedStep

\* A file that a listing collector takes for old was there, and old.
LEMMA OldWasOld ==
  ASSUME ChunkShape, Steady, conf.collecting, Next, gc.at = "list", NEW e \in DN, NEW x \in Chunk, file'[e][x] = "old"
  PROVE  file[e][x] = "old"
<1>1. ~Age(e, x)
  BY DEF Age
<1>2. HasFile(e, x)'
  BY DEF HasFile
<1>3. CASE HasFile(e, x)
  BY <1>1, <1>2, <1>3, FileStays
<1>4. CASE ~HasFile(e, x)
  <2>1. PICK h \in Handler : (WriteTo(h, e) \/ WriteFails(h, e)) /\ x = Current(h)
    BY <1>2, <1>4, FileAppears, CollectorAlone
  <2>2. file'[e][Current(h)] = file[e][Current(h)] \/ file'[e][Current(h)] = "new"
    BY <2>1, WriteFile
  <2> QED
    BY <2>1, <2>2
<1> QED
  BY <1>3, <1>4, SMTT(30)

\* What becomes of the collector's plan.
LEMMA GcCases ==
  ASSUME ChunkShape, Next
  PROVE  \/ gc' = gc
         \/ gc' = GCIdle
         \/ GCStart /\ gc'.at = "list" /\ gc'.claimed = Claimed /\ gc'.sweeps = {} /\ meta' = meta
         \/ \E d \in DN : /\ gc.at = "list" /\ meta' = meta /\ file' = file
                          /\ gc'.at = "list" => gc'.claimed = gc.claimed
                          /\ gc'.sweeps = gc.sweeps \cup Sweeps(d, gc.claimed)
         \/ gc'.at = "sweep" /\ gc'.sweeps \subseteq gc.sweeps
<1>1. CASE GCStart
  BY <1>1, GcStartEffect DEF GCStart
<1>2. ASSUME NEW d \in DN, GCList(d)
      PROVE  \/ gc' = GCIdle
             \/ /\ gc.at = "list" /\ meta' = meta /\ file' = file
                /\ gc'.at = "list" => gc'.claimed = gc.claimed
                /\ gc'.sweeps = gc.sweeps \cup Sweeps(d, gc.claimed)
  <2>1. gc.at = "list" /\ meta' = meta /\ file' = file
    BY <1>2 DEF GCList
  <2>2. \/ gc'.at = "list" /\ gc'.claimed = gc.claimed /\ gc'.sweeps = gc.sweeps \cup Sweeps(d, gc.claimed)
        \/ gc' = GCIdle
        \/ gc'.at = "sweep" /\ gc'.sweeps = gc.sweeps \cup Sweeps(d, gc.claimed)
    BY <1>2, GcListEffect
  <2> QED
    BY <2>1, <2>2
<1>3. ASSUME NEW p \in gc.sweeps, GCSweep(p)
      PROVE  gc' = GCIdle \/ (gc'.at = "sweep" /\ gc'.sweeps \subseteq gc.sweeps)
  BY <1>3, GcSweepEffect
<1>4. GCListFails \/ Crash => gc' = GCIdle
  BY DEF GCListFails, Crash
<1> QED
  BY <1>1, <1>2, <1>3, <1>4, GcChange DEF Collect

LEMMA SweptIsOld ==
  ASSUME NEW d \in DN, NEW claimed, NEW p \in Sweeps(d, claimed)
  PROVE  p \in Pair /\ file[p[1]][p[2]] = "old" /\ p \notin claimed
<1>1. PICK c \in Chunk : file[d][c] = "old" /\ <<d, c>> \notin claimed /\ p = <<d, c>>
  BY DEF Sweeps
<1>2. p[1] = d /\ p[2] = c /\ p \in Pair
  BY <1>1, SMTT(30) DEF Pair
<1> QED
  BY <1>1, <1>2

\* Nothing old and unclaimed is anybody's while the collector lists.
LEMMA UnclaimedIsFree ==
  ASSUME ChunkShape, FileLedger, SweepLedger, conf.collecting, gc.at = "list", NEW p \in Pair,
         file[p[1]][p[2]] = "old", p \notin gc.claimed
  PROVE  p \notin Reserved
<1>1. p \notin Blank
  BY DEF FileLedger, HasFile
<1>2. p \notin AllAcked
  <2>1. ASSUME NEW h \in Handler, p \in Acked(h) PROVE FALSE
    BY <2>1 DEF SweepLedger
  <2> QED
    BY <2>1 DEF AllAcked
<1>3. p \notin Claimed
  BY DEF SweepLedger
<1> QED
  BY <1>1, <1>2, <1>3 DEF Reserved

LEMMA SweepLedgerKept ==
  ASSUME ChunkShape, Steady, IdLedger, FileLedger, SweepLedger, FileLedger', Next
  PROVE  SweepLedger'
<1>0. conf' = conf
  BY UsedStep
<1> SUFFICES ASSUME conf.collecting
             PROVE  /\ \A h \in Handler : \A p \in Acked(h)' : file'[p[1]][p[2]] = "new" /\ p \in call'[h].made
                    /\ gc'.at = "list" => \A p \in Claimed' : file'[p[1]][p[2]] = "old" => p \in gc'.claimed
                    /\ gc'.sweeps \cap Reserved' = {}
  BY <1>0 DEF SweepLedger
<1>1. \A h \in Handler : \A p \in Acked(h)' : file'[p[1]][p[2]] = "new" /\ p \in call'[h].made
  BY AckedIsYoung
<1>2. ASSUME gc'.at = "list", NEW p \in Claimed', file'[p[1]][p[2]] = "old" PROVE p \in gc'.claimed
  <2>1. p \in Pair /\ (p \in Claimed \/ p \in AllAcked)
    BY <1>2, ClaimedStep
  <2>2. p[1] \in DN /\ p[2] \in Chunk
    BY <2>1, PairParts
  <2>3. ASSUME gc.at = "list", file[p[1]][p[2]] = "old" PROVE p \in gc.claimed
    <3>1. p \in Reserved
      BY <2>1 DEF Reserved
    <3> QED
      BY <2>1, <2>3, <3>1, UnclaimedIsFree
  <2>4. CASE gc' = gc
    BY <1>2, <2>2, <2>3, <2>4, OldWasOld
  <2>5. CASE meta' = meta /\ gc'.claimed = Claimed
    BY <1>2, <2>5 DEF Claimed
  <2>6. CASE gc.at = "list" /\ file' = file /\ gc'.claimed = gc.claimed
    BY <1>2, <2>3, <2>6
  <2>7. gc' # GCIdle
    BY <1>2, GcIdleFields
  <2> QED
    BY <1>2, <2>4, <2>5, <2>6, <2>7, GcCases
<1>3. ASSUME NEW p \in gc'.sweeps, p \in Reserved' PROVE FALSE
  <2>1. p \in Reserved
    BY <1>3, ReservedStep
  <2>2. p \notin gc.sweeps
    BY <2>1 DEF SweepLedger
  <2>3. gc' # gc /\ gc' # GCIdle
    BY <1>3, <2>2, GcIdleFields
  <2>4. PICK d \in DN : gc.at = "list" /\ gc'.sweeps = gc.sweeps \cup Sweeps(d, gc.claimed)
    BY <1>3, <2>2, <2>3, GcCases
  <2>5. p \in Sweeps(d, gc.claimed)
    BY <1>3, <2>2, <2>4
  <2>6. p \in Pair /\ file[p[1]][p[2]] = "old" /\ p \notin gc.claimed
    BY <2>5, SweptIsOld
  <2> QED
    BY <2>1, <2>4, <2>6, UnclaimedIsFree
<1> QED
  BY <1>1, <1>2, <1>3

-----------------------------------------------------------------------------
(* Counting data nodes.                                                    *)

\* The data nodes are ranked, hence finitely many.
LEMMA FiniteNodes ==
  ASSUME NEW c \in Chunk
  PROVE  IsFiniteSet(DN)
<1> DEFINE r == Rank[c]
<1>1. r \in Seq(DN) /\ DN = {r[i] : i \in DOMAIN r}
  BY RankAssumption DEF Range
<1> HIDE DEF r
<1>2. DOMAIN r = 1 .. Len(r) /\ Len(r) \in Nat /\ r \in [1 .. Len(r) -> DN]
  BY <1>1, SMTT(30)
<1>3. \A y \in DN : \E x \in 1 .. Len(r) : r[x] = y
  BY <1>1, <1>2
<1>4. r \in Surjection(1 .. Len(r), DN)
  BY <1>2, <1>3 DEF Surjection
<1>5. IsFiniteSet(1 .. Len(r))
  BY <1>2, FS_Interval, SMTT(30)
<1> QED
  BY <1>4, <1>5, FS_Surjection

\* PlaceN names as many nodes as it is asked for, if there are that many.
LEMMA PlaceNCount ==
  ASSUME NEW c \in Chunk, NEW n \in Nat, NEW S, S \subseteq DN
  PROVE  /\ PlaceN(c, n, S) \subseteq S
         /\ Cardinality(S) >= n => Cardinality(PlaceN(c, n, S)) >= n
<1> DEFINE r == Rank[c]
           Before(d) == {e \in S : \E i, j \in DOMAIN r : i < j /\ r[i] = e /\ r[j] = d}
           P == PlaceN(c, n, S)
           N == Cardinality(S)
<1>1. /\ r \in Seq(DN) /\ DN = {r[i] : i \in DOMAIN r}
      /\ \A i, j \in DOMAIN r : r[i] = r[j] => i = j
  BY RankAssumption DEF Range
<1>2. P = {d \in S : Cardinality(Before(d)) < n}
  BY SMTT(30) DEF PlaceN
<1> HIDE DEF r, P
<1>3. DOMAIN r \subseteq Nat
  BY <1>1, SMTT(30)
<1>4. IsFiniteSet(S) /\ N \in Nat
  BY FiniteNodes, FS_Subset, FS_CardinalityType, SMTT(30)
<1>5. ASSUME NEW d \in S
      PROVE  IsFiniteSet(Before(d)) /\ Cardinality(Before(d)) \in 0 .. N - 1
  <2>1. d \notin Before(d)
    BY <1>1, <1>3, SMTT(30)
  <2> DEFINE T == S \ {d}
  <2>2. Before(d) \subseteq T
    BY <2>1, SMTT(30)
  <2>3. IsFiniteSet(T) /\ Cardinality(T) = N - 1
    BY <1>4, FS_RemoveElement
  <2> HIDE DEF T, N, Before
  <2>4. IsFiniteSet(Before(d)) /\ Cardinality(Before(d)) <= Cardinality(T)
    BY <2>2, <2>3, FS_Subset, SMTT(30)
  <2>5. Cardinality(Before(d)) \in Nat
    BY <2>4, FS_CardinalityType, SMTT(30)
  <2> QED
    BY <1>4, <2>3, <2>4, <2>5, SMTT(30)
<1> DEFINE f == [d \in S |-> Cardinality(Before(d))]
<1>6. f \in [S -> 0 .. N - 1]
  BY <1>5
<1>7. ASSUME NEW d \in S, NEW e \in S, NEW i \in DOMAIN r, NEW j \in DOMAIN r,
             i < j, r[i] = d, r[j] = e
      PROVE  f[d] < f[e]
  <2> DEFINE A == Before(d) B == Before(e)
  <2>1. d \notin A /\ d \in B
    BY <1>1, <1>3, <1>7, SMTT(30)
  <2>2. A \subseteq B
    <3> SUFFICES ASSUME NEW x \in A PROVE x \in B
      BY SMTT(30)
    <3>1. PICK l \in DOMAIN r, o \in DOMAIN r : l < o /\ r[l] = x /\ r[o] = d
      BY SMTT(30)
    <3>2. o = i
      BY <1>1, <1>7, <3>1, SMTT(30)
    <3> QED
      BY <1>3, <1>7, <3>1, <3>2, SMTT(30)
  <2>3. IsFiniteSet(A) /\ IsFiniteSet(B) /\ Cardinality(A) \in Nat /\ Cardinality(B) \in Nat
    BY <1>5, FS_CardinalityType, SMTT(30)
  <2>4. f[d] = Cardinality(A) /\ f[e] = Cardinality(B)
    BY SMTT(30)
  <2> HIDE DEF A, B, f, Before
  <2>5. IsFiniteSet(A \cup {d}) /\ Cardinality(A \cup {d}) = Cardinality(A) + 1
    BY <2>1, <2>3, FS_AddElement, SMTT(30)
  <2>6. Cardinality(A \cup {d}) <= Cardinality(B)
    <3>1. A \cup {d} \in SUBSET B
      BY <2>1, <2>2, SMTT(30)
    <3> QED
      BY <2>3, <3>1, FS_Subset, SMTT(30)
  <2> QED
    BY <2>3, <2>4, <2>5, <2>6, SMTT(30)
<1>8. ASSUME NEW d \in S, NEW e \in S, f[d] = f[e] PROVE d = e
  <2>1. PICK i \in DOMAIN r, j \in DOMAIN r : r[i] = d /\ r[j] = e
    BY <1>1, SMTT(30)
  <2>2. f[d] \in Nat /\ f[e] \in Nat
    BY <1>6, SMTT(30)
  <2> HIDE DEF f
  <2>3. ~(i < j) /\ ~(j < i)
    BY <1>7, <1>8, <2>1, <2>2, SMTT(30)
  <2> QED
    BY <1>3, <2>1, <2>3, SMTT(30)
<1> HIDE DEF f
<1>9. CASE N >= n
  <2>1. f \in Injection(S, 0 .. N - 1)
    BY <1>6, <1>8 DEF Injection, IsInjective
  <2>2. IsFiniteSet(0 .. N - 1) /\ Cardinality(0 .. N - 1) = N
    <3>1. IsFiniteSet(0 .. N - 1) /\ Cardinality(0 .. N - 1) = IF 0 > N - 1 THEN 0 ELSE N - 1 - 0 + 1
      BY <1>4, FS_Interval, SMTT(30)
    <3> QED
      BY <1>4, <3>1, SMTT(30)
  <2>3. f \in Surjection(S, 0 .. N - 1)
    BY <2>1, <2>2, FS_Injection, SMTT(30)
  <2>4. \A m \in 0 .. N - 1 : \E d \in S : f[d] = m
    BY <2>3 DEF Surjection
  <2> DEFINE g == [d \in P |-> f[d]]
  <2>5. P = {d \in S : f[d] < n}
    BY <1>2, SMTT(30) DEF f
  <2>6. g \in [P -> 0 .. n - 1]
    BY <1>4, <1>6, <2>5, SMTT(30)
  <2>7. \A m \in 0 .. n - 1 : \E d \in P : g[d] = m
    BY <1>4, <1>9, <2>4, <2>5, SMTT(30)
  <2> HIDE DEF g, N
  <2>8. g \in Surjection(P, 0 .. n - 1)
    BY <2>6, <2>7 DEF Surjection
  <2>9. IsFiniteSet(P) /\ Cardinality(P) \in Nat
    BY <1>4, <2>5, FS_Subset, FS_CardinalityType, SMTT(30)
  <2>10. Cardinality(0 .. n - 1) <= Cardinality(P)
    BY <2>8, <2>9, FS_Surjection, SMTT(30)
  <2>11. Cardinality(0 .. n - 1) = n
    <3>1. Cardinality(0 .. n - 1) = IF 0 > n - 1 THEN 0 ELSE n - 1 - 0 + 1
      BY FS_Interval, SMTT(30)
    <3> QED
      BY <3>1, SMTT(30)
  <2>12. Cardinality(P) >= n
    BY <2>9, <2>10, <2>11, SMTT(30)
  <2> QED
    BY <2>5, <2>12, SMTT(30) DEF P
<1>10. P \subseteq S
  BY <1>2, SMTT(30)
<1> QED
  BY <1>9, <1>10, SMTT(30) DEF P

\* A bounded set of numbers has a largest one.
LEMMA LargestOfMany ==
  ASSUME NEW S \in SUBSET Nat, S # {}, NEW N \in Nat, \A x \in S : x <= N
  PROVE  Max(S) \in S /\ \A y \in S : Max(S) >= y
<1> DEFINE R == OpToRel(<, Nat)
           U == {n \in Nat : \A x \in S : x <= n}
<1>1. \A x, y \in Nat : x < y => <<x, y>> \in R
  BY SMTT(30) DEF OpToRel
<1>2. IsWellFoundedOn(R, Nat)
  BY NatLessThanWellFounded
<1>3. U \subseteq Nat /\ U # {}
  BY SMTT(30)
<1> HIDE DEF R, U
<1>4. PICK m \in U : \A z \in U : ~(<<z, m>> \in R)
  BY <1>2, <1>3, WFMin
<1>5. m \in Nat /\ \A x \in S : x <= m
  BY SMTT(30) DEF U
<1>6. m \in S
  <2> SUFFICES ASSUME m \notin S PROVE FALSE
    BY SMTT(30)
  <2>1. \A x \in S : x < m
    BY <1>5, SMTT(30)
  <2>0. PICK x \in S : x \in Nat
    OBVIOUS
  <2>2. m - 1 \in Nat /\ m - 1 < m
    BY <1>5, <2>0, <2>1, SMTT(30)
  <2>3. m - 1 \in U
    BY <2>1, <2>2, <1>5, SMTT(30) DEF U
  <2> QED
    BY <1>1, <1>4, <1>5, <2>2, <2>3
<1>7. \E x \in S : \A y \in S : x >= y
  BY <1>5, <1>6, SMTT(30)
<1> QED
  BY <1>7 DEF Max

LEMMA NodesCounted == NodeCounts
<1>1. Cardinality({}) = 0
  BY FS_EmptySet, SMTT(30)
<1>2. ASSUME NEW c \in Chunk, NEW S \in SUBSET DN
      PROVE  /\ Cardinality(S) \in Nat
             /\ \A T \in SUBSET S : Cardinality(T) <= Cardinality(S)
  <2>1. IsFiniteSet(S)
    BY FiniteNodes, FS_Subset, SMTT(30)
  <2> QED
    BY <2>1, FS_Subset, FS_CardinalityType, SMTT(30)
<1>3. Chunk # {} => \A S \in SUBSET DN : /\ Cardinality(S) \in Nat
                                       /\ \A T \in SUBSET S : Cardinality(T) <= Cardinality(S)
  BY <1>2
<1>4. \A c \in Chunk, n \in Nat, S \in SUBSET DN :
         /\ PlaceN(c, n, S) \subseteq S
         /\ Cardinality(S) >= n => Cardinality(PlaceN(c, n, S)) >= n
  BY PlaceNCount
<1>5. \A S \in SUBSET Nat, b \in Nat : S # {} /\ (\A x \in S : x <= b) =>
         Max(S) \in S /\ \A y \in S : Max(S) >= y
  BY LargestOfMany
<1> QED
  BY <1>1, <1>3, <1>4, <1>5 DEF NodeCounts

\* Type correctness of the data path: whatever requests, failing calls, collections,
\* migrations, topology changes and crashes do, the metadata, the uploads, the files
\* and the records of the running work have the types the code gives them.
THEOREM ChunkTypes == Spec => []ChunkTypeOK
<1>1. Init => ChunkShape
  BY InitShape, NodesCounted, SMTT(30)
<1>2. ChunkShape /\ [Next]_vars => ChunkShape'
  BY ChunkShapeKept, IdleShape
<1>3. ChunkShape => ChunkTypeOK
  BY ShapeTyped, SMTT(30)
<1> QED
  BY <1>1, <1>2, <1>3, PTL DEF Spec

-----------------------------------------------------------------------------
(* The ledger holds.                                                       *)

LEMMA SteadyKept ==
  ASSUME conf' = conf
  PROVE  Steady' <=> Steady
BY DEF Steady, IsWrite

LEMMA InitLedger ==
  ASSUME Init
  PROVE  Ledger
<1>1. ChunkShape
  BY InitShape, NodesCounted
<1>2. /\ meta = [k \in Key |-> <<>>] /\ uploads = [u \in Upload |-> [st |-> "none", parts |-> NoParts]]
      /\ file = [d \in DN |-> [c \in Chunk |-> "none"]] /\ call = [h \in Handler |-> Idle]
      /\ gc = GCIdle /\ migs = {}
  BY DEF Init
<1>3. \A k \in Key : meta[k] = <<>> /\ Ids(meta[k]) = {}
  BY <1>2, EmptyRefs
<1>4. \A u \in Upload, n \in PartNos : uploads[u].parts[n] = <<>>
  BY <1>2, SMTT(30) DEF NoParts
<1>5. \A u \in Upload, n \in PartNos : Ids(uploads[u].parts[n]) = {}
  BY <1>4, EmptyRefs
<1>6. \A h \in Handler : ~Writing(h) /\ ~Erases(h)
  BY <1>2, IdleCall DEF Writing, Erases
<1>7. \A d \in DN, c \in Chunk : ~HasFile(d, c)
  BY <1>2 DEF HasFile
<1>8. IdLedger
  BY <1>2, <1>3, <1>5, <1>6 DEF IdLedger
<1>9. ApartLedger
  BY <1>3, <1>5, <1>6 DEF ApartLedger
<1>10. \A d, c : ~Refers(<<>>, d, c)
  BY EmptyRefs DEF Refers
<1>11. \A h \in Handler : Acked(h) = {}
  BY <1>6 DEF Acked
<1>12. ASSUME NEW p \in Needed PROVE FALSE
  <2>1. p \notin AllAcked
    BY <1>11 DEF AllAcked
  <2>2. p \notin Listed
    BY <1>3, <1>10 DEF Listed
  <2>3. p \notin InParts
    BY <1>4, <1>10 DEF InParts
  <2>4. p \notin Moved
    BY <1>2 DEF Moved
  <2> QED
    BY <2>1, <2>2, <2>3, <2>4 DEF Needed
<1>13. ASSUME NEW p \in Blank PROVE ~HasFile(p[1], p[2])
  <2>1. p \in Pair
    BY DEF Blank
  <2> QED
    BY <1>7, <2>1, PairParts
<1>14. FileLedger
  BY <1>12, <1>13 DEF FileLedger
<1>15. SweepLedger
  BY <1>2, <1>11, GcIdleFields DEF SweepLedger
<1> QED
  BY <1>1, <1>8, <1>9, <1>14, <1>15 DEF Ledger

LEMMA IdleLedger ==
  ASSUME Ledger, UNCHANGED vars
  PROVE  Ledger'
<1>1. /\ meta' = meta /\ uploads' = uploads /\ file' = file /\ call' = call /\ gc' = gc
      /\ migs' = migs /\ doomed' = doomed /\ used' = used /\ conf' = conf
  BY SMTT(30) DEF vars
<1>2. ChunkShape'
  BY IdleShape DEF Ledger
<1>3. Steady' <=> Steady
  BY <1>1, SteadyKept, SMTT(30)
<1>4. \A h \in Handler : (Writing(h)' <=> Writing(h)) /\ (Erases(h)' <=> Erases(h))
  BY <1>1 DEF Writing, Erases
<1>5. Settled' = Settled
  BY <1>1, <1>4 DEF Settled
<1>6. Landed' = Landed
  BY <1>5 DEF Landed
<1>7. Blank' = Blank
  BY <1>1 DEF Blank, Writing
<1>8. \A h \in Handler : Acked(h)' = Acked(h)
  BY <1>1 DEF Acked, Writing, Current
<1>16. AllAcked' = AllAcked
  <2>1. AllAcked' = UNION {Acked(h)' : h \in Handler}
    BY DEF AllAcked
  <2>2. UNION {Acked(h)' : h \in Handler} = UNION {Acked(h) : h \in Handler}
    BY <1>8, SMTT(30)
  <2> QED
    BY <2>1, <2>2 DEF AllAcked
<1>18. Listed' = Listed
  BY <1>1 DEF Listed
<1>19. InParts' = InParts
  BY <1>1 DEF InParts
<1>20. Moved' = Moved
  BY <1>1 DEF Moved
<1>9. Needed' = Needed
  BY <1>16, <1>18, <1>19, <1>20 DEF Needed
<1>10. Claimed' = Claimed
  BY <1>1 DEF Claimed
<1>11. Reserved' = Reserved
  BY <1>7, <1>10, <1>16 DEF Reserved
<1>12. IdLedger => IdLedger'
  BY <1>1, <1>4, <1>5, <1>6 DEF IdLedger
<1>13. ApartLedger => ApartLedger'
  BY <1>1, <1>4 DEF ApartLedger
<1>14. FileLedger => FileLedger'
  BY <1>1, <1>7, <1>9 DEF FileLedger, HasFile
<1>15. SweepLedger => SweepLedger'
  BY <1>1, <1>8, <1>10, <1>11 DEF SweepLedger
<1> QED
  BY <1>2, <1>3, <1>12, <1>13, <1>14, <1>15 DEF Ledger

LEMMA LedgerKept ==
  ASSUME Ledger, Next
  PROVE  Ledger'
<1>1. ChunkShape /\ ChunkShape'
  BY ChunkShapeKept DEF Ledger
<1>2. Steady' <=> Steady
  BY <1>1, UsedStep, SteadyKept
<1>3. ASSUME Steady PROVE IdLedger' /\ ApartLedger' /\ FileLedger' /\ SweepLedger'
  <2>1. IdLedger /\ ApartLedger /\ FileLedger /\ SweepLedger
    BY <1>3 DEF Ledger
  <2>2. IdLedger' /\ ApartLedger'
    BY <1>1, <1>3, <2>1, IdLedgerKept, ApartLedgerKept
  <2>3. FileLedger'
    BY <1>1, <1>3, <2>1, FileLedgerKept
  <2>4. SweepLedger'
    BY <1>1, <1>3, <2>1, <2>3, SweepLedgerKept
  <2> QED
    BY <2>2, <2>3, <2>4, SMTT(30)
<1> QED
  BY <1>1, <1>2, <1>3 DEF Ledger

\* A list of references whose files are all there.
LEMMA ListHeld ==
  ASSUME conf.w \in Nat \ {0}, NEW s \in Seq(Refs), Wide(s), NEW i \in DOMAIN s,
         \A p \in Pair : Refers(s, p[1], p[2]) => HasFile(p[1], p[2])
  PROVE  /\ Cardinality(s[i].replicas) >= conf.w
         /\ HeldOn(s[i]) = s[i].replicas /\ HeldOn(s[i]) # {}
<1>1. s[i] \in Refs
  BY SMTT(30)
<1>2. s[i].id \in Chunk /\ s[i].replicas \subseteq DN
  BY <1>1, SMTT(30) DEF Refs
<1>3. ASSUME NEW d \in s[i].replicas PROVE HasFile(d, s[i].id)
  <2>1. PICK p : p = <<d, s[i].id>>
    OBVIOUS
  <2>2. p \in Pair /\ p[1] = d /\ p[2] = s[i].id
    BY <1>2, <2>1, SMTT(30) DEF Pair
  <2>3. Refers(s, p[1], p[2])
    BY <2>2 DEF Refers
  <2> QED
    BY <2>2, <2>3
<1>4. HeldOn(s[i]) = s[i].replicas
  BY <1>3 DEF HeldOn
<1>5. Cardinality(s[i].replicas) >= conf.w
  BY DEF Wide
<1>6. s[i].replicas # {}
  <2>1. Cardinality({}) = 0
    BY FS_EmptySet, SMTT(30)
  <2>2. ~(0 >= conf.w)
    BY SMTT(30)
  <2> QED
    BY <1>5, <2>1, <2>2
<1> QED
  BY <1>4, <1>5, <1>6

LEMMA LedgerHolds ==
  ASSUME Ledger, Steady
  PROVE  QuorumHeld /\ Readable /\ PartsReadable
<1>1. ChunkShape /\ FileLedger
  BY DEF Ledger
<1>2. conf.w \in Nat \ {0}
  BY <1>1, SetupAssumption, SMTT(30) DEF ChunkShape
<1>3. ASSUME NEW k \in Key, k \notin doomed.keys, NEW i \in DOMAIN meta[k]
      PROVE  /\ Cardinality(meta[k][i].replicas) >= conf.w
             /\ HeldOn(meta[k][i]) = meta[k][i].replicas /\ HeldOn(meta[k][i]) # {}
  <2>1. PICK s : s = meta[k]
    BY SMTT(30)
  <2>2. s \in Seq(Refs) /\ Wide(s) /\ i \in DOMAIN s
    BY <1>1, <2>1 DEF ChunkShape, MetaShape
  <2>3. ASSUME NEW p \in Pair, Refers(s, p[1], p[2]) PROVE HasFile(p[1], p[2])
    <3>1. p \in Listed
      BY <1>3, <2>1, <2>3 DEF Listed
    <3> QED
      BY <1>1, <3>1 DEF FileLedger, Needed
  <2> QED
    BY <1>2, <2>1, <2>2, <2>3, ListHeld
<1>4. ASSUME NEW u \in Upload, NEW n \in PartNos, <<u, n>> \notin doomed.parts, NEW i \in DOMAIN uploads[u].parts[n]
      PROVE  HeldOn(uploads[u].parts[n][i]) # {}
  <2>1. PICK s : s = uploads[u].parts[n]
    BY SMTT(30)
  <2>2. s \in Seq(Refs) /\ Wide(s) /\ i \in DOMAIN s
    BY <1>1, <2>1, PartsShape DEF ChunkShape
  <2>3. ASSUME NEW p \in Pair, Refers(s, p[1], p[2]) PROVE HasFile(p[1], p[2])
    <3>1. p \in InParts
      BY <1>4, <2>1, <2>3 DEF InParts
    <3> QED
      BY <1>1, <3>1 DEF FileLedger, Needed
  <2> QED
    BY <1>2, <2>1, <2>2, <2>3, ListHeld
<1>5. QuorumHeld
  BY <1>3 DEF QuorumHeld
<1>6. Readable
  BY <1>3 DEF Readable
<1>7. PartsReadable
  BY <1>4 DEF PartsReadable
<1> QED
  BY <1>5, <1>6, <1>7, SMTT(30)

LEMMA LedgerStep ==
  ASSUME Ledger, [Next]_vars
  PROVE  Ledger'
BY LedgerKept, IdleLedger

\* In a steady setup every chunk of a stored object on whose record no DELETE, or
\* refused part, has set out to erase lists at least W data nodes and each of them
\* has the file, whatever the order in which fan-outs, commits, erasures, sweeps,
\* copies, list updates, crashes and failing calls (to the nodes and to the
\* metadata) interleave: the promise of WriteChunkToAddrsW survives the workers.
THEOREM QuorumHeldHolds == Spec => [](Steady => QuorumHeld)
<1>1. Init => Ledger
  BY InitLedger
<1>2. Ledger /\ [Next]_vars => Ledger'
  BY LedgerStep
<1>3. Ledger => (Steady => QuorumHeld)
  BY LedgerHolds
<1> QED
  BY <1>1, <1>2, <1>3, PTL DEF Spec

\* In a steady setup every stored object can be read, failing calls and crashes
\* included, unless a DELETE or a refused part has set out to erase what its present
\* record names: each of its chunks is on a node that its metadata names, which is
\* all ReadChunk needs.
THEOREM ReadableHolds == Spec => [](Steady => Readable)
<1>1. Init => Ledger
  BY InitLedger, SMTT(30)
<1>2. Ledger /\ [Next]_vars => Ledger'
  BY LedgerStep
<1>3. Ledger => (Steady => Readable)
  BY LedgerHolds
<1> QED
  BY <1>1, <1>2, <1>3, PTL DEF Spec

\* In a steady setup every part that is recorded can be read as long as its upload is
\* pending, unless handlePutPart has answered with an error for that very record:
\* no abort, completion, failed delete or refused part of another slot erases it.
THEOREM PartsReadableHolds == Spec => [](Steady => PartsReadable)
<1>1. Init => Ledger
  BY InitLedger, SMTT(30)
<1>2. Ledger /\ [Next]_vars => Ledger'
  BY LedgerStep
<1>3. Ledger => (Steady => PartsReadable)
  BY LedgerHolds
<1> QED
  BY <1>1, <1>2, <1>3, PTL DEF Spec

=============================================================================
