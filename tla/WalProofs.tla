----------------------------- MODULE WalProofs -----------------------------
(***************************************************************************)
(* Proofs about the write-ahead log, for any set of writers, any number of *)
(* truncations, failures and crashes.                                      *)
(***************************************************************************)
EXTENDS Wal, TLAPS

\* The provers tried at a leaf that names none, in this order.
USE SMTT(30), ZenonT(30)

\* Lines can be cut and joined.
LEMMA LinesCompose ==
  ASSUME NEW s \in Seq(LineType), NEW t \in Seq(LineType), NEW l \in LineType
  PROVE  /\ s \o t \in Seq(LineType)
         /\ Len(s \o t) = Len(s) + Len(t)
         /\ \A i \in 1 .. Len(s) : (s \o t)[i] = s[i]
         /\ \A i \in 1 .. Len(t) : (s \o t)[Len(s) + i] = t[i]
         /\ Append(s, l) \in Seq(LineType)
         /\ Len(Append(s, l)) = Len(s) + 1
         /\ \A i \in 1 .. Len(s) : Append(s, l)[i] = s[i]
         /\ Append(s, l)[Len(s) + 1] = l
  OBVIOUS

LEMMA LinesCut ==
  ASSUME NEW s \in Seq(LineType), NEW k \in 0 .. Len(s)
  PROVE  /\ SubSeq(s, 1, k) \in Seq(LineType)
         /\ Len(SubSeq(s, 1, k)) = k
         /\ \A i \in 1 .. k : SubSeq(s, 1, k)[i] = s[i]
  OBVIOUS

LEMMA LineTypes ==
  /\ Torn \in LineType
  /\ <<>> \in Seq(LineType)
  /\ <<Torn>> \in Seq(LineType)
  /\ \A w \in Writer, n \in Nat : Line(w, n) \in LineType
  BY DEF Torn, LineType, Line

LEMMA EmptyLines == <<>> \in Seq(LineType) /\ Len(<<>>) = 0
  OBVIOUS

\* The lines t continue the lines s.
Continues(s, t) ==
  /\ t \in Seq(LineType)
  /\ Len(s) <= Len(t)
  /\ \A i \in 1 .. Len(s) : t[i] = s[i]

LEMMA JoinContinues ==
  ASSUME NEW s \in Seq(LineType), NEW t \in Seq(LineType), NEW u \in Seq(LineType)
  PROVE  Continues(s, s \o t) /\ Continues(s, s \o t \o u)
<1>1. /\ s \o t \in Seq(LineType) /\ s \o t \o u \in Seq(LineType)
      /\ Len(s \o t) = Len(s) + Len(t) /\ Len(s \o t \o u) = Len(s) + Len(t) + Len(u)
      /\ Len(s) \in Nat /\ Len(t) \in Nat /\ Len(u) \in Nat
  OBVIOUS
<1>2. \A i \in 1 .. Len(s) : (s \o t)[i] = s[i]
  OBVIOUS
<1>3. \A i \in 1 .. Len(s) : (s \o t \o u)[i] = s[i]
  BY <1>1
<1> QED BY <1>1, <1>2, <1>3 DEF Continues

LEMMA AppendContinues ==
  ASSUME NEW s \in Seq(LineType), NEW t \in Seq(LineType), NEW l \in LineType
  PROVE  /\ Continues(s, Append(s \o t, l))
         /\ Len(Append(s \o t, l)) = Len(s) + Len(t) + 1
         /\ \A i \in 1 .. Len(t) : Append(s \o t, l)[Len(s) + i] = t[i]
         /\ Append(s \o t, l)[Len(s) + Len(t) + 1] = l
<1>1. s \o t \in Seq(LineType) /\ Len(s) \in Nat /\ Len(t) \in Nat /\ Len(s \o t) = Len(s) + Len(t)
  OBVIOUS
<1>2. /\ Append(s \o t, l) \in Seq(LineType)
      /\ Len(Append(s \o t, l)) = Len(s) + Len(t) + 1
      /\ \A i \in 1 .. Len(s) + Len(t) : Append(s \o t, l)[i] = (s \o t)[i]
      /\ Append(s \o t, l)[Len(s) + Len(t) + 1] = l
  BY <1>1
<1>3. \A i \in 1 .. Len(s) : (s \o t)[i] = s[i]
  OBVIOUS
<1>4. \A i \in 1 .. Len(t) : (s \o t)[Len(s) + i] = t[i] /\ Len(s) + i \in 1 .. Len(s) + Len(t)
  BY <1>1
<1>5. Continues(s, Append(s \o t, l))
  BY <1>1, <1>2, <1>3 DEF Continues
<1> QED BY <1>2, <1>4, <1>5

-----------------------------------------------------------------------------
(* Types. *)

LEMMA WriteFailsEffect ==
  ASSUME WalTypeOK, NEW lines \in Seq(LineType), WriteFails(lines)
  PROVE  /\ Continues(file, file') /\ buf' \in Seq(LineType)
         /\ disk' = disk /\ sink' = "failed"
         /\ faults' \in Nat /\ crashes' = crashes
         /\ conf.faultKinds = {} => sink # "ok"
<1> USE DEF WalTypeOK
<1>1. Continues(file, file)
  BY DEF Continues
<1>2. CASE sink = "failed" /\ UNCHANGED <<fileVars, boundVars>>
  BY <1>1, <1>2 DEF fileVars, boundVars
<1>3. CASE sink = "closed" /\ sink' = "failed" /\ buf' = <<>> /\ UNCHANGED <<file, disk, boundVars>>
  BY <1>1, <1>3, LineTypes DEF boundVars
<1>4. CASE sink = "ok" /\ lines # <<>> /\ WriteError(lines) /\ Fault("write")
  <2>1. PICK k \in 0 .. Len(lines) - 1, torn \in {<<>>, <<Torn>>} :
          file' = file \o SubSeq(lines, 1, k) \o torn
    BY <1>4, Zenon DEF WriteError
  <2>2. SubSeq(lines, 1, k) \in Seq(LineType)
    <3>1. k \in 0 .. Len(lines)
      OBVIOUS
    <3> QED BY <3>1, LinesCut
  <2>2a. torn \in Seq(LineType)
    BY LineTypes, Zenon
  <2>3. Continues(file, file')
    BY <2>1, <2>2, <2>2a, JoinContinues, Zenon
  <2> QED BY <1>4, <2>3, LineTypes DEF WriteError, Fault
<1> QED BY <1>2, <1>3, <1>4, WriteFails(lines) DEF WriteFails

LEMMA FlushOkEffect ==
  ASSUME WalTypeOK, FlushOk
  PROVE  /\ Continues(file, file') /\ buf' = <<>> /\ buf' \in Seq(LineType)
         /\ disk' = disk /\ sink' = sink /\ sink # "failed"
         /\ \A w \in Writer : Buffered(w) => Stored(w, Len(file))'
<1>1. Continues(file, file')
  BY JoinContinues DEF WalTypeOK, FlushOk
<1>2. ASSUME NEW w \in Writer, Buffered(w) PROVE Stored(w, Len(file))'
  <2>1. PICK i \in 1 .. Len(buf) : buf[i].by = w
    BY <1>2 DEF Buffered
  <2>2. file'[Len(file) + i].by = w /\ Len(file) + i \in 1 .. Len(file')
    BY <2>1 DEF FlushOk, WalTypeOK
  <2> QED BY <2>2 DEF Stored
<1> QED BY <1>1, <1>2, LineTypes DEF FlushOk

LEMMA InitType == Init => WalTypeOK
<1> SUFFICES ASSUME Init PROVE WalTypeOK
  OBVIOUS
<1>1. app \in [Writer -> [pc : {"idle", "wait", "ok", "failed", "lost"}, seq : Nat, epoch : Nat]]
  BY DEF Init, NoCall
<1>2. flusher \in [pc : {"idle", "sync", "publish"}, pending : Nat, epoch : Nat, upto : Nat]
  BY DEF Init, Resting
<1>3. buf \in Seq(LineType) /\ file \in Seq(LineType) /\ disk \in 0 .. Len(file)
  BY EmptyLines DEF Init
<1> QED BY <1>1, <1>2, <1>3, Zenon DEF WalTypeOK, Init

LEMMA CrashEffect ==
  ASSUME WalTypeOK, Crash
  PROVE  /\ file' \in Seq(LineType) /\ disk' = Len(file') /\ disk <= disk'
         /\ \A i \in 1 .. disk : file'[i] = file[i]
         /\ seq' \in Nat /\ durableSeq' = seq'
<1>1. PICK k \in disk .. Len(file \o buf), torn \in {<<>>, <<Torn>>} :
        file' = SubSeq(file \o buf, 1, k) \o torn
  BY Zenon DEF Crash
<1>2. /\ file \o buf \in Seq(LineType) /\ torn \in Seq(LineType)
      /\ \A i \in 1 .. Len(file) : (file \o buf)[i] = file[i]
  BY LinesCompose, LineTypes, Zenon DEF WalTypeOK
<1>3. k \in 0 .. Len(file \o buf) /\ disk \in 0 .. Len(file) /\ disk <= k
  BY <1>2 DEF WalTypeOK
<1>4. /\ SubSeq(file \o buf, 1, k) \in Seq(LineType)
      /\ Len(SubSeq(file \o buf, 1, k)) = k
      /\ \A i \in 1 .. k : SubSeq(file \o buf, 1, k)[i] = (file \o buf)[i]
  BY <1>2, <1>3, LinesCut
<1>5. Continues(SubSeq(file \o buf, 1, k), file')
  BY <1>1, <1>2, <1>4, JoinContinues, Zenon
<1>6. file' \in Seq(LineType) /\ k <= Len(file') /\ \A i \in 1 .. k : file'[i] = (file \o buf)[i]
  BY <1>4, <1>5 DEF Continues
<1>7. \A i \in 1 .. disk : file'[i] = file[i]
  BY <1>2, <1>3, <1>6
<1>8. \A l \in Readable(file') : l.seq \in Nat
  <2>1. \A i \in 1 .. Len(file') : file'[i] \in LineType
    BY <1>6
  <2>2. \A l \in Readable(file') : \E i \in 1 .. Len(file') : l = file'[i]
    BY DEF Readable, Scanned
  <2> QED BY <2>1, <2>2 DEF LineType
<1>9. seq' \in Nat
  BY <1>8 DEF Crash, RecoverLastSeq
<1>10. disk' = Len(file') /\ durableSeq' = seq'
  BY Zenon DEF Crash
<1>11. disk <= Len(file')
  BY <1>3, <1>6
<1> QED BY <1>6, <1>7, <1>9, <1>10, <1>11

\* The way the log is used never changes.
LEMMA ConfFixed == [Next]_vars => conf' = conf
  BY DEF Next, vars, boundVars, Fault, WriteFails, AppendError, AppendInline, InlineSyncError,
         AppendPark, AppendReturn, FlushOnce, SyncOk, SyncError, Publish, Truncate, TruncateOk,
         TruncateError, Close, FinalSync, CloseFile, SinceFlush, Crash

LEMMA TypeStep == WalTypeOK /\ [Next]_vars => WalTypeOK'
<1> SUFFICES ASSUME WalTypeOK, [Next]_vars PROVE WalTypeOK'
  OBVIOUS
<1> USE DEF WalTypeOK
<1>z. conf' \in Confs
  BY ConfFixed
<1> USE <1>z
<1>a. \A t : Continues(file, t) => t \in Seq(LineType) /\ disk \in 0 .. Len(t) /\ Len(file) <= Len(t)
  BY DEF Continues
<1>1. ASSUME NEW w \in Writer, AppendError(w) PROVE WalTypeOK'
  <2>1. Append(buf, Line(w, seq + 1)) \in Seq(LineType)
    BY LineTypes, LinesCompose
  <2>2. WriteFails(Append(buf, Line(w, seq + 1)))
    BY <1>1 DEF AppendError
  <2>3. /\ Continues(file, file') /\ buf' \in Seq(LineType) /\ disk' = disk /\ sink' = "failed"
        /\ faults' \in Nat /\ crashes' = crashes
    BY <2>1, <2>2, WriteFailsEffect, Zenon
  <2>4. app' \in [Writer -> [pc : {"idle", "wait", "ok", "failed", "lost"}, seq : Nat, epoch : Nat]]
    BY <1>1, Zenon DEF AppendError
  <2>5. file' \in Seq(LineType) /\ disk' \in 0 .. Len(file')
    BY <1>a, <2>3
  <2>6. /\ seq' \in Nat /\ durableSeq' = durableSeq /\ closed' = closed /\ epoch' = epoch
        /\ unsynced' = unsynced /\ acked' = acked /\ flusher' = flusher
    BY <1>1 DEF AppendError
  <2> QED BY <2>3, <2>4, <2>5, <2>6
<1>2. ASSUME NEW w \in Writer, AppendInline(w) PROVE WalTypeOK'
  <2>1. Line(w, seq + 1) \in LineType
    BY LineTypes
  <2>2. file' \in Seq(LineType) /\ Len(file) <= Len(file') /\ buf' \in Seq(LineType)
    BY <1>2, <2>1, LineTypes, LinesCompose DEF AppendInline
  <2>3. disk' \in 0 .. Len(file') /\ acked' \subseteq Writer /\ faults' \in Nat /\ crashes' \in Nat
    <3>1. CASE disk' = Len(file') /\ acked' = acked \cup {w} /\ UNCHANGED boundVars
      BY <2>2, <3>1 DEF boundVars
    <3>2. CASE Fault("sync") /\ UNCHANGED <<disk, acked>>
      BY <2>2, <3>2 DEF Fault
    <3> QED BY <1>2, <3>1, <3>2, Zenon DEF AppendInline, InlineSyncError
  <2>4. app' \in [Writer -> [pc : {"idle", "wait", "ok", "failed", "lost"}, seq : Nat, epoch : Nat]]
    <3>1. \E o \in {"ok", "failed"} : app' = [app EXCEPT ![w].pc = o]
      BY <1>2 DEF AppendInline, InlineSyncError
    <3>2. PICK o \in {"ok", "failed"} : app' = [app EXCEPT ![w].pc = o]
      BY <3>1, Zenon
    <3>3. app \in [Writer -> [pc : {"idle", "wait", "ok", "failed", "lost"}, seq : Nat, epoch : Nat]]
      BY DEF WalTypeOK
    <3> HIDE DEF WalTypeOK
    <3> QED BY <3>2, <3>3
  <2>5. /\ seq' \in Nat /\ durableSeq' = durableSeq /\ closed' = closed /\ epoch' = epoch
        /\ unsynced' = unsynced /\ sink' = sink /\ flusher' = flusher
    BY <1>2 DEF AppendInline
  <2> QED BY <2>2, <2>3, <2>4, <2>5, Zenon
<1>3. ASSUME NEW w \in Writer, AppendPark(w) PROVE WalTypeOK'
  <2>1. Append(buf, Line(w, seq + 1)) \in Seq(LineType)
    BY LineTypes, LinesCompose
  <2> QED BY <1>3, <2>1 DEF AppendPark, boundVars
<1>4. ASSUME NEW w \in Writer, AppendReturn(w) PROVE WalTypeOK'
  BY <1>4 DEF AppendReturn, Verdict, fieldVars, fileVars, boundVars
<1>5. CASE FlushOnce
  <2>1. CASE WriteFails(buf) /\ UNCHANGED flusher
    BY <1>5, <2>1, <1>a, WriteFailsEffect DEF FlushOnce, fieldVars
  <2>2. CASE /\ FlushOk /\ UNCHANGED boundVars
             /\ flusher' = [pc |-> "sync", pending |-> seq, epoch |-> epoch, upto |-> Len(file')]
    BY <1>5, <2>2, <1>a, FlushOkEffect DEF FlushOnce, fieldVars, boundVars
  <2> QED BY <1>5, <2>1, <2>2 DEF FlushOnce
<1>6. CASE SyncOk
  <2>1. disk' \in 0 .. Len(file)
    BY <1>6 DEF SyncOk, Synced
  <2>2. flusher' \in [pc : {"idle", "sync", "publish"}, pending : Nat, epoch : Nat, upto : Nat]
    BY <1>6 DEF SyncOk
  <2> QED BY <1>6, <2>1, <2>2 DEF SyncOk, fieldVars, boundVars
<1>7. CASE SyncError
  BY <1>7 DEF SyncError, Fault, Resting, fieldVars, fileVars, boundVars
<1>8. CASE Publish
  BY <1>8, Zenon DEF Publish, Published, Resting, fileVars, boundVars
<1>9. CASE Truncate
  <2>1. CASE TruncateOk
    <3>1. file' \in Seq(LineType) /\ buf' \in Seq(LineType) /\ disk' \in 0 .. Len(file')
      BY <2>1, EmptyLines DEF TruncateOk
    <3>2. seq' \in Nat /\ durableSeq' \in Nat /\ epoch' \in Nat /\ acked' \subseteq Writer
      BY <2>1 DEF TruncateOk
    <3>2a. unsynced' \in BOOLEAN
      BY <2>1, Zenon DEF TruncateOk
    <3>3. closed' = closed /\ sink' = sink /\ faults' = faults /\ crashes' = crashes
      BY <2>1 DEF TruncateOk, boundVars
    <3>4. flusher' = flusher /\ app' = app
      BY <1>9 DEF Truncate
    <3> QED BY <3>1, <3>2, <3>2a, <3>3, <3>4
  <2>2. CASE WriteFails(buf) /\ UNCHANGED acked /\ UNCHANGED fieldVars
    BY <1>9, <2>2, <1>a, WriteFailsEffect DEF Truncate, fieldVars
  <2>3. CASE /\ Fault("rotate") /\ sink' = "closed" /\ buf' = <<>> /\ UNCHANGED fieldVars
             /\ \/ file' = file \o buf /\ UNCHANGED <<disk, acked>>
                \/ file' = <<>> /\ disk' = 0 /\ acked' = {}
    <3>1. Continues(file, file \o buf)
      BY JoinContinues
    <3>2. file' \in Seq(LineType) /\ buf' \in Seq(LineType) /\ disk' \in 0 .. Len(file') /\ acked' \subseteq Writer
      <4>1. CASE file' = file \o buf /\ UNCHANGED <<disk, acked>>
        BY <2>3, <3>1, <4>1, <1>a, EmptyLines
      <4>2. CASE file' = <<>> /\ disk' = 0 /\ acked' = {}
        BY <2>3, <4>2, EmptyLines
      <4> QED BY <2>3, <4>1, <4>2
    <3> QED BY <1>9, <2>3, <3>2 DEF Truncate, Fault, fieldVars
  <2> QED BY <1>9, <2>1, <2>2, <2>3, Zenon DEF Truncate, TruncateError
<1>10. CASE Close
  <2>1. Continues(file, file') /\ buf' \in Seq(LineType) /\ disk' \in 0 .. Len(file')
        /\ sink' \in {"ok", "closed", "failed"} /\ faults' \in Nat /\ crashes' \in Nat
    <3>1. CASE FlushOk /\ (Fault("sync") \/ (sink = "closed" /\ UNCHANGED boundVars))
      BY <3>1, <1>a, FlushOkEffect DEF Fault, boundVars
    <3>2. CASE WriteFails(buf)
      BY <3>2, <1>a, WriteFailsEffect
    <3>3. CASE /\ file' = file \o buf /\ buf' = <<>> /\ disk' = Len(file')
               /\ UNCHANGED <<sink, boundVars>>
      <4>1. Continues(file, file')
        BY <3>3, JoinContinues
      <4> QED BY <3>3, <4>1, <1>a, LineTypes DEF boundVars
    <3> QED BY <1>10, <3>1, <3>2, <3>3 DEF Close, FinalSync
  <2> QED BY <1>10, <2>1, <1>a DEF Close
<1>11. CASE CloseFile
  BY <1>11 DEF CloseFile, fieldVars, boundVars
<1>12. CASE SinceFlush
  BY <1>12, <1>a, FlushOkEffect, WriteFailsEffect, Zenon DEF SinceFlush, fieldVars, boundVars
<1>13. CASE Crash
  <2>1. file' \in Seq(LineType) /\ disk' = Len(file') /\ seq' \in Nat /\ durableSeq' = seq'
    BY <1>13, CrashEffect
  <2>2. flusher' \in [pc : {"idle", "sync", "publish"}, pending : Nat, epoch : Nat, upto : Nat]
    BY <1>13 DEF Crash, Resting
  <2>3. app' \in [Writer -> [pc : {"idle", "wait", "ok", "failed", "lost"}, seq : Nat, epoch : Nat]]
    BY <1>13, Zenon DEF Crash, NoCall
  <2>4. buf' \in Seq(LineType) /\ disk' \in 0 .. Len(file')
    <3>1. buf' = <<>>
      BY <1>13 DEF Crash
    <3> QED BY <2>1, <3>1, EmptyLines
  <2>5. sink' = "ok" /\ epoch' = 0 /\ acked' = acked /\ faults' = faults /\ crashes' = crashes + 1
    BY <1>13, Zenon DEF Crash
  <2>6. closed' \in BOOLEAN /\ unsynced' \in BOOLEAN
    BY <1>13, Zenon DEF Crash
  <2> QED BY <2>1, <2>2, <2>3, <2>4, <2>5, <2>6
<1>14. CASE UNCHANGED vars
  BY <1>14 DEF vars, fieldVars, fileVars, boundVars
<1> QED BY <1>1, <1>2, <1>3, <1>4, <1>5, <1>6, <1>7, <1>8, <1>9, <1>10, <1>11, <1>12, <1>13, <1>14, Zenon DEF Next

\* Every field of the log, its lines and its callers keep their types, whatever
\* fails.
THEOREM WalTypeInvariant == Spec => []WalTypeOK
  BY InitType, TypeStep, PTL DEF Spec

-----------------------------------------------------------------------------
(* Group commit. *)

\* With group commit the log is not closed on a disk that fails, and rotating
\* the file works: without that Close acknowledges what is not on disk.
Sound(c) ==
  c.batched => "rotate" \notin c.faultKinds /\ (c.canClose => c.faultKinds = {})

Safe == \A c \in Confs : Sound(c)

LEMMA StoredKept ==
  ASSUME WalTypeOK, Continues(file, file'), NEW w \in Writer, NEW k \in Nat, NEW m \in Nat,
         k <= Len(file), k <= m, Stored(w, k)
  PROVE  \E i \in 1 .. m : file'[i].by = w
<1>1. PICK i \in 1 .. k : file[i].by = w
  BY DEF Stored
<1>2. i \in 1 .. Len(file) /\ i \in 1 .. m /\ Len(file) \in Nat
  BY DEF WalTypeOK
<1> QED BY <1>1, <1>2 DEF Continues

LEMMA TypeFacts ==
  ASSUME WalTypeOK
  PROVE  /\ file \in Seq(LineType) /\ buf \in Seq(LineType) /\ Len(file) \in Nat
         /\ disk \in Nat /\ disk <= Len(file)
         /\ seq \in Nat /\ epoch \in Nat /\ durableSeq \in Nat
         /\ flusher.upto \in Nat /\ flusher.pending \in Nat /\ flusher.epoch \in Nat
         /\ \A w \in Writer : app[w].seq \in Nat /\ app[w].epoch \in Nat
<1>1. \A w \in Writer : app[w].seq \in Nat /\ app[w].epoch \in Nat
  BY DEF WalTypeOK
<1>2. flusher.upto \in Nat /\ flusher.pending \in Nat /\ flusher.epoch \in Nat
  BY DEF WalTypeOK
<1> QED BY <1>1, <1>2 DEF WalTypeOK

\* Steps that leave the published numbers alone, lose no line and wake or end
\* calls at most.
LEMMA LedgerKept ==
  ASSUME WalTypeOK, WalTypeOK', WalLedger, conf' = conf, conf.batched,
         Continues(file, file'), disk <= disk',
         seq <= seq', durableSeq' = durableSeq, epoch' = epoch,
         flusher' = flusher \/ flusher'.pc = "idle",
         \A w \in Writer : app'[w].pc = "wait" => app'[w] = app[w],
         \A w \in Writer : Buffered(w) => Buffered(w)' \/ Stored(w, Len(file))' \/ sink' = "failed",
         sink = "failed" => sink' = "failed",
         conf.faultKinds = {} /\ sink' # "ok" => closed'
  PROVE  WalLedger'
<1>0. /\ disk \in Nat /\ disk' \in Nat /\ Len(file) \in Nat /\ Len(file') \in Nat
      /\ disk <= Len(file) /\ Len(file) <= Len(file')
      /\ seq \in Nat /\ seq' \in Nat /\ flusher.upto \in Nat /\ durableSeq \in Nat
      /\ \A w \in Writer : app[w].seq \in Nat
  BY DEF WalTypeOK, Continues
<1>1. \A w \in Writer : Queued(w)' => Queued(w) /\ app'[w].seq = app[w].seq
  BY DEF Queued
<1>2. (durableSeq <= seq)'
  <2>1. durableSeq <= seq
    BY DEF WalLedger
  <2> QED BY <1>0, <2>1
<1>3. (\A w \in Writer : app[w].pc = "wait" => app[w].epoch <= epoch)'
  BY Zenon DEF WalLedger, WalTypeOK
<1>4. ASSUME NEW w \in Writer, Queued(w)'
      PROVE  /\ app'[w].seq <= seq'
             /\ Stored(w, Len(file))' \/ Buffered(w)' \/ sink' = "failed"
             /\ app'[w].seq <= durableSeq' => Stored(w, disk)'
  <2>1. Queued(w) /\ app'[w].seq = app[w].seq
    BY <1>1, <1>4
  <2>2. /\ app[w].seq <= seq
        /\ Stored(w, Len(file)) \/ Buffered(w) \/ sink = "failed"
        /\ app[w].seq <= durableSeq => Stored(w, disk)
    BY <2>1 DEF WalLedger
  <2>3. app'[w].seq <= seq'
    BY <1>0, <2>1, <2>2
  <2>4. Stored(w, Len(file)) => Stored(w, Len(file))'
    <3>1. PICK k, m \in Nat : k = Len(file) /\ m = Len(file')
      BY <1>0
    <3>2. k <= Len(file) /\ k <= m
      BY <1>0, <3>1
    <3>3. Stored(w, k) => \E i \in 1 .. m : file'[i].by = w
      BY <3>2, StoredKept
    <3> QED BY <3>1, <3>3 DEF Stored
  <2>5. Stored(w, disk) => Stored(w, disk)'
    <3>1. Stored(w, disk) => \E i \in 1 .. disk' : file'[i].by = w
      BY <1>0, StoredKept, Zenon
    <3> QED BY <3>1 DEF Stored
  <2> QED BY <2>1, <2>2, <2>3, <2>4, <2>5
<1>5. (flusher.pc # "idle" => flusher.epoch <= epoch)'
  BY DEF WalLedger
<1>6. ASSUME flusher'.pc # "idle", flusher'.epoch = epoch'
      PROVE  /\ flusher'.pending <= seq'
             /\ flusher'.upto <= Len(file')
             /\ flusher'.pc = "publish" => flusher'.upto <= disk'
             /\ \A w \in Writer : Queued(w)' /\ app'[w].seq <= flusher'.pending => Stored(w, flusher.upto)'
  <2>1. flusher' = flusher
    BY <1>6
  <2>2. /\ flusher.pending <= seq
        /\ flusher.upto <= Len(file)
        /\ flusher.pc = "publish" => flusher.upto <= disk
        /\ \A w \in Writer : Queued(w) /\ app[w].seq <= flusher.pending => Stored(w, flusher.upto)
    BY <1>6, <2>1 DEF WalLedger
  <2>3. flusher'.pending <= seq' /\ flusher'.upto <= Len(file')
        /\ (flusher'.pc = "publish" => flusher'.upto <= disk')
    BY <2>1, <2>2 DEF WalTypeOK, Continues
  <2>4. ASSUME NEW w \in Writer, Queued(w)', app'[w].seq <= flusher'.pending
        PROVE  Stored(w, flusher.upto)'
    <3>1. Stored(w, flusher.upto)
      BY <1>1, <2>1, <2>2, <2>4
    <3>2. PICK u \in Nat : u = flusher.upto
      BY <1>0
    <3>3. u <= Len(file) /\ u <= u /\ Stored(w, u)
      BY <2>2, <3>1, <3>2
    <3>4. \E i \in 1 .. u : file'[i].by = w
      BY <3>3, StoredKept, Zenon
    <3> QED BY <2>1, <3>2, <3>4 DEF Stored
  <2> QED BY <2>3, <2>4
<1> QED BY <1>2, <1>3, <1>4, <1>5, <1>6 DEF WalLedger

LEMMA LedgerInit == Init => WalLedger /\ AckedDurable
  BY DEF Init, WalLedger, AckedDurable, Queued, NoCall, Resting

\* Inline mode: nobody waits, and no fault means that only Close ends the file.
LEMMA InlineLedgerStep ==
  ASSUME WalTypeOK, WalTypeOK', WalLedger, [Next]_vars, ~conf.batched
  PROVE  WalLedger'
<1>0. conf' = conf /\ flusher.pc = "idle" /\ \A w \in Writer : app[w].pc # "wait"
  BY ConfFixed DEF WalLedger
<1>a. /\ seq \in Nat /\ durableSeq \in Nat /\ buf \in Seq(LineType) /\ durableSeq <= seq
      /\ app \in [Writer -> [pc : {"idle", "wait", "ok", "failed", "lost"}, seq : Nat, epoch : Nat]]
  BY DEF WalTypeOK, WalLedger
<1>b. conf.faultKinds = {} /\ sink # "ok" => closed
  BY DEF WalLedger
<1>c. WriteFails(buf) /\ conf.faultKinds = {} => sink # "ok"
  BY <1>a, WriteFailsEffect
<1>d. \A k : Fault(k) => conf.faultKinds # {}
  BY DEF Fault
<1> DEFINE Still == /\ flusher'.pc = "idle" /\ \A w \in Writer : app'[w].pc # "wait"
                    /\ durableSeq' <= seq'
                    /\ conf.faultKinds = {} /\ sink' # "ok" => closed'
<1>e. SUFFICES Still
  BY <1>0 DEF WalLedger, Queued
<1>1. ASSUME NEW w \in Writer, AppendError(w) PROVE Still
  <2>1. Append(buf, Line(w, seq + 1)) \in Seq(LineType)
    <3>1. Line(w, seq + 1) \in LineType
      BY <1>a, LineTypes
    <3> QED BY <1>a, <3>1
  <2>2. conf.faultKinds = {} => sink # "ok"
    BY <1>1, <2>1, WriteFailsEffect, Zenon DEF AppendError
  <2>3. \A v \in Writer : app'[v].pc # "wait"
    BY <1>0, <1>1, <1>a DEF AppendError
  <2> QED BY <1>0, <1>1, <1>a, <1>b, <2>2, <2>3 DEF AppendError
<1>2. ASSUME NEW w \in Writer, AppendInline(w) PROVE Still
  <2>1. \E o \in {"ok", "failed"} : app' = [app EXCEPT ![w].pc = o]
    BY <1>2 DEF AppendInline, InlineSyncError
  <2>2. PICK o \in {"ok", "failed"} : app' = [app EXCEPT ![w].pc = o]
    BY <2>1, Zenon
  <2>3. \A v \in Writer : app'[v].pc # "wait"
    BY <1>0, <1>a, <2>2
  <2>4. seq' = seq + 1 /\ UNCHANGED <<durableSeq, closed, sink, flusher>>
    BY <1>2 DEF AppendInline
  <2> QED BY <1>0, <1>a, <1>b, <2>3, <2>4
<1>3. ASSUME NEW w \in Writer, AppendPark(w) \/ AppendReturn(w) PROVE FALSE
  BY <1>0, <1>3 DEF AppendPark, AppendReturn
<1>4. ~FlushOnce /\ ~SyncOk /\ ~SyncError /\ ~Publish
  BY <1>0 DEF FlushOnce, SyncOk, SyncError, Publish
<1>5. CASE Truncate
  <2>1. UNCHANGED <<flusher, app>> /\ (TruncateOk \/ TruncateError)
    BY <1>5 DEF Truncate
  <2>2. durableSeq' <= seq'
    BY <1>a, <2>1 DEF TruncateOk, TruncateError, fieldVars
  <2>3. conf.faultKinds = {} /\ sink' # "ok" => closed'
    BY <1>b, <1>c, <1>d, <2>1 DEF TruncateOk, TruncateError, fieldVars
  <2> QED BY <1>0, <2>1, <2>2, <2>3
<1>6. CASE Close
  BY <1>0, <1>6, <1>a DEF Close
<1>7. CASE CloseFile
  BY <1>0, <1>7, <1>a DEF CloseFile, fieldVars
<1>8. CASE SinceFlush
  <2>1. UNCHANGED <<fieldVars, flusher, app>> /\ (FlushOk \/ WriteFails(buf))
    BY <1>8 DEF SinceFlush
  <2> QED BY <1>0, <1>a, <1>b, <1>c, <2>1 DEF fieldVars, FlushOk
<1>9. CASE Crash
  <2>1. seq' \in Nat /\ durableSeq' = seq'
    BY <1>9, CrashEffect
  <2> QED BY <1>9, <1>0, <1>a, <2>1 DEF Crash, Resting, NoCall
<1>10. CASE UNCHANGED vars
  BY <1>0, <1>a, <1>b, <1>10 DEF vars, fieldVars, fileVars
<1> QED BY <1>1, <1>2, <1>3, <1>4, <1>5, <1>6, <1>7, <1>8, <1>9, <1>10 DEF Next

\* Group commit: a truncation, a crash and a close leave no queued call behind
\* that was not served; the other steps are those of LedgerKept or of the
\* flusher.
LEMMA BatchedLedgerStep ==
  ASSUME Safe, WalTypeOK, WalTypeOK', WalLedger, [Next]_vars, conf.batched
  PROVE  WalLedger'
<1>z. conf' = conf /\ conf.batched /\ Sound(conf)
  BY ConfFixed DEF Safe, WalTypeOK
<1> USE <1>z
<1>a. Continues(file, file)
  BY DEF Continues, WalTypeOK
<1>b. /\ file \in Seq(LineType) /\ buf \in Seq(LineType) /\ Len(file) \in Nat
      /\ disk \in Nat /\ disk <= Len(file)
      /\ seq \in Nat /\ epoch \in Nat /\ durableSeq \in Nat
      /\ flusher.upto \in Nat /\ flusher.pending \in Nat /\ flusher.epoch \in Nat
      /\ \A w \in Writer : app[w].seq \in Nat /\ app[w].epoch \in Nat
  BY TypeFacts
<1>l. /\ durableSeq <= seq
      /\ \A w \in Writer : app[w].pc = "wait" => app[w].epoch <= epoch
      /\ flusher.pc # "idle" => flusher.epoch <= epoch
  BY Zenon DEF WalLedger
<1>n. disk \in Nat /\ seq \in Nat /\ epoch \in Nat /\ durableSeq \in Nat
  BY <1>b
<1>1. ASSUME NEW w \in Writer, AppendError(w) PROVE WalLedger'
  <2>1. Append(buf, Line(w, seq + 1)) \in Seq(LineType)
    <3>1. Line(w, seq + 1) \in LineType
      BY <1>b, LineTypes
    <3> QED BY <1>b, <3>1
  <2>2. WriteFails(Append(buf, Line(w, seq + 1)))
    BY <1>1 DEF AppendError
  <2>3. Continues(file, file') /\ disk' = disk /\ sink' = "failed" /\ (conf.faultKinds = {} => sink # "ok")
    BY <2>1, <2>2, WriteFailsEffect, Zenon
  <2>4. \A v \in Writer : app'[v].pc = "wait" => app'[v] = app[v]
    BY <1>1 DEF AppendError, WalTypeOK
  <2>5. seq' = seq + 1 /\ durableSeq' = durableSeq /\ epoch' = epoch /\ flusher' = flusher /\ closed' = closed
    BY <1>1 DEF AppendError
  <2>6. conf.faultKinds = {} /\ sink' # "ok" => closed'
    BY <2>3, <2>5 DEF WalLedger
  <2>7. disk <= disk' /\ seq <= seq'
    BY <1>n, <2>3, <2>5
  <2> QED BY <2>3, <2>4, <2>5, <2>6, <2>7, LedgerKept
<1>2. ASSUME NEW w \in Writer, AppendInline(w) PROVE WalLedger'
  <2>1. Line(w, seq + 1) \in LineType
    BY <1>b, LineTypes
  <2>a. file' = Append(file \o buf, Line(w, seq + 1))
    BY <1>2 DEF AppendInline
  <2>2. /\ Continues(file, file')
        /\ Len(file') = Len(file) + Len(buf) + 1
        /\ \A i \in 1 .. Len(buf) : file'[Len(file) + i] = buf[i]
    BY <1>b, <2>1, <2>a, AppendContinues
  <2>3. disk <= disk'
    <3>1. disk' = Len(file') \/ disk' = disk
      BY <1>2 DEF AppendInline, InlineSyncError
    <3> QED BY <1>b, <2>2, <3>1 DEF Continues
  <2>4. \A v \in Writer : app'[v].pc = "wait" => app'[v] = app[v]
    <3>1. \E o \in {"ok", "failed"} : app' = [app EXCEPT ![w].pc = o]
      BY <1>2 DEF AppendInline, InlineSyncError
    <3>2. PICK o \in {"ok", "failed"} : app' = [app EXCEPT ![w].pc = o]
      BY <3>1, Zenon
    <3>3. app \in [Writer -> [pc : {"idle", "wait", "ok", "failed", "lost"}, seq : Nat, epoch : Nat]]
      BY DEF WalTypeOK
    <3> QED BY <3>2, <3>3
  <2>5. /\ seq' = seq + 1 /\ durableSeq' = durableSeq /\ epoch' = epoch /\ flusher' = flusher
        /\ closed' = closed /\ sink' = sink
    BY <1>2 DEF AppendInline
  <2>6. \A v \in Writer : Buffered(v) => Stored(v, Len(file))'
    <3>1. SUFFICES ASSUME NEW v \in Writer, Buffered(v) PROVE Stored(v, Len(file))'
      OBVIOUS
    <3>2. PICK i \in 1 .. Len(buf) : buf[i].by = v
      BY <3>1 DEF Buffered
    <3>3. file'[Len(file) + i].by = v /\ Len(file) + i \in 1 .. Len(file')
      BY <1>b, <2>2, <3>2
    <3> QED BY <3>3 DEF Stored
  <2>7. conf.faultKinds = {} /\ sink' # "ok" => closed'
    BY <2>5 DEF WalLedger
  <2> QED BY <1>b, <2>2, <2>3, <2>4, <2>5, <2>6, <2>7, LedgerKept
<1>4. ASSUME NEW w \in Writer, AppendReturn(w) PROVE WalLedger'
  <2>1. \A v \in Writer : app'[v].pc = "wait" => app'[v] = app[v]
    BY <1>4 DEF AppendReturn, Verdict, WalTypeOK
  <2>2. UNCHANGED <<fieldVars, fileVars, flusher>>
    BY <1>4 DEF AppendReturn
  <2>3. \A v \in Writer : Buffered(v) => Buffered(v)'
    BY <2>2 DEF Buffered, fileVars
  <2>4. /\ conf' = conf /\ file' = file /\ disk' = disk /\ sink' = sink /\ seq' = seq
        /\ durableSeq' = durableSeq /\ epoch' = epoch /\ closed' = closed
    BY <2>2 DEF fieldVars, fileVars
  <2>5. conf.faultKinds = {} /\ sink' # "ok" => closed'
    BY <2>4 DEF WalLedger
  <2>6. Continues(file, file') /\ disk <= disk' /\ seq <= seq'
    BY <1>a, <1>b, <2>4
  <2> QED BY <1>b, <2>1, <2>2, <2>3, <2>4, <2>5, <2>6, LedgerKept
<1>7. CASE SyncError
  <2>1. UNCHANGED <<fieldVars, fileVars, app>> /\ flusher'.pc = "idle"
    BY <1>7 DEF SyncError, Resting
  <2>2. \A v \in Writer : Buffered(v) => Buffered(v)'
    BY <2>1 DEF Buffered, fileVars
  <2>3. /\ conf' = conf /\ file' = file /\ disk' = disk /\ sink' = sink /\ seq' = seq
        /\ durableSeq' = durableSeq /\ epoch' = epoch /\ closed' = closed
    BY <2>1 DEF fieldVars, fileVars
  <2>4. conf.faultKinds = {} /\ sink' # "ok" => closed'
    BY <2>3 DEF WalLedger
  <2>5. Continues(file, file') /\ disk <= disk' /\ seq <= seq'
    BY <1>a, <1>b, <2>3
  <2> QED BY <1>b, <2>1, <2>2, <2>3, <2>4, <2>5, LedgerKept
<1>11. CASE CloseFile
  <2>1. UNCHANGED <<fieldVars, buf, file, disk, flusher, app>> /\ closed /\ sink = "ok"
    BY <1>11 DEF CloseFile
  <2>2. \A v \in Writer : Buffered(v) => Buffered(v)'
    BY <2>1 DEF Buffered
  <2> QED BY <1>a, <1>b, <2>1, <2>2, LedgerKept DEF fieldVars
<1>c. ASSUME WriteFails(buf), UNCHANGED <<fieldVars, flusher, app>> PROVE WalLedger'
  <2>1. Continues(file, file') /\ disk' = disk /\ sink' = "failed" /\ (conf.faultKinds = {} => sink # "ok")
    BY <1>b, <1>c, WriteFailsEffect
  <2>2. /\ seq' = seq /\ durableSeq' = durableSeq /\ epoch' = epoch /\ closed' = closed
        /\ flusher' = flusher /\ app' = app
    BY <1>c DEF fieldVars
  <2>3. conf.faultKinds = {} /\ sink' # "ok" => closed'
    BY <2>1, <2>2 DEF WalLedger
  <2>4. disk <= disk' /\ seq <= seq'
    BY <1>b, <2>1, <2>2
  <2>5. \A w \in Writer : app'[w].pc = "wait" => app'[w] = app[w]
    BY <2>2
  <2> QED BY <2>1, <2>2, <2>3, <2>4, <2>5, LedgerKept
<1>d. ASSUME FlushOk, UNCHANGED <<fieldVars, app>>, flusher' = flusher \/ flusher'.pc = "idle" PROVE WalLedger'
  <2>1. /\ Continues(file, file') /\ disk' = disk /\ sink' = sink /\ sink # "failed"
        /\ \A w \in Writer : Buffered(w) => Stored(w, Len(file))'
    BY <1>d, FlushOkEffect
  <2>2. /\ disk <= disk' /\ seq <= seq' /\ durableSeq' = durableSeq /\ epoch' = epoch
        /\ \A w \in Writer : app'[w].pc = "wait" => app'[w] = app[w]
    BY <1>b, <1>d, <2>1 DEF fieldVars
  <2>3. conf.faultKinds = {} /\ sink' # "ok" => closed'
    BY <1>d, <2>1 DEF fieldVars, WalLedger
  <2> QED BY <1>d, <2>1, <2>2, <2>3, LedgerKept
<1>3. ASSUME NEW w \in Writer, AppendPark(w) PROVE WalLedger'
  <2>1. /\ seq' = seq + 1 /\ durableSeq' = durableSeq /\ closed' = closed /\ epoch' = epoch
        /\ file' = file /\ disk' = disk /\ sink' = sink /\ flusher' = flusher
        /\ buf' = Append(buf, Line(w, seq + 1))
        /\ app' = [app EXCEPT ![w] = [pc |-> "wait", seq |-> seq + 1, epoch |-> epoch]]
    BY <1>3 DEF AppendPark
  <2>2. /\ app'[w] = [pc |-> "wait", seq |-> seq + 1, epoch |-> epoch]
        /\ \A v \in Writer \ {w} : app'[v] = app[v]
    BY <2>1 DEF WalTypeOK
  <2>3. Line(w, seq + 1) \in LineType /\ Line(w, seq + 1).by = w
    BY <1>b, LineTypes DEF Line
  <2>4. Buffered(w)'
    <3>0. buf \in Seq(LineType) /\ buf' = Append(buf, Line(w, seq + 1))
      BY <1>b, <2>1, Zenon
    <3>1. buf'[Len(buf) + 1] = Line(w, seq + 1) /\ Len(buf) + 1 \in 1 .. Len(buf')
      BY <2>3, <3>0
    <3> QED BY <2>3, <3>1 DEF Buffered
  <2>5. \A v \in Writer : Buffered(v) => Buffered(v)'
    <3>0. buf \in Seq(LineType) /\ buf' = Append(buf, Line(w, seq + 1))
      BY <1>b, <2>1, Zenon
    <3>1. \A i \in 1 .. Len(buf) : buf'[i] = buf[i] /\ i \in 1 .. Len(buf')
      BY <2>3, <3>0
    <3> QED BY <3>1 DEF Buffered
  <2>7. \A v \in Writer \ {w} : Queued(v)' => Queued(v) /\ app'[v].seq = app[v].seq
    BY <2>1, <2>2 DEF Queued
  <2>8. (\A v \in Writer : app[v].pc = "wait" => app[v].epoch <= epoch)'
    <3>1. epoch' = epoch
      BY <2>1
    <3>2. app'[w].epoch <= epoch
      BY <1>n, <2>2
    <3> QED BY <1>l, <2>2, <3>1, <3>2, Zenon
  <2>9. ASSUME NEW v \in Writer, Queued(v)'
        PROVE  /\ app'[v].seq <= seq'
               /\ Stored(v, Len(file))' \/ Buffered(v)' \/ sink' = "failed"
               /\ app'[v].seq <= durableSeq' => Stored(v, disk)'
    <3>1. CASE v = w
      <4>1. app'[v].seq = seq + 1 /\ seq' = seq + 1 /\ durableSeq' = durableSeq /\ Buffered(v)'
        BY <2>1, <2>2, <2>4, <3>1
      <4> QED BY <1>n, <1>l, <4>1
    <3>2. CASE v # w
      <4>1. Queued(v) /\ app'[v].seq = app[v].seq
        BY <2>7, <2>9, <3>2
      <4>2. /\ app[v].seq <= seq
            /\ Stored(v, Len(file)) \/ Buffered(v) \/ sink = "failed"
            /\ app[v].seq <= durableSeq => Stored(v, disk)
        BY <4>1 DEF WalLedger
      <4>3. (Stored(v, Len(file)) => Stored(v, Len(file))') /\ (Stored(v, disk) => Stored(v, disk)')
        BY <2>1 DEF Stored
      <4>4. app'[v].seq <= seq'
        BY <1>b, <2>1, <4>1, <4>2
      <4> QED BY <2>1, <2>5, <4>1, <4>2, <4>3, <4>4
    <3> QED BY <3>1, <3>2
  <2>10. ASSUME flusher'.pc # "idle", flusher'.epoch = epoch'
         PROVE  /\ flusher'.pending <= seq'
                /\ flusher'.upto <= Len(file')
                /\ flusher'.pc = "publish" => flusher'.upto <= disk'
                /\ \A v \in Writer : Queued(v)' /\ app'[v].seq <= flusher'.pending => Stored(v, flusher.upto)'
    <3>1. /\ flusher.pending <= seq
          /\ flusher.upto <= Len(file)
          /\ flusher.pc = "publish" => flusher.upto <= disk
          /\ \A v \in Writer : Queued(v) /\ app[v].seq <= flusher.pending => Stored(v, flusher.upto)
      BY <2>1, <2>10 DEF WalLedger
    <3>2. ASSUME NEW v \in Writer, Queued(v)', app'[v].seq <= flusher'.pending
          PROVE  Stored(v, flusher.upto)'
      <4>1. v # w
        BY <1>b, <2>1, <2>2, <3>1, <3>2
      <4>2. Stored(v, flusher.upto)
        BY <2>1, <2>7, <3>1, <3>2, <4>1
      <4> QED BY <2>1, <4>2 DEF Stored
    <3> QED BY <1>b, <2>1, <3>1, <3>2
  <2>11. (durableSeq <= seq)'
    <3>1. durableSeq <= seq
      BY DEF WalLedger
    <3> QED BY <1>b, <2>1, <3>1
  <2>12. (flusher.pc # "idle" => flusher.epoch <= epoch)' /\ (conf.faultKinds = {} /\ sink # "ok" => closed)'
    BY <2>1 DEF WalLedger
  <2>13. conf'.batched
    OBVIOUS
  <2> QED BY <2>8, <2>9, <2>10, <2>11, <2>12, <2>13, Zenon DEF WalLedger
<1>5. CASE FlushOnce
  <2>0. UNCHANGED <<fieldVars, app>>
    BY <1>5 DEF FlushOnce
  <2>1. CASE WriteFails(buf) /\ UNCHANGED flusher
    BY <1>c, <2>0, <2>1
  <2>2. CASE /\ FlushOk
             /\ flusher' = [pc |-> "sync", pending |-> seq, epoch |-> epoch, upto |-> Len(file')]
    <3>1. /\ Continues(file, file') /\ disk' = disk /\ sink' = sink /\ sink # "failed" /\ buf' = <<>>
          /\ \A w \in Writer : Buffered(w) => Stored(w, Len(file))'
      BY <2>2, FlushOkEffect
    <3>2. /\ seq' = seq /\ durableSeq' = durableSeq /\ epoch' = epoch /\ closed' = closed /\ app' = app
      BY <2>0 DEF fieldVars
    <3>3. Len(file') \in Nat /\ Len(file) <= Len(file')
      BY <3>1 DEF Continues
    <3>4. \A w \in Writer : Queued(w)' => Queued(w)
      BY <3>2 DEF Queued
    <3>5. ASSUME NEW w \in Writer, Queued(w)
          PROVE  Stored(w, Len(file))' /\ (Stored(w, disk) => Stored(w, disk)')
      <4>1. Stored(w, Len(file)) \/ Buffered(w)
        BY <3>1, <3>5 DEF WalLedger
      <4>2. PICK k, m, d \in Nat : k = Len(file) /\ m = Len(file') /\ d = disk
        BY <1>b, <3>3
      <4>3. k <= Len(file) /\ k <= m /\ d <= Len(file) /\ d <= d
        BY <1>b, <3>3, <4>2
      <4>4. Stored(w, k) => \E i \in 1 .. m : file'[i].by = w
        BY <3>1, <4>3, StoredKept
      <4>5. Stored(w, d) => \E i \in 1 .. d : file'[i].by = w
        BY <3>1, <4>3, StoredKept
      <4> QED BY <3>1, <4>1, <4>2, <4>4, <4>5 DEF Stored
    <3>6. ASSUME NEW w \in Writer, Queued(w)'
          PROVE  /\ app'[w].seq <= seq'
                 /\ Stored(w, Len(file))' \/ Buffered(w)' \/ sink' = "failed"
                 /\ app'[w].seq <= durableSeq' => Stored(w, disk)'
      BY <3>2, <3>4, <3>5, <3>6 DEF WalLedger
    <3>7. /\ flusher'.pending = seq /\ flusher'.upto = Len(file') /\ flusher'.pc = "sync"
          /\ flusher'.epoch = epoch
      BY <2>2
    <3>8. \A w \in Writer : Queued(w)' => Stored(w, flusher.upto)'
      BY <3>4, <3>5, <3>7 DEF Stored
    <3>9. /\ (durableSeq <= seq)' /\ (conf.faultKinds = {} /\ sink # "ok" => closed)'
          /\ (\A w \in Writer : app[w].pc = "wait" => app[w].epoch <= epoch)'
      BY <3>1, <3>2 DEF WalLedger
    <3>10. flusher'.epoch <= epoch' /\ flusher'.pending <= seq' /\ flusher'.upto <= Len(file')
      BY <1>b, <3>2, <3>3, <3>7
    <3>11. conf'.batched /\ flusher'.pc # "publish"
      BY <3>7
    <3> QED BY <3>6, <3>8, <3>9, <3>10, <3>11, Zenon DEF WalLedger
  <2> QED BY <1>5, <2>1, <2>2 DEF FlushOnce
<1>6. CASE SyncOk
  <2>1. /\ UNCHANGED <<fieldVars, buf, file, sink, app>> /\ disk' = Synced
        /\ flusher.pc = "sync" /\ flusher' = [flusher EXCEPT !.pc = "publish"]
    BY <1>6 DEF SyncOk
  <2>2. disk <= disk' /\ (flusher.epoch = epoch => flusher.upto <= disk')
    BY <1>b, <2>1 DEF Synced, WalLedger
  <2>3. /\ flusher'.pc = "publish" /\ flusher'.pending = flusher.pending
        /\ flusher'.upto = flusher.upto /\ flusher'.epoch = flusher.epoch
    BY <2>1 DEF WalTypeOK
  <2>4. /\ seq' = seq /\ durableSeq' = durableSeq /\ epoch' = epoch /\ closed' = closed
        /\ file' = file /\ buf' = buf /\ sink' = sink /\ app' = app
    BY <2>1 DEF fieldVars
  <2>5. \A w \in Writer : (Queued(w)' <=> Queued(w)) /\ (Buffered(w)' <=> Buffered(w))
    BY <2>4 DEF Queued, Buffered
  <2>6. \A w \in Writer : /\ Stored(w, disk) => Stored(w, disk)'
                          /\ Stored(w, Len(file)) => Stored(w, Len(file))'
                          /\ Stored(w, flusher.upto) => Stored(w, flusher.upto)'
    <3>0. disk' \in Nat
      BY DEF WalTypeOK
    <3> QED BY <1>b, <2>2, <2>3, <2>4, <3>0 DEF Stored
  <2>7. /\ (durableSeq <= seq)' /\ (conf.faultKinds = {} /\ sink # "ok" => closed)'
        /\ (\A w \in Writer : app[w].pc = "wait" => app[w].epoch <= epoch)'
        /\ (flusher.pc # "idle" => flusher.epoch <= epoch)'
    BY <2>1, <2>3, <2>4 DEF WalLedger
  <2>8. ASSUME NEW w \in Writer, Queued(w)'
        PROVE  /\ app'[w].seq <= seq'
               /\ Stored(w, Len(file))' \/ Buffered(w)' \/ sink' = "failed"
               /\ app'[w].seq <= durableSeq' => Stored(w, disk)'
    <3>1. /\ app[w].seq <= seq
          /\ Stored(w, Len(file)) \/ Buffered(w) \/ sink = "failed"
          /\ app[w].seq <= durableSeq => Stored(w, disk)
      BY <2>5, <2>8 DEF WalLedger
    <3> QED BY <2>4, <2>5, <2>6, <3>1
  <2>9. ASSUME flusher'.pc # "idle", flusher'.epoch = epoch'
        PROVE  /\ flusher'.pending <= seq'
               /\ flusher'.upto <= Len(file')
               /\ flusher'.pc = "publish" => flusher'.upto <= disk'
               /\ \A v \in Writer : Queued(v)' /\ app'[v].seq <= flusher'.pending => Stored(v, flusher.upto)'
    <3>1. /\ flusher.pending <= seq
          /\ flusher.upto <= Len(file)
          /\ \A v \in Writer : Queued(v) /\ app[v].seq <= flusher.pending => Stored(v, flusher.upto)
      BY <2>1, <2>3, <2>4, <2>9 DEF WalLedger
    <3> QED BY <2>2, <2>3, <2>4, <2>5, <2>6, <2>9, <3>1
  <2>10. conf'.batched
    OBVIOUS
  <2> QED BY <2>7, <2>8, <2>9, <2>10, Zenon DEF WalLedger
<1>8. CASE Publish
  <2>1. /\ flusher.pc = "publish" /\ flusher'.pc = "idle"
        /\ seq' = seq /\ closed' = closed /\ epoch' = epoch /\ app' = app
        /\ file' = file /\ buf' = buf /\ sink' = sink /\ disk' = disk
    BY <1>8 DEF Publish, Resting, fileVars
  <2>2. \/ durableSeq' = durableSeq
        \/ flusher.epoch = epoch /\ durableSeq' = flusher.pending
    BY <1>8 DEF Publish, Published
  <2>3. \A w \in Writer : /\ Queued(w)' <=> Queued(w)
                          /\ Buffered(w)' <=> Buffered(w)
                          /\ Stored(w, disk)' <=> Stored(w, disk)
                          /\ Stored(w, Len(file))' <=> Stored(w, Len(file))
    BY <2>1 DEF Queued, Buffered, Stored
  <2>4. flusher.epoch = epoch => \A w \in Writer : Queued(w) /\ app[w].seq <= flusher.pending => Stored(w, disk)
    <3>1. SUFFICES ASSUME flusher.epoch = epoch, NEW w \in Writer, Queued(w), app[w].seq <= flusher.pending
                   PROVE  Stored(w, disk)
      OBVIOUS
    <3>2. Stored(w, flusher.upto) /\ flusher.upto <= disk
      BY <2>1, <3>1 DEF WalLedger
    <3> QED BY <1>b, <3>2 DEF Stored
  <2>5. flusher.epoch = epoch => flusher.pending <= seq
    BY <2>1 DEF WalLedger
  <2>6. durableSeq <= seq /\ \A w \in Writer : app[w].pc = "wait" => app[w].epoch <= epoch
    BY DEF WalLedger
  <2>7. (durableSeq <= seq)'
    BY <2>1, <2>2, <2>5, <2>6
  <2>8. (\A w \in Writer : app[w].pc = "wait" => app[w].epoch <= epoch)'
    BY <2>1, <2>6
  <2>9. ASSUME NEW w \in Writer, Queued(w)'
        PROVE  /\ app'[w].seq <= seq'
               /\ Stored(w, Len(file))' \/ Buffered(w)' \/ sink' = "failed"
               /\ app'[w].seq <= durableSeq' => Stored(w, disk)'
    <3>1. Queued(w)
      BY <2>3, <2>9
    <3>2. /\ app[w].seq <= seq
          /\ Stored(w, Len(file)) \/ Buffered(w) \/ sink = "failed"
          /\ app[w].seq <= durableSeq => Stored(w, disk)
      BY <3>1 DEF WalLedger
    <3>3. app[w].seq <= durableSeq' => Stored(w, disk)
      BY <2>2, <2>4, <3>1, <3>2
    <3> QED BY <2>1, <2>3, <3>2, <3>3
  <2>10. (conf.faultKinds = {} /\ sink # "ok" => closed)'
    BY <2>1 DEF WalLedger
  <2>11. conf'.batched
    OBVIOUS
  <2> QED BY <2>1, <2>7, <2>8, <2>9, <2>10, <2>11, Zenon DEF WalLedger
<1>9. CASE Truncate
  <2>0. flusher' = flusher /\ app' = app
    BY <1>9 DEF Truncate
  <2>1. CASE TruncateOk
    <3>1. seq' = 0 /\ durableSeq' = 0 /\ epoch' = epoch + 1 /\ sink' = "ok"
      BY <2>1 DEF TruncateOk
    <3>2. \A w \in Writer : app'[w].pc = "wait" => app'[w].epoch < epoch'
      <4>1. ASSUME NEW w \in Writer, app[w].pc = "wait" PROVE app[w].epoch < epoch'
        <5>1. app[w].epoch \in Nat /\ app[w].epoch <= epoch
          BY <1>b, <1>l, <4>1, Zenon
        <5> QED BY <1>n, <3>1, <5>1
      <4> QED BY <2>0, <4>1, Zenon
    <3>3. flusher'.pc # "idle" => flusher'.epoch < epoch'
      <4>1. ASSUME flusher.pc # "idle" PROVE flusher.epoch < epoch'
        <5>1. flusher.epoch \in Nat /\ flusher.epoch <= epoch
          BY <1>b, <1>l, <4>1, Zenon
        <5> QED BY <1>n, <3>1, <5>1
      <4> QED BY <2>0, <4>1, Zenon
    <3>4. epoch' \in Nat
      BY <1>b, <3>1
    <3>5. \A w \in Writer : ~Queued(w)'
      BY <1>b, <2>0, <3>1, <3>2 DEF Queued
    <3>6. ~(flusher'.pc # "idle" /\ flusher'.epoch = epoch')
      BY <1>b, <2>0, <3>3, <3>4
    <3>7. /\ (\A w \in Writer : app[w].pc = "wait" => app[w].epoch <= epoch)'
          /\ (flusher.pc # "idle" => flusher.epoch <= epoch)'
      BY <1>b, <2>0, <3>1, <3>2, <3>3
    <3>8. (durableSeq <= seq)' /\ conf'.batched
      BY <3>1
    <3> QED BY <3>1, <3>5, <3>6, <3>7, <3>8, Zenon DEF WalLedger
  <2>2. CASE WriteFails(buf) /\ UNCHANGED fieldVars
    BY <1>c, <2>0, <2>2
  <2>3. ~Fault("rotate")
    BY DEF Sound, Fault
  <2> QED BY <1>9, <2>1, <2>2, <2>3 DEF Truncate, TruncateError
<1>10. CASE Close
  <2>1. conf.faultKinds = {} /\ sink = "ok"
    BY <1>10 DEF Close, Sound, WalLedger
  <2>2. ~WriteFails(buf) /\ ~Fault("sync")
    BY <1>b, <2>1, WriteFailsEffect DEF Fault
  <2>3. file' = file \o buf /\ disk' = Len(file') /\ sink' = "ok"
    BY <1>10, <2>1, <2>2 DEF Close, FinalSync
  <2>4. /\ seq' = seq /\ epoch' = epoch /\ flusher' = flusher /\ app' = app
        /\ durableSeq' = IF seq > durableSeq THEN seq ELSE durableSeq
    BY <1>10 DEF Close
  <2>5. durableSeq' = seq
    BY <1>n, <1>l, <2>4
  <2>6. Continues(file, file')
    BY <1>b, <2>3, JoinContinues
  <2>7. Len(file') \in Nat /\ Len(file) <= Len(file')
    BY <2>6 DEF Continues
  <2>8. ASSUME NEW w \in Writer, Queued(w) PROVE Stored(w, Len(file))'
    <3>1. Stored(w, Len(file)) \/ Buffered(w)
      BY <2>1, <2>8 DEF WalLedger
    <3>2. CASE Buffered(w)
      <4>1. PICK i \in 1 .. Len(buf) : buf[i].by = w
        BY <3>2 DEF Buffered
      <4>2. file'[Len(file) + i] = buf[i] /\ Len(file) + i \in 1 .. Len(file')
        BY <1>b, <2>3, <4>1
      <4> QED BY <4>1, <4>2 DEF Stored
    <3>3. CASE Stored(w, Len(file))
      <4>1. PICK k, m \in Nat : k = Len(file) /\ m = Len(file')
        BY <1>b, <2>7
      <4>2. k <= Len(file) /\ k <= m /\ Stored(w, k)
        BY <1>b, <2>7, <3>3, <4>1
      <4>3. \E i \in 1 .. m : file'[i].by = w
        BY <2>6, <4>2, StoredKept
      <4> QED BY <4>1, <4>3 DEF Stored
    <3> QED BY <3>1, <3>2, <3>3
  <2>9. \A w \in Writer : /\ Queued(w)' <=> Queued(w)
                          /\ Stored(w, disk)' <=> Stored(w, Len(file))'
    BY <2>3, <2>4 DEF Queued, Stored
  <2>10. ASSUME flusher'.pc # "idle", flusher'.epoch = epoch'
         PROVE  /\ flusher'.pending <= seq'
                /\ flusher'.upto <= Len(file')
                /\ flusher'.pc = "publish" => flusher'.upto <= disk'
                /\ \A v \in Writer : Queued(v)' /\ app'[v].seq <= flusher'.pending => Stored(v, flusher.upto)'
    <3>1. /\ flusher.pending <= seq
          /\ flusher.upto <= Len(file)
          /\ \A v \in Writer : Queued(v) /\ app[v].seq <= flusher.pending => Stored(v, flusher.upto)
      BY <2>4, <2>10 DEF WalLedger
    <3>2. ASSUME NEW v \in Writer, Queued(v)', app'[v].seq <= flusher'.pending
          PROVE  Stored(v, flusher.upto)'
      <4>1. Stored(v, flusher.upto)
        BY <2>4, <2>9, <3>1, <3>2
      <4>2. PICK u \in Nat : u = flusher.upto
        BY <1>b
      <4>3. u <= Len(file) /\ u <= u /\ Stored(v, u)
        BY <3>1, <4>1, <4>2
      <4>4. \E i \in 1 .. u : file'[i].by = v
        BY <2>6, <4>3, StoredKept
      <4> QED BY <2>4, <4>2, <4>4 DEF Stored
    <3>3. flusher'.pending = flusher.pending /\ flusher'.upto = flusher.upto /\ seq' = seq
      BY <2>4
    <3>4. flusher.upto \in Nat /\ Len(file) \in Nat
      BY <1>b
    <3>5. flusher.upto <= Len(file')
      BY <2>7, <3>1, <3>4
    <3> QED BY <2>3, <3>1, <3>2, <3>3, <3>5, Zenon
  <2>11. (durableSeq <= seq)' /\ (conf.faultKinds = {} /\ sink # "ok" => closed)'
    <3>1. sink' = "ok" /\ durableSeq' = seq /\ seq' = seq
      BY <2>3, <2>4, <2>5, Zenon
    <3> QED BY <1>n, <3>1
  <2>12. /\ (\A w \in Writer : app[w].pc = "wait" => app[w].epoch <= epoch)'
         /\ (flusher.pc # "idle" => flusher.epoch <= epoch)'
    BY <2>4 DEF WalLedger
  <2>13. ASSUME NEW w \in Writer, Queued(w)'
         PROVE  /\ app'[w].seq <= seq'
                /\ Stored(w, Len(file))' \/ Buffered(w)' \/ sink' = "failed"
                /\ app'[w].seq <= durableSeq' => Stored(w, disk)'
    <3>1. Queued(w) /\ Stored(w, Len(file))' /\ Stored(w, disk)'
      BY <2>8, <2>9, <2>13
    <3>2. app[w].seq <= seq
      BY <3>1 DEF WalLedger
    <3> QED BY <2>4, <3>1, <3>2
  <2>14. conf'.batched
    OBVIOUS
  <2> QED BY <2>10, <2>11, <2>12, <2>13, <2>14, Zenon DEF WalLedger
<1>12. CASE SinceFlush
  BY <1>12, <1>c, <1>d DEF SinceFlush
<1>13. CASE Crash
  <2>1. /\ seq' \in Nat /\ durableSeq' = seq'
    BY <1>13, CrashEffect
  <2>2. flusher'.pc = "idle" /\ sink' = "ok"
    BY <1>13 DEF Crash, Resting
  <2>3. \A w \in Writer : app'[w].pc # "wait"
    BY <1>13 DEF Crash, NoCall
  <2>4. \A w \in Writer : ~Queued(w)'
    BY <2>3 DEF Queued
  <2>5. (durableSeq <= seq)'
    BY <2>1
  <2> QED BY <2>2, <2>3, <2>4, <2>5, Zenon DEF WalLedger
<1>14. CASE UNCHANGED vars
  <2>1. /\ seq' = seq /\ durableSeq' = durableSeq /\ epoch' = epoch /\ closed' = closed
        /\ file' = file /\ buf' = buf /\ disk' = disk /\ sink' = sink
        /\ flusher' = flusher /\ app' = app
    BY <1>14 DEF vars, fieldVars, fileVars
  <2>2. disk <= disk' /\ seq <= seq'
    <3>1. disk' = disk /\ seq' = seq
      BY <2>1, Zenon
    <3> QED BY <1>n, <3>1
  <2>3. \A w \in Writer : Buffered(w) => Buffered(w)'
    BY <2>1 DEF Buffered
  <2>4. conf.faultKinds = {} /\ sink' # "ok" => closed'
    BY <2>1 DEF WalLedger
  <2> QED BY <1>a, <2>1, <2>2, <2>3, <2>4, LedgerKept
<1> QED BY <1>1, <1>2, <1>3, <1>4, <1>5, <1>6, <1>7, <1>8, <1>9, <1>10, <1>11, <1>12, <1>13, <1>14 DEF Next

LEMMA LedgerStep ==
  ASSUME Safe, WalTypeOK, WalTypeOK', WalLedger, [Next]_vars
  PROVE  WalLedger'
  BY BatchedLedgerStep, InlineLedgerStep

\* Steps after which the lines on disk are still there.
LEMMA AckedKept ==
  ASSUME WalTypeOK, AckedDurable, disk <= disk', disk' \in Nat, acked' = acked,
         \A i \in 1 .. disk : file'[i] = file[i]
  PROVE  AckedDurable'
<1>1. disk \in Nat
  BY TypeFacts
<1>2. SUFFICES ASSUME NEW w \in acked PROVE Stored(w, disk)'
  BY DEF AckedDurable
<1>3. PICK i \in 1 .. disk : file[i].by = w
  BY <1>2 DEF AckedDurable, Stored
<1> QED BY <1>1, <1>3 DEF Stored

\* The lines on disk stay, and only a truncation takes them away.
LEMMA DiskKept ==
  ASSUME WalTypeOK, WalTypeOK', [Next]_vars, ~Truncate
  PROVE  disk <= disk' /\ \A i \in 1 .. disk : file'[i] = file[i]
<1>a. file \in Seq(LineType) /\ buf \in Seq(LineType) /\ Len(file) \in Nat /\ disk \in Nat /\ disk <= Len(file) /\ seq \in Nat
  BY TypeFacts
<1>b. ASSUME Continues(file, file'), disk' = disk \/ disk' = Len(file')
      PROVE  disk <= disk' /\ \A i \in 1 .. disk : file'[i] = file[i]
  BY <1>a, <1>b DEF Continues
<1>c. ASSUME file' = file, disk <= disk'
      PROVE  disk <= disk' /\ \A i \in 1 .. disk : file'[i] = file[i]
  BY <1>c
<1>d. WriteFails(buf) \/ FlushOk => Continues(file, file') /\ disk' = disk
  BY <1>a, WriteFailsEffect, FlushOkEffect
<1>1. ASSUME NEW w \in Writer, AppendError(w) PROVE Continues(file, file') /\ disk' = disk
  <2>1. Line(w, seq + 1) \in LineType
    BY <1>a, LineTypes
  <2>2. Append(buf, Line(w, seq + 1)) \in Seq(LineType)
    BY <1>a, <2>1
  <2> QED BY <1>1, <2>2, WriteFailsEffect, Zenon DEF AppendError
<1>2. ASSUME NEW w \in Writer, AppendInline(w) PROVE Continues(file, file') /\ (disk' = disk \/ disk' = Len(file'))
  <2>1. Line(w, seq + 1) \in LineType
    BY <1>a, LineTypes
  <2>2. file' = Append(file \o buf, Line(w, seq + 1)) /\ (disk' = disk \/ disk' = Len(file'))
    BY <1>2 DEF AppendInline, InlineSyncError
  <2> QED BY <1>a, <2>1, <2>2, AppendContinues
<1>3. ASSUME NEW w \in Writer, AppendPark(w) \/ AppendReturn(w) PROVE file' = file /\ disk' = disk
  BY <1>3 DEF AppendPark, AppendReturn, fileVars
<1>4. CASE FlushOnce
  BY <1>4, <1>b, <1>d DEF FlushOnce
<1>5. CASE SyncOk
  <2>1. file' = file /\ disk <= disk'
    BY <1>5, <1>a DEF SyncOk, Synced
  <2> QED BY <2>1, <1>c
<1>6. CASE SyncError \/ Publish \/ CloseFile
  <2>1. file' = file /\ disk <= disk'
    BY <1>6, <1>a DEF SyncError, Publish, CloseFile, fileVars
  <2> QED BY <2>1, <1>c
<1>7. CASE Close
  <2>1. Continues(file, file \o buf)
    BY <1>a, JoinContinues
  <2> QED BY <1>7, <1>b, <1>d, <2>1, Zenon DEF Close, FinalSync
<1>8. CASE SinceFlush
  BY <1>8, <1>b, <1>d DEF SinceFlush
<1>9. CASE Crash
  BY <1>9, CrashEffect
<1>10. CASE UNCHANGED vars
  BY <1>10, <1>a, <1>c DEF vars, fileVars
<1> QED BY <1>a, <1>b, <1>c, <1>1, <1>2, <1>3, <1>4, <1>5, <1>6, <1>7, <1>8, <1>9, <1>10 DEF Next

LEMMA AckedStep ==
  ASSUME WalTypeOK, WalTypeOK', WalLedger, AckedDurable, [Next]_vars
  PROVE  AckedDurable'
<1>a. disk \in Nat /\ disk' \in Nat
  BY DEF WalTypeOK
<1>1. CASE Truncate
  <2>1. CASE TruncateOk
    BY <2>1 DEF TruncateOk, AckedDurable
  <2>2. CASE WriteFails(buf) /\ UNCHANGED acked
    <3>1. Continues(file, file') /\ disk' = disk
      BY <2>2, TypeFacts, WriteFailsEffect, Zenon
    <3>2. \A i \in 1 .. disk : file'[i] = file[i]
      BY <3>1, TypeFacts DEF Continues
    <3> QED BY <1>a, <2>2, <3>1, <3>2, AckedKept
  <2>3. CASE file' = file \o buf /\ UNCHANGED <<disk, acked>>
    <3>1. file \in Seq(LineType) /\ buf \in Seq(LineType) /\ Len(file) \in Nat /\ disk <= Len(file)
      BY TypeFacts
    <3>2. Continues(file, file')
      BY <2>3, <3>1, JoinContinues
    <3>3. \A i \in 1 .. disk : file'[i] = file[i]
      BY <1>a, <3>1, <3>2 DEF Continues
    <3>4. disk <= disk' /\ acked' = acked
      BY <1>a, <2>3
    <3> QED BY <1>a, <3>3, <3>4, AckedKept
  <2>4. CASE acked' = {}
    BY <2>4 DEF AckedDurable
  <2> QED BY <1>1, <2>1, <2>2, <2>3, <2>4 DEF Truncate, TruncateError
<1>2. CASE ~Truncate
  <2>1. disk <= disk' /\ \A i \in 1 .. disk : file'[i] = file[i]
    BY <1>2, DiskKept
  <2>2. CASE acked' = acked
    BY <1>a, <2>1, <2>2, AckedKept
  <2>3. ASSUME NEW w \in Writer, acked' = acked \cup {w}, Stored(w, disk)' PROVE AckedDurable'
    <3>1. ASSUME NEW v \in acked PROVE Stored(v, disk)'
      <4>1. PICK i \in 1 .. disk : file[i].by = v
        BY <3>1 DEF AckedDurable, Stored
      <4> QED BY <1>a, <2>1, <4>1 DEF Stored
    <3> QED BY <2>3, <3>1 DEF AckedDurable
  <2>4. ASSUME NEW w \in Writer, AppendInline(w) PROVE AckedDurable'
    <3>1. CASE disk' = Len(file') /\ acked' = acked \cup {w}
      <4>1. file' = Append(file \o buf, Line(w, seq + 1)) /\ Line(w, seq + 1) \in LineType
        BY <2>4, LineTypes DEF AppendInline, WalTypeOK
      <4>0. file \in Seq(LineType) /\ buf \in Seq(LineType) /\ Len(file) \in Nat /\ Len(buf) \in Nat
        BY TypeFacts
      <4>2. file'[Len(file')] = Line(w, seq + 1) /\ Len(file') \in 1 .. Len(file')
        <5>1. Len(file') = Len(file) + Len(buf) + 1 /\ file'[Len(file) + Len(buf) + 1] = Line(w, seq + 1)
          BY <4>0, <4>1, AppendContinues
        <5> QED BY <4>0, <5>1
      <4>3. Stored(w, disk)'
        BY <3>1, <4>2 DEF Stored, Line
      <4> QED BY <2>3, <3>1, <4>3
    <3>2. CASE acked' = acked
      BY <2>2, <3>2
    <3> QED BY <2>4, <3>1, <3>2 DEF AppendInline, InlineSyncError
  <2>5. ASSUME NEW w \in Writer, AppendReturn(w) PROVE AckedDurable'
    <3>1. CASE Verdict(w) = "ok"
      <4>1. Queued(w) /\ app[w].seq <= durableSeq
        <5>1. epoch = app[w].epoch /\ ~(closed /\ durableSeq < app[w].seq)
          BY <3>1 DEF Verdict
        <5>2. app[w].pc = "wait" /\ Woken(w)
          BY <2>5 DEF AppendReturn
        <5>3. ~(durableSeq < app[w].seq)
          BY <5>1, <5>2 DEF Woken
        <5>4. app[w].seq \in Nat /\ durableSeq \in Nat
          BY TypeFacts
        <5> QED BY <5>1, <5>2, <5>3, <5>4 DEF Queued
      <4>2. Stored(w, disk)
        BY <4>1 DEF WalLedger
      <4>3. Stored(w, disk)' /\ acked' = acked \cup {w}
        BY <2>5, <3>1, <4>2 DEF AppendReturn, fileVars, Stored
      <4> QED BY <2>3, <4>3
    <3>2. CASE Verdict(w) # "ok"
      BY <2>2, <2>5, <3>2 DEF AppendReturn
    <3> QED BY <3>1, <3>2
  <2>6. CASE \E w \in Writer : AppendError(w) \/ AppendPark(w)
    BY <2>2, <2>6 DEF AppendError, AppendPark
  <2>7. CASE FlushOnce \/ SyncOk \/ SyncError \/ Publish \/ Close \/ CloseFile \/ SinceFlush \/ Crash
    BY <2>2, <2>7 DEF FlushOnce, SyncOk, SyncError, Publish, Close, CloseFile, SinceFlush, Crash
  <2>8. CASE UNCHANGED vars
    BY <2>2, <2>8 DEF vars
  <2> QED BY <1>2, <2>4, <2>5, <2>6, <2>7, <2>8 DEF Next
<1> QED BY <1>1, <1>2

\* An Append that returned success is on stable storage until the log is
\* truncated, for any number of writers, crashes, failed writes and fsyncs.
THEOREM AckedDurableHolds == Safe => (Spec => [](WalLedger /\ AckedDurable))
<1> SUFFICES ASSUME Safe PROVE Spec => [](WalLedger /\ AckedDurable)
  OBVIOUS
<1>1. Init => WalTypeOK /\ WalLedger /\ AckedDurable
  BY InitType, LedgerInit
<1>2. /\ WalTypeOK /\ WalLedger /\ AckedDurable
      /\ [Next]_vars
      => (WalTypeOK /\ WalLedger /\ AckedDurable)'
  BY TypeStep, LedgerStep, AckedStep
<1> QED BY <1>1, <1>2, PTL DEF Spec

-----------------------------------------------------------------------------
(* The log implements Journal. *)

\* The refinement mapping, named as in Journal.
Stable == [i \in 1 .. disk |-> file[i].by]
Outcome == [w \in Writer |-> app[w].pc]

LEMMA StableUnchanged ==
  ASSUME WalTypeOK, disk' = disk, \A i \in 1 .. disk : file'[i] = file[i]
  PROVE  Stable' = Stable
  BY DEF Stable

LEMMA StableGrows ==
  ASSUME WalTypeOK, WalTypeOK', disk <= disk', \A i \in 1 .. disk : file'[i] = file[i]
  PROVE  Len(Stable) <= Len(Stable') /\ \A i \in 1 .. Len(Stable) : Stable'[i] = Stable[i]
<1>1. disk \in Nat /\ disk' \in Nat
  BY DEF WalTypeOK
<1>2. Len(Stable) = disk /\ Len(Stable') = disk'
  BY <1>1 DEF Stable
<1> QED BY <1>1, <1>2 DEF Stable

\* The call of w moves and the others do not.
LEMMA OutcomeMoves ==
  ASSUME WalTypeOK, NEW w \in Writer, NEW to, app' \in [Writer -> [pc : {"idle", "wait", "ok", "failed", "lost"}, seq : Nat, epoch : Nat]],
         app'[w].pc = to, \A v \in Writer \ {w} : app'[v] = app[v]
  PROVE  Outcome' = [Outcome EXCEPT ![w] = to] /\ Outcome[w] = app[w].pc
  BY Zenon DEF Outcome, WalTypeOK

LEMMA JournalStep ==
  ASSUME WalTypeOK, WalTypeOK', WalLedger, AckedDurable', [Next]_vars
  PROVE  [J!JournalNext]_(J!jvars)
<1> DEFINE Grow == Len(Stable) <= Len(Stable') /\ \A i \in 1 .. Len(Stable) : Stable'[i] = Stable[i]
           Move(w, from, to) == Outcome[w] \in from /\ Outcome' = [Outcome EXCEPT ![w] = to]
           Kept == disk <= disk' /\ \A i \in 1 .. disk : file'[i] = file[i]
<1>a. /\ \A w \in Writer : Move(w, {"idle"}, "wait") /\ Stable' = Stable => J!Call(w)
      /\ \A w \in Writer : Move(w, {"idle", "wait"}, "failed") /\ Stable' = Stable => J!Fail(w)
      /\ \A w \in Writer : Move(w, {"idle", "wait"}, "ok") /\ Grow /\ (\E i \in 1 .. Len(Stable') : Stable'[i] = w)
                           => J!Succeed(w)
  BY Zenon DEF Stable, Outcome, J!Call, J!Fail, J!Succeed, J!Moves, J!Grows
<1>b. /\ Grow /\ Outcome' = Outcome => J!Persist
      /\ Stable' = <<>> /\ Outcome' = Outcome => J!Truncated
      /\ Stable' = Stable /\ Outcome' = Outcome => UNCHANGED J!jvars
  BY Zenon DEF Stable, Outcome, J!Persist, J!Truncated, J!Grows, J!jvars
<1>c. Kept => Grow
  BY StableGrows
<1>d. Kept /\ disk' = disk => Stable' = Stable
  BY StableUnchanged
<1>e. app' = app => Outcome' = Outcome
  BY DEF Outcome
<1>f. /\ app \in [Writer -> [pc : {"idle", "wait", "ok", "failed", "lost"}, seq : Nat, epoch : Nat]]
      /\ app' \in [Writer -> [pc : {"idle", "wait", "ok", "failed", "lost"}, seq : Nat, epoch : Nat]]
      /\ disk \in Nat /\ disk' \in Nat
  <2>1. /\ app \in [Writer -> [pc : {"idle", "wait", "ok", "failed", "lost"}, seq : Nat, epoch : Nat]]
        /\ app' \in [Writer -> [pc : {"idle", "wait", "ok", "failed", "lost"}, seq : Nat, epoch : Nat]]
        /\ disk' \in 0 .. Len(file') /\ file' \in Seq(LineType)
    BY Zenon DEF WalTypeOK
  <2> QED BY <2>1, TypeFacts
<1>g. ~Truncate => Kept
  BY DiskKept
<1>h. ASSUME NEW w \in acked', NEW v \in Writer, v = w
      PROVE  \E i \in 1 .. Len(Stable') : Stable'[i] = v
  <2>1. PICK i \in 1 .. disk' : file'[i].by = v
    BY <1>h DEF AckedDurable, Stored
  <2>2. Len(Stable') = disk' /\ Stable'[i] = v
    BY <1>f, <2>1 DEF Stable
  <2> QED BY <2>2
<1>1. ASSUME NEW w \in Writer, AppendError(w), ~Truncate PROVE J!Fail(w)
  <2>1. app[w].pc = "idle" /\ app' = [app EXCEPT ![w].pc = "failed"] /\ WriteFails(Append(buf, Line(w, seq + 1)))
    BY <1>1 DEF AppendError
  <2>2. Move(w, {"idle", "wait"}, "failed")
    <3>1. app'[w].pc = "failed" /\ \A v \in Writer \ {w} : app'[v] = app[v]
      BY <1>f, <2>1
    <3> QED BY <1>f, <2>1, <3>1, OutcomeMoves
  <2>3. disk' = disk
    <3>1. Line(w, seq + 1) \in LineType /\ buf \in Seq(LineType)
      BY TypeFacts, LineTypes
    <3>2. Append(buf, Line(w, seq + 1)) \in Seq(LineType)
      BY <3>1
    <3> QED BY <2>1, <3>2, WriteFailsEffect, Zenon
  <2> QED BY <1>1, <1>a, <1>d, <1>g, <2>2, <2>3, Zenon
<1>2. ASSUME NEW w \in Writer, AppendInline(w), ~Truncate PROVE J!Fail(w) \/ J!Succeed(w)
  <2>1. app[w].pc = "idle"
    BY <1>2 DEF AppendInline
  <2>2. CASE app' = [app EXCEPT ![w].pc = "ok"] /\ acked' = acked \cup {w}
    <3>1. app'[w].pc = "ok" /\ \A v \in Writer \ {w} : app'[v] = app[v]
      BY <1>f, <2>2
    <3>2. Move(w, {"idle", "wait"}, "ok")
      BY <1>f, <2>1, <3>1, OutcomeMoves
    <3>3. \E i \in 1 .. Len(Stable') : Stable'[i] = w
      BY <1>h, <2>2
    <3> QED BY <1>2, <1>a, <1>c, <1>g, <3>2, <3>3, Zenon
  <2>3. CASE app' = [app EXCEPT ![w].pc = "failed"] /\ disk' = disk
    <3>1. app'[w].pc = "failed" /\ \A v \in Writer \ {w} : app'[v] = app[v]
      BY <1>f, <2>3
    <3>2. Move(w, {"idle", "wait"}, "failed")
      BY <1>f, <2>1, <3>1, OutcomeMoves
    <3> QED BY <1>2, <1>a, <1>d, <1>g, <2>3, <3>2, Zenon
  <2> QED BY <1>2, <2>2, <2>3 DEF AppendInline, InlineSyncError
<1>3. ASSUME NEW w \in Writer, AppendPark(w), ~Truncate PROVE J!Call(w)
  <2>1. /\ app[w].pc = "idle" /\ disk' = disk
        /\ app' = [app EXCEPT ![w] = [pc |-> "wait", seq |-> seq + 1, epoch |-> epoch]]
    BY <1>3 DEF AppendPark
  <2>2. app'[w].pc = "wait" /\ \A v \in Writer \ {w} : app'[v] = app[v]
    BY <1>f, <2>1
  <2>3. Move(w, {"idle"}, "wait")
    BY <1>f, <2>1, <2>2, OutcomeMoves
  <2> QED BY <1>3, <1>a, <1>d, <1>g, <2>1, <2>3, Zenon
<1>4. ASSUME NEW w \in Writer, AppendReturn(w), ~Truncate PROVE J!Fail(w) \/ J!Succeed(w)
  <2>1. /\ app[w].pc = "wait" /\ app' = [app EXCEPT ![w].pc = Verdict(w)] /\ disk' = disk
        /\ acked' = IF Verdict(w) = "ok" THEN acked \cup {w} ELSE acked
    BY <1>4 DEF AppendReturn, fileVars
  <2>2. app'[w].pc = Verdict(w) /\ \A v \in Writer \ {w} : app'[v] = app[v]
    BY <1>f, <2>1
  <2>3. Outcome[w] = "wait" /\ Outcome' = [Outcome EXCEPT ![w] = Verdict(w)]
    BY <1>f, <2>1, <2>2, OutcomeMoves
  <2>4. CASE Verdict(w) = "ok"
    <3>1. \E i \in 1 .. Len(Stable') : Stable'[i] = w
      BY <1>h, <2>1, <2>4
    <3> QED BY <1>4, <1>a, <1>c, <1>g, <2>3, <2>4, <3>1, Zenon
  <2>5. CASE Verdict(w) = "failed"
    BY <1>4, <1>a, <1>d, <1>g, <2>1, <2>3, <2>5, Zenon
  <2> QED BY <2>4, <2>5 DEF Verdict
<1>5. CASE Truncate
  <2>0. Outcome' = Outcome
    BY <1>5, <1>e DEF Truncate
  <2>1. CASE TruncateOk
    <3>1. disk' = 0
      BY <2>1 DEF TruncateOk
    <3>2. Stable' = <<>>
      BY <3>1 DEF Stable
    <3> QED BY <1>b, <2>0, <3>2 DEF J!JournalNext
  <2>2. CASE WriteFails(buf)
    <3>1. Continues(file, file') /\ disk' = disk /\ disk <= Len(file)
      BY <2>2, WriteFailsEffect, TypeFacts
    <3>2. Kept
      BY <1>f, <3>1, TypeFacts DEF Continues
    <3> QED BY <1>b, <1>d, <2>0, <3>1, <3>2
  <2>3. CASE file' = file \o buf /\ UNCHANGED disk
    <3>1. file \in Seq(LineType) /\ buf \in Seq(LineType) /\ Len(file) \in Nat /\ disk <= Len(file)
      BY TypeFacts
    <3>2. Continues(file, file')
      BY <2>3, <3>1, JoinContinues
    <3>3. Kept
      BY <1>f, <2>3, <3>1, <3>2 DEF Continues
    <3> QED BY <1>b, <1>d, <2>0, <2>3, <3>3, Zenon
  <2>4. CASE disk' = 0
    <3>1. Stable' = <<>>
      BY <2>4 DEF Stable
    <3> QED BY <1>b, <2>0, <3>1 DEF J!JournalNext
  <2> QED BY <1>5, <2>1, <2>2, <2>3, <2>4 DEF Truncate, TruncateError
<1>6. ASSUME FlushOnce \/ SyncOk \/ SyncError \/ Publish \/ Close \/ CloseFile \/ SinceFlush, ~Truncate PROVE J!Persist
  <2>1. app' = app
    BY <1>6 DEF FlushOnce, SyncOk, SyncError, Publish, Close, CloseFile, SinceFlush
  <2> QED BY <1>6, <1>b, <1>c, <1>e, <1>g, <2>1
<1>7. ASSUME Crash, ~Truncate PROVE J!Interrupted
  <2>1. Outcome' = [w \in Writer |-> IF Outcome[w] = "wait" THEN "lost" ELSE Outcome[w]]
    BY <1>7 DEF Crash, Outcome, NoCall
  <2> QED BY <1>7, <1>c, <1>g, <2>1, Zenon DEF Stable, Outcome, J!Interrupted, J!Grows
<1>8. CASE UNCHANGED vars
  <2>1. Stable' = Stable /\ Outcome' = Outcome
    BY <1>8 DEF vars, fileVars, Stable, Outcome
  <2> QED BY <1>b, <2>1
<1> QED BY <1>1, <1>2, <1>3, <1>4, <1>5, <1>6, <1>7, <1>8 DEF Next, J!JournalNext

\* The log implements Journal: what is on stable storage stays until the log is
\* truncated, and success is reported only for what is there.
THEOREM WalRefinesJournal == Safe => (Spec => JournalRefined)
<1> SUFFICES ASSUME Safe PROVE Spec => JournalRefined
  OBVIOUS
<1>1. Init => J!JournalInit
  BY DEF Init, J!JournalInit, NoCall
<1>2. WalTypeOK /\ WalTypeOK' /\ WalLedger /\ AckedDurable' /\ [Next]_vars => [J!JournalNext]_(J!jvars)
  BY JournalStep
<1> QED BY <1>1, <1>2, WalTypeInvariant, AckedDurableHolds, PTL DEF Spec, JournalRefined, J!JournalSpec

-----------------------------------------------------------------------------
(* The order in which readers are served.                                  *)

Lines == file \o buf

\* The scanned lines of ls are in order, and none is above s.
InOrder(ls) == \A i, j \in Scanned(ls) : i < j => ls[i].seq < ls[j].seq
AtMost(ls, s) == \A j \in Scanned(ls) : ls[j].seq <= s

\* The lines t are lines of s in their old places, or torn.
Cut(t, s) == \A i \in 1 .. Len(t) : t[i].by = "torn" \/ (i \in 1 .. Len(s) /\ t[i] = s[i])

LEMMA ScanFacts ==
  ASSUME NEW s \in Seq(LineType)
  PROVE  \A j \in Scanned(s) : j \in 1 .. Len(s) /\ s[j].seq \in Nat
<1> SUFFICES ASSUME NEW j \in Scanned(s) PROVE j \in 1 .. Len(s) /\ s[j].seq \in Nat
  OBVIOUS
<1>1. j \in 1 .. Len(s)
  BY DEF Scanned
<1>2. s[j] \in LineType
  BY <1>1
<1> QED
  BY <1>1, <1>2 DEF LineType

\* A scan does not get past a torn line, so it delivers no more of t than of s.
LEMMA CutScan ==
  ASSUME NEW s \in Seq(LineType), NEW t \in Seq(LineType), Cut(t, s)
  PROVE  \A j \in Scanned(t) : j \in Scanned(s) /\ t[j] = s[j]
<1> SUFFICES ASSUME NEW j \in Scanned(t) PROVE j \in Scanned(s) /\ t[j] = s[j]
  OBVIOUS
<1>1. j \in 1 .. Len(t) /\ Len(t) \in Nat /\ Len(s) \in Nat
  BY DEF Scanned
<1>2. \A k \in 1 .. j : k \in 1 .. Len(t) /\ t[k].by \notin Oversized \cup {"torn"}
  BY <1>1 DEF Scanned
<1>3. \A k \in 1 .. j : k \in 1 .. Len(s) /\ t[k] = s[k]
  BY <1>2 DEF Cut
<1> QED
  BY <1>1, <1>2, <1>3 DEF Scanned

LEMMA CutOrder ==
  ASSUME NEW s \in Seq(LineType), NEW t \in Seq(LineType), Cut(t, s), InOrder(s)
  PROVE  /\ InOrder(t)
         /\ \A n \in Nat, m \in Nat : AtMost(s, n) /\ n <= m => AtMost(t, m)
<1>1. InOrder(t)
  BY CutScan DEF InOrder
<1>2. ASSUME NEW n \in Nat, NEW m \in Nat, AtMost(s, n), n <= m, NEW j \in Scanned(t)
      PROVE  t[j].seq <= m
  <2>1. j \in Scanned(s) /\ t[j] = s[j]
    BY CutScan
  <2>2. s[j].seq \in Nat /\ s[j].seq <= n
    BY <1>2, <2>1, ScanFacts DEF AtMost
  <2> QED
    BY <1>2, <2>1, <2>2
<1> QED
  BY <1>1, <1>2 DEF AtMost

\* A line with the next sequence number keeps the order.
LEMMA AppendOrder ==
  ASSUME NEW s \in Seq(LineType), NEW n \in Nat, NEW w \in Writer, InOrder(s), AtMost(s, n)
  PROVE  LET t == Append(s, Line(w, n + 1)) IN InOrder(t) /\ AtMost(t, n + 1)
<1> DEFINE t == Append(s, Line(w, n + 1))
<1>1. /\ t \in Seq(LineType) /\ Len(t) = Len(s) + 1 /\ Len(s) \in Nat
      /\ \A i \in 1 .. Len(s) : t[i] = s[i]
      /\ t[Len(s) + 1].seq = n + 1
  BY LineTypes, LinesCompose DEF Line
<1> HIDE DEF t
<1>2. \A j \in Scanned(t) : \/ j = Len(s) + 1
                            \/ j \in 1 .. Len(s) /\ j \in Scanned(s) /\ t[j] = s[j]
  BY <1>1 DEF Scanned
<1>3. \A j \in Scanned(s) : s[j].seq \in Nat /\ s[j].seq <= n /\ j \in 1 .. Len(s)
  BY ScanFacts DEF AtMost
<1>4. \A j \in Scanned(t) : t[j].seq <= n + 1
  BY <1>1, <1>2, <1>3
<1>5. \A i, j \in Scanned(t) : i < j => t[i].seq < t[j].seq
  <2> SUFFICES ASSUME NEW i \in Scanned(t), NEW j \in Scanned(t), i < j PROVE t[i].seq < t[j].seq
    OBVIOUS
  <2>1. i \in 1 .. Len(s) + 1 /\ j \in 1 .. Len(s) + 1 /\ i < j
    BY <1>1 DEF Scanned
  <2>2. i # Len(s) + 1
    BY <1>1, <2>1
  <2>2a. i \in Scanned(s) /\ t[i] = s[i]
    BY <1>2, <2>2, Zenon
  <2>3. CASE j = Len(s) + 1
    <3>1. s[i].seq \in Nat /\ s[i].seq <= n
      BY <1>3, <2>2a, Zenon
    <3>2. t[j].seq = n + 1 /\ t[i].seq = s[i].seq
      BY <1>1, <2>2a, <2>3, Zenon
    <3> QED
      BY <3>1, <3>2
  <2>4. CASE j \in Scanned(s) /\ t[j] = s[j]
    BY <2>1, <2>2a, <2>4, Zenon DEF InOrder
  <2> QED
    BY <1>2, <2>3, <2>4
<1> QED
  BY <1>4, <1>5, Zenon DEF InOrder, AtMost, t

LEMMA TornShape ==
  ASSUME NEW torn \in {<<>>, <<Torn>>}
  PROVE  torn \in Seq(LineType) /\ \A i \in 1 .. Len(torn) : torn[i].by = "torn"
<1>1. torn \in Seq(LineType)
  BY LineTypes, Zenon
<1>2. CASE torn = <<>>
  BY <1>1, <1>2
<1>3. CASE torn = <<Torn>>
  BY <1>1, <1>3 DEF Torn
<1> QED
  BY <1>1, <1>2, <1>3

\* What a failed write, or a crash, leaves of the lines: the first ones, and perhaps a
\* torn one.
LEMMA TornCut ==
  ASSUME NEW s \in Seq(LineType), NEW c \in Seq(LineType), Continues(c, s), NEW torn \in {<<>>, <<Torn>>}
  PROVE  c \o torn \in Seq(LineType) /\ Cut(c \o torn, s)
<1> DEFINE k == Len(c)
<1>1. k \in Nat /\ k <= Len(s) /\ \A i \in 1 .. k : s[i] = c[i]
  BY DEF Continues
<1>2. torn \in Seq(LineType) /\ \A i \in 1 .. Len(torn) : torn[i].by = "torn"
  BY TornShape, Zenon
<1>3. /\ c \o torn \in Seq(LineType) /\ Len(c \o torn) = k + Len(torn) /\ Len(torn) \in Nat /\ Len(s) \in Nat
      /\ \A i \in 1 .. k : (c \o torn)[i] = c[i]
      /\ \A i \in 1 .. Len(torn) : (c \o torn)[k + i] = torn[i]
  BY <1>1, <1>2, LinesCompose, LineTypes
<1> HIDE DEF k
<1>4. ASSUME NEW i \in 1 .. k + Len(torn)
      PROVE  (c \o torn)[i].by = "torn" \/ (i \in 1 .. Len(s) /\ (c \o torn)[i] = s[i])
  <2>1. CASE i \in 1 .. k
    <3>1. (c \o torn)[i] = c[i] /\ s[i] = c[i]
      BY <1>1, <1>3, <2>1, Zenon
    <3>2. i \in 1 .. Len(s)
      <4>1. k \in Nat /\ k <= Len(s) /\ Len(s) \in Nat
        BY <1>1, <1>3, Zenon
      <4> QED
        BY <2>1, <4>1
    <3> QED
      BY <3>1, <3>2, Zenon
  <2>2. CASE i \notin 1 .. k
    <3>1. i - k \in 1 .. Len(torn) /\ k + (i - k) = i
      BY <1>1, <1>3, <2>2
    <3>2. (c \o torn)[k + (i - k)] = torn[i - k]
      BY <1>3, <3>1
    <3> QED
      BY <1>2, <3>1, <3>2, Zenon
  <2> QED
    BY <2>1, <2>2, Zenon
<1> QED
  BY <1>3, <1>4 DEF Cut

LEMMA ContinuesCut ==
  ASSUME NEW s \in Seq(LineType), NEW c \in Seq(LineType), Continues(c, s)
  PROVE  Cut(c, s)
BY DEF Continues, Cut

\* The same lines behind both.
LEMMA BehindContinues ==
  ASSUME NEW a \in Seq(LineType), NEW s \in Seq(LineType), NEW c \in Seq(LineType), Continues(c, s)
  PROVE  a \o c \in Seq(LineType) /\ Continues(a \o c, a \o s)
<1>1. /\ a \o c \in Seq(LineType) /\ a \o s \in Seq(LineType)
      /\ Len(a \o c) = Len(a) + Len(c) /\ Len(a \o s) = Len(a) + Len(s)
      /\ Len(a) \in Nat /\ Len(c) \in Nat /\ Len(s) \in Nat /\ Len(c) <= Len(s)
      /\ \A i \in 1 .. Len(a) : (a \o c)[i] = a[i] /\ (a \o s)[i] = a[i]
  BY LinesCompose, LineTypes DEF Continues
<1>2. \A i \in 1 .. Len(c) : (a \o c)[Len(a) + i] = (a \o s)[Len(a) + i]
  BY DEF Continues
<1>3. ASSUME NEW i \in 1 .. Len(a \o c) PROVE (a \o s)[i] = (a \o c)[i]
  <2>1. CASE i \in 1 .. Len(a)
    BY <1>1, <2>1, Zenon
  <2>2. CASE i \notin 1 .. Len(a)
    <3>1. i - Len(a) \in 1 .. Len(c) /\ Len(a) + (i - Len(a)) = i
      BY <1>1, <2>2
    <3> QED
      BY <1>2, <3>1, Zenon
  <2> QED
    BY <2>1, <2>2, Zenon
<1>4. Len(a \o c) <= Len(a \o s)
  BY <1>1
<1> QED
  BY <1>1, <1>3, <1>4, Zenon DEF Continues

LEMMA EmptyTail ==
  ASSUME NEW s \in Seq(LineType)
  PROVE  s \o <<>> = s /\ Continues(s, s) /\ Continues(<<>>, s)
BY DEF Continues

LEMMA LinesType == WalTypeOK => Lines \in Seq(LineType) /\ Continues(file, Lines)
BY JoinContinues, LinesCompose, LineTypes DEF WalTypeOK, Lines

LEMMA FlushOkLines == WalTypeOK /\ FlushOk => Lines' = Lines
<1> SUFFICES ASSUME WalTypeOK, FlushOk PROVE Lines' = Lines
  OBVIOUS
<1>1. file' = Lines /\ buf' = <<>>
  BY DEF FlushOk, Lines
<1> QED
  BY <1>1, EmptyTail, LinesType DEF Lines

LEMMA WriteFailsLines ==
  ASSUME WalTypeOK, NEW l \in LineType, NEW lines, lines = buf \/ lines = Append(buf, l), WriteFails(lines)
  PROVE  Lines' \in Seq(LineType) /\ Cut(Lines', Lines)
<1>t. /\ file \in Seq(LineType) /\ buf \in Seq(LineType) /\ Lines \in Seq(LineType) /\ Continues(file, Lines)
  BY LinesType DEF WalTypeOK
<1>1. CASE UNCHANGED fileVars
  <2>1. Lines' = Lines
    BY <1>1 DEF fileVars, Lines
  <2> QED
    BY <1>t, <2>1, EmptyTail, ContinuesCut
<1>2. CASE buf' = <<>> /\ file' = file
  <2>1. Lines' = file
    BY <1>t, <1>2, EmptyTail DEF Lines
  <2> QED
    BY <1>t, <2>1, ContinuesCut
<1>3. CASE WriteError(lines)
  <2>1. PICK k \in 0 .. Len(lines) - 1, torn \in {<<>>, <<Torn>>} :
          file' = file \o SubSeq(lines, 1, k) \o torn
    BY <1>3, Zenon DEF WriteError
  <2> DEFINE c == SubSeq(lines, 1, k)
  <2>2. /\ lines \in Seq(LineType) /\ k \in 0 .. Len(lines) /\ k <= Len(buf)
        /\ \A i \in 1 .. k : lines[i] = buf[i]
    <3>1. CASE lines = buf
      BY <1>t, <3>1
    <3>2. CASE lines = Append(buf, l)
      BY <1>t, <3>2, LinesCompose
    <3> QED
      BY <3>1, <3>2
  <2>3. c \in Seq(LineType) /\ Len(c) = k /\ \A i \in 1 .. k : c[i] = lines[i]
    BY <2>2, LinesCut
  <2> HIDE DEF c
  <2>4. Continues(c, buf)
    BY <1>t, <2>2, <2>3 DEF Continues
  <2>5. file \o c \in Seq(LineType) /\ Continues(file \o c, Lines)
    BY <1>t, <2>3, <2>4, BehindContinues DEF Lines
  <2>6. file \o c \o torn \in Seq(LineType) /\ Cut(file \o c \o torn, Lines)
    BY <1>t, <2>5, TornCut, Zenon
  <2>7. file' = file \o c \o torn /\ buf' = <<>>
    BY <1>3, <2>1, Zenon DEF WriteError, c
  <2>8. Lines' = file \o c \o torn
    BY <2>6, <2>7, EmptyTail DEF Lines
  <2> QED
    BY <2>6, <2>8
<1> QED
  BY <1>1, <1>2, <1>3 DEF WriteFails

LEMMA AppendBehind ==
  ASSUME NEW s \in Seq(LineType), NEW t \in Seq(LineType), NEW l \in LineType
  PROVE  s \o Append(t, l) = Append(s \o t, l)
  OBVIOUS

\* What a step does to the lines: it keeps or loses some of the last ones, or adds one.
LinesStep ==
  \/ Cut(Lines', Lines) /\ (seq' = seq \/ seq' = seq + 1 \/ AtMost(Lines', seq'))
  \/ \E w \in Writer : Lines' = Append(Lines, Line(w, seq + 1)) /\ seq' = seq + 1

LEMMA CrashLines == WalTypeOK /\ Crash => Cut(Lines', Lines) /\ AtMost(Lines', seq')
<1> SUFFICES ASSUME WalTypeOK, Crash PROVE Cut(Lines', Lines) /\ AtMost(Lines', seq')
  OBVIOUS
<1>1. PICK k \in disk .. Len(Lines), torn \in {<<>>, <<Torn>>} : file' = SubSeq(Lines, 1, k) \o torn
  BY Zenon DEF Crash, Lines
<1>2. Lines \in Seq(LineType) /\ k \in 0 .. Len(Lines)
  BY LinesType DEF WalTypeOK
<1>3. SubSeq(Lines, 1, k) \in Seq(LineType) /\ Continues(SubSeq(Lines, 1, k), Lines)
  BY <1>2, LinesCut DEF Continues
<1>4. file' \in Seq(LineType) /\ Cut(file', Lines)
  BY <1>1, <1>2, <1>3, TornCut, Zenon
<1>5. Lines' = file'
  BY <1>4, EmptyTail DEF Crash, Lines
<1>6. seq' \in RecoverLastSeq(file')
  BY DEF Crash
<1>7. ASSUME NEW j \in Scanned(file') PROVE file'[j].seq <= seq'
  BY <1>6 DEF RecoverLastSeq, Readable
<1> QED
  BY <1>4, <1>5, <1>7, Zenon DEF AtMost

LEMMA LinesStepLemma == WalTypeOK /\ [Next]_vars => LinesStep
<1> SUFFICES ASSUME WalTypeOK, [Next]_vars PROVE LinesStep
  OBVIOUS
<1>t. /\ file \in Seq(LineType) /\ buf \in Seq(LineType) /\ Lines \in Seq(LineType) /\ Continues(file, Lines)
      /\ seq \in Nat
  BY LinesType DEF WalTypeOK
<1>l. \A w \in Writer : Line(w, seq + 1) \in LineType
  BY <1>t, LineTypes
<1>0. ASSUME Lines' = Lines, seq' = seq PROVE LinesStep
  BY <1>0, <1>t, EmptyTail, ContinuesCut DEF LinesStep
<1>f. ASSUME NEW w \in Writer, WriteFails(buf) \/ WriteFails(Append(buf, Line(w, seq + 1)))
      PROVE  Cut(Lines', Lines)
  BY <1>f, <1>l, WriteFailsLines, Zenon
<1>b. ASSUME WriteFails(buf) PROVE Cut(Lines', Lines)
  BY <1>b, LineTypes, WriteFailsLines, Zenon
<1>e. ASSUME file' = <<>>, buf' = <<>> PROVE Cut(Lines', Lines) /\ AtMost(Lines', seq')
  <2>1. Lines' = <<>>
    BY <1>e, EmptyLines, EmptyTail DEF Lines
  <2> QED
    BY <2>1 DEF Cut, AtMost, Scanned
<1>j. ASSUME file' = file \o buf, buf' = <<>> PROVE Lines' = Lines
  BY <1>j, <1>t, EmptyTail DEF Lines
<1>1. ASSUME NEW w \in Writer, AppendError(w) PROVE LinesStep
  BY <1>1, <1>f DEF AppendError, LinesStep
<1>2. ASSUME NEW w \in Writer, AppendInline(w) PROVE LinesStep
  <2>1. file' = Append(Lines, Line(w, seq + 1)) /\ buf' = <<>> /\ seq' = seq + 1
    BY <1>2 DEF AppendInline, Lines
  <2>2. file' \in Seq(LineType)
    BY <1>t, <1>l, <2>1, LinesCompose
  <2>3. Lines' = Append(Lines, Line(w, seq + 1))
    BY <2>1, <2>2, EmptyTail DEF Lines
  <2> QED
    BY <2>1, <2>3, Zenon DEF LinesStep
<1>3. ASSUME NEW w \in Writer, AppendPark(w) PROVE LinesStep
  <2>1. file' = file /\ buf' = Append(buf, Line(w, seq + 1)) /\ seq' = seq + 1
    BY <1>3 DEF AppendPark
  <2>2. Lines' = Append(Lines, Line(w, seq + 1))
    BY <1>t, <1>l, <2>1, AppendBehind DEF Lines
  <2> QED
    BY <2>1, <2>2, Zenon DEF LinesStep
<1>4. ASSUME UNCHANGED <<file, buf, seq>> PROVE LinesStep
  BY <1>0, <1>4 DEF Lines
<1>5. CASE FlushOnce \/ SinceFlush
  <2>1. seq' = seq /\ (FlushOk \/ WriteFails(buf))
    BY <1>5 DEF FlushOnce, SinceFlush, fieldVars
  <2> QED
    BY <1>0, <1>b, <2>1, FlushOkLines DEF LinesStep
<1>6. CASE Truncate
  <2>1. CASE TruncateOk
    BY <1>e, <2>1 DEF TruncateOk, LinesStep
  <2>2. CASE TruncateError
    <3>1. seq' = seq
      BY <2>2 DEF TruncateError, fieldVars
    <3>2. \/ WriteFails(buf)
          \/ buf' = <<>> /\ (file' = file \o buf \/ file' = <<>>)
      BY <2>2 DEF TruncateError
    <3> QED
      BY <1>0, <1>b, <1>e, <1>j, <3>1, <3>2 DEF LinesStep
  <2> QED
    BY <1>6, <2>1, <2>2 DEF Truncate
<1>7. CASE Close
  <2>1. seq' = seq
    BY <1>7 DEF Close
  <2>2. FlushOk \/ WriteFails(buf) \/ (file' = file \o buf /\ buf' = <<>>)
    BY <1>7 DEF Close, FinalSync
  <2> QED
    BY <1>0, <1>b, <1>j, <2>1, <2>2, FlushOkLines DEF LinesStep
<1>8. CASE Crash
  BY <1>8, CrashLines DEF LinesStep
<1> QED
  BY <1>1, <1>2, <1>3, <1>4, <1>5, <1>6, <1>7, <1>8, Zenon
  DEF Next, AppendReturn, SyncOk, SyncError, Publish, CloseFile, fieldVars, fileVars, vars

LEMMA SinceOrderedStep == WalTypeOK /\ SinceOrdered /\ [Next]_vars => SinceOrdered'
<1> SUFFICES ASSUME WalTypeOK, SinceOrdered, [Next]_vars PROVE SinceOrdered'
  OBVIOUS
<1>1. InOrder(Lines) /\ AtMost(Lines, seq)
  BY Zenon DEF SinceOrdered, InOrder, AtMost, Lines
<1>2. WalTypeOK' /\ LinesStep
  BY TypeStep, LinesStepLemma
<1>3. seq \in Nat /\ seq' \in Nat /\ Lines \in Seq(LineType)
  BY <1>2, LinesType DEF WalTypeOK
<1>4. Lines' \in Seq(LineType)
  BY <1>2 DEF WalTypeOK, Lines
<1>5. InOrder(Lines') /\ AtMost(Lines', seq')
  <2>1. CASE Cut(Lines', Lines) /\ (seq' = seq \/ seq' = seq + 1)
    BY <1>1, <1>3, <1>4, <2>1, CutOrder
  <2>2. CASE Cut(Lines', Lines) /\ AtMost(Lines', seq')
    BY <1>1, <1>3, <1>4, <2>2, CutOrder
  <2>3. ASSUME NEW w \in Writer, Lines' = Append(Lines, Line(w, seq + 1)), seq' = seq + 1
        PROVE  InOrder(Lines') /\ AtMost(Lines', seq')
    BY <1>1, <1>3, <2>3, AppendOrder
  <2> QED
    BY <1>2, <2>1, <2>2, <2>3 DEF LinesStep
<1> QED
  BY <1>5, Zenon DEF SinceOrdered, InOrder, AtMost, Lines

\* What Since and WriteSinceTo deliver is strictly in the order of the sequence numbers
\* and at most the last one handed out, whatever failed, was truncated or crashed before.
THEOREM SinceOrderedHolds == Spec => []SinceOrdered
<1>1. Init => SinceOrdered
  <2> SUFFICES ASSUME Init PROVE SinceOrdered
    OBVIOUS
  <2>1. file \o buf = <<>>
    BY EmptyLines, EmptyTail DEF Init
  <2> QED
    BY <2>1 DEF SinceOrdered, Scanned
<1> QED
  BY <1>1, SinceOrderedStep, WalTypeInvariant, PTL DEF Spec

=============================================================================
