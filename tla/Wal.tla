-------------------------------- MODULE Wal --------------------------------
(***************************************************************************)
(* The write-ahead log of internal/store/wal.go: Append in inline and in   *)
(* group-commit mode, the flusher, Truncate, Close, readers, and a crash   *)
(* followed by OpenWALWithBatch.                                           *)
(*                                                                         *)
(* The file is a sequence of lines; the first `disk` of them are on stable *)
(* storage.  Appended lines sit in the bufio.Writer (buf) until a flush.   *)
(* bufio writes through on its own when it is full, so after a crash any   *)
(* prefix of file and buf that covers `disk` may be found, and the next    *)
(* line may be torn.  A write error sticks to the bufio.Writer.            *)
(*                                                                         *)
(* Assumed of the operating system: an fsync that succeeds after one that  *)
(* failed covers all lines, and a truncated file stays truncated.          *)
(***************************************************************************)
EXTENDS Integers, Sequences

CONSTANTS
  Writer,       \* the calls of Append, one entry each
  Oversized,    \* the entries whose line exceeds the scanner's 1 MiB buffer
  Confs,        \* the ways the log is used: is batchInterval > 0, may Close be
                \* called, which disk operations may fail
  MaxFaults,    \* bound on the failures
  MaxEpoch,     \* bound on truncations
  MaxCrashes    \* bound on crashes

ASSUME WalAssumption ==
  /\ Oversized \subseteq Writer
  /\ Confs \subseteq [batched : BOOLEAN, canClose : BOOLEAN,
                      faultKinds : SUBSET {"write", "sync", "rotate"}]
  /\ MaxFaults \in Nat /\ MaxEpoch \in Nat /\ MaxCrashes \in Nat
  /\ "torn" \notin Writer

VARIABLES
  conf,        \* the way this log is used, fixed when it is opened
  seq,         \* last sequence number handed out
  durableSeq,  \* highest sequence number published as fsynced
  closed,      \* Close was called
  epoch,       \* bumped by Truncate
  unsynced,    \* oldestUnsyncedNs # 0
  buf,         \* lines in the bufio.Writer
  file,        \* lines in the file
  disk,        \* number of leading lines of file that are on stable storage
  sink,        \* "ok", "closed" (file handle closed) or "failed" (sticky error)
  flusher,     \* the goroutine in flushOnce: locals and place
  app,         \* per writer: the place of its Append call
  acked,       \* history: writers acknowledged since the last truncation
  faults, crashes  \* counters for the bounds

fieldVars == <<seq, durableSeq, closed, epoch, unsynced>>
fileVars == <<buf, file, disk, sink>>
boundVars == <<conf, faults, crashes>>
vars == <<fieldVars, fileVars, flusher, app, acked, boundVars>>

Line(w, s) == [seq |-> s, by |-> w]
Torn == [seq |-> 0, by |-> "torn"]
NoCall == [pc |-> "idle", seq |-> 0, epoch |-> 0]
Resting == [pc |-> "idle", pending |-> 0, epoch |-> 0, upto |-> 0]

Init ==
  /\ conf \in Confs
  /\ seq = 0 /\ durableSeq = 0 /\ closed = FALSE /\ epoch = 0 /\ unsynced = FALSE
  /\ buf = <<>> /\ file = <<>> /\ disk = 0 /\ sink = "ok"
  /\ flusher = Resting
  /\ app = [w \in Writer |-> NoCall]
  /\ acked = {}
  /\ faults = 0 /\ crashes = 0

\* A disk operation of kind k fails.
Fault(k) ==
  /\ k \in conf.faultKinds
  /\ faults < MaxFaults
  /\ faults' = faults + 1
  /\ UNCHANGED <<conf, crashes>>

-----------------------------------------------------------------------------
(* bufio.Writer.Flush. *)

FlushOk ==
  /\ sink = "ok" \/ (sink = "closed" /\ buf = <<>>)
  /\ file' = file \o buf
  /\ buf' = <<>>
  /\ UNCHANGED <<disk, sink>>

\* Writing lines fails after some of the bytes: a torn line may stay behind.
\* What was not written never leaves the buffer, since the error sticks.
WriteError(lines) ==
  /\ buf' = <<>>
  /\ sink' = "failed"
  /\ \E k \in 0 .. Len(lines) - 1, torn \in {<<>>, <<Torn>>} :
       file' = file \o SubSeq(lines, 1, k) \o torn
  /\ UNCHANGED disk

\* A write of lines returns an error: the sticky one, that of a closed file
\* handle, or a fresh one.
WriteFails(lines) ==
  \/ /\ sink = "failed"
     /\ UNCHANGED <<fileVars, boundVars>>
  \/ /\ sink = "closed" /\ lines # <<>>
     /\ sink' = "failed" /\ buf' = <<>>
     /\ UNCHANGED <<file, disk, boundVars>>
  \/ /\ sink = "ok" /\ lines # <<>>
     /\ WriteError(lines)
     /\ Fault("write")

-----------------------------------------------------------------------------
(* Append. *)

\* The line cannot be written or, in inline mode, flushed.  seq stays bumped.
AppendError(w) ==
  /\ app[w].pc = "idle"
  /\ seq' = seq + 1
  /\ WriteFails(Append(buf, Line(w, seq + 1)))
  /\ app' = [app EXCEPT ![w].pc = "failed"]
  /\ UNCHANGED <<durableSeq, closed, epoch, unsynced, flusher, acked>>

\* Mutant: the result of the inline fsync is ignored.
InlineUnsynced(w) ==
  /\ Fault("sync")
  /\ app' = [app EXCEPT ![w].pc = "ok"]
  /\ acked' = acked \cup {w}
  /\ UNCHANGED disk

\* The inline fsync fails: the line is in the file, the caller gets an error.
InlineSyncError(w) ==
  /\ Fault("sync")
  /\ app' = [app EXCEPT ![w].pc = "failed"]
  /\ UNCHANGED <<disk, acked>>

\* Inline mode: written, flushed and fsynced under the lock.
AppendInline(w) ==
  /\ ~conf.batched
  /\ app[w].pc = "idle"
  /\ sink = "ok"
  /\ seq' = seq + 1
  /\ file' = Append(file \o buf, Line(w, seq + 1))
  /\ buf' = <<>>
  /\ \/ /\ disk' = Len(file')
        /\ app' = [app EXCEPT ![w].pc = "ok"]
        /\ acked' = acked \cup {w}
        /\ UNCHANGED boundVars
     \/ InlineSyncError(w)
  /\ UNCHANGED <<durableSeq, closed, epoch, unsynced, sink, flusher>>

\* Group commit: the line is buffered and the caller parks on the condition.
AppendPark(w) ==
  /\ conf.batched
  /\ app[w].pc = "idle"
  /\ sink # "failed"
  /\ seq' = seq + 1
  /\ buf' = Append(buf, Line(w, seq + 1))
  /\ unsynced' = TRUE
  /\ app' = [app EXCEPT ![w] = [pc |-> "wait", seq |-> seq + 1, epoch |-> epoch]]
  /\ UNCHANGED <<durableSeq, closed, epoch, file, disk, sink, flusher, acked, boundVars>>

\* Mutant: the epoch is not looked at, as before it was introduced.
VerdictByDurable(w) == IF closed /\ durableSeq < app[w].seq THEN "failed" ELSE "ok"

\* What Append returns once it is woken.
Verdict(w) == IF epoch # app[w].epoch \/ (closed /\ durableSeq < app[w].seq)
              THEN "failed" ELSE "ok"

\* Mutant: a truncation is not a reason to stop waiting.
WokenDurable(w) == ~ (durableSeq < app[w].seq /\ ~closed)

\* The condition of the wait loop is false.
Woken(w) == ~ (durableSeq < app[w].seq /\ ~closed /\ epoch = app[w].epoch)

AppendReturn(w) ==
  /\ app[w].pc = "wait"
  /\ Woken(w)
  /\ app' = [app EXCEPT ![w].pc = Verdict(w)]
  /\ acked' = IF Verdict(w) = "ok" THEN acked \cup {w} ELSE acked
  /\ UNCHANGED <<fieldVars, fileVars, flusher, boundVars>>

-----------------------------------------------------------------------------
(* The flusher. *)

\* First critical section of flushOnce: flush, and remember what it covers.
FlushOnce ==
  /\ conf.batched
  /\ flusher.pc = "idle"
  /\ seq > durableSeq /\ ~closed
  /\ \/ /\ FlushOk
        /\ flusher' = [pc |-> "sync", pending |-> seq, epoch |-> epoch, upto |-> Len(file')]
        /\ UNCHANGED boundVars
     \/ /\ WriteFails(buf)
        /\ UNCHANGED flusher
  /\ UNCHANGED <<fieldVars, app, acked>>

\* How much of the file is on stable storage once f.Sync returns.
Synced == IF epoch = flusher.epoch /\ flusher.upto \in disk .. Len(file)
          THEN flusher.upto ELSE disk

\* f.Sync returns.  It may fail on a handle that Truncate has closed meanwhile.
SyncOk ==
  /\ flusher.pc = "sync"
  /\ disk' = Synced
  /\ flusher' = [flusher EXCEPT !.pc = "publish"]
  /\ UNCHANGED <<fieldVars, buf, file, sink, app, acked, boundVars>>

SyncError ==
  /\ flusher.pc = "sync"
  /\ \/ Fault("sync")
     \/ (epoch # flusher.epoch \/ sink = "closed") /\ UNCHANGED boundVars
  /\ flusher' = Resting
  /\ UNCHANGED <<fieldVars, fileVars, app, acked>>

\* The sequence number up to which the fsync counts.
Published == flusher.pending

\* Second critical section of flushOnce.
Publish ==
  /\ flusher.pc = "publish"
  /\ IF epoch # flusher.epoch \/ closed \/ Published <= durableSeq
     THEN UNCHANGED <<durableSeq, unsynced>>
     ELSE durableSeq' = Published /\ unsynced' = FALSE
  /\ flusher' = Resting
  /\ UNCHANGED <<seq, closed, epoch, fileVars, app, acked, boundVars>>

-----------------------------------------------------------------------------
(* Truncate, Close, readers, crash. *)

\* Truncate up to the point where a new, empty file is in place.
TruncateOk ==
  /\ sink = "ok"
  /\ file' = <<>> /\ buf' = <<>> /\ disk' = 0 /\ acked' = {}
  /\ seq' = 0 /\ durableSeq' = 0 /\ epoch' = epoch + 1 /\ unsynced' = FALSE
  /\ UNCHANGED <<closed, sink, boundVars>>

\* One of its operations fails: the flush, closing or truncating the file
\* (it keeps its lines), or opening it again (they are gone).
TruncateError ==
  /\ \/ WriteFails(buf) /\ UNCHANGED acked
     \/ /\ sink = "ok" /\ Fault("rotate")
        /\ sink' = "closed" /\ buf' = <<>>
        /\ \/ file' = file \o buf /\ UNCHANGED <<disk, acked>>
           \/ file' = <<>> /\ disk' = 0 /\ acked' = {}
  /\ UNCHANGED fieldVars

Truncate ==
  /\ epoch < MaxEpoch
  /\ TruncateOk \/ TruncateError
  /\ UNCHANGED <<flusher, app>>

\* The final flush and fsync of Close; their errors are ignored.
FinalSync ==
  \/ /\ FlushOk
     /\ Fault("sync") \/ (sink = "closed" /\ UNCHANGED boundVars)
  \/ WriteFails(buf)
  \/ /\ sink = "ok"
     /\ file' = file \o buf /\ buf' = <<>> /\ disk' = Len(file')
     /\ UNCHANGED <<sink, boundVars>>

\* First critical section of Close.
Close ==
  /\ conf.canClose /\ ~closed
  /\ closed' = TRUE
  /\ FinalSync
  /\ durableSeq' = IF seq > durableSeq THEN seq ELSE durableSeq
  /\ UNCHANGED <<seq, epoch, unsynced, flusher, app, acked>>

\* Close closes the file once the flusher has left flushOnce.
CloseFile ==
  /\ closed /\ flusher.pc = "idle"
  /\ sink = "ok" /\ sink' = "closed"
  /\ UNCHANGED <<fieldVars, buf, file, disk, flusher, app, acked, boundVars>>

\* Since and WriteSinceTo flush the buffer before they read the file.
SinceFlush ==
  /\ buf # <<>>
  /\ (FlushOk /\ UNCHANGED boundVars) \/ WriteFails(buf)
  /\ UNCHANGED <<fieldVars, flusher, app, acked>>

\* The places a scan of ls gets to: it stops at a line that does not parse or
\* does not fit the scanner's buffer.
Scanned(ls) == {j \in 1 .. Len(ls) : \A k \in 1 .. j : ls[k].by \notin Oversized \cup {"torn"}}

\* The lines it delivers.
Readable(ls) == {ls[i] : i \in Scanned(ls)}

\* Mutant: an opened log starts at zero.
RecoverZero(ls) == {0}

\* recoverLastSeq, as the one-element set of its result: the highest sequence
\* number among the lines that can be read.
RecoverLastSeq(ls) ==
  {s \in {0} \cup {l.seq : l \in Readable(ls)} : \A l \in Readable(ls) : l.seq <= s}

\* The process dies and the WAL is opened again.
Crash ==
  /\ crashes < MaxCrashes /\ crashes' = crashes + 1
  /\ \E k \in disk .. Len(file \o buf), torn \in {<<>>, <<Torn>>} :
       file' = SubSeq(file \o buf, 1, k) \o torn
  /\ disk' = Len(file')
  /\ buf' = <<>> /\ sink' = "ok"
  /\ seq' \in RecoverLastSeq(file') /\ durableSeq' = seq'
  /\ closed' = FALSE /\ epoch' = 0 /\ unsynced' = FALSE
  /\ flusher' = Resting
  /\ app' = [w \in Writer |-> IF app[w].pc = "wait" THEN [NoCall EXCEPT !.pc = "lost"] ELSE app[w]]
  /\ UNCHANGED <<acked, conf, faults>>

Next ==
  \/ \E w \in Writer : \/ AppendError(w) \/ AppendInline(w)
                       \/ AppendPark(w) \/ AppendReturn(w)
  \/ FlushOnce \/ SyncOk \/ SyncError \/ Publish
  \/ Truncate \/ Close \/ CloseFile \/ SinceFlush \/ Crash

Spec == Init /\ [][Next]_vars

\* The flusher's ticker keeps firing, an fsync returns, and a goroutine that
\* was woken gets the lock.
Fairness ==
  /\ WF_vars(FlushOnce)
  /\ WF_vars(SyncOk \/ SyncError)
  /\ WF_vars(Publish)
  /\ \A w \in Writer : WF_vars(AppendReturn(w))

FairSpec == Spec /\ Fairness

-----------------------------------------------------------------------------
LineType == [seq : Nat, by : Writer \cup {"torn"}]

\* Type invariant.
WalTypeOK ==
  /\ conf \in Confs
  /\ seq \in Nat /\ durableSeq \in Nat /\ epoch \in Nat
  /\ closed \in BOOLEAN /\ unsynced \in BOOLEAN
  /\ buf \in Seq(LineType) /\ file \in Seq(LineType)
  /\ disk \in 0 .. Len(file)
  /\ sink \in {"ok", "closed", "failed"}
  /\ flusher \in [pc : {"idle", "sync", "publish"}, pending : Nat, epoch : Nat, upto : Nat]
  /\ app \in [Writer -> [pc : {"idle", "wait", "ok", "failed", "lost"}, seq : Nat, epoch : Nat]]
  /\ acked \subseteq Writer
  /\ faults \in Nat /\ crashes \in Nat

\* Line i of the file, with i at most k, is the line of writer w.
Stored(w, k) == \E i \in 1 .. k : file[i].by = w

\* An Append that returned success has its line on stable storage, as long as
\* the log was not truncated since: group commit with its fsync outside the
\* lock, a truncation under the flusher and a crash change nothing about it.
AckedDurable == \A w \in acked : Stored(w, disk)

\* An Append that waits for an fsync of the present file.
Queued(w) == app[w].pc = "wait" /\ app[w].epoch = epoch

Buffered(w) == \E i \in 1 .. Len(buf) : buf[i].by = w

\* Why group commit is right: the line of a queued Append is in the file or the
\* buffer (unless the writer has failed), on disk once durableSeq covers it,
\* and under the mark of the flusher's fsync once its pending number covers it.
\* Inline mode has no flusher and parks nobody.
WalLedger ==
  /\ durableSeq <= seq
  /\ \A w \in Writer : app[w].pc = "wait" => app[w].epoch <= epoch
  /\ \A w \in Writer : Queued(w) =>
       /\ app[w].seq <= seq
       /\ Stored(w, Len(file)) \/ Buffered(w) \/ sink = "failed"
       /\ app[w].seq <= durableSeq => Stored(w, disk)
  /\ flusher.pc # "idle" => flusher.epoch <= epoch
  /\ flusher.pc # "idle" /\ flusher.epoch = epoch =>
       /\ flusher.pending <= seq
       /\ flusher.upto <= Len(file)
       /\ flusher.pc = "publish" => flusher.upto <= disk
       /\ \A w \in Writer : Queued(w) /\ app[w].seq <= flusher.pending => Stored(w, flusher.upto)
  /\ conf.faultKinds = {} /\ sink # "ok" => closed
  /\ ~conf.batched => flusher.pc = "idle" /\ \A w \in Writer : app[w].pc # "wait"

\* What a reader is served is in the order of the sequence numbers, which are
\* not above the last one handed out: a follower's cursor skips nothing.
SinceOrdered ==
  LET ls == file \o buf
  IN  \A i, j \in Scanned(ls) : /\ ls[j].seq <= seq
                                /\ i < j => ls[i].seq < ls[j].seq

\* The log keeps the promises of Journal: its stable lines grow until it is
\* truncated, and calls return success only for stable lines.
J == INSTANCE Journal WITH stable <- [i \in 1 .. disk |-> file[i].by],
                           outcome <- [w \in Writer |-> app[w].pc]
JournalRefined == J!JournalSpec

\* A parked Append returns: no waiter is left behind by the flusher, by a
\* failed fsync, a truncation or Close.  What leaves it parked is a failed write,
\* which the bufio.Writer never gets over, and a truncation that fails after it has
\* closed the file, where no later fsync succeeds (not in the log's deployments
\* with group commit, see Safe in WalProofs).
WaiterReleased == \A w \in Writer : app[w].pc = "wait" ~> app[w].pc # "wait" \/ sink = "failed"
=============================================================================
