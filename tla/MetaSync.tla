------------------------------ MODULE MetaSync ------------------------------
(* Edges that keep the metadata store in step: the primary commits to bbolt    *)
(* and journals afterwards, its snapshot scheduler truncates the journal, and  *)
(* the other edges pull the journal since their cursor, or a snapshot.         *)
(*                                                                             *)
(* Which edge is primary is decided elsewhere: by the election, or by an       *)
(* operator who restarts a follower as primary. A request handler checks the   *)
(* role once, when it accepts the request. An append to the journal is one     *)
(* step, entry i has sequence number i, and truncation starts again at 1. An   *)
(* append may fail, after which the bufio.Writer refuses every other until the *)
(* process restarts (inline sync; module Wal has the group-commit mode), and   *)
(* the line that a failure or a crash cut short hides those written after it.  *)
EXTENDS MetaOps, FiniteSets

CONSTANTS
    Edge,         \* edges; every one has a store, a journal and a pull loop
    Client,       \* request handlers that may run at the same time
    Setups,       \* the deployments, see conf
    MaxFails      \* failed pulls in all

VARIABLES
    conf,       \* the deployment, which never changes:
                \*   pulling, pushing, scheduling: whether the other edges run a pull
                \*     loop, the WAL hook pushes to them, and the scheduler is on
                \*   manual: failover is a restart as primary, not an election
                \*   reqs[c]: the requests handler c may serve
                \*   maxOps, maxSnaps, maxSwitches, maxRestarts, maxFaults: bounds on
                \*     the requests, on the scheduled snapshots, on changes of primary,
                \*     on restarts, and on failing file operations of a journal
    primary,    \* the edge whose effectiveRole is primary
    store,      \* store[e]: contents of the bbolt file edge e has open
    base,       \* base[e]: contents of edge.db, if e has another file open; else Nil
    wal,        \* wal[e]: the entries a reader of e's journal file finds
    last,       \* last[e]: LastSeq of e's journal, which failed appends advance too
    health,     \* health[e]: "good"; "broken" once a write has failed; "torn" while the
                \*   file has a line cut short, behind which readers find nothing
    call,       \* call[c]: the request handler c is serving
    issued,     \* upload ids handed out
    pushes,     \* append-wal pushes in flight
    snap,       \* snap[e]: latest snapshot file of e's scheduler, or Nil
    sched,      \* sched[e]: "idle", or "truncate" once the snapshot is written
    cursor,     \* cursor[e]: lastWALSeq of the follower state
    pull,       \* pull[e]: followerSyncOnce under way at e
    ops, snaps, switches, restarts, faults, fails,  \* what the bounds count
    due,        \* history: due[e]: the entries wal[e] would have if no append had failed
    gen,        \* history: gen[e] counts the events that cut e's journal off from its store
    seed        \* history: seed[e]: journal and generation e's copy descends from, or Nil

history == <<gen, seed>>

journal == <<wal, last, health, due>>

vars == <<conf, primary, store, base, journal, call, issued, pushes, snap, sched, cursor, pull,
          ops, snaps, switches, restarts, faults, fails, gen, seed>>

replicaVars == <<conf, base, snap, sched, cursor, pull, snaps, switches, restarts, fails, primary>>

Resting == [at |-> "idle", from |-> Nil, header |-> Nil, gen |-> Nil]

Init ==
    /\ conf \in Setups
    /\ primary \in Edge
    /\ store = [e \in Edge |-> EmptyStore]
    /\ base = [e \in Edge |-> Nil]
    /\ wal = [e \in Edge |-> <<>>] /\ due = [e \in Edge |-> <<>>]
    /\ last = [e \in Edge |-> 0] /\ health = [e \in Edge |-> "good"]
    /\ call = [c \in Client |-> Nil]
    /\ issued = {}
    /\ pushes = {}
    /\ snap = [e \in Edge |-> Nil]
    /\ sched = [e \in Edge |-> "idle"]
    /\ cursor = [e \in Edge |-> 0]
    /\ pull = [e \in Edge |-> Resting]
    /\ ops = 0 /\ snaps = 0 /\ switches = 0 /\ restarts = 0 /\ faults = 0 /\ fails = 0
    /\ gen = [e \in Edge |-> 0]
    /\ seed = [e \in Edge |-> Nil]

\* A change of e's store that e's journal does not carry: copies of e, and e as
\* a copy, are no longer accounted for.
Estranged(e) ==
    /\ gen' = [gen EXCEPT ![e] = @ + 1]
    /\ seed' = [seed EXCEPT ![e] = Nil]

-----------------------------------------------------------------------------
(* A request on the primary: role check, transaction, journal, answer.         *)

\* rejectIfFollowerWrite lets the request pass at the primary only.
Accept(c) ==
    /\ call[c] = Nil
    /\ ops < conf.maxOps
    /\ ops' = ops + 1
    /\ \E r \in conf.reqs[c] :
          /\ r.op = "create_upload" => r.id \notin issued
          /\ issued' = IF r.op = "create_upload" THEN issued \cup {r.id} ELSE issued
          /\ call' = [call EXCEPT ![c] = [edge |-> primary, req |-> r, at |-> "accepted", log |-> <<>>, gen |-> 0]]
    /\ UNCHANGED <<store, journal, faults, pushes, replicaVars, history>>

Transaction(s, r) ==
    CASE r.op = "put" -> putObjectInternal(s, r.key, NewObject(<<r.content>>))
      [] r.op = "delete" -> deleteObjectInternal(s, r.key)
      [] r.op = "create_bucket" -> createBucketInternal(s)
      [] r.op = "delete_bucket" -> deleteBucketInternal(s)
      [] r.op = "create_upload" -> CreateMultipartUpload(s, r.id, r.key)
      [] r.op = "put_part" -> putMultipartPartInternal(s, r.id, r.part, r.content)
      [] r.op = "complete" -> CompleteMultipartUpload(s, r.id, r.parts)
      [] r.op = "abort" -> abortMultipartUploadInternal(s, r.id)
      [] r.op = "expire" -> AbortExpiredMultipartUploads(s, r.ids)
      [] r.op = "add_dn" -> addRuntimeDNInternal(s, r.dn)
      [] r.op = "remove_dn" -> removeRuntimeDNInternal(s, r.dn)
      [] r.op = "label_dn" -> SetRuntimeDNClass(s, r.dn)
      [] r.op = "move" -> UpdateChunkReplicas(s, r.key)

\* The bbolt transaction. An error goes back to the client.
Commit(c) ==
    /\ call[c] # Nil
    /\ call[c].at = "accepted"
    /\ IF call[c].edge = primary THEN UNCHANGED history ELSE Estranged(call[c].edge)
    /\ LET t == Transaction(store[call[c].edge], call[c].req)
       IN  /\ store' = [store EXCEPT ![call[c].edge] = t.st]
           /\ call' = [call EXCEPT ![c] =
                  IF t.ok THEN [@ EXCEPT !.at = "journal", !.log = t.log, !.gen = gen'[call[c].edge]] ELSE Nil]
    /\ UNCHANGED <<journal, faults, issued, pushes, ops, replicaVars>>

\* Mutant: the hook pushes to the leader as well.
HookPushesAll(e, entry, i) ==
    IF conf.pushing /\ e = primary
    THEN {[to |-> f, from |-> e, pos |-> i, entry |-> entry] : f \in Edge}
    ELSE {}

\* What the hook sends: to every other edge, if this one still leads.
HookPushes(e, entry, i) ==
    IF conf.pushing /\ e = primary
    THEN {[to |-> f, from |-> e, pos |-> i, entry |-> entry] : f \in Edge \ {e}}
    ELSE {}

\* The entries a handler has committed and not yet appended.
Unwritten(c) == IF call[c] # Nil THEN call[c].log ELSE <<>>

\* One entry gets its sequence number and its line, which readers find unless the
\* file is torn before it.
Written(e, entry) ==
    /\ wal' = [wal EXCEPT ![e] = IF health[e] = "good" THEN Append(@, entry) ELSE @]
    /\ last' = [last EXCEPT ![e] = @ + 1]

\* appendWAL after the commit: the journal first, then the hook, which in its
\* default mode pushes from a goroutine of its own.
JournalEntry(c) ==
    /\ Unwritten(c) # <<>>
    /\ health[call[c].edge] # "broken"
    /\ LET e == call[c].edge
           entry == Head(call[c].log)
       IN  /\ Written(e, entry)
           /\ due' = [due EXCEPT ![e] = Append(@, entry)]
           /\ pushes' = pushes \cup HookPushes(e, entry, last[e] + 1)
           /\ IF call[c].gen = gen[e] /\ health[e] = "good" THEN UNCHANGED history ELSE Estranged(e)
    /\ call' = [call EXCEPT ![c].log = Tail(@)]
    /\ UNCHANGED <<store, health, faults, issued, ops, replicaVars>>

Fault == faults < conf.maxFaults /\ faults' = faults + 1

\* appendWAL returns an error, which ends the request; the transaction stays, and
\* neither the hook nor the entries that were to follow come. A write error sticks
\* to the journal; an fsync error, or one of the strict hook, leaves the line there.
AppendFails(c) ==
    /\ Unwritten(c) # <<>>
    /\ LET e == call[c].edge
       IN  /\ \/ /\ IF health[e] = "broken" THEN UNCHANGED faults ELSE Fault
                 /\ health' = [health EXCEPT ![e] = "broken"]
                 /\ last' = [last EXCEPT ![e] = @ + 1]
                 /\ UNCHANGED wal
              \/ /\ health[e] # "broken" /\ Fault
                 /\ Written(e, Head(call[c].log))
                 /\ UNCHANGED health
           /\ due' = [due EXCEPT ![e] = @ \o call[c].log]
           /\ IF call[c].gen = gen[e] /\ wal'[e] = wal[e] \o call[c].log THEN UNCHANGED history ELSE Estranged(e)
    /\ call' = [call EXCEPT ![c] = Nil]
    /\ UNCHANGED <<store, issued, pushes, ops, replicaVars>>

Answer(c) ==
    /\ call[c] # Nil
    /\ call[c].at = "journal"
    /\ call[c].log = <<>>
    /\ call' = [call EXCEPT ![c] = Nil]
    /\ UNCHANGED <<store, journal, faults, issued, pushes, ops, replicaVars, history>>

\* AppendEntryFn on the receiving edge: the entry is applied, not journalled.
ReceivePush(p) ==
    /\ p \in pushes
    /\ pushes' = pushes \ {p}
    /\ store' = [store EXCEPT ![p.to] = ApplyEntry(@, p.entry).st]
    /\ Estranged(p.to)
    /\ UNCHANGED <<journal, faults, call, issued, ops, replicaVars>>

-----------------------------------------------------------------------------
(* The snapshot scheduler: runOnce writes a snapshot, then truncates the WAL.   *)

TakeSnapshot(e) ==
    /\ conf.scheduling
    /\ sched[e] = "idle"
    /\ snaps < conf.maxSnaps
    /\ snaps' = snaps + 1
    /\ snap' = [snap EXCEPT ![e] = store[e]]
    /\ sched' = [sched EXCEPT ![e] = "truncate"]
    /\ UNCHANGED <<conf, primary, store, base, journal, call, issued, pushes, cursor, pull, ops, switches,
                   restarts, faults, fails, history>>

\* Truncate flushes first, which fails on a broken journal. Closing, truncating
\* and opening the file again may fail too, and leave a journal that is broken,
\* with its sequence number and with or without its lines. Only the status page
\* hears of it.
TruncateWal(e) ==
    /\ sched[e] = "truncate"
    /\ sched' = [sched EXCEPT ![e] = "idle"]
    /\ \/ /\ health[e] # "broken"
          /\ wal' = [wal EXCEPT ![e] = <<>>] /\ due' = [due EXCEPT ![e] = <<>>]
          /\ last' = [last EXCEPT ![e] = 0] /\ health' = [health EXCEPT ![e] = "good"]
          /\ gen' = [gen EXCEPT ![e] = @ + 1]
          /\ UNCHANGED faults
       \/ /\ health[e] = "broken"
          /\ UNCHANGED <<journal, gen, faults>>
       \/ /\ health[e] # "broken" /\ Fault
          /\ health' = [health EXCEPT ![e] = "broken"]
          /\ \E kept \in {wal[e], <<>>} : wal' = [wal EXCEPT ![e] = kept]
          /\ gen' = [gen EXCEPT ![e] = @ + 1]
          /\ UNCHANGED <<last, due>>
    /\ UNCHANGED <<conf, seed, primary, store, base, call, issued, pushes, snap, cursor, pull, ops, snaps,
                   switches, restarts, fails>>

-----------------------------------------------------------------------------
(* followerSyncOnce                                                            *)

pullUnchanged == <<conf, primary, journal, call, issued, pushes, snap, sched, ops, snaps, switches, restarts, faults>>

\* The pull loop's tick on an edge that is not primary: a cursor above 0 asks
\* for the journal, otherwise for a snapshot.
SyncStart(e) ==
    /\ conf.pulling
    /\ e # primary
    /\ pull[e].at = "idle"
    /\ pull' = [pull EXCEPT ![e] = [at |-> IF cursor[e] > 0 THEN "wal" ELSE "snapshot",
                                    from |-> primary, header |-> Nil, gen |-> Nil]]
    /\ UNCHANGED <<store, base, cursor, fails, history, pullUnchanged>>

\* Both handlers put LastSeq in a header before they read the body.
ServeHeader(e) ==
    /\ pull[e].at # "idle"
    /\ pull[e].header = Nil
    /\ pull' = [pull EXCEPT ![e] = [@ EXCEPT !.header = last[pull[e].from], !.gen = gen[pull[e].from]]]
    /\ UNCHANGED <<store, base, cursor, fails, history, pullUnchanged>>

\* Mutant: the entry after the cursor is taken for known.
SinceSkips(w, seq) == SubSeq(w, seq + 2, Len(w))

\* The entries a journal holds after a sequence number.
Since(w, seq) == SubSeq(w, seq + 1, Len(w))

\* The cursor after a journal pull: past the last entry, or past the header
\* when nothing came.
Advanced(seq, header, entries) ==
    IF entries # <<>> THEN seq + Len(entries) ELSE IF header > seq THEN header ELSE seq

\* handleWAL's body: nothing, under a 200, if the journal cannot be flushed.
Streamed(e, seq) == IF health[e] = "broken" THEN <<>> ELSE Since(wal[e], seq)

\* followerWALPull: what came is applied; an entry that cannot be applied
\* makes followerSyncOnce ask for a snapshot.
ReceiveWal(e) ==
    /\ pull[e].at = "wal"
    /\ pull[e].header # Nil
    /\ LET entries == Streamed(pull[e].from, cursor[e])
           t == ApplyAll(store[e], entries)
       IN  /\ store' = [store EXCEPT ![e] = t.st]
           /\ IF t.ok
              THEN /\ cursor' = [cursor EXCEPT ![e] = Advanced(@, pull[e].header, entries)]
                   /\ pull' = [pull EXCEPT ![e] = Resting]
              ELSE /\ pull' = [pull EXCEPT ![e].at = "snapshot", ![e].header = Nil]
                   /\ UNCHANGED cursor
    /\ IF e = primary THEN Estranged(e) ELSE UNCHANGED history
    /\ UNCHANGED <<base, fails, pullUnchanged>>

\* The snapshot is a file of its own next to edge.db; Reload opens it.
ReceiveSnapshot(e) ==
    /\ pull[e].at = "snapshot"
    /\ pull[e].header # Nil
    /\ store' = [store EXCEPT ![e] = store[pull[e].from]]
    /\ base' = [base EXCEPT ![e] = IF @ = Nil THEN store[e] ELSE @]
    /\ cursor' = [cursor EXCEPT ![e] = pull[e].header]
    /\ pull' = [pull EXCEPT ![e] = Resting]
    /\ IF e = primary
       THEN Estranged(e)
       ELSE /\ seed' = [seed EXCEPT ![e] = <<pull[e].from, pull[e].gen>>]
            /\ UNCHANGED gen
    /\ UNCHANGED <<fails, pullUnchanged>>

\* After a failed request a journal pull falls back to a snapshot, a snapshot pull
\* waits for the next tick.
CutOff(p) == IF p.at = "wal" THEN [p EXCEPT !.at = "snapshot", !.header = Nil] ELSE Resting

\* A request to the primary fails.
PullFails(e) ==
    /\ pull[e].at # "idle"
    /\ fails < MaxFails
    /\ fails' = fails + 1
    /\ pull' = [pull EXCEPT ![e] = CutOff(@)]
    /\ UNCHANGED <<store, base, cursor, history, pullUnchanged>>

-----------------------------------------------------------------------------
(* The primary changes                                                         *)

\* The election makes another edge leader; no process restarts.
Elect(e) ==
    /\ ~conf.manual
    /\ e # primary
    /\ switches < conf.maxSwitches
    /\ switches' = switches + 1
    /\ primary' = e
    /\ Estranged(e)
    /\ UNCHANGED <<conf, store, base, journal, call, issued, pushes, snap, sched, cursor, pull, ops, snaps, restarts, faults, fails>>

\* The journal file at the next start: it is torn if it was, or if a write was cut
\* short by an error or by the end of the process.
Reopened(e) ==
    IF health[e] = "torn" THEN {"torn"}
    ELSE IF health[e] = "broken" \/ \E c \in Client : Unwritten(c) # <<>> /\ call[c].edge = e
    THEN {"good", "torn"} ELSE {"good"}

\* A process stops, whatever its handlers are at, and starts again: it opens edge.db
\* and its journal, of which it recovers the last sequence number, and has no cursor.
Restarted(e) ==
    LET mine == {c \in Client : call[c] # Nil /\ call[c].edge = e}
        abandoned == FlattenSeq([i \in DOMAIN SetToSeq(mine) |-> call[SetToSeq(mine)[i]].log])
    IN  /\ store' = [store EXCEPT ![e] = IF base[e] = Nil THEN @ ELSE base[e]]
        /\ base' = [base EXCEPT ![e] = Nil]
        /\ call' = [c \in Client |-> IF c \in mine THEN Nil ELSE call[c]]
        /\ due' = [due EXCEPT ![e] = @ \o abandoned]
        /\ \E h \in Reopened(e) : health' = [health EXCEPT ![e] = h]
        /\ last' = [last EXCEPT ![e] = Len(wal[e])]
        /\ cursor' = [cursor EXCEPT ![e] = 0]
        /\ pull' = [f \in Edge |-> IF f = e THEN Resting
                                   ELSE IF pull[f].from = e /\ pull[f].header # Nil THEN CutOff(pull[f])
                                   ELSE pull[f]]
        /\ sched' = [sched EXCEPT ![e] = "idle"]
        /\ Estranged(e)
        /\ UNCHANGED <<conf, wal, issued, pushes, snap, ops, snaps, faults, fails>>

\* Manual failover: the primary is gone, and a follower is restarted as primary.
Promote(e) ==
    /\ conf.manual
    /\ e # primary
    /\ switches < conf.maxSwitches
    /\ switches' = switches + 1
    /\ primary' = e
    /\ Restarted(e)
    /\ UNCHANGED restarts

\* An edge restarts in the role it had.
Restart(e) ==
    /\ restarts < conf.maxRestarts
    /\ restarts' = restarts + 1
    /\ Restarted(e)
    /\ UNCHANGED <<primary, switches>>

Serve(c) == Commit(c) \/ JournalEntry(c) \/ AppendFails(c) \/ Answer(c)

Follow(e) == SyncStart(e) \/ ServeHeader(e) \/ ReceiveWal(e) \/ ReceiveSnapshot(e)

Next ==
    \/ \E c \in Client : Accept(c) \/ Serve(c)
    \/ \E p \in pushes : ReceivePush(p)
    \/ \E e \in Edge : TakeSnapshot(e) \/ TruncateWal(e) \/ Follow(e) \/ PullFails(e)
    \/ \E e \in Edge : Elect(e) \/ Promote(e) \/ Restart(e)

Spec == Init /\ [][Next]_vars

\* Handlers and the scheduler run on, a tick comes to every pull loop, and a pull
\* ends: its requests carry timeouts. That pulls do not fail for ever (MaxFails)
\* is an assumption on the network.
FairSpec ==
    /\ Spec
    /\ \A c \in Client : WF_vars(Serve(c))
    /\ \A e \in Edge : /\ WF_vars(TruncateWal(e))
                       /\ WF_vars(SyncStart(e))
                       /\ WF_vars(ServeHeader(e))
                       /\ WF_vars(ReceiveWal(e))
                       /\ WF_vars(ReceiveSnapshot(e))

-----------------------------------------------------------------------------
Quiet(e) == \A c \in Client : call[c] = Nil \/ call[c].edge # e \/ call[c].at = "accepted"

\* What the journal carries of a store: not the labels of DNs, nor the replica
\* lists that rebalance and repair move.
Journalled(s) ==
    [s EXCEPT !.obj = [k \in Key |-> IF @[k] = Nil THEN Nil ELSE [@[k] EXCEPT !.moved = 0]],
              !.dn = {d \in DN : @[d] # Nil}]

\* The same without the version numbers.
Contents(s) ==
    [Journalled(s) EXCEPT !.obj = [k \in Key |-> IF @[k] = Nil THEN Nil ELSE @[k].chunks]]

CaughtUp(e) ==
    /\ e # primary
    /\ pull[e].at = "idle"
    /\ cursor[e] > 0
    /\ cursor[e] = last[primary]
    /\ Quiet(primary)

MetaTypeOK ==
    /\ conf \in Setups
    /\ primary \in Edge
    /\ \A e \in Edge :
          /\ DOMAIN store[e].obj = Key /\ DOMAIN store[e].up = Upload
          /\ \A d \in DN : store[e].dn[d] \in {Nil, "plain", "labelled"}
          /\ cursor[e] \in Nat
          /\ health[e] \in {"good", "torn", "broken"}
          /\ last[e] >= Len(wal[e]) /\ (health[e] = "good" => last[e] = Len(wal[e]))
          /\ pull[e].at \in {"idle", "wal", "snapshot"}
          /\ sched[e] \in {"idle", "truncate"}
    /\ \A c \in Client : call[c] # Nil => call[c].at \in {"accepted", "journal"}
    /\ \A p \in pushes : p.to # p.from

\* The journal alone gives back the store, as long as every append has succeeded:
\* with no request half done, replaying what a primary that has led from the start
\* had to journal (which is its journal, if no append failed and no process ended
\* between commit and append) from the empty database succeeds and yields its
\* store, versions and pending uploads included. Every entry is appended after its
\* transaction, and the entries of two handlers may swap.
JournalComplete ==
    switches = 0 /\ snaps = 0 /\ Quiet(primary) =>
        LET t == ApplyAll(EmptyStore, due[primary])
        IN  /\ t.ok /\ Journalled(t.st) = Journalled(store[primary])
            /\ faults = 0 /\ restarts = 0 => wal[primary] = due[primary]

\* The latest snapshot and the journal together give back the store. runOnce
\* truncates the journal because "the fresh snapshot embeds all current state".
RestoreComplete ==
    switches = 0 /\ snap[primary] # Nil /\ Quiet(primary) /\ sched[primary] = "idle" =>
        Contents(ApplyAll(snap[primary], wal[primary]).st) = Contents(store[primary])

\* A follower whose cursor has reached the end of the primary's journal, with no
\* request half done, says what the primary says - provided its copy descends
\* from this journal: since the snapshot it started from, the journal was not
\* truncated, the primary did not change, no append failed to leave its line, and
\* no push, restart or handler of an earlier reign touched either store. Snapshot and
\* journal are read at different moments, while requests are between commit and
\* journal.
FollowerMatches ==
    \A e \in Edge :
        CaughtUp(e) /\ seed[e] = <<primary, gen[primary]>>
            => Contents(store[e]) = Contents(store[primary])

\* Every edge ends up with what the primary says, and stays so, unless an entry of
\* the primary's never got into its journal: lines that no fsync confirmed, requests
\* that were answered with an error and restarts do not keep a follower away.
FollowerConverges ==
    <>[](wal[primary] = due[primary] =>
            \A e \in Edge : Contents(store[e]) = Contents(store[primary]))
=============================================================================
