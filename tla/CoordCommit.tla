---------------------------- MODULE CoordCommit ----------------------------
(***************************************************************************)
(* How a coord commits metadata in HA mode: internal/coord (requireLeader, *)
(* handleCommit, commit, handleDelete), the put path of internal/store and *)
(* the glue of cmd/kvfs-coord (appendFn, walHook, LastLogSeqFn,            *)
(* bootstrapFromPeer), composed with the Election module.                  *)
(*                                                                         *)
(* An entry is one mutation of the metadata.  Entries of Txn take the      *)
(* transactional path (replicate, then commit); the others take the        *)
(* best-effort path (commit, then replicate from the WAL hook), which is   *)
(* also the only path of deletes and bucket operations.                    *)
(***************************************************************************)
EXTENDS Election, Sequences

CONSTANTS
  Txn,      \* the entries committed with TransactionalCommit
  MaxCalls  \* bound: requests admitted in one behaviour

ASSUME TxnAssumption == Txn \subseteq Entry

VARIABLES
  store,  \* per node: the entries applied to its bbolt, in order
  call    \* per entry: the request handler that commits it

commitVars == <<store, call>>
allVars == <<vars, commitVars>>

NoRequest == [pc |-> "idle", node |-> None, term |-> 0]

CommitInit ==
  /\ Init
  /\ store = [n \in Node |-> <<>>]
  /\ call = [e \in Entry |-> NoRequest]

\* The handler of e moves on to pc p.
Goto(e, p) == call' = [call EXCEPT ![e].pc = p]

\* putObjectInternalFull and its siblings, as one bbolt transaction.
ApplyEntry(n, e) == store' = [store EXCEPT ![n] = Append(@, e)]

\* requireLeader, then the first step of commit on either path.
Admit(n, e) ==
  /\ call[e].pc = "idle"
  /\ Cardinality({f \in Entry : call[f].pc # "idle"}) < MaxCalls
  /\ state[n] = "Leader"
  /\ call' = [call EXCEPT ![e] = [pc |-> IF e \in Txn THEN "replicate" ELSE "put",
                                  node |-> n, term |-> currentTerm[n]]]
  /\ UNCHANGED <<vars, store>>

\* Mutant: replicates without looking at the role again.
CallReplicateUnchecked(e) ==
  /\ call[e].pc = "replicate"
  /\ rep' = [rep EXCEPT ![e] = [@ EXCEPT !.pc = "checked", !.node = call[e].node]]
  /\ Goto(e, "wait")
  /\ UNCHANGED <<electorVars, pc, campaign, msgs, logSeq, historyVars, store>>

\* ReplicateEntry is called and looks at the role again.
CallReplicate(e) ==
  /\ call[e].pc = "replicate"
  /\ \/ /\ ReplicateCheck(call[e].node, e)
        /\ Goto(e, "wait")
     \/ /\ state[call[e].node] # "Leader"
        /\ Goto(e, "failed")
        /\ UNCHANGED vars
  /\ UNCHANGED store

\* Mutant: the error of ReplicateEntry is dropped.
AfterAnyReplicate(e) == IF e \in Txn THEN "put" ELSE "acked"

\* Where the handler goes when ReplicateEntry returns: on the transactional
\* path the local commit is still ahead, on the other one it is long done.
AfterReplicate(e) == IF ~IsQuorum(rep[e].acks) THEN "failed"
                     ELSE IF e \in Txn THEN "put" ELSE "acked"

\* ReplicateEntry returns to commit or to the WAL hook.
ReplicateDone(e) ==
  /\ call[e].pc = "wait"
  /\ ReplicateReturn(e)
  /\ Goto(e, AfterReplicate(e))
  /\ UNCHANGED store

\* putObjectInternalFull: the bbolt transaction, committed or refused.
PutLocal(e) ==
  /\ call[e].pc = "put"
  /\ \/ /\ ApplyEntry(call[e].node, e)
        /\ Goto(e, "wal")
     \/ /\ Goto(e, "failed")
        /\ UNCHANGED store
  /\ UNCHANGED vars

\* Mutant: the WAL hook is never called.
AfterAppendNoHook(e) == "acked"

\* The WAL hook, suppressed on the transactional path: it replicates if this
\* node still leads and reports success if it does not.
AfterAppend(e) ==
  IF e \notin Txn /\ state[call[e].node] = "Leader" THEN "replicate" ELSE "acked"

\* appendWALControlled: the sequence number is taken even if the write fails.
AppendLocal(e) ==
  /\ call[e].pc = "wal"
  /\ LET n == call[e].node IN
       /\ logSeq[n] < MaxSeq
       /\ WalMoves(n, logSeq[n] + 1)
       /\ Goto(e, AfterAppend(e)) \/ Goto(e, "failed")
  /\ UNCHANGED store

\* HandleAppendWAL calls appendFn: ApplyEntry changes bbolt and not the WAL.
ApplyPushed(m, ok) ==
  /\ AppendDone(m, ok)
  /\ \/ ok /\ ApplyEntry(m.to, m.entry)
     \/ ~ok /\ UNCHANGED store
  /\ UNCHANGED call

\* A coord crashes and comes back: bbolt and WAL survive, its handlers do not,
\* and bootstrapFromPeer replaces bbolt by the snapshot of the first peer that
\* answers (p = n: none does).  The WAL is not touched by the reload.
CoordRestart(n, p) ==
  /\ Restart(n)
  /\ call' = [e \in Entry |-> IF call[e].node = n /\ call[e].pc # "acked"
                              THEN [call[e] EXCEPT !.pc = "failed"] ELSE call[e]]
  /\ store' = [store EXCEPT ![n] = store[p]]

CommitStep(e) ==
  \/ \E n \in Node : Admit(n, e)
  \/ CallReplicate(e)
  \/ ReplicatePush(e) /\ UNCHANGED commitVars
  \/ (\E p \in Node : PushFail(e, p)) /\ UNCHANGED commitVars
  \/ ReplicateDone(e)
  \/ PutLocal(e)
  \/ AppendLocal(e)

CommitNext ==
  \/ (\E n \in Node : RunStep(n)) /\ UNCHANGED commitVars
  \/ HandlerStep /\ UNCHANGED commitVars
  \/ \E m \in msgs : ApplyPushed(m, TRUE) \/ ApplyPushed(m, FALSE)
  \/ \E e \in Entry : CommitStep(e)

CommitSpec == CommitInit /\ [][CommitNext]_allVars

\* The same coords, which may also crash and restart.
CrashSpec == CommitInit /\ [][CommitNext \/ \E n, p \in Node : CoordRestart(n, p)]_allVars

-----------------------------------------------------------------------------
(* Properties.                                                             *)

Request == [pc : {"idle", "replicate", "wait", "put", "wal", "acked", "failed"},
            node : Node \cup {None}, term : Term]

HandlerKnown == \A e \in Entry : call[e].pc = "idle" <=> call[e].node = None

\* The elector's state, the stores and the request handlers are well typed.
CommitTypeOK ==
  /\ TypeOK
  /\ store \in [Node -> Seq(Entry)]
  /\ call \in [Entry -> Request]
  /\ HandlerKnown

Holds(n, e) == \E i \in 1 .. Len(store[n]) : store[n][i] = e
Holders(e) == {n \in Node : Holds(n, e)}

\* Transactional commit: what the leader has in its own bbolt, and so may show
\* to a reader or acknowledge, is on a majority of the coords; a commit that
\* ends in 503 for lack of a quorum is not in the leader's bbolt at all.
CommittedOnQuorum ==
  \A e \in Txn : call[e].node \in Node /\ Holds(call[e].node, e) => IsQuorum(Holders(e))

\* An acknowledged transactional commit is on a majority of the coords.
AckedOnQuorum == \A e \in Txn : call[e].pc = "acked" => IsQuorum(Holders(e))

\* A push in flight belongs to a call of ReplicateEntry that got that far, and
\* never goes back to its sender.
PushOrigin ==
  \A m \in msgs : m.type \in {"append", "apply"} =>
     /\ m.to # m.from /\ m.from = rep[m.entry].node
     /\ rep[m.entry].pc \in {"pushed", "acked", "failed"}

\* The handler waits for the ReplicateEntry call it made.
CallOwnsPush ==
  \A e \in Entry : rep[e].pc # "idle" => call[e].pc # "idle" /\ rep[e].node = call[e].node

\* Only the handler's node has the entry before it is pushed.
HeldWhenPushed ==
  \A n \in Node, e \in Entry :
     Holds(n, e) /\ n # call[e].node => rep[e].pc \in {"pushed", "acked", "failed"}

\* Every peer that counts as an ack applied the entry; success needs a quorum.
AcksApplied ==
  \A e \in Entry : /\ rep[e].pc \in {"idle", "checked"} => rep[e].acks = {}
                   /\ \A p \in rep[e].acks : p = rep[e].node \/ Holds(p, e)
                   /\ rep[e].pc = "acked" => IsQuorum(rep[e].acks)

\* The transactional handler commits locally only after the quorum.
TxnOrder ==
  \A e \in Txn :
     /\ call[e].pc \in {"put", "wal", "acked"} => rep[e].pc = "acked"
     /\ call[e].pc \in {"wal", "acked"} => Holds(call[e].node, e)
     /\ \A n \in Node : n = call[e].node /\ Holds(n, e) => rep[e].pc = "acked"

\* The strengthening that makes CommittedOnQuorum and AckedOnQuorum inductive.
CommitLedger == PushOrigin /\ CallOwnsPush /\ HeldWhenPushed /\ AcksApplied /\ TxnOrder

\* Best-effort commit: an acknowledged entry is on a majority, unless its
\* leader lost the term it admitted the request in (the window that the
\* comment on handleCommit concedes).
AckedOrDeposed ==
  \A e \in Entry \ Txn :
     call[e].pc = "acked" => \/ IsQuorum(Holders(e))
                             \/ state[call[e].node] # "Leader"
                             \/ currentTerm[call[e].node] # call[e].term

\* A coord elected after an entry was acknowledged has it (Raft's leader
\* completeness, which the log check in HandleVote is there for).
LeaderComplete ==
  \A n \in Node, e \in Txn :
     state[n] = "Leader" /\ call[e].pc = "acked" /\ currentTerm[n] > call[e].term => Holds(n, e)

\* Seen from the election, committing is replication plus a moving WAL.
ElectionRefined == Spec

=============================================================================
