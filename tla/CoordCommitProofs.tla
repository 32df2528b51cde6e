-------------------------- MODULE CoordCommitProofs --------------------------
(***************************************************************************)
(* Proofs about CoordCommit.  A committing coord is, for the election, just *)
(* replication and a moving WAL, so every theorem of ElectionProofs carries *)
(* over; on top of it, the transactional path commits only what a majority  *)
(* has applied.                                                             *)
(***************************************************************************)
EXTENDS CoordCommit, ElectionProofs

\* The provers tried at a leaf that names none, in this order.
USE SMTT(30), ZenonT(30)

-----------------------------------------------------------------------------
(* Refinement and types.                                                   *)

\* Every step of the commit path is a step of the election or leaves it alone.
LEMMA CommitStepRefines == CommitTypeOK /\ [CommitNext]_allVars => [Next]_vars
<1> SUFFICES ASSUME CommitTypeOK, [CommitNext]_allVars PROVE [Next]_vars
  OBVIOUS
<1>1. ASSUME NEW n \in Node, RunStep(n) PROVE Next
  BY <1>1, Zenon DEF Next
<1>2. ASSUME HandlerStep PROVE Next
  BY <1>2 DEF Next
<1>3. ASSUME NEW m \in msgs, ApplyPushed(m, TRUE) \/ ApplyPushed(m, FALSE) PROVE Next
  BY <1>3, Zenon DEF Next, ApplyPushed
<1>4. ASSUME NEW e \in Entry, CommitStep(e) PROVE [Next]_vars
  <2> DEFINE n == call[e].node
  <2>0. call[e].pc # "idle" => n \in Node
    BY DEF CommitTypeOK, HandlerKnown, Request
  <2>1. CASE \E k \in Node : Admit(k, e)
    BY <2>1 DEF Admit
  <2>2. CASE CallReplicate(e)
    <3>1. n \in Node
      BY <2>0, <2>2 DEF CallReplicate
    <3>2. ReplicateCheck(n, e) \/ UNCHANGED vars
      BY <2>2 DEF CallReplicate
    <3> QED
      BY <3>1, <3>2, Zenon DEF Next, ReplicateStep
  <2>3. CASE ReplicatePush(e)
    BY <2>3, Zenon DEF Next, ReplicateStep
  <2>4. CASE \E p \in Node : PushFail(e, p)
    BY <2>4, Zenon DEF Next, ReplicateStep
  <2>5. CASE ReplicateDone(e)
    BY <2>5, Zenon DEF Next, ReplicateDone
  <2>6. CASE PutLocal(e)
    BY <2>6 DEF PutLocal
  <2>7. CASE AppendLocal(e)
    <3>1. n \in Node
      BY <2>0, <2>7 DEF AppendLocal
    <3>2. WalMoves(n, logSeq[n] + 1) /\ logSeq[n] < MaxSeq
      BY <2>7 DEF AppendLocal
    <3>3. logSeq[n] + 1 \in 0 .. MaxSeq
      BY <3>1, <3>2, BoundAssumption DEF CommitTypeOK, TypeOK
    <3> QED
      BY <3>1, <3>2, <3>3, Zenon DEF Next
  <2> QED
    BY <1>4, <2>1, <2>2, <2>3, <2>4, <2>5, <2>6, <2>7 DEF CommitStep
<1> QED
  BY <1>1, <1>2, <1>3, <1>4, Zenon DEF CommitNext, allVars

\* Moving a handler on keeps the requests well typed.
LEMMA GotoType ==
  ASSUME CommitTypeOK, NEW e \in Entry, NEW p \in {"replicate", "wait", "put", "wal", "acked", "failed"},
         call[e].pc # "idle", Goto(e, p)
  PROVE  call' \in [Entry -> Request] /\ HandlerKnown'
BY DEF CommitTypeOK, Goto, Request, HandlerKnown

LEMMA AppendType ==
  ASSUME store \in [Node -> Seq(Entry)], NEW k \in Node, NEW e \in Entry,
         store' = [store EXCEPT ![k] = Append(@, e)]
  PROVE  store' \in [Node -> Seq(Entry)]
OBVIOUS

LEMMA CommitTypeStep == CommitTypeOK /\ [CommitNext]_allVars => CommitTypeOK'
<1> SUFFICES ASSUME CommitTypeOK, [CommitNext]_allVars PROVE CommitTypeOK'
  OBVIOUS
<1>t. TypeOK'
  BY CommitStepRefines, TypeStep DEF CommitTypeOK
<1>s. store \in [Node -> Seq(Entry)] /\ call \in [Entry -> Request] /\ HandlerKnown
  BY DEF CommitTypeOK
<1>0. ASSUME UNCHANGED commitVars PROVE CommitTypeOK'
  BY <1>t, <1>s, <1>0 DEF CommitTypeOK, commitVars, HandlerKnown
<1>1. ASSUME NEW m \in msgs, NEW ok \in BOOLEAN, ApplyPushed(m, ok) PROVE CommitTypeOK'
  <2>1. m.to \in Node /\ m.entry \in Entry
    BY <1>1, MessageShape DEF CommitTypeOK, TypeOK, ApplyPushed, AppendDone
  <2>2. store' = [store EXCEPT ![m.to] = Append(@, m.entry)] \/ store' = store
    BY <1>1 DEF ApplyPushed, ApplyEntry
  <2>3. store' \in [Node -> Seq(Entry)] /\ call' = call
    BY <1>1, <1>s, <2>1, <2>2, AppendType DEF ApplyPushed
  <2> QED
    BY <1>t, <1>s, <2>3 DEF CommitTypeOK, HandlerKnown
<1>2. ASSUME NEW e \in Entry, NEW n \in Node, Admit(n, e) PROVE CommitTypeOK'
  BY <1>2, <1>t, <1>s, NodeAssumption, Zenon DEF CommitTypeOK, TypeOK, Admit, Request, HandlerKnown
<1>3. ASSUME NEW e \in Entry, CallReplicate(e) \/ AppendLocal(e) PROVE CommitTypeOK'
  <2>1. call' \in [Entry -> Request] /\ HandlerKnown'
    BY <1>3, GotoType DEF CallReplicate, AppendLocal, AfterAppend
  <2> QED
    BY <1>3, <1>t, <1>s, <2>1 DEF CommitTypeOK, CallReplicate, AppendLocal
<1>4. ASSUME NEW e \in Entry, ReplicateDone(e) PROVE CommitTypeOK'
  <2>1. call' \in [Entry -> Request] /\ HandlerKnown'
    BY <1>4, GotoType DEF ReplicateDone, AfterReplicate
  <2> QED
    BY <1>4, <1>t, <1>s, <2>1 DEF CommitTypeOK, ReplicateDone
<1>5. ASSUME NEW e \in Entry, PutLocal(e) PROVE CommitTypeOK'
  <2>1. call' \in [Entry -> Request] /\ HandlerKnown'
    BY <1>5, GotoType DEF PutLocal
  <2>2. call[e].node \in Node
    BY <1>5, <1>s DEF PutLocal, HandlerKnown, Request
  <2>3. store' = [store EXCEPT ![call[e].node] = Append(@, e)] \/ store' = store
    BY <1>5 DEF PutLocal, ApplyEntry
  <2>4. store' \in [Node -> Seq(Entry)]
    BY <1>s, <2>2, <2>3, AppendType, Zenon
  <2> QED
    BY <1>t, <2>1, <2>4 DEF CommitTypeOK
<1> QED
  BY <1>0, <1>1, <1>2, <1>3, <1>4, <1>5, Zenon DEF CommitNext, CommitStep, allVars

\* The initial state is well typed.
LEMMA CommitInitType == CommitInit => CommitTypeOK
<1> SUFFICES ASSUME CommitInit PROVE CommitTypeOK
  OBVIOUS
<1>1. TypeOK
  BY InitType DEF CommitInit
<1> QED
  BY <1>1, BoundAssumption DEF CommitInit, CommitTypeOK, HandlerKnown, NoRequest, Request, Term

\* The stores and the request handlers keep their types.
THEOREM CommitTypeInvariant == CommitSpec => []CommitTypeOK
BY CommitInitType, CommitTypeStep, PTL DEF CommitSpec

\* The election goes on under the commit path as it does on its own: every
\* theorem about Spec holds of CommitSpec.
THEOREM CommitRefinesElection == CommitSpec => ElectionRefined
<1>1. CommitInit => Init
  BY DEF CommitInit
<1> QED
  BY <1>1, CommitTypeInvariant, CommitStepRefines, PTL DEF CommitSpec, Spec, ElectionRefined

-----------------------------------------------------------------------------
(* The commit ledger.                                                      *)

\* Applying an entry at one node adds it there and nothing anywhere else.
LEMMA AppendHolds ==
  ASSUME store \in [Node -> Seq(Entry)], NEW k \in Node, NEW e \in Entry,
         store' = [store EXCEPT ![k] = Append(@, e)]
  PROVE  \A n \in Node, d \in Entry : Holds(n, d)' <=> Holds(n, d) \/ (n = k /\ d = e)
<1> TAKE n \in Node, d \in Entry
<1>1. CASE n # k
  BY <1>1 DEF Holds
<1>2. CASE n = k
  <2> DEFINE s == store[k]
  <2>1. s \in Seq(Entry) /\ Len(s) \in Nat /\ store'[k] = Append(s, e)
    OBVIOUS
  <2>2. /\ Len(store'[k]) = Len(s) + 1
        /\ \A i \in 1 .. Len(s) : store'[k][i] = s[i]
        /\ store'[k][Len(s) + 1] = e
    BY <2>1
  <2>3. (\E i \in 1 .. Len(s) + 1 : store'[k][i] = d)
        <=> (\E i \in 1 .. Len(s) : s[i] = d) \/ d = e
    BY <2>1, <2>2
  <2> QED
    BY <1>2, <2>2, <2>3 DEF Holds
<1> QED
  BY <1>1, <1>2

\* Steps that leave the stores alone leave Holds alone.
LEMMA SameHolds ==
  ASSUME store' = store
  PROVE  \A n \in Node, d \in Entry : Holds(n, d)' <=> Holds(n, d)
BY DEF Holds

\* The ledger depends on rep only through pc, node and acks, and a push that
\* was accepted stays the push it was.
LEMMA CommitFrame ==
  ASSUME CommitTypeOK, CommitLedger, UNCHANGED <<store, call>>,
         \A e \in Entry : /\ rep'[e].pc = rep[e].pc /\ rep'[e].node = rep[e].node
                          /\ rep'[e].acks = rep[e].acks,
         \A m \in msgs' : m.type \in {"append", "apply"} =>
            \/ m \in msgs
            \/ \E k \in msgs : k.type = "append" /\ m = [k EXCEPT !.type = "apply"]
  PROVE  CommitLedger'
<1>1. PushOrigin'
  <2> SUFFICES ASSUME NEW m \in msgs', m.type \in {"append", "apply"}
               PROVE  /\ m.to # m.from /\ m.from = rep'[m.entry].node
                      /\ rep'[m.entry].pc \in {"pushed", "acked", "failed"}
    BY DEF PushOrigin
  <2>1. PICK k \in msgs : /\ k.type \in {"append", "apply"}
                          /\ m = k \/ m = [k EXCEPT !.type = "apply"]
    OBVIOUS
  <2>2. k \in [type : {"append", "apply"}, from : Node, to : Node, term : Term, entry : Entry]
    BY <2>1, MessageShape DEF CommitTypeOK, TypeOK
  <2>3. m.to = k.to /\ m.from = k.from /\ m.entry = k.entry
    BY <2>1, <2>2
  <2> QED
    BY <2>1, <2>2, <2>3 DEF CommitLedger, PushOrigin
<1>2. CallOwnsPush' /\ HeldWhenPushed'
  BY SameHolds DEF CommitLedger, CallOwnsPush, HeldWhenPushed
<1>3. AcksApplied'
  BY DEF CommitLedger, AcksApplied, Holds
<1>4. TxnOrder'
  BY TxnAssumption DEF CommitLedger, TxnOrder, Holds
<1> QED
  BY <1>1, <1>2, <1>3, <1>4 DEF CommitLedger

\* The election's own steps: they send no push and count no ack.
LEMMA ElectionKeepsLedger ==
  ASSUME CommitTypeOK, CommitLedger, UNCHANGED commitVars,
         \/ \E n \in Node : RunStep(n)
         \/ HandlerStep
         \/ \E e \in Entry, p \in Node : PushFail(e, p)
  PROVE  CommitLedger'
<1> USE DEF commitVars
<1>r. rep \in [Entry -> Call]
  BY DEF CommitTypeOK, TypeOK
<1>1. ASSUME NEW n \in Node, RunStep(n) PROVE CommitLedger'
  <2>1. rep' = rep
    BY <1>1 DEF RunStep, Dispatch, FollowerTimeout, StartCampaign, Tally, Broadcast, Tick, VoteFail
  <2>2. \A m \in msgs' : m.type \in {"append", "apply"} => m \in msgs
    BY <1>1 DEF RunStep, Dispatch, FollowerTimeout, StartCampaign, Tally, Broadcast, Heartbeat,
                Tick, VoteFail
  <2> QED
    BY <2>1, <2>2, CommitFrame
<1>2. ASSUME NEW m \in msgs,
             VoteReply(m) \/ HandleVote(m) \/ HandleHeartbeat(m) \/ HeartbeatReply(m)
      PROVE  CommitLedger'
  <2>1. rep' = rep
    BY <1>2 DEF VoteReply, HandleVote, HandleHeartbeat, HeartbeatReply
  <2>2. \A k \in msgs' : k.type \in {"append", "apply"} => k \in msgs
    <3>1. CASE VoteReply(m)
      BY <3>1 DEF VoteReply
    <3>2. CASE HandleVote(m)
      BY <3>2 DEF HandleVote
    <3>3. CASE HandleHeartbeat(m)
      BY <3>3 DEF HandleHeartbeat
    <3>4. CASE HeartbeatReply(m)
      BY <3>4 DEF HeartbeatReply
    <3> QED BY <1>2, <3>1, <3>2, <3>3, <3>4
  <2> QED
    BY <2>1, <2>2, CommitFrame
<1>3. ASSUME NEW m \in msgs, HandleAppendWAL(m) PROVE CommitLedger'
  <2>1. m \in [type : {"append", "apply"}, from : Node, to : Node, term : Term, entry : Entry]
    BY <1>3, MessageShape DEF CommitTypeOK, TypeOK, HandleAppendWAL
  <2>2. \A e \in Entry : /\ rep'[e].pc = rep[e].pc /\ rep'[e].node = rep[e].node
                         /\ rep'[e].acks = rep[e].acks
    BY <1>3, <1>r, <2>1 DEF HandleAppendWAL, Call
  <2>3. \A k \in msgs' : k \in msgs \/ (m.type = "append" /\ k = [m EXCEPT !.type = "apply"])
    BY <1>3 DEF HandleAppendWAL
  <2> QED
    BY <2>2, <2>3, CommitFrame
<1>4. ASSUME NEW e \in Entry, NEW p \in Node, PushFail(e, p) PROVE CommitLedger'
  <2>1. \A d \in Entry : /\ rep'[d].pc = rep[d].pc /\ rep'[d].node = rep[d].node
                         /\ rep'[d].acks = rep[d].acks
    BY <1>4, <1>r DEF PushFail, Call
  <2> QED
    BY <1>4, <2>1, CommitFrame DEF PushFail
<1> QED
  BY <1>1, <1>2, <1>3, <1>4 DEF HandlerStep

\* A peer applies a pushed entry (or fails to) and its answer is counted.
LEMMA ApplyKeepsLedger ==
  ASSUME CommitTypeOK, CommitLedger, NEW m \in msgs, NEW ok \in BOOLEAN, ApplyPushed(m, ok)
  PROVE  CommitLedger'
<1> DEFINE d == m.entry
<1>r. rep \in [Entry -> Call] /\ store \in [Node -> Seq(Entry)]
  BY DEF CommitTypeOK, TypeOK
<1>1. /\ m \in [type : {"append", "apply"}, from : Node, to : Node, term : Term, entry : Entry]
      /\ m.type = "apply"
  BY MessageShape DEF CommitTypeOK, TypeOK, ApplyPushed, AppendDone
<1>2. /\ m.to # rep[d].node /\ rep[d].pc \in {"pushed", "acked", "failed"}
      /\ rep[d].node = call[d].node
  BY <1>1 DEF CommitLedger, PushOrigin, CallOwnsPush
<1>3. /\ \A e \in Entry : /\ rep'[e].pc = rep[e].pc /\ rep'[e].node = rep[e].node
                          /\ rep[e].acks \subseteq rep'[e].acks
                          /\ \A p \in rep'[e].acks : p \in rep[e].acks \/ (ok /\ e = d /\ p = m.to)
  BY <1>1, <1>r DEF ApplyPushed, AppendDone, Call
<1>4. call' = call /\ msgs' \subseteq msgs
  BY DEF ApplyPushed, AppendDone
<1>5. \A n \in Node, e \in Entry : Holds(n, e)' <=> Holds(n, e) \/ (ok /\ n = m.to /\ e = d)
  <2>1. CASE ok
    BY <2>1, <1>1, <1>r, AppendHolds, Zenon DEF ApplyPushed, ApplyEntry
  <2>2. CASE ~ok
    BY <2>2, SameHolds DEF ApplyPushed
  <2> QED
    BY <2>1, <2>2
<1>6. PushOrigin'
  <2>1. \A k \in msgs : k.type \in {"append", "apply"} => k.entry \in Entry
    BY MessageShape DEF CommitTypeOK, TypeOK
  <2> QED
    BY <1>3, <1>4, <2>1 DEF CommitLedger, PushOrigin
<1>7. CallOwnsPush'
  BY <1>3, <1>4 DEF CommitLedger, CallOwnsPush
<1>8. HeldWhenPushed'
  BY <1>1, <1>2, <1>3, <1>4, <1>5 DEF CommitLedger, HeldWhenPushed
<1>9. AcksApplied'
  <2> SUFFICES ASSUME NEW e \in Entry
               PROVE  /\ rep'[e].pc \in {"idle", "checked"} => rep'[e].acks = {}
                      /\ \A p \in rep'[e].acks : p = rep'[e].node \/ Holds(p, e)'
                      /\ rep'[e].pc = "acked" => IsQuorum(rep'[e].acks)
    BY DEF AcksApplied, IsQuorum
  <2>1. rep[e].acks \in SUBSET Node /\ rep'[e].acks \in SUBSET Node
    BY <1>r, <1>1, <1>3 DEF Call
  <2>2. \A p \in rep'[e].acks : p = rep'[e].node \/ Holds(p, e)'
    BY <1>1, <1>3, <1>5, <2>1 DEF CommitLedger, AcksApplied
  <2>3. rep'[e].pc = "acked" => IsQuorum(rep'[e].acks)
    BY <1>3, <2>1, QuorumGrows DEF CommitLedger, AcksApplied
  <2>4. rep'[e].pc \in {"idle", "checked"} => rep'[e].acks = {}
    BY <1>2, <1>3 DEF CommitLedger, AcksApplied
  <2> QED
    BY <2>2, <2>3, <2>4
<1>10. TxnOrder'
  <2> SUFFICES ASSUME NEW e \in Txn
               PROVE  /\ call'[e].pc \in {"put", "wal", "acked"} => rep'[e].pc = "acked"
                      /\ call'[e].pc \in {"wal", "acked"} => Holds(call[e].node, e)'
                      /\ \A n \in Node : n = call'[e].node /\ Holds(n, e)' => rep'[e].pc = "acked"
    BY DEF TxnOrder, Holds
  <2>1. call[e].pc # "idle" => call[e].node \in Node
    BY TxnAssumption DEF CommitTypeOK, HandlerKnown, Request
  <2> QED
    BY <1>2, <1>3, <1>4, <1>5, <2>1, TxnAssumption DEF CommitLedger, TxnOrder
<1> QED
  BY <1>6, <1>7, <1>8, <1>9, <1>10 DEF CommitLedger

\* One handler and its replication call move; stores and messages stay.
LEMMA HandlerFrame ==
  ASSUME CommitTypeOK, CommitLedger, NEW e \in Entry,
         store' = store, msgs' = msgs,
         \A d \in Entry \ {e} : rep'[d] = rep[d] /\ call'[d] = call[d],
         rep[e].pc \in {"pushed", "acked", "failed"} =>
            rep'[e].pc \in {"pushed", "acked", "failed"} /\ rep'[e].node = rep[e].node,
         rep'[e].pc # "idle" => call'[e].pc # "idle" /\ rep'[e].node = call'[e].node,
         \A n \in Node : Holds(n, e) /\ n # call'[e].node => rep'[e].pc \in {"pushed", "acked", "failed"},
         rep'[e].pc \in {"idle", "checked"} => rep'[e].acks = {},
         \A p \in rep'[e].acks : p = rep'[e].node \/ Holds(p, e),
         rep'[e].pc = "acked" => IsQuorum(rep'[e].acks),
         e \in Txn => /\ call'[e].pc \in {"put", "wal", "acked"} => rep'[e].pc = "acked"
                      /\ call'[e].pc \in {"wal", "acked"} => Holds(call'[e].node, e)
                      /\ \A n \in Node : n = call'[e].node /\ Holds(n, e) => rep'[e].pc = "acked"
  PROVE  CommitLedger'
<1>1. PushOrigin'
  <2>1. \A k \in msgs : k.type \in {"append", "apply"} => k.entry \in Entry
    BY MessageShape DEF CommitTypeOK, TypeOK
  <2> QED
    BY <2>1 DEF CommitLedger, PushOrigin
<1>2. CallOwnsPush'
  BY DEF CommitLedger, CallOwnsPush
<1>3. HeldWhenPushed'
  BY DEF CommitLedger, HeldWhenPushed, Holds
<1>4. AcksApplied'
  BY DEF CommitLedger, AcksApplied, Holds, IsQuorum
<1>5. TxnOrder'
  BY TxnAssumption DEF CommitLedger, TxnOrder, Holds
<1> QED
  BY <1>1, <1>2, <1>3, <1>4, <1>5 DEF CommitLedger

LEMMA HandlerKeepsLedger ==
  ASSUME CommitTypeOK, CommitLedger, NEW e \in Entry,
         \/ \E n \in Node : Admit(n, e)
         \/ CallReplicate(e) \/ ReplicateDone(e) \/ AppendLocal(e)
  PROVE  CommitLedger'
<1>r. rep \in [Entry -> Call] /\ call \in [Entry -> Request] /\ HandlerKnown
  BY DEF CommitTypeOK, TypeOK
<1>l. /\ rep[e].pc # "idle" => call[e].pc # "idle" /\ rep[e].node = call[e].node
      /\ \A n \in Node : Holds(n, e) /\ n # call[e].node => rep[e].pc \in {"pushed", "acked", "failed"}
      /\ rep[e].pc \in {"idle", "checked"} => rep[e].acks = {}
      /\ \A p \in rep[e].acks : p = rep[e].node \/ Holds(p, e)
      /\ rep[e].pc = "acked" => IsQuorum(rep[e].acks)
      /\ e \in Txn => /\ call[e].pc \in {"put", "wal", "acked"} => rep[e].pc = "acked"
                      /\ call[e].pc \in {"wal", "acked"} => Holds(call[e].node, e)
                      /\ \A n \in Node : n = call[e].node /\ Holds(n, e) => rep[e].pc = "acked"
  BY DEF CommitLedger, CallOwnsPush, HeldWhenPushed, AcksApplied, TxnOrder
<1>1. CASE \E n \in Node : Admit(n, e)
  <2>1. /\ store' = store /\ msgs' = msgs /\ rep' = rep
        /\ \A d \in Entry \ {e} : call'[d] = call[d]
        /\ call[e].pc = "idle" /\ call[e].node = None
        /\ call'[e].pc = IF e \in Txn THEN "replicate" ELSE "put"
    <3>1. PICK n \in Node : Admit(n, e)
      BY <1>1
    <3>2. /\ UNCHANGED <<vars, store>> /\ call[e].pc = "idle"
          /\ call' = [call EXCEPT ![e] = [pc |-> IF e \in Txn THEN "replicate" ELSE "put",
                                          node |-> n, term |-> currentTerm[n]]]
      BY <3>1 DEF Admit
    <3>3. call[e].node = None
      BY <1>r, <3>2 DEF HandlerKnown
    <3>4. store' = store /\ msgs' = msgs /\ rep' = rep
      BY <3>2 DEF vars
    <3> QED BY <1>r, <3>2, <3>3, <3>4
  <2>2. rep[e].pc = "idle" /\ \A n \in Node : ~Holds(n, e)
    BY <1>l, <2>1, NodeAssumption
  <2> QED
    BY <1>l, <2>1, <2>2, HandlerFrame
<1>2. CASE CallReplicate(e) /\ ReplicateCheck(call[e].node, e)
  <2>1. /\ store' = store /\ msgs' = msgs
        /\ \A d \in Entry \ {e} : rep'[d] = rep[d] /\ call'[d] = call[d]
        /\ rep[e].pc = "idle" /\ rep'[e].pc = "checked" /\ rep'[e].node = call[e].node
        /\ rep'[e].acks = rep[e].acks
    BY <1>2, <1>r DEF CallReplicate, ReplicateCheck, Goto, Call
  <2>2. call'[e].pc \in {"wait", "failed"} /\ call'[e].node = call[e].node
    BY <1>2, <1>r DEF CallReplicate, Goto, Request
  <2> QED
    BY <1>l, <2>1, <2>2, HandlerFrame
<1>3. CASE CallReplicate(e) /\ UNCHANGED vars
  <2>1. /\ store' = store /\ msgs' = msgs /\ rep' = rep
        /\ \A d \in Entry \ {e} : call'[d] = call[d]
        /\ call[e].pc = "replicate" /\ call'[e].pc \in {"wait", "failed"}
        /\ call'[e].node = call[e].node
    BY <1>3, <1>r DEF CallReplicate, Goto, Request, vars
  <2> QED
    BY <1>l, <2>1, HandlerFrame
<1>4. CASE ReplicateDone(e)
  <2>1. /\ store' = store /\ msgs' = msgs
        /\ \A d \in Entry \ {e} : rep'[d] = rep[d] /\ call'[d] = call[d]
        /\ rep[e].pc = "pushed" /\ rep'[e].node = rep[e].node /\ rep'[e].acks = rep[e].acks
        /\ rep'[e].pc = IF IsQuorum(rep[e].acks) THEN "acked" ELSE "failed"
    BY <1>4, <1>r DEF ReplicateDone, ReplicateReturn, Goto, Call
  <2>2. /\ call'[e].pc = IF ~IsQuorum(rep[e].acks) THEN "failed"
                         ELSE IF e \in Txn THEN "put" ELSE "acked"
        /\ call'[e].node = call[e].node /\ call[e].pc = "wait"
    BY <1>4, <1>r DEF ReplicateDone, AfterReplicate, Goto, Request
  <2> QED
    BY <1>l, <2>1, <2>2, HandlerFrame
<1>5. CASE AppendLocal(e)
  <2>1. /\ store' = store /\ msgs' = msgs /\ rep' = rep
        /\ \A d \in Entry \ {e} : call'[d] = call[d]
        /\ call[e].pc = "wal" /\ call'[e].node = call[e].node
        /\ call'[e].pc \in {"replicate", "acked", "failed"}
    BY <1>5, <1>r DEF AppendLocal, AfterAppend, WalMoves, Goto, Request
  <2> QED
    BY <1>l, <2>1, HandlerFrame
<1> QED
  BY <1>1, <1>2, <1>3, <1>4, <1>5 DEF CallReplicate

\* ReplicatePush starts counting acks with the leader itself.
LEMMA PushKeepsLedger ==
  ASSUME CommitTypeOK, CommitLedger, NEW e \in Entry, ReplicatePush(e), UNCHANGED commitVars
  PROVE  CommitLedger'
<1> DEFINE n == rep[e].node
<1>r. rep \in [Entry -> Call]
  BY DEF CommitTypeOK, TypeOK
<1>1. /\ rep[e].pc = "checked" /\ store' = store /\ call' = call
      /\ rep' = [rep EXCEPT ![e] = [pc |-> "pushed", node |-> n, term |-> currentTerm[n],
                                    waiting |-> Peers(n), acks |-> {n}]]
      /\ msgs' = msgs \cup {[type |-> "append", from |-> n, to |-> p, term |-> currentTerm[n],
                             entry |-> e] : p \in Peers(n)}
  BY DEF ReplicatePush, commitVars
<1>2. /\ \A d \in Entry \ {e} : rep'[d] = rep[d]
      /\ rep'[e].pc = "pushed" /\ rep'[e].node = n /\ rep'[e].acks = {n}
  BY <1>1, <1>r
<1>3. PushOrigin'
  <2>1. \A k \in msgs : k.type \in {"append", "apply"} => k.entry \in Entry \ {e}
    BY <1>1, MessageShape, Zenon DEF CommitTypeOK, TypeOK, CommitLedger, PushOrigin
  <2>2. \A k \in msgs' : k.type \in {"append", "apply"} =>
           \/ k \in msgs
           \/ k.from = n /\ k.to \in Peers(n) /\ k.entry = e
    BY <1>1
  <2> QED
    BY <1>2, <2>1, <2>2 DEF CommitLedger, PushOrigin, Peers
<1>4. CallOwnsPush'
  BY <1>1, <1>2 DEF CommitLedger, CallOwnsPush
<1>5. HeldWhenPushed'
  BY <1>1, <1>2 DEF CommitLedger, HeldWhenPushed, Holds
<1>6. AcksApplied'
  BY <1>1, <1>2 DEF CommitLedger, AcksApplied, Holds, IsQuorum
<1>7. TxnOrder'
  BY <1>1, <1>2, TxnAssumption DEF CommitLedger, TxnOrder, Holds
<1> QED
  BY <1>3, <1>4, <1>5, <1>6, <1>7 DEF CommitLedger

\* The local commit: on the transactional path the quorum is already there.
LEMMA PutKeepsLedger ==
  ASSUME CommitTypeOK, CommitLedger, NEW e \in Entry, PutLocal(e)
  PROVE  CommitLedger'
<1>n. PICK n \in Node : n = call[e].node
  BY DEF CommitTypeOK, HandlerKnown, PutLocal, Request
<1>r. rep \in [Entry -> Call] /\ call \in [Entry -> Request] /\ store \in [Node -> Seq(Entry)]
  BY DEF CommitTypeOK, TypeOK
<1>1. /\ rep' = rep /\ msgs' = msgs /\ call[e].pc = "put"
      /\ \A d \in Entry \ {e} : call'[d] = call[d]
      /\ call'[e].node = n
  BY <1>n, <1>r DEF PutLocal, Goto, vars, Request
<1>2. /\ \A k \in Node, d \in Entry : Holds(k, d)' => Holds(k, d) \/ (k = n /\ d = e)
      /\ \A k \in Node, d \in Entry : Holds(k, d) => Holds(k, d)'
      /\ call'[e].pc = "failed" \/ (call'[e].pc = "wal" /\ Holds(n, e)')
  <2>1. CASE store' = [store EXCEPT ![n] = Append(@, e)] /\ Goto(e, "wal")
    BY <1>r, <2>1, AppendHolds, Zenon DEF Goto, Request
  <2>2. CASE store' = store /\ Goto(e, "failed")
    BY <1>r, <2>2, SameHolds DEF Goto, Request
  <2> QED
    BY <1>n, <2>1, <2>2 DEF PutLocal, ApplyEntry
<1>3. PushOrigin' /\ CallOwnsPush'
  BY <1>n, <1>1, <1>2 DEF CommitLedger, PushOrigin, CallOwnsPush
<1>4. HeldWhenPushed'
  BY <1>n, <1>1, <1>2 DEF CommitLedger, HeldWhenPushed
<1>5. AcksApplied'
  <2> SUFFICES ASSUME NEW d \in Entry, NEW p \in rep[d].acks, p # rep[d].node PROVE Holds(p, d)'
    BY <1>1 DEF CommitLedger, AcksApplied, IsQuorum
  <2>1. p \in Node /\ Holds(p, d)
    BY <1>r DEF Call, CommitLedger, AcksApplied
  <2> QED
    BY <1>2, <2>1
<1>6. TxnOrder'
  <2> SUFFICES ASSUME NEW d \in Txn
               PROVE  /\ call'[d].pc \in {"put", "wal", "acked"} => rep'[d].pc = "acked"
                      /\ call'[d].pc \in {"wal", "acked"} => Holds(call[d].node, d)'
                      /\ \A k \in Node : k = call'[d].node /\ Holds(k, d)' => rep'[d].pc = "acked"
    BY DEF TxnOrder, Holds
  <2>1. d \in Entry /\ (call[d].pc # "idle" => call[d].node \in Node)
    BY TxnAssumption DEF CommitTypeOK, HandlerKnown, Request
  <2>2. CASE d = e
    <3>1. Holds(call[d].node, d)' <=> Holds(n, e)'
      BY <1>1, <2>2 DEF Holds
    <3> QED
      BY <1>n, <1>1, <1>2, <2>1, <2>2, <3>1 DEF CommitLedger, TxnOrder
  <2>3. CASE d # e
    <3>1. Holds(call[d].node, d)' <=> (\E i \in 1 .. Len(store'[call[d].node]) : store'[call[d].node][i] = d)
      BY <1>1, <2>1, <2>3 DEF Holds
    <3>2. call'[d] = call[d] /\ rep'[d] = rep[d]
      BY <1>1, <2>1, <2>3
    <3>3. /\ call[d].pc \in {"put", "wal", "acked"} => rep[d].pc = "acked"
          /\ call[d].pc \in {"wal", "acked"} => Holds(call[d].node, d)
          /\ \A k \in Node : k = call[d].node /\ Holds(k, d) => rep[d].pc = "acked"
      BY Zenon DEF CommitLedger, TxnOrder
    <3> QED
      BY <1>2, <2>1, <2>3, <3>1, <3>2, <3>3 DEF Holds
  <2> QED
    BY <2>2, <2>3
<1> QED
  BY <1>3, <1>4, <1>5, <1>6 DEF CommitLedger

LEMMA CommitLedgerStep == CommitTypeOK /\ CommitLedger /\ [CommitNext]_allVars => CommitLedger'
<1> SUFFICES ASSUME CommitTypeOK, CommitLedger, [CommitNext]_allVars PROVE CommitLedger'
  OBVIOUS
<1>1. CASE UNCHANGED allVars
  BY <1>1, CommitFrame DEF allVars, vars, commitVars
<1>2. CASE \E e \in Entry : CommitStep(e)
  BY <1>2, HandlerKeepsLedger, PushKeepsLedger, PutKeepsLedger, ElectionKeepsLedger DEF CommitStep
<1> QED
  BY <1>1, <1>2, ElectionKeepsLedger, ApplyKeepsLedger, Zenon DEF CommitNext

\* The commit ledger holds in every reachable state.
THEOREM CommitLedgerInvariant == CommitSpec => []CommitLedger
<1>1. CommitInit => CommitLedger
  <2> SUFFICES ASSUME CommitInit PROVE CommitLedger
    OBVIOUS
  <2>1. \A n \in Node, e \in Entry : ~Holds(n, e)
    BY DEF CommitInit, Holds
  <2>2. /\ msgs = {}
        /\ \A e \in Entry : /\ rep[e].pc = "idle" /\ rep[e].acks = {} /\ call[e].pc = "idle"
    BY DEF CommitInit, Init, NoCall, NoRequest
  <2> QED
    BY <2>1, <2>2, TxnAssumption
    DEF CommitLedger, PushOrigin, CallOwnsPush, HeldWhenPushed, AcksApplied, TxnOrder
<1> QED
  BY <1>1, CommitTypeInvariant, CommitLedgerStep, PTL DEF CommitSpec

\* The transactional path: what the committing coord has applied, and what it
\* has acknowledged, is on a majority of the coords.
THEOREM CommittedOnQuorumHolds == CommitSpec => [](CommittedOnQuorum /\ AckedOnQuorum)
<1>1. CommitTypeOK /\ CommitLedger => CommittedOnQuorum /\ AckedOnQuorum
  <2> SUFFICES ASSUME CommitTypeOK, CommitLedger, NEW e \in Txn,
                      \/ call[e].node \in Node /\ Holds(call[e].node, e)
                      \/ call[e].pc = "acked"
               PROVE  IsQuorum(Holders(e))
    BY DEF CommittedOnQuorum, AckedOnQuorum
  <2>1. e \in Entry /\ call[e].node \in Node /\ Holds(call[e].node, e)
    BY TxnAssumption DEF CommitTypeOK, HandlerKnown, Request, CommitLedger, TxnOrder
  <2>2. rep[e].pc = "acked" /\ rep[e].node = call[e].node
    BY <2>1 DEF CommitLedger, TxnOrder, CallOwnsPush
  <2>3. rep[e].acks \in SUBSET Node /\ IsQuorum(rep[e].acks)
    BY <2>1, <2>2 DEF CommitTypeOK, TypeOK, Call, CommitLedger, AcksApplied
  <2>4. rep[e].acks \subseteq Holders(e)
    BY <2>1, <2>2, <2>3 DEF CommitLedger, AcksApplied, Holders
  <2> QED
    BY <2>3, <2>4, QuorumGrows DEF Holders
<1> QED
  BY <1>1, CommitTypeInvariant, CommitLedgerInvariant, PTL

-----------------------------------------------------------------------------
(* The best-effort path.                                                   *)

\* The lead under which the request for e was admitted.
Reign(e) == <<call[e].term, call[e].node>>

\* A request is admitted by a coord that won its term; on the best-effort path the
\* coord has the entry from its local commit on, and it acknowledges what a majority
\* acknowledged to it, or what it could no longer replicate as the leader.
AckLedger ==
  /\ \A e \in Entry : call[e].pc # "idle" => Reign(e) \in elected
  /\ \A e \in Entry \ Txn :
       /\ call[e].pc \in {"wal", "replicate", "wait", "acked"} => Holds(call[e].node, e)
       /\ call[e].pc = "acked" => rep[e].pc = "acked" \/ ~Leads(Reign(e))

\* Nothing a coord has applied is lost again while it runs, and a replication
\* call that reached its quorum stays so.
Kept ==
  /\ \A n \in Node, e \in Entry : Holds(n, e) => Holds(n, e)'
  /\ \A e \in Entry : rep[e].pc = "acked" => rep'[e].pc = "acked"

LEMMA KeptStep == CommitTypeOK /\ [CommitNext]_allVars => Kept
<1> SUFFICES ASSUME CommitTypeOK, [CommitNext]_allVars PROVE Kept
  OBVIOUS
<1>s. /\ store \in [Node -> Seq(Entry)] /\ rep \in [Entry -> Call]
      /\ call \in [Entry -> Request] /\ HandlerKnown
  BY DEF CommitTypeOK, TypeOK
<1>1. \A n \in Node, e \in Entry : Holds(n, e) => Holds(n, e)'
  <2>1. CASE store' = store
    BY <2>1, SameHolds
  <2>2. ASSUME NEW k \in Node, NEW d \in Entry, store' = [store EXCEPT ![k] = Append(@, d)]
        PROVE  \A n \in Node, e \in Entry : Holds(n, e) => Holds(n, e)'
    BY <2>2, <1>s, AppendHolds, Zenon
  <2>3. ASSUME NEW m \in msgs, NEW ok \in BOOLEAN, ApplyPushed(m, ok)
        PROVE  \A n \in Node, e \in Entry : Holds(n, e) => Holds(n, e)'
    <3>1. m.to \in Node /\ m.entry \in Entry
      BY <2>3, MessageShape DEF CommitTypeOK, TypeOK, ApplyPushed, AppendDone
    <3> QED
      BY <2>1, <2>2, <2>3, <3>1, Zenon DEF ApplyPushed, ApplyEntry
  <2>4. ASSUME NEW e \in Entry, PutLocal(e)
        PROVE  \A n \in Node, d \in Entry : Holds(n, d) => Holds(n, d)'
    <3>1. call[e].node \in Node
      BY <2>4, <1>s DEF PutLocal, HandlerKnown, Request
    <3> QED
      BY <2>1, <2>2, <2>4, <3>1, Zenon DEF PutLocal, ApplyEntry
  <2> QED
    BY <2>1, <2>3, <2>4, Zenon
    DEF CommitNext, CommitStep, Admit, CallReplicate, ReplicateDone, AppendLocal, allVars, commitVars
<1>2. ASSUME NEW e \in Entry, rep[e].pc = "acked" PROVE rep'[e].pc = "acked"
  <2>1. CASE rep' = rep
    BY <1>2, <2>1
  <2>2. ASSUME NEW d \in Entry, CallReplicate(d) PROVE rep'[e].pc = "acked"
    BY <1>2, <1>s, <2>2 DEF CallReplicate, ReplicateCheck, Call, vars
  <2>3. ASSUME NEW d \in Entry, ReplicatePush(d) PROVE rep'[e].pc = "acked"
    BY <1>2, <1>s, <2>3 DEF ReplicatePush, Call
  <2>4. ASSUME NEW d \in Entry, NEW p \in Node, PushFail(d, p) PROVE rep'[e].pc = "acked"
    BY <1>2, <1>s, <2>4 DEF PushFail, Call
  <2>5. ASSUME NEW d \in Entry, ReplicateDone(d) PROVE rep'[e].pc = "acked"
    BY <1>2, <1>s, <2>5 DEF ReplicateDone, ReplicateReturn, Call
  <2>6. ASSUME NEW m \in msgs, HandleAppendWAL(m) PROVE rep'[e].pc = "acked"
    BY <1>2, <1>s, <2>6 DEF HandleAppendWAL, Call
  <2>7. ASSUME NEW m \in msgs, NEW ok \in BOOLEAN, ApplyPushed(m, ok) PROVE rep'[e].pc = "acked"
    BY <1>2, <1>s, <2>7 DEF ApplyPushed, AppendDone, Call
  <2>8. ASSUME NEW n \in Node, RunStep(n) PROVE rep' = rep
    BY <2>8 DEF RunStep, Dispatch, FollowerTimeout, StartCampaign, Tally, Broadcast, Tick, VoteFail
  <2> QED
    BY <2>1, <2>2, <2>3, <2>4, <2>5, <2>6, <2>7, <2>8, Zenon
    DEF CommitNext, CommitStep, HandlerStep, Admit, PutLocal, AppendLocal, WalMoves, VoteReply, HandleVote,
        HandleHeartbeat, HeartbeatReply, allVars, vars
<1> QED
  BY <1>1, <1>2 DEF Kept

\* What a step does to the handler of e.
Admitted(e) ==
  /\ call'[e].pc # "idle" /\ (e \notin Txn => call'[e].pc = "put")
  /\ call'[e].node \in Node /\ state[call'[e].node] = "Leader"
  /\ call'[e].term = currentTerm[call'[e].node]

Moved(e) ==
  /\ call[e].pc # "idle" /\ call'[e].node = call[e].node /\ call'[e].term = call[e].term
  /\ e \notin Txn =>
       \/ call'[e].pc = "failed"
       \/ call[e].pc = "put" /\ call'[e].pc = "wal" /\ Holds(call[e].node, e)'
       \/ call[e].pc = "wal" /\ call'[e].pc = "replicate"
       \/ call[e].pc = "wal" /\ call'[e].pc = "acked" /\ state'[call[e].node] # "Leader"
       \/ call[e].pc = "replicate" /\ call'[e].pc = "wait"
       \/ call[e].pc = "wait" /\ call'[e].pc = "acked" /\ rep'[e].pc = "acked"

LEMMA HandlerMoves ==
  ASSUME CommitTypeOK, [CommitNext]_allVars, NEW e \in Entry
  PROVE  call'[e] = call[e] \/ Admitted(e) \/ Moved(e)
<1>s. /\ store \in [Node -> Seq(Entry)] /\ rep \in [Entry -> Call]
      /\ call \in [Entry -> Request] /\ HandlerKnown
  BY DEF CommitTypeOK, TypeOK
<1>m. ASSUME NEW d \in Entry, NEW p, Goto(d, p)
      PROVE  /\ d # e => call'[e] = call[e]
             /\ call'[d].pc = p /\ call'[d].node = call[d].node /\ call'[d].term = call[d].term
  BY <1>m, <1>s DEF Goto, Request
<1>1. ASSUME NEW d \in Entry, NEW n \in Node, Admit(n, d) PROVE call'[e] = call[e] \/ Admitted(e)
  BY <1>1, <1>s DEF Admit, Admitted
<1>2. ASSUME NEW d \in Entry, CallReplicate(d) PROVE call'[e] = call[e] \/ Moved(e)
  <2>1. call[d].pc = "replicate" /\ (Goto(d, "wait") \/ Goto(d, "failed"))
    BY <1>2 DEF CallReplicate
  <2> QED
    BY <1>m, <2>1 DEF Moved
<1>3. ASSUME NEW d \in Entry, ReplicateDone(d) PROVE call'[e] = call[e] \/ Moved(e)
  <2>1. call[d].pc = "wait" /\ Goto(d, AfterReplicate(d))
    BY <1>3 DEF ReplicateDone
  <2>2. IsQuorum(rep[d].acks) => rep'[d].pc = "acked"
    BY <1>3, <1>s DEF ReplicateDone, ReplicateReturn, Call
  <2> QED
    BY <1>m, <2>1, <2>2 DEF Moved, AfterReplicate
<1>4. ASSUME NEW d \in Entry, PutLocal(d) PROVE call'[e] = call[e] \/ Moved(e)
  <2>1. call[d].node \in Node
    BY <1>4, <1>s DEF PutLocal, HandlerKnown, Request
  <2>2. CASE Goto(d, "failed")
    BY <1>4, <1>m, <2>2 DEF Moved, PutLocal
  <2>3. CASE Goto(d, "wal") /\ ApplyEntry(call[d].node, d)
    <3>1. store'[call[d].node] = Append(store[call[d].node], d)
      BY <1>s, <2>1, <2>3 DEF ApplyEntry
    <3>2. Len(store'[call[d].node]) \in 1 .. Len(store'[call[d].node])
          /\ store'[call[d].node][Len(store'[call[d].node])] = d
      BY <1>s, <2>1, <3>1
    <3>3. d = e => Holds(call[e].node, e)'
      BY <1>m, <2>3, <3>2 DEF Holds
    <3>4. call[d].pc = "put"
      BY <1>4 DEF PutLocal
    <3> QED
      BY <1>m, <2>3, <3>3, <3>4 DEF Moved
  <2> QED
    BY <1>4, <2>2, <2>3 DEF PutLocal
<1>5. ASSUME NEW d \in Entry, AppendLocal(d) PROVE call'[e] = call[e] \/ Moved(e)
  <2>1. call[d].pc = "wal" /\ (Goto(d, AfterAppend(d)) \/ Goto(d, "failed")) /\ state' = state
    BY <1>5 DEF AppendLocal, WalMoves, electorVars
  <2> QED
    BY <1>m, <2>1 DEF Moved, AfterAppend
<1>6. CASE call' = call
  BY <1>6
<1> QED
  BY <1>1, <1>2, <1>3, <1>4, <1>5, <1>6, Zenon DEF CommitNext, CommitStep, ApplyPushed, allVars, commitVars


LEMMA AckLedgerStep ==
  ASSUME CommitTypeOK, VoteLedger, ReignLedger, LeaderWonItsTerm, AckLedger, [CommitNext]_allVars
  PROVE  AckLedger'
<1>t. TypeOK /\ [Next]_vars
  BY CommitStepRefines DEF CommitTypeOK
<1>k. Kept
  BY KeptStep
<1>g. elected \subseteq elected'
  BY <1>t, CampaignStepLemma DEF CampaignStep
<1>n. \A e \in Entry : call[e].pc # "idle" => call[e].node \in Node
  BY DEF CommitTypeOK, HandlerKnown, Request
<1>1. ASSUME NEW e \in Entry, call'[e].pc # "idle" PROVE Reign(e)' \in elected'
  <2>1. CASE Admitted(e)
    <3>1. <<call'[e].term, call'[e].node>> \in elected
      BY <2>1 DEF Admitted, LeaderWonItsTerm
    <3> QED
      BY <1>g, <3>1 DEF Reign
  <2>2. CASE call'[e] = call[e] \/ Moved(e)
    <3>1. call[e].pc # "idle" /\ Reign(e)' = Reign(e)
      BY <1>1, <2>2 DEF Moved, Reign
    <3> QED
      BY <1>g, <3>1 DEF AckLedger
  <2> QED
    BY <2>1, <2>2, HandlerMoves
<1>2. ASSUME NEW e \in Entry \ Txn, call'[e].pc \in {"wal", "replicate", "wait", "acked"}
      PROVE  Holds(call[e].node, e)'
  <2>1. ~Admitted(e)
    BY <1>2 DEF Admitted
  <2>2. call'[e] = call[e] \/ Moved(e)
    BY <2>1, HandlerMoves
  <2>3. CASE Holds(call[e].node, e) /\ call[e].pc # "idle" /\ call'[e].node = call[e].node
    <3>1. PICK n \in Node : n = call[e].node
      BY <1>n, <2>3
    <3>2. Holds(n, e)'
      BY <1>k, <2>3, <3>1 DEF Kept
    <3> QED
      BY <2>3, <3>1, <3>2 DEF Holds
  <2> QED
    BY <1>2, <2>2, <2>3 DEF Moved, AckLedger
<1>3. ASSUME NEW e \in Entry \ Txn, call'[e].pc = "acked"
      PROVE  rep'[e].pc = "acked" \/ ~Leads(Reign(e))'
  <2>1. ~Admitted(e)
    BY <1>3 DEF Admitted
  <2>2. call'[e] = call[e] \/ Moved(e)
    BY <2>1, HandlerMoves
  <2>3. CASE call'[e] = call[e]
    <3>1. PICK x \in elected : x = Reign(e)
      BY <1>3, <2>3 DEF AckLedger
    <3>2. rep[e].pc = "acked" \/ ~Leads(x)
      BY <1>3, <2>3, <3>1 DEF AckLedger
    <3>3. ~Leads(x) => ~Leads(x)'
      BY <1>t, LostStep
    <3>4. Reign(e)' = x
      BY <2>3, <3>1 DEF Reign
    <3> QED
      BY <1>k, <3>2, <3>3, <3>4 DEF Kept, Leads
  <2>4. CASE Moved(e)
    <3>1. rep'[e].pc = "acked" \/ state'[call'[e].node] # "Leader"
      BY <1>3, <2>4 DEF Moved
    <3> QED
      BY <3>1 DEF Leads, Reign
  <2> QED
    BY <2>2, <2>3, <2>4
<1> QED
  BY <1>1, <1>2, <1>3, Zenon DEF AckLedger

\* The best-effort path: what a coord acknowledges is on a majority of the coords,
\* unless the coord no longer leads the term in which it admitted the request.
THEOREM AckedOrDeposedHolds == CommitSpec => []AckedOrDeposed
<1>1. CommitTypeOK /\ CommitLedger /\ AckLedger => AckedOrDeposed
  <2> SUFFICES ASSUME CommitTypeOK, CommitLedger, AckLedger, NEW e \in Entry \ Txn, call[e].pc = "acked",
                      Leads(Reign(e))
               PROVE  IsQuorum(Holders(e))
    BY DEF AckedOrDeposed, Leads, Reign
  <2>1. rep[e].pc = "acked" /\ Holds(call[e].node, e)
    BY DEF AckLedger
  <2>2. rep[e].node = call[e].node /\ rep[e].acks \in SUBSET Node /\ IsQuorum(rep[e].acks)
    BY <2>1 DEF CommitTypeOK, TypeOK, Call, CommitLedger, CallOwnsPush, AcksApplied
  <2>3. rep[e].acks \subseteq Holders(e)
    BY <2>1, <2>2 DEF CommitLedger, AcksApplied, Holders
  <2> QED
    BY <2>2, <2>3, QuorumGrows DEF Holders
<1>2. CommitInit => ReignLedger /\ AckLedger
  BY ReignInit DEF CommitInit, NoRequest, AckLedger
<1>3. CommitTypeOK /\ VoteLedger /\ ReignLedger /\ LeaderWonItsTerm /\ AckLedger /\ [CommitNext]_allVars
      => ReignLedger' /\ AckLedger'
  BY AckLedgerStep, CommitStepRefines, ReignStep DEF CommitTypeOK
<1>4. CommitSpec => [](VoteLedger /\ LeaderWonItsTerm)
  BY CommitRefinesElection, VoteLedgerInvariant, LeaderWonItsTermHolds, PTL DEF ElectionRefined
<1> QED
  BY <1>1, <1>2, <1>3, <1>4, CommitTypeInvariant, CommitLedgerInvariant, PTL DEF CommitSpec

=============================================================================
