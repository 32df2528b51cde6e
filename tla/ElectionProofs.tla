--------------------------- MODULE ElectionProofs ---------------------------
(***************************************************************************)
(* Proofs about Election, for any finite set of nodes, any set of entries  *)
(* and any bounds.                                                         *)
(***************************************************************************)
EXTENDS Election, FiniteSetTheorems, TLAPS

\* The provers tried at a leaf that names none, in this order.
USE SMTT(30), ZenonT(30)

\* What a vote request, a heartbeat, ... carries, by its type.
LEMMA MessageShape ==
  ASSUME NEW m \in Message
  PROVE  /\ m.type = "vote" => m \in [type : {"vote"}, from : Node, to : Node, term : Term,
                                      seq : 0 .. MaxSeq]
         /\ m.type = "voteReply" => m \in [type : {"voteReply"}, from : Node, to : Node,
                                           term : Term]
         /\ m.type = "heartbeat" => m \in [type : {"heartbeat"}, from : Node, to : Node,
                                           term : Term]
         /\ m.type = "heartbeatReply" => m \in [type : {"heartbeatReply"}, to : Node,
                                                term : Term]
         /\ m.type \in {"append", "apply"} =>
              m \in [type : {"append", "apply"}, from : Node, to : Node, term : Term,
                     entry : Entry]
BY DEF Message

\* StepDownTo keeps the fields it touches well typed.
LEMMA StepDownType ==
  ASSUME TypeOK, NEW n \in Node, NEW t \in Term, StepDownTo(n, t)
  PROVE  /\ state' \in [Node -> Role] /\ currentTerm' \in [Node -> Term]
         /\ votedFor' \in [Node -> Node \cup {None}] /\ leader' \in [Node -> Node \cup {None}]
BY DEF TypeOK, StepDownTo, Role, Term

LEMMA TypeStep == TypeOK /\ [Next]_vars => TypeOK'
<1> SUFFICES ASSUME TypeOK, [Next]_vars PROVE TypeOK'
  OBVIOUS
<1> USE BoundAssumption
<1>c. campaign \in [Node -> Campaign] /\ rep \in [Entry -> Call]
  BY DEF TypeOK
<1>1. ASSUME NEW n \in Node, Dispatch(n) PROVE TypeOK'
  BY <1>1 DEF TypeOK, Dispatch, Pc, electorVars, historyVars, CallerKnown
<1>2. ASSUME NEW n \in Node, FollowerTimeout(n) PROVE TypeOK'
  BY <1>2 DEF TypeOK, FollowerTimeout, Role, historyVars, CallerKnown
<1>3. ASSUME NEW n \in Node, StartCampaign(n) PROVE TypeOK'
  <2>1. currentTerm[n] + 1 \in Term
    BY <1>3 DEF TypeOK, StartCampaign, MayCampaign, Term
  <2>2. msgs' \in SUBSET Message
    BY <1>3, <2>1 DEF TypeOK, StartCampaign, Message, Peers
  <2>3. campaign' \in [Node -> Campaign]
    BY <1>3, <2>1 DEF TypeOK, StartCampaign, Campaign, Peers
  <2>4. grants' \in SUBSET (Node \X Term \X Node)
    BY <1>3, <2>1 DEF TypeOK, StartCampaign
  <2> QED
    BY <1>3, <2>1, <2>2, <2>3, <2>4 DEF TypeOK, StartCampaign, Pc, CallerKnown
<1>4. ASSUME NEW n \in Node, Tally(n) PROVE TypeOK'
  <2>1. campaign' \in [Node -> Campaign]
    BY <1>4 DEF TypeOK, Tally, Campaign, NoCampaign, Term
  <2>2. state' \in [Node -> Role] /\ leader' \in [Node -> Node \cup {None}]
    BY <1>4 DEF TypeOK, Tally, Role
  <2>3. elected' \in SUBSET (Term \X Node)
    BY <1>4 DEF TypeOK, Tally
  <2> QED
    BY <1>4, <2>1, <2>2, <2>3 DEF TypeOK, Tally, Pc, CallerKnown
<1>5. ASSUME NEW n \in Node, NEW S \in SUBSET Peers(n), Broadcast(n, S) PROVE TypeOK'
  <2>1. msgs' \in SUBSET Message
    BY <1>5 DEF TypeOK, Broadcast, Heartbeat, Message, Peers
  <2> QED
    BY <1>5, <2>1 DEF TypeOK, Broadcast, Heartbeat, Pc, electorVars, historyVars, CallerKnown
<1>6. ASSUME NEW n \in Node, Tick(n) PROVE TypeOK'
  BY <1>6 DEF TypeOK, Tick, Pc, electorVars, historyVars, CallerKnown
<1>7. ASSUME NEW n \in Node, NEW p \in Node, VoteFail(n, p) PROVE TypeOK'
  <2>1. campaign' \in [Node -> Campaign]
    BY <1>7, <1>c DEF VoteFail, Campaign
  <2> QED
    BY <1>7, <2>1 DEF TypeOK, VoteFail, electorVars, historyVars, CallerKnown
<1>8. ASSUME NEW m \in msgs, VoteReply(m) PROVE TypeOK'
  <2>1. m.to \in Node /\ m.term \in Term
    BY <1>8, MessageShape DEF TypeOK, VoteReply
  <2>2. campaign' \in [Node -> Campaign]
    BY <1>8, <1>c, <2>1 DEF VoteReply, Campaign
  <2> QED
    BY <1>8, <2>1, <2>2, StepDownType DEF TypeOK, VoteReply, historyVars, CallerKnown
<1>9. ASSUME NEW m \in msgs, HandleVote(m) PROVE TypeOK'
  <2>1. m.to \in Node /\ m.from \in Node /\ m.term \in Term
    BY <1>9, MessageShape DEF TypeOK, HandleVote
  <2>2. campaign' \in [Node -> Campaign]
    BY <1>9, <1>c, <2>1 DEF HandleVote, Campaign
  <2>3. msgs' \in SUBSET Message
    BY <1>9, <2>1 DEF TypeOK, HandleVote, Message
  <2>4. grants' \in SUBSET (Node \X Term \X Node)
    BY <1>9, <2>1 DEF TypeOK, HandleVote
  <2>5. /\ state' \in [Node -> Role] /\ currentTerm' \in [Node -> Term]
        /\ votedFor' \in [Node -> Node \cup {None}] /\ leader' \in [Node -> Node \cup {None}]
    BY <1>9, <2>1 DEF TypeOK, HandleVote, Role
  <2> QED
    BY <1>9, <2>2, <2>3, <2>4, <2>5 DEF TypeOK, HandleVote, CallerKnown
<1>10. ASSUME NEW m \in msgs, HandleHeartbeat(m) PROVE TypeOK'
  <2>1. m.to \in Node /\ m.from \in Node /\ m.term \in Term
    BY <1>10, MessageShape DEF TypeOK, HandleHeartbeat
  <2>2. msgs' \in SUBSET Message
    BY <1>10, <2>1 DEF TypeOK, HandleHeartbeat, Message
  <2> QED
    BY <1>10, <2>1, <2>2 DEF TypeOK, HandleHeartbeat, Role, electorVars, historyVars, CallerKnown
<1>11. ASSUME NEW m \in msgs, HeartbeatReply(m) PROVE TypeOK'
  <2>1. m.to \in Node /\ m.term \in Term
    BY <1>11, MessageShape DEF TypeOK, HeartbeatReply
  <2> QED
    BY <1>11, <2>1, StepDownType DEF TypeOK, HeartbeatReply, historyVars, CallerKnown
<1>12. ASSUME NEW m \in msgs, HandleAppendWAL(m) PROVE TypeOK'
  <2>1. /\ m \in [type : {"append", "apply"}, from : Node, to : Node, term : Term,
                  entry : Entry]
    BY <1>12, MessageShape DEF TypeOK, HandleAppendWAL
  <2>2. [m EXCEPT !.type = "apply"] \in Message
    BY <2>1 DEF Message
  <2>3. rep' \in [Entry -> Call]
    BY <1>12, <1>c, <2>1 DEF HandleAppendWAL, Call
  <2>4. /\ state' \in [Node -> Role] /\ currentTerm' \in [Node -> Term]
        /\ votedFor' \in [Node -> Node \cup {None}] /\ leader' \in [Node -> Node \cup {None}]
    BY <1>12, <2>1 DEF TypeOK, HandleAppendWAL, Role, electorVars
  <2>5. msgs' \in SUBSET Message
    BY <1>12, <2>2 DEF TypeOK, HandleAppendWAL
  <2>6. CallerKnown'
    BY <1>12, <2>1 DEF TypeOK, HandleAppendWAL, CallerKnown, Call
  <2> QED
    BY <1>12, <2>3, <2>4, <2>5, <2>6 DEF TypeOK, HandleAppendWAL, historyVars
<1>13. ASSUME NEW n \in Node, NEW e \in Entry, ReplicateCheck(n, e) PROVE TypeOK'
  <2>0. [rep[e] EXCEPT !.pc = "checked", !.node = n] \in Call
    BY <1>c, Zenon DEF Call
  <2>1. rep' \in [Entry -> Call]
    BY <1>13, <1>c, <2>0 DEF ReplicateCheck
  <2>2. CallerKnown'
    BY <1>13 DEF TypeOK, ReplicateCheck, Call, CallerKnown
  <2> QED
    BY <1>13, <2>1, <2>2 DEF TypeOK, ReplicateCheck, electorVars, historyVars
<1>14. ASSUME NEW e \in Entry, ReplicatePush(e) PROVE TypeOK'
  <2>1. rep[e].node \in Node
    BY <1>14 DEF TypeOK, ReplicatePush, CallerKnown
  <2>2. rep' \in [Entry -> Call]
    <3>1. currentTerm[rep[e].node] \in Term
      BY <2>1 DEF TypeOK
    <3> QED
      BY <1>14, <1>c, <2>1, <3>1 DEF ReplicatePush, Call, Peers
  <2>3. msgs' \in SUBSET Message
    BY <1>14, <2>1 DEF TypeOK, ReplicatePush, Message, Peers, electorVars
  <2>4. CallerKnown'
    BY <1>14, <2>1 DEF TypeOK, ReplicatePush, Call, CallerKnown
  <2> QED
    BY <1>14, <2>2, <2>3, <2>4 DEF TypeOK, ReplicatePush, electorVars, historyVars
<1>15. ASSUME NEW e \in Entry, NEW p \in Node, PushFail(e, p) PROVE TypeOK'
  <2>1. rep' \in [Entry -> Call]
    BY <1>15, <1>c DEF PushFail, Call
  <2>2. CallerKnown'
    BY <1>15 DEF TypeOK, PushFail, Call, CallerKnown
  <2> QED
    BY <1>15, <2>1, <2>2 DEF TypeOK, PushFail, electorVars, historyVars
<1>16. ASSUME NEW m \in msgs, NEW ok \in BOOLEAN, AppendDone(m, ok) PROVE TypeOK'
  <2>1. m.entry \in Entry /\ m.to \in Node
    BY <1>16, MessageShape DEF TypeOK, AppendDone
  <2>2. rep' \in [Entry -> Call]
    <3>1. \E A \in SUBSET Node :
            rep' = [rep EXCEPT ![m.entry].waiting = @ \ {m.to}, ![m.entry].acks = A]
      <4>1. rep[m.entry].acks \cup {m.to} \in SUBSET Node /\ rep[m.entry].acks \in SUBSET Node
        BY <1>c, <2>1 DEF Call
      <4> QED BY <1>16, <4>1 DEF AppendDone
    <3> QED BY <1>c, <2>1, <3>1 DEF Call
  <2>3. CallerKnown'
    BY <1>16, <2>1 DEF TypeOK, AppendDone, CallerKnown, Call
  <2> QED
    BY <1>16, <2>2, <2>3 DEF TypeOK, AppendDone, electorVars, historyVars
<1>17. ASSUME NEW e \in Entry, ReplicateReturn(e) PROVE TypeOK'
  <2>1. rep' \in [Entry -> Call]
    BY <1>17, <1>c DEF ReplicateReturn, Call
  <2>2. CallerKnown'
    BY <1>17 DEF TypeOK, ReplicateReturn, Call, CallerKnown
  <2> QED
    BY <1>17, <2>1, <2>2 DEF TypeOK, ReplicateReturn, electorVars, historyVars
<1>18. ASSUME NEW n \in Node, NEW s \in 0 .. MaxSeq, WalMoves(n, s) PROVE TypeOK'
  BY <1>18 DEF TypeOK, WalMoves, electorVars, historyVars, CallerKnown
<1>19. CASE UNCHANGED vars
  BY <1>19 DEF TypeOK, vars, electorVars, historyVars, CallerKnown
<1> QED
  BY <1>1, <1>2, <1>3, <1>4, <1>5, <1>6, <1>7, <1>8, <1>9, <1>10, <1>11, <1>12, <1>13,
     <1>14, <1>15, <1>16, <1>17, <1>18, <1>19, Zenon
  DEF Next, RunStep, HandlerStep, ReplicateStep

\* The initial state is well typed.
LEMMA InitType == Init => TypeOK
BY BoundAssumption
DEF Init, TypeOK, Role, Term, Pc, Campaign, NoCampaign, Call, NoCall, CallerKnown

\* Whatever interleaving of goroutines, handlers and messages, every field of
\* the Elector keeps its type and its bounds.
THEOREM TypeInvariant == Spec => []TypeOK
BY InitType, TypeStep, PTL DEF Spec

-----------------------------------------------------------------------------
(* Terms and votes are stable: one step per action that touches them.      *)

TermAndVoteStep ==
  \A n \in Node : /\ currentTerm'[n] >= currentTerm[n]
                  /\ currentTerm'[n] = currentTerm[n] /\ votedFor[n] # None
                       => votedFor'[n] = votedFor[n]

LEMMA TermAndVoteStepLemma == TypeOK /\ [Next]_vars => TermAndVoteStep
<1> SUFFICES ASSUME TypeOK, [Next]_vars PROVE TermAndVoteStep
  OBVIOUS
<1>t. currentTerm \in [Node -> Int] /\ votedFor \in [Node -> Node \cup {None}] /\ Term \subseteq Int
  BY BoundAssumption DEF TypeOK, Term
<1>1. ASSUME UNCHANGED <<currentTerm, votedFor>> PROVE TermAndVoteStep
  BY <1>1, <1>t DEF TermAndVoteStep
<1>2. ASSUME NEW n \in Node, NEW t \in Term, StepDownTo(n, t) PROVE TermAndVoteStep
  BY <1>2, <1>t DEF TermAndVoteStep, StepDownTo
<1>3. ASSUME NEW n \in Node, StartCampaign(n) PROVE TermAndVoteStep
  BY <1>3, <1>t DEF TermAndVoteStep, StartCampaign
<1>4. ASSUME NEW m \in msgs, HandleVote(m) PROVE TermAndVoteStep
  <2>1. m.to \in Node /\ m.from \in Node /\ m.term \in Term
    BY <1>4, MessageShape DEF TypeOK, HandleVote
  <2> QED
    BY <1>4, <1>t, <2>1 DEF TermAndVoteStep, HandleVote, Granted
<1>5. ASSUME NEW m \in msgs, HandleHeartbeat(m) PROVE TermAndVoteStep
  <2>1. m.to \in Node /\ m.term \in Term
    BY <1>5, MessageShape DEF TypeOK, HandleHeartbeat
  <2> QED
    BY <1>5, <1>t, <2>1 DEF TermAndVoteStep, HandleHeartbeat, electorVars
<1>6. ASSUME NEW m \in msgs, HandleAppendWAL(m) PROVE TermAndVoteStep
  <2>1. m.to \in Node /\ m.term \in Term
    BY <1>6, MessageShape DEF TypeOK, HandleAppendWAL
  <2> QED
    BY <1>6, <1>t, <2>1 DEF TermAndVoteStep, HandleAppendWAL, electorVars
<1>7. ASSUME NEW m \in msgs, VoteReply(m) \/ HeartbeatReply(m) PROVE TermAndVoteStep
  <2>1. m.to \in Node /\ m.term \in Term
    BY <1>7, MessageShape DEF TypeOK, VoteReply, HeartbeatReply
  <2> QED
    BY <1>2, <1>7, <2>1 DEF VoteReply, HeartbeatReply
<1> QED
  BY <1>1, <1>3, <1>4, <1>5, <1>6, <1>7, Zenon
  DEF Next, RunStep, HandlerStep, ReplicateStep, Dispatch, FollowerTimeout, Tally, Broadcast, Heartbeat,
      Tick, VoteFail, ReplicateCheck, ReplicatePush, PushFail, AppendDone, ReplicateReturn,
      WalMoves, electorVars, vars

\* Terms never go back and votes never change within a term.
THEOREM TermAndVoteStability == Spec => TermAndVoteStable
<1>1. TypeOK /\ [Next]_vars => [TermAndVoteStep]_vars
  BY TermAndVoteStepLemma
<1> QED
  BY <1>1, TypeInvariant, PTL DEF Spec, TermAndVoteStable, TermAndVoteStep

-----------------------------------------------------------------------------
(* Every step keeps the vote ledger.                                       *)

\* A step that casts no vote keeps VoteOnce and VoteKept.
LEMMA NoVoteCast ==
  ASSUME TypeOK, TermAndVoteStep, VoteOnce, VoteKept, grants' = grants, TypeOK'
  PROVE  VoteOnce' /\ VoteKept'
<1>1. currentTerm \in [Node -> Int] /\ currentTerm' \in [Node -> Int] /\ Term \subseteq Int
  BY BoundAssumption DEF TypeOK, Term
<1>2. \A c \in Node : c # None
  BY NodeAssumption
<1>3. VoteOnce'
  BY DEF VoteOnce
<1>4. ASSUME NEW v \in Node, NEW c \in Node, NEW t \in Term, <<v, t, c>> \in grants'
      PROVE  t <= currentTerm'[v] /\ (t = currentTerm'[v] => votedFor'[v] = c)
  <2>1. t <= currentTerm[v] /\ (t = currentTerm[v] => votedFor[v] = c)
    BY <1>4 DEF VoteKept
  <2>2. t \in Int /\ currentTerm[v] \in Int /\ currentTerm'[v] \in Int
    BY <1>1
  <2>3. /\ currentTerm'[v] >= currentTerm[v]
        /\ currentTerm'[v] = currentTerm[v] /\ votedFor[v] # None => votedFor'[v] = votedFor[v]
    BY DEF TermAndVoteStep
  <2> QED
    BY <1>2, <2>1, <2>2, <2>3
<1> QED
  BY <1>3, <1>4 DEF VoteKept

\* One new vote, in a term the voter has not voted in before, or a repetition
\* of the vote it holds, keeps VoteOnce and VoteKept.
LEMMA OneVoteCast ==
  ASSUME TypeOK, TypeOK', TermAndVoteStep, VoteOnce, VoteKept,
         NEW v \in Node, NEW t \in Term, NEW c \in Node,
         grants' = grants \cup {<<v, t, c>>},
         currentTerm'[v] = t, votedFor'[v] = c,
         t > currentTerm[v] \/ (t = currentTerm[v] /\ votedFor[v] \in {None, c})
  PROVE  VoteOnce' /\ VoteKept'
<1>1. currentTerm \in [Node -> Int] /\ currentTerm' \in [Node -> Int] /\ Term \subseteq Int
  BY BoundAssumption DEF TypeOK, Term
<1>2. \A x \in Node : x # None
  BY NodeAssumption
<1>3. ASSUME NEW d \in Node, <<v, t, d>> \in grants PROVE d = c
  <2>1. t <= currentTerm[v] /\ (t = currentTerm[v] => votedFor[v] = d)
    BY <1>3 DEF VoteKept
  <2>2. t \in Int /\ currentTerm[v] \in Int
    BY <1>1
  <2> QED
    BY <1>2, <2>1, <2>2
<1>4. VoteOnce'
  <2> SUFFICES ASSUME NEW w \in Node, NEW a \in Node, NEW b \in Node, NEW s \in Term,
                      <<w, s, a>> \in grants', <<w, s, b>> \in grants'
               PROVE  a = b
    BY DEF VoteOnce
  <2>1. CASE w = v /\ s = t
    BY <1>3, <2>1
  <2>2. CASE ~(w = v /\ s = t)
    BY <2>2 DEF VoteOnce
  <2> QED
    BY <2>1, <2>2
<1>5. VoteKept'
  <2> SUFFICES ASSUME NEW w \in Node, NEW a \in Node, NEW s \in Term, <<w, s, a>> \in grants'
               PROVE  s <= currentTerm'[w] /\ (s = currentTerm'[w] => votedFor'[w] = a)
    BY DEF VoteKept
  <2>1. CASE <<w, s, a>> \in grants
    <3>1. s <= currentTerm[w] /\ (s = currentTerm[w] => votedFor[w] = a)
      BY <2>1 DEF VoteKept
    <3>2. s \in Int /\ currentTerm[w] \in Int /\ currentTerm'[w] \in Int
      BY <1>1
    <3>3. /\ currentTerm'[w] >= currentTerm[w]
          /\ currentTerm'[w] = currentTerm[w] /\ votedFor[w] # None
               => votedFor'[w] = votedFor[w]
      BY DEF TermAndVoteStep
    <3> QED
      BY <1>2, <3>1, <3>2, <3>3
  <2>2. CASE w = v /\ s = t /\ a = c
    BY <1>1, <2>2
  <2> QED
    BY <2>1, <2>2
<1> QED
  BY <1>4, <1>5

\* Votes are only counted once cast.
LEMMA CountedStep == TypeOK /\ VotesCounted /\ [Next]_vars => VotesCounted' /\ grants \subseteq grants'
<1> SUFFICES ASSUME TypeOK, VotesCounted, [Next]_vars PROVE VotesCounted' /\ grants \subseteq grants'
  OBVIOUS
<1>s. campaign \in [Node -> Campaign]
  BY DEF TypeOK
<1>0. ASSUME grants' = grants,
             \A k \in Node : /\ campaign'[k].term = campaign[k].term
                             /\ campaign'[k].votes = campaign[k].votes
      PROVE  VotesCounted' /\ grants \subseteq grants'
  BY <1>0 DEF VotesCounted
<1>1. ASSUME NEW n \in Node, StartCampaign(n) PROVE VotesCounted' /\ grants \subseteq grants'
  BY <1>1, <1>s DEF StartCampaign, VotesCounted, Campaign
<1>2. ASSUME NEW n \in Node, Tally(n) PROVE VotesCounted' /\ grants \subseteq grants'
  BY <1>2, <1>s DEF Tally, VotesCounted, NoCampaign
<1>3. ASSUME NEW n \in Node, NEW p \in Node, VoteFail(n, p)
      PROVE  VotesCounted' /\ grants \subseteq grants'
  <2>1. \A k \in Node : /\ campaign'[k].term = campaign[k].term
                        /\ campaign'[k].votes = campaign[k].votes
    BY <1>3, <1>s DEF VoteFail, Campaign
  <2> QED
    BY <1>0, <1>3, <2>1 DEF VoteFail, historyVars
<1>4. ASSUME NEW m \in msgs, VoteReply(m) PROVE VotesCounted' /\ grants \subseteq grants'
  <2>1. m.to \in Node
    BY <1>4, MessageShape DEF TypeOK, VoteReply
  <2>2. \A k \in Node : /\ campaign'[k].term = campaign[k].term
                        /\ campaign'[k].votes = campaign[k].votes
    BY <1>4, <1>s, <2>1 DEF VoteReply, Campaign
  <2> QED
    BY <1>0, <1>4, <2>2 DEF VoteReply, historyVars
<1>5. ASSUME NEW m \in msgs, HandleVote(m) PROVE VotesCounted' /\ grants \subseteq grants'
  <2>1. m.to \in Node /\ m.from \in Node /\ m.term \in Term
    BY <1>5, MessageShape DEF TypeOK, HandleVote
  <2> DEFINE granted == Granted(m)
  <2>2. grants' = IF granted THEN grants \cup {<<m.to, m.term, m.from>>} ELSE grants
    BY <1>5 DEF HandleVote
  <2>3. \A k \in Node : /\ campaign'[k].term = campaign[k].term
                        /\ \A x \in campaign'[k].votes :
                             \/ x \in campaign[k].votes
                             \/ granted /\ x = m.to /\ k = m.from /\ campaign[k].term = m.term
    <3>1. CASE campaign' = campaign
      BY <3>1
    <3>2. CASE /\ Awaited(m)
               /\ campaign' = [campaign EXCEPT ![m.from].waiting = @ \ {m.to},
                                               ![m.from].votes = IF granted THEN @ \cup {m.to} ELSE @]
      <4>1. campaign[m.from].term = m.term
        BY <3>2 DEF Awaited
      <4> QED BY <1>s, <2>1, <3>2, <4>1 DEF Campaign
    <3> QED BY <1>5, <3>1, <3>2, Zenon DEF HandleVote
  <2> QED
    BY <2>1, <2>2, <2>3 DEF VotesCounted
<1>6. ASSUME UNCHANGED <<campaign, grants>> PROVE VotesCounted' /\ grants \subseteq grants'
  BY <1>6 DEF VotesCounted
<1> QED
  BY <1>1, <1>2, <1>3, <1>4, <1>5, <1>6, Zenon
  DEF Next, RunStep, HandlerStep, ReplicateStep, Dispatch, FollowerTimeout, Broadcast, Heartbeat, Tick,
      HandleHeartbeat, HeartbeatReply, HandleAppendWAL, ReplicateCheck, ReplicatePush, PushFail,
      AppendDone, ReplicateReturn, WalMoves, historyVars, vars

\* A node that campaigns does not lead.
LEMMA NoLeaderCampaignsStep == TypeOK /\ NoLeaderCampaigns /\ [Next]_vars => NoLeaderCampaigns'
<1> SUFFICES ASSUME TypeOK, NoLeaderCampaigns, [Next]_vars PROVE NoLeaderCampaigns'
  OBVIOUS
<1>s. state \in [Node -> Role] /\ pc \in [Node -> Pc]
  BY DEF TypeOK
<1>1. ASSUME pc' = pc, \A k \in Node : state'[k] = "Leader" => state[k] = "Leader"
      PROVE  NoLeaderCampaigns'
  BY <1>1 DEF NoLeaderCampaigns
<1>2. ASSUME NEW n \in Node, Dispatch(n) \/ FollowerTimeout(n) \/ StartCampaign(n) \/ Tally(n) \/ Tick(n)
      PROVE  NoLeaderCampaigns'
  BY <1>2, <1>s DEF NoLeaderCampaigns, Dispatch, FollowerTimeout, StartCampaign, Tally, Tick,
                    electorVars
<1>3. ASSUME NEW n \in Node, NEW S \in SUBSET Peers(n), Broadcast(n, S) PROVE NoLeaderCampaigns'
  BY <1>3, <1>s DEF NoLeaderCampaigns, Broadcast, Heartbeat, electorVars
<1>4. ASSUME NEW m \in msgs,
             VoteReply(m) \/ HandleVote(m) \/ HandleHeartbeat(m) \/ HeartbeatReply(m) \/ HandleAppendWAL(m)
      PROVE  NoLeaderCampaigns'
  <2>1. \A k \in Node : state'[k] = "Leader" => state[k] = "Leader"
    BY <1>4, <1>s DEF VoteReply, HandleVote, HandleHeartbeat, HeartbeatReply, HandleAppendWAL,
                      StepDownTo, electorVars
  <2> QED
    BY <1>1, <1>4, <2>1 DEF VoteReply, HandleVote, HandleHeartbeat, HeartbeatReply, HandleAppendWAL
<1> QED
  BY <1>1, <1>2, <1>3, <1>4, Zenon
  DEF Next, RunStep, HandlerStep, ReplicateStep, VoteFail, ReplicateCheck, ReplicatePush,
      PushFail, AppendDone, ReplicateReturn, WalMoves, electorVars, vars

LEMMA LedgerStep == TypeOK /\ VoteLedger /\ [Next]_vars => VoteLedger'
<1> SUFFICES ASSUME TypeOK, VoteLedger, [Next]_vars PROVE VoteLedger'
  OBVIOUS
<1>t. TypeOK' /\ TermAndVoteStep
  BY TypeStep, TermAndVoteStepLemma
<1>v. VoteOnce /\ VoteKept /\ VotesCounted' /\ NoLeaderCampaigns'
  BY CountedStep, NoLeaderCampaignsStep DEF VoteLedger
<1>y. currentTerm \in [Node -> Term] /\ votedFor \in [Node -> Node \cup {None}]
  BY DEF TypeOK
<1>1. ASSUME NEW n \in Node, StartCampaign(n) PROVE VoteOnce' /\ VoteKept'
  <2>0. MayCampaign(n)
    BY <1>1 DEF StartCampaign
  <2>1. currentTerm[n] \in Int /\ currentTerm[n] + 1 \in Term
    BY <1>y, <2>0, BoundAssumption DEF MayCampaign, Term
  <2>2. currentTerm'[n] = currentTerm[n] + 1 /\ votedFor'[n] = n
    BY <1>1, <1>y DEF StartCampaign
  <2>3. grants' = grants \cup {<<n, currentTerm[n] + 1, n>>}
    BY <1>1 DEF StartCampaign
  <2>4. currentTerm[n] + 1 > currentTerm[n]
    BY <2>1
  <2> QED
    BY <1>t, <1>v, <2>1, <2>2, <2>3, <2>4, OneVoteCast
<1>2. ASSUME NEW m \in msgs, HandleVote(m) PROVE VoteOnce' /\ VoteKept'
  <2>1. m.to \in Node /\ m.from \in Node /\ m.term \in Term
    BY <1>2, MessageShape DEF TypeOK, HandleVote
  <2>2. currentTerm[m.to] \in Int /\ m.term \in Int
    BY <1>y, <2>1, BoundAssumption DEF Term
  <2> DEFINE v == m.to
             granted == Granted(m)
  <2>3. /\ grants' = IF granted THEN grants \cup {<<v, m.term, m.from>>} ELSE grants
        /\ granted => currentTerm'[v] = m.term /\ votedFor'[v] = m.from
    BY <1>2, <2>1, <2>2 DEF HandleVote, Granted, TypeOK
  <2>4. CASE granted
    BY <1>t, <1>v, <2>1, <2>2, <2>3, <2>4, OneVoteCast DEF Granted
  <2>5. CASE ~granted
    BY <1>t, <1>v, <2>3, <2>5, NoVoteCast
  <2> QED
    BY <2>4, <2>5
<1>3. ASSUME grants' = grants PROVE VoteOnce' /\ VoteKept'
  BY <1>3, <1>t, <1>v, NoVoteCast
<1>4. VoteOnce' /\ VoteKept'
  BY <1>1, <1>2, <1>3, Zenon
  DEF Next, RunStep, HandlerStep, ReplicateStep, Dispatch, FollowerTimeout, Tally, Broadcast, Heartbeat,
      Tick, VoteFail, VoteReply, HandleHeartbeat, HeartbeatReply, HandleAppendWAL,
      ReplicateCheck, ReplicatePush, PushFail, AppendDone, ReplicateReturn, WalMoves,
      historyVars, vars
<1> QED
  BY <1>v, <1>4 DEF VoteLedger

\* The ledger holds in every reachable state.
THEOREM VoteLedgerInvariant == Spec => []VoteLedger
<1>1. Init => VoteLedger
  BY DEF Init, VoteLedger, VoteOnce, VoteKept, VotesCounted, NoLeaderCampaigns, NoCampaign
<1> QED
  BY <1>1, LedgerStep, TypeInvariant, PTL DEF Spec

-----------------------------------------------------------------------------
(* Majorities.                                                             *)

\* A set of nodes that contains a quorum is a quorum.
LEMMA QuorumGrows ==
  ASSUME NEW A \in SUBSET Node, NEW B \in SUBSET Node, A \subseteq B, IsQuorum(A)
  PROVE  IsQuorum(B)
<1>1. IsFiniteSet(A) /\ IsFiniteSet(B) /\ IsFiniteSet(Node)
  BY NodeAssumption, FS_Subset
<1>2. /\ Cardinality(A) <= Cardinality(B)
      /\ Cardinality(A) \in Nat /\ Cardinality(B) \in Nat /\ Cardinality(Node) \in Nat
  BY <1>1, FS_Subset, FS_CardinalityType
<1> QED
  BY <1>2 DEF IsQuorum

\* Two quorums share a node.
LEMMA QuorumsMeet ==
  ASSUME NEW A \in SUBSET Node, NEW B \in SUBSET Node, IsQuorum(A), IsQuorum(B)
  PROVE  \E v \in Node : v \in A /\ v \in B
<1>1. IsFiniteSet(Node) /\ IsFiniteSet(A) /\ IsFiniteSet(B)
  BY NodeAssumption, FS_Subset
<1>2. Cardinality(A) \in Nat /\ Cardinality(B) \in Nat /\ Cardinality(Node) \in Nat
  BY <1>1, FS_CardinalityType
<1>3. Cardinality(A) + Cardinality(B) > Cardinality(Node)
  BY <1>2 DEF IsQuorum
<1>4. A \cap B # {}
  BY <1>1, <1>3, FS_MajoritiesIntersect
<1> QED
  BY <1>4

LEMMA MajorityStep ==
  TypeOK /\ VotesCounted /\ ElectedByMajority /\ [Next]_vars => ElectedByMajority'
<1> SUFFICES ASSUME TypeOK, VotesCounted, ElectedByMajority, [Next]_vars PROVE ElectedByMajority'
  OBVIOUS
<1>g. grants \subseteq grants'
  BY CountedStep
<1>1. ASSUME NEW x \in elected PROVE IsQuorum({v \in Node : <<v, x[1], x[2]>> \in grants'})
  <2>1. IsQuorum({v \in Node : <<v, x[1], x[2]>> \in grants})
    BY DEF ElectedByMajority
  <2> QED
    BY <1>g, <2>1, QuorumGrows, Zenon
<1>2. CASE elected' = elected
  BY <1>1, <1>2 DEF ElectedByMajority
<1>3. ASSUME NEW n \in Node, Tally(n) PROVE ElectedByMajority'
  <2>1. CASE elected' = elected
    BY <1>2, <2>1
  <2>2. CASE /\ currentTerm[n] = campaign[n].term /\ IsQuorum(campaign[n].votes)
             /\ elected' = elected \cup {<<currentTerm[n], n>>}
    <3>1. campaign[n].votes \in SUBSET Node
      BY DEF TypeOK, Campaign
    <3>2. campaign[n].votes \subseteq {v \in Node : <<v, currentTerm[n], n>> \in grants'}
      BY <1>g, <2>2, <3>1 DEF VotesCounted
    <3>3. IsQuorum({v \in Node : <<v, currentTerm[n], n>> \in grants'})
      BY <2>2, <3>1, <3>2, QuorumGrows, Zenon
    <3>4. ASSUME NEW x \in elected' PROVE IsQuorum({v \in Node : <<v, x[1], x[2]>> \in grants'})
      <4>1. CASE x \in elected
        BY <1>1, <4>1
      <4>2. CASE x = <<currentTerm[n], n>>
        BY <3>3, <4>2
      <4> QED
        BY <2>2, <4>1, <4>2
    <3> QED
      BY <3>4 DEF ElectedByMajority, IsQuorum
  <2> QED
    BY <1>3, <2>1, <2>2 DEF Tally
<1> QED
  BY <1>2, <1>3, Zenon
  DEF Next, RunStep, HandlerStep, ReplicateStep, Dispatch, FollowerTimeout, StartCampaign,
      Broadcast, Heartbeat, Tick, VoteFail, VoteReply, HandleVote, HandleHeartbeat, HeartbeatReply,
      HandleAppendWAL, ReplicateCheck, ReplicatePush, PushFail, AppendDone, ReplicateReturn,
      WalMoves, historyVars, vars

\* No term is won twice as long as no node loses its votes in a restart.
THEOREM ElectionSafetyHolds == Spec => []ElectionSafety
<1>1. Init => ElectedByMajority
  BY DEF Init, ElectedByMajority
<1>2. Spec => []ElectedByMajority
  BY <1>1, MajorityStep, TypeInvariant, VoteLedgerInvariant, PTL DEF Spec, VoteLedger
<1>3. TypeOK /\ VoteLedger /\ ElectedByMajority => ElectionSafety
  <2> SUFFICES ASSUME TypeOK, VoteLedger, ElectedByMajority,
                      NEW x \in elected, NEW y \in elected, x[1] = y[1]
               PROVE  x = y
    BY DEF ElectionSafety
  <2> DEFINE V(z) == {v \in Node : <<v, z[1], z[2]>> \in grants}
  <2>1. x \in Term \X Node /\ y \in Term \X Node
    BY DEF TypeOK
  <2>2. IsQuorum(V(x)) /\ IsQuorum(V(y))
    BY DEF ElectedByMajority
  <2>3. PICK v \in Node : v \in V(x) /\ v \in V(y)
    BY <2>2, QuorumsMeet
  <2>4. x[2] = y[2]
    BY <2>1, <2>3 DEF VoteLedger, VoteOnce
  <2> QED
    BY <2>1, <2>4
<1> QED
  BY <1>2, <1>3, TypeInvariant, VoteLedgerInvariant, PTL

\* What a step does to the role of a node: who leads afterwards led the same term
\* before, or has just won it.
RoleStep ==
  \A n \in Node : state'[n] = "Leader" =>
     \/ state[n] = "Leader" /\ currentTerm'[n] = currentTerm[n] /\ elected \subseteq elected'
     \/ /\ pc[n] = "voting" /\ currentTerm[n] = campaign[n].term /\ currentTerm'[n] = currentTerm[n]
        /\ elected' = elected \cup {<<currentTerm[n], n>>}

LEMMA RoleStepLemma == TypeOK /\ VoteLedger /\ [Next]_vars => RoleStep
<1> SUFFICES ASSUME TypeOK, VoteLedger, [Next]_vars PROVE RoleStep
  OBVIOUS
<1>s. /\ state \in [Node -> Role] /\ currentTerm \in [Node -> Int] /\ Term \subseteq Int
  BY BoundAssumption DEF TypeOK, Term
<1>1. ASSUME elected' = elected,
             \A n \in Node : state'[n] = "Leader"
                               => state[n] = "Leader" /\ currentTerm'[n] = currentTerm[n]
      PROVE  RoleStep
  BY <1>1 DEF RoleStep
<1>2. ASSUME NEW n \in Node, Tally(n) PROVE RoleStep
  BY <1>2, <1>s DEF Tally, RoleStep
<1>3. ASSUME NEW n \in Node, StartCampaign(n) PROVE RoleStep
  <2>1. state[n] # "Leader"
    BY <1>3 DEF StartCampaign, VoteLedger, NoLeaderCampaigns
  <2> QED
    BY <1>1, <1>3, <1>s, <2>1 DEF StartCampaign
<1>4. ASSUME NEW n \in Node, FollowerTimeout(n) PROVE RoleStep
  BY <1>1, <1>4, <1>s DEF FollowerTimeout, historyVars
<1>5. ASSUME NEW m \in msgs, VoteReply(m) \/ HeartbeatReply(m) PROVE RoleStep
  <2>1. m.to \in Node /\ m.term \in Int
    BY <1>5, <1>s, MessageShape DEF TypeOK, VoteReply, HeartbeatReply
  <2>2. StepDownTo(m.to, m.term) /\ elected' = elected
    BY <1>5 DEF VoteReply, HeartbeatReply, historyVars
  <2> QED
    BY <1>1, <1>s, <2>1, <2>2 DEF StepDownTo
<1>6. ASSUME NEW m \in msgs, HandleVote(m) PROVE RoleStep
  <2>1. m.to \in Node /\ m.term \in Int
    BY <1>6, <1>s, MessageShape DEF TypeOK, HandleVote
  <2> QED
    BY <1>1, <1>6, <1>s, <2>1 DEF HandleVote
<1>7. ASSUME NEW m \in msgs, HandleHeartbeat(m) PROVE RoleStep
  <2>1. m.to \in Node /\ m.term \in Int
    BY <1>7, <1>s, MessageShape DEF TypeOK, HandleHeartbeat
  <2> QED
    BY <1>1, <1>7, <1>s, <2>1 DEF HandleHeartbeat, electorVars, historyVars
<1>8. ASSUME NEW m \in msgs, HandleAppendWAL(m) PROVE RoleStep
  <2>1. m.to \in Node /\ m.term \in Int
    BY <1>8, <1>s, MessageShape DEF TypeOK, HandleAppendWAL
  <2> QED
    BY <1>1, <1>8, <1>s, <2>1 DEF HandleAppendWAL, electorVars, historyVars
<1>9. ASSUME UNCHANGED <<state, currentTerm, elected>> PROVE RoleStep
  BY <1>1, <1>9
<1> QED
  BY <1>2, <1>3, <1>4, <1>5, <1>6, <1>7, <1>8, <1>9, Zenon
  DEF Next, RunStep, HandlerStep, ReplicateStep, Dispatch, Broadcast, Heartbeat, Tick, VoteFail,
      ReplicateCheck, ReplicatePush, PushFail, AppendDone, ReplicateReturn, WalMoves,
      electorVars, historyVars, vars

LEMMA LeaderWonStep ==
  TypeOK /\ VoteLedger /\ LeaderWonItsTerm /\ [Next]_vars => LeaderWonItsTerm'
BY RoleStepLemma DEF RoleStep, LeaderWonItsTerm

\* A leader leads the term it won, so two leaders never share a term.
THEOREM LeaderWonItsTermHolds == Spec => []LeaderWonItsTerm
<1>1. Init => LeaderWonItsTerm
  BY DEF Init, LeaderWonItsTerm
<1> QED
  BY <1>1, LeaderWonStep, TypeInvariant, VoteLedgerInvariant, PTL DEF Spec

-----------------------------------------------------------------------------
(* A lead that is lost is lost for good.                                   *)

\* Nobody has won a term it has not reached, and no campaign is about a term that
\* its candidate has already won.
ReignLedger ==
  /\ \A x \in elected : x[1] <= currentTerm[x[2]]
  /\ \A n \in Node : pc[n] = "voting" => <<campaign[n].term, n>> \notin elected

\* What a step does to the campaign of a node.
CampaignStep ==
  /\ elected \subseteq elected'
  /\ \A x \in elected' : x \in elected \/ (x[2] \in Node /\ x[1] = currentTerm[x[2]] /\ pc'[x[2]] # "voting")
  /\ \A n \in Node : pc'[n] = "voting" =>
       \/ pc[n] = "voting" /\ campaign'[n].term = campaign[n].term
       \/ campaign'[n].term = currentTerm[n] + 1 /\ elected' = elected

LEMMA CampaignStepLemma == TypeOK /\ [Next]_vars => CampaignStep
<1> SUFFICES ASSUME TypeOK, [Next]_vars PROVE CampaignStep
  OBVIOUS
<1>s. pc \in [Node -> Pc] /\ campaign \in [Node -> Campaign]
  BY DEF TypeOK
<1>1. ASSUME elected' = elected, \A n \in Node : pc'[n] = "voting" => pc[n] = "voting" /\ campaign'[n].term = campaign[n].term
      PROVE  CampaignStep
  BY <1>1 DEF CampaignStep
<1>2. ASSUME NEW n \in Node, Dispatch(n) \/ FollowerTimeout(n) \/ Tick(n) PROVE CampaignStep
  BY <1>1, <1>2, <1>s DEF Dispatch, FollowerTimeout, Tick, historyVars
<1>3. ASSUME NEW n \in Node, StartCampaign(n) PROVE CampaignStep
  BY <1>3, <1>s DEF StartCampaign, CampaignStep
<1>4. ASSUME NEW n \in Node, Tally(n) PROVE CampaignStep
  BY <1>4, <1>s DEF Tally, CampaignStep
<1>5. ASSUME NEW n \in Node, NEW S \in SUBSET Peers(n), Broadcast(n, S) PROVE CampaignStep
  BY <1>1, <1>5, <1>s DEF Broadcast, Heartbeat, historyVars
<1>6. ASSUME NEW n \in Node, NEW p \in Node, VoteFail(n, p) PROVE CampaignStep
  BY <1>1, <1>6, <1>s DEF VoteFail, Campaign, historyVars
<1>7. ASSUME NEW m \in msgs, VoteReply(m) PROVE CampaignStep
  BY <1>1, <1>7, <1>s DEF VoteReply, Campaign, historyVars
<1>8. ASSUME NEW m \in msgs, HandleVote(m) PROVE CampaignStep
  <2>1. pc' = pc /\ elected' = elected
    BY <1>8 DEF HandleVote
  <2>2. m.from \in Node
    BY <1>8, MessageShape DEF TypeOK, HandleVote
  <2>3. \A n \in Node : campaign'[n].term = campaign[n].term
    <3> DEFINE ok == Awaited(m) /\ ~(m.term < currentTerm[m.to])
    <3> DEFINE g == Granted(m)
    <3>1. campaign' = IF ok THEN [campaign EXCEPT ![m.from].waiting = @ \ {m.to},
                                                  ![m.from].votes = IF g THEN @ \cup {m.to} ELSE @]
                      ELSE campaign
      BY <1>8, Zenon DEF HandleVote
    <3> HIDE DEF ok, g
    <3> QED
      BY <1>s, <2>2, <3>1 DEF Campaign
  <2> QED
    BY <1>1, <2>1, <2>3
<1>9. ASSUME UNCHANGED <<pc, campaign, elected>> PROVE CampaignStep
  BY <1>1, <1>9
<1> QED
  BY <1>2, <1>3, <1>4, <1>5, <1>6, <1>7, <1>8, <1>9, Zenon
  DEF Next, RunStep, HandlerStep, ReplicateStep, HandleHeartbeat, HeartbeatReply, HandleAppendWAL,
      ReplicateCheck, ReplicatePush, PushFail, AppendDone, ReplicateReturn, WalMoves, historyVars, vars

LEMMA ReignStep == TypeOK /\ ReignLedger /\ [Next]_vars => ReignLedger'
<1> SUFFICES ASSUME TypeOK, ReignLedger, [Next]_vars PROVE ReignLedger'
  OBVIOUS
<1>1. CampaignStep /\ TermAndVoteStep
  BY CampaignStepLemma, TermAndVoteStepLemma
<1>2. TypeOK'
  BY TypeStep
<1>3. /\ currentTerm \in [Node -> Int] /\ currentTerm' \in [Node -> Int]
      /\ elected \subseteq Int \X Node /\ elected' \subseteq Int \X Node
  BY <1>2, BoundAssumption DEF TypeOK, Term
<1>4. ASSUME NEW x \in elected' PROVE x[1] <= currentTerm'[x[2]]
  <2>1. x[2] \in Node /\ x[1] \in Int
    BY <1>3
  <2>2. x[1] <= currentTerm[x[2]]
    BY <1>1, <1>3, <2>1 DEF CampaignStep, ReignLedger
  <2> QED
    BY <1>1, <1>3, <2>1, <2>2 DEF TermAndVoteStep
<1>5. ASSUME NEW n \in Node, pc'[n] = "voting", <<campaign'[n].term, n>> \in elected' PROVE FALSE
  <2> DEFINE x == <<campaign'[n].term, n>>
  <2>1. x \in elected
    BY <1>1, <1>5 DEF CampaignStep
  <2>2. campaign'[n].term = currentTerm[n] + 1
    BY <1>1, <1>5, <2>1 DEF CampaignStep, ReignLedger
  <2>3. x[1] <= currentTerm[n]
    BY <2>1 DEF ReignLedger
  <2> QED
    BY <1>3, <2>2, <2>3
<1> QED
  BY <1>4, <1>5 DEF ReignLedger

Leads(x) == state[x[2]] = "Leader" /\ currentTerm[x[2]] = x[1]

\* A coord that has lost the lead of a term it had won does not get it back in that
\* term (runCandidate always starts a new one).
LostForGood == [][\A x \in elected : ~Leads(x) => ~Leads(x)']_vars

LEMMA LostStep ==
  ASSUME TypeOK, VoteLedger, ReignLedger, [Next]_vars, NEW x \in elected, ~Leads(x)
  PROVE  ~Leads(x)'
<1>1. x = <<x[1], x[2]>> /\ x[2] \in Node
  BY DEF TypeOK
<1>2. RoleStep
  BY RoleStepLemma
<1>3. pc[x[2]] = "voting" => campaign[x[2]].term # x[1]
  BY <1>1 DEF ReignLedger
<1> QED
  BY <1>1, <1>2, <1>3 DEF Leads, RoleStep

LEMMA ReignInit == Init => ReignLedger
BY DEF Init, ReignLedger

\* Over every behaviour of the election.
THEOREM LostForGoodHolds == Spec => LostForGood
<1>1. TypeOK /\ VoteLedger /\ ReignLedger /\ [Next]_vars => [\A x \in elected : ~Leads(x) => ~Leads(x)']_vars
  BY LostStep
<1>2. Spec => []ReignLedger
  BY ReignInit, ReignStep, TypeInvariant, PTL DEF Spec
<1> QED
  BY <1>1, <1>2, TypeInvariant, VoteLedgerInvariant, PTL DEF Spec, LostForGood
=============================================================================
