------------------------------ MODULE Election ------------------------------
(***************************************************************************)
(* internal/election: the Raft-style leader election run by coords (and by *)
(* edges in edge-HA mode).  Every node runs one goroutine (Run) that       *)
(* cycles through runFollower, runCandidate and runLeader, while HTTP      *)
(* handlers (HandleVote, HandleHeartbeat, HandleAppendWAL) and reply       *)
(* goroutines change the same fields under mu.  Each critical section is   *)
(* one action, so everything the code reads outside the lock, or before    *)
(* re-taking it, may be stale here as well.                                *)
(***************************************************************************)
EXTENDS Integers, FiniteSets

CONSTANTS
  Node,      \* cfg.Peers, self included; static
  None,      \* the empty ID ""
  Entry,     \* WAL entries handed to ReplicateEntry, each once
  MaxTerm,   \* bound: no campaign starts above this term
  MaxRuns,   \* bound: at most this many campaigns in all
  MaxBeats,  \* bound: heartbeats in flight at a time; more are lost on sending
  MaxSeq     \* bound on LastLogSeqFn(); 0 models LastLogSeqFn = nil

ASSUME NodeAssumption == IsFiniteSet(Node) /\ None \notin Node
ASSUME BoundAssumption == {MaxTerm, MaxRuns, MaxBeats, MaxSeq} \subseteq Nat

VARIABLES
  state,        \* e.state
  currentTerm,  \* e.currentTerm
  votedFor,     \* e.votedFor
  leader,       \* e.leader
  pc,           \* where the Run goroutine stands
  campaign,     \* locals of runCandidate
  msgs,         \* RPC requests and replies in flight
  logSeq,       \* LastLogSeqFn(), owned by the WAL
  rep,          \* the ReplicateEntry call of each entry
  grants,       \* history: <<voter, term, candidate>> of every vote cast
  elected       \* history: <<term, node>> of every election won

electorVars == <<state, currentTerm, votedFor, leader>>
historyVars == <<grants, elected>>
vars == <<electorVars, pc, campaign, msgs, logSeq, rep, historyVars>>

Role == {"Follower", "Candidate", "Leader"}
Pc == {"loop", "candidate", "voting", "beat", "tick"}

Peers(n) == Node \ {n}

\* len(e.cfg.Peers)/2 + 1, the same for votes and for replication acks.
IsQuorum(S) == Cardinality(S) >= Cardinality(Node) \div 2 + 1

NoCampaign == [term |-> 0, waiting |-> {}, votes |-> {}]
NoCall == [pc |-> "idle", node |-> None, term |-> 0, waiting |-> {}, acks |-> {}]

Init ==
  /\ state = [n \in Node |-> "Follower"]
  /\ currentTerm = [n \in Node |-> 0]
  /\ votedFor = [n \in Node |-> None]
  /\ leader = [n \in Node |-> None]
  /\ pc = [n \in Node |-> "loop"]
  /\ campaign = [n \in Node |-> NoCampaign]
  /\ msgs = {}
  /\ logSeq = [n \in Node |-> 0]
  /\ rep = [e \in Entry |-> NoCall]
  /\ grants = {}
  /\ elected = {}

-----------------------------------------------------------------------------
(* The Run goroutine.                                                      *)

\* Run: switch on e.State(), read under its own lock.  A node in state
\* Follower stays in runFollower, see FollowerTimeout; runLeader starts with a
\* broadcast, before any further look at the state.
Dispatch(n) ==
  /\ pc[n] = "loop" /\ state[n] # "Follower"
  /\ pc' = [pc EXCEPT ![n] = IF state[n] = "Candidate" THEN "candidate" ELSE "beat"]
  /\ UNCHANGED <<electorVars, campaign, msgs, logSeq, rep, historyVars>>

\* The bounds allow n another campaign.
MayCampaign(n) == /\ currentTerm[n] < MaxTerm
                  /\ Cardinality({g \in grants : g[1] = g[3]}) < MaxRuns

\* runFollower: the election timer fires.  Heartbeats only re-arm the timer,
\* so with arbitrary delays it may fire at any point.
FollowerTimeout(n) ==
  /\ pc[n] = "loop" /\ state[n] = "Follower"
  /\ MayCampaign(n)
  /\ state' = [state EXCEPT ![n] = "Candidate"]
  /\ UNCHANGED <<currentTerm, votedFor, leader, pc, campaign, msgs, logSeq, rep, historyVars>>

\* runCandidate, first critical section, and requestVote to every peer.  The
\* role is not looked at again: a heartbeat handled since Dispatch leaves a
\* follower that campaigns all the same.
StartCampaign(n) ==
  /\ pc[n] = "candidate"
  /\ MayCampaign(n)
  /\ currentTerm' = [currentTerm EXCEPT ![n] = @ + 1]
  /\ votedFor' = [votedFor EXCEPT ![n] = n]
  /\ leader' = [leader EXCEPT ![n] = None]
  /\ campaign' = [campaign EXCEPT ![n] = [term |-> currentTerm[n] + 1,
                                          waiting |-> Peers(n), votes |-> {n}]]
  /\ msgs' = msgs \cup {[type |-> "vote", from |-> n, to |-> p, term |-> currentTerm[n] + 1,
                         seq |-> logSeq[n]] : p \in Peers(n)}
  /\ grants' = grants \cup {<<n, currentTerm[n] + 1, n>>}
  /\ pc' = [pc EXCEPT ![n] = "voting"]
  /\ UNCHANGED <<state, logSeq, rep, elected>>

\* Mutant: a failed vote RPC leaves its goroutine counted in the WaitGroup.
VoteFailUncounted(n, p) == p \in campaign[n].waiting /\ UNCHANGED vars

\* The vote RPC to p fails or times out; the request may still reach p.
VoteFail(n, p) ==
  /\ p \in campaign[n].waiting
  /\ campaign' = [campaign EXCEPT ![n].waiting = @ \ {p}]
  /\ msgs' = {m \in msgs : ~(m.type = "voteReply" /\ m.to = n /\ m.from = p)}
  /\ UNCHANGED <<electorVars, pc, logSeq, rep, historyVars>>

\* Mutant: adopts the term of a reply and forgets to leave the role.
AdoptTermOnly(n, t) ==
  /\ currentTerm' = [currentTerm EXCEPT ![n] = IF t > @ THEN t ELSE @]
  /\ votedFor' = [votedFor EXCEPT ![n] = IF t > currentTerm[n] THEN None ELSE @]
  /\ UNCHANGED <<state, leader>>

\* Mutant: clears the vote also when the reply's term is no news.
StepDownAlways(n, t) ==
  /\ currentTerm' = [currentTerm EXCEPT ![n] = IF t > @ THEN t ELSE @]
  /\ votedFor' = [votedFor EXCEPT ![n] = IF t >= currentTerm[n] THEN None ELSE @]
  /\ state' = [state EXCEPT ![n] = IF t > currentTerm[n] THEN "Follower" ELSE @]
  /\ leader' = [leader EXCEPT ![n] = IF t > currentTerm[n] THEN None ELSE @]

\* Step down on a reply that carries term t, if t is still news.
StepDownTo(n, t) ==
  /\ currentTerm' = [currentTerm EXCEPT ![n] = IF t > @ THEN t ELSE @]
  /\ votedFor' = [votedFor EXCEPT ![n] = IF t > currentTerm[n] THEN None ELSE @]
  /\ state' = [state EXCEPT ![n] = IF t > currentTerm[n] THEN "Follower" ELSE @]
  /\ leader' = [leader EXCEPT ![n] = IF t > currentTerm[n] THEN None ELSE @]

\* A vote reply with a higher term reaches the goroutine that waits for it.
VoteReply(m) ==
  /\ m \in msgs /\ m.type = "voteReply"
  /\ m.from \in campaign[m.to].waiting
  /\ campaign' = [campaign EXCEPT ![m.to].waiting = @ \ {m.from}]
  /\ StepDownTo(m.to, m.term)
  /\ msgs' = msgs \ {m}
  /\ UNCHANGED <<pc, logSeq, rep, historyVars>>

\* runCandidate, last critical section, once every goroutine is done.
Tally(n) ==
  /\ pc[n] = "voting"
  /\ campaign[n].waiting = {}
  /\ pc' = [pc EXCEPT ![n] = "loop"]
  /\ campaign' = [campaign EXCEPT ![n] = NoCampaign]
  /\ \/ /\ state[n] # "Candidate" \/ currentTerm[n] # campaign[n].term
        /\ UNCHANGED <<state, leader, elected>>
     \/ /\ state[n] = "Candidate" /\ currentTerm[n] = campaign[n].term
        /\ IsQuorum(campaign[n].votes)
        /\ state' = [state EXCEPT ![n] = "Leader"]
        /\ leader' = [leader EXCEPT ![n] = n]
        /\ elected' = elected \cup {<<currentTerm[n], n>>}
     \/ /\ state[n] = "Candidate" /\ currentTerm[n] = campaign[n].term
        /\ ~IsQuorum(campaign[n].votes)
        /\ state' = [state EXCEPT ![n] = "Follower"]
        /\ UNCHANGED <<leader, elected>>
  /\ UNCHANGED <<currentTerm, votedFor, msgs, logSeq, rep, grants>>

Heartbeats == {m \in msgs : m.type = "heartbeat"}

Heartbeat(n, p) == [type |-> "heartbeat", from |-> n, to |-> p, term |-> currentTerm[n]]

\* broadcastHeartbeat: the term is read under the lock, the role is not.  The
\* heartbeats to the peers outside S are lost.
Broadcast(n, S) ==
  /\ pc[n] = "beat"
  /\ pc' = [pc EXCEPT ![n] = "tick"]
  /\ Cardinality(Heartbeats) + Cardinality(S) <= MaxBeats
  /\ msgs' = msgs \cup {Heartbeat(n, p) : p \in S}
  /\ UNCHANGED <<electorVars, campaign, logSeq, rep, historyVars>>

\* runLeader: on a tick, leave if no longer leader, else broadcast again.
Tick(n) ==
  /\ pc[n] = "tick"
  /\ pc' = [pc EXCEPT ![n] = IF state[n] = "Leader" THEN "beat" ELSE "loop"]
  /\ UNCHANGED <<electorVars, campaign, msgs, logSeq, rep, historyVars>>

-----------------------------------------------------------------------------
(* The HTTP handlers.                                                      *)

\* The candidate still waits for the answer to its vote request m.
Awaited(m) == m.to \in campaign[m.from].waiting /\ campaign[m.from].term = m.term

\* Mutant: votes again in a term it has already voted in.
GrantedTwice(m) == m.term >= currentTerm[m.to] /\ logSeq[m.to] <= m.seq

\* HandleVote's decision: never a stale candidate, never one whose log is
\* behind, and within a term only the candidate already voted for.
Granted(m) ==
  /\ m.term >= currentTerm[m.to]
  /\ logSeq[m.to] <= m.seq
  /\ m.term > currentTerm[m.to] \/ votedFor[m.to] \in {None, m.from}

\* HandleVote: adopt a higher term, compare logs, vote at most once a term.
\* An answer without a higher term only counts in the tally, which waits for
\* it, so it is recorded at once; a higher term travels back as a message.
HandleVote(m) ==
  /\ m \in msgs /\ m.type = "vote"
  /\ LET v == m.to
         stale == m.term < currentTerm[v]
         higher == m.term > currentTerm[v]
         granted == Granted(m)
     IN /\ currentTerm' = [currentTerm EXCEPT ![v] = IF higher THEN m.term ELSE @]
        /\ state' = [state EXCEPT ![v] = IF higher THEN "Follower" ELSE @]
        /\ leader' = [leader EXCEPT ![v] = IF higher THEN None ELSE @]
        /\ votedFor' = [votedFor EXCEPT ![v] = IF granted THEN m.from
                                               ELSE IF higher THEN None ELSE @]
        /\ grants' = IF granted THEN grants \cup {<<v, m.term, m.from>>} ELSE grants
        /\ campaign' = IF Awaited(m) /\ ~stale
                       THEN [campaign EXCEPT ![m.from].waiting = @ \ {v},
                                             ![m.from].votes = IF granted THEN @ \cup {v} ELSE @]
                       ELSE campaign
        /\ msgs' = (msgs \ {m}) \cup
                   (IF Awaited(m) /\ stale
                    THEN {[type |-> "voteReply", from |-> v, to |-> m.from,
                           term |-> currentTerm[v]]}
                    ELSE {})
  /\ UNCHANGED <<pc, logSeq, rep, elected>>

\* HandleHeartbeat.  Only a rejection is answered with something the sender
\* acts on: the receiver's higher term.
HandleHeartbeat(m) ==
  /\ m \in msgs /\ m.type = "heartbeat"
  /\ LET v == m.to IN
       \/ /\ m.term < currentTerm[v]
          /\ msgs' = (msgs \ {m}) \cup {[type |-> "heartbeatReply", to |-> m.from,
                                         term |-> currentTerm[v]]}
          /\ UNCHANGED electorVars
       \/ /\ m.term >= currentTerm[v]
          /\ currentTerm' = [currentTerm EXCEPT ![v] = m.term]
          /\ votedFor' = [votedFor EXCEPT ![v] = IF m.term > currentTerm[v] THEN None ELSE @]
          /\ state' = [state EXCEPT ![v] = "Follower"]
          /\ leader' = [leader EXCEPT ![v] = m.from]
          /\ msgs' = msgs \ {m}
  /\ UNCHANGED <<pc, campaign, logSeq, rep, historyVars>>

\* Mutant: ignores the term a heartbeat was rejected with.
HeartbeatReplyIgnored(m) ==
  /\ m \in msgs /\ m.type = "heartbeatReply"
  /\ msgs' = msgs \ {m}
  /\ UNCHANGED <<electorVars, pc, campaign, logSeq, rep, historyVars>>

\* The reply goroutine of broadcastHeartbeat.
HeartbeatReply(m) ==
  /\ m \in msgs /\ m.type = "heartbeatReply"
  /\ StepDownTo(m.to, m.term)
  /\ msgs' = msgs \ {m}
  /\ UNCHANGED <<pc, campaign, logSeq, rep, historyVars>>

-----------------------------------------------------------------------------
(* ReplicateEntry and HandleAppendWAL.                                     *)

\* ReplicateEntry: the role is checked under one lock ...
ReplicateCheck(n, e) ==
  /\ rep[e].pc = "idle"
  /\ state[n] = "Leader"
  /\ rep' = [rep EXCEPT ![e] = [@ EXCEPT !.pc = "checked", !.node = n]]
  /\ UNCHANGED <<electorVars, pc, campaign, msgs, logSeq, historyVars>>

\* ... and the term is read under another, then the entry is pushed to all.
ReplicatePush(e) ==
  /\ rep[e].pc = "checked"
  /\ LET n == rep[e].node IN
       /\ rep' = [rep EXCEPT ![e] = [pc |-> "pushed", node |-> n, term |-> currentTerm[n],
                                     waiting |-> Peers(n), acks |-> {n}]]
       /\ msgs' = msgs \cup {[type |-> "append", from |-> n, to |-> p,
                              term |-> currentTerm[n], entry |-> e] : p \in Peers(n)}
  /\ UNCHANGED <<electorVars, pc, campaign, logSeq, historyVars>>

\* pushAppendWAL fails or times out; the request may still be handled.
PushFail(e, p) ==
  /\ p \in rep[e].waiting
  /\ rep' = [rep EXCEPT ![e].waiting = @ \ {p}]
  /\ UNCHANGED <<electorVars, pc, campaign, msgs, logSeq, historyVars>>

\* HandleAppendWAL up to the unlock: reject a stale term (409), adopt a higher
\* one (leader and the election timer are left alone), accept otherwise.
HandleAppendWAL(m) ==
  /\ m \in msgs /\ m.type = "append"
  /\ LET v == m.to
         higher == m.term > currentTerm[v]
     IN \/ /\ m.term < currentTerm[v]
           /\ rep' = [rep EXCEPT ![m.entry].waiting = @ \ {v}]
           /\ msgs' = msgs \ {m}
           /\ UNCHANGED electorVars
        \/ /\ m.term >= currentTerm[v]
           /\ currentTerm' = [currentTerm EXCEPT ![v] = m.term]
           /\ votedFor' = [votedFor EXCEPT ![v] = IF higher THEN None ELSE @]
           /\ state' = [state EXCEPT ![v] = IF higher THEN "Follower" ELSE @]
           /\ msgs' = (msgs \ {m}) \cup {[m EXCEPT !.type = "apply"]}
           /\ UNCHANGED <<leader, rep>>
  /\ UNCHANGED <<pc, campaign, logSeq, historyVars>>

\* HandleAppendWAL after the unlock: appendFn has run, with result ok.  The
\* answer counts if the pusher still waits for it.
AppendDone(m, ok) ==
  /\ m \in msgs /\ m.type = "apply"
  /\ rep' = [rep EXCEPT ![m.entry].waiting = @ \ {m.to},
                        ![m.entry].acks = IF ok /\ m.to \in rep[m.entry].waiting
                                          THEN @ \cup {m.to} ELSE @]
  /\ msgs' = msgs \ {m}
  /\ UNCHANGED <<electorVars, pc, campaign, logSeq, historyVars>>

\* ReplicateEntry returns: nil on a quorum of acks, an error otherwise.
ReplicateReturn(e) ==
  /\ rep[e].pc = "pushed" /\ rep[e].waiting = {}
  /\ rep' = [rep EXCEPT ![e].pc = IF IsQuorum(rep[e].acks) THEN "acked" ELSE "failed"]
  /\ UNCHANGED <<electorVars, pc, campaign, msgs, logSeq, historyVars>>

-----------------------------------------------------------------------------
(* The environment: the local WAL and crashes.                             *)

\* The store appends to (or truncates) the WAL behind LastLogSeqFn.
WalMoves(n, s) ==
  /\ logSeq[n] # s
  /\ logSeq' = [logSeq EXCEPT ![n] = s]
  /\ UNCHANGED <<electorVars, pc, campaign, msgs, rep, historyVars>>

\* Crash and restart: New() starts from scratch, nothing was persisted.  The
\* process' own calls die with it, requests to it may still arrive.
Restart(n) ==
  /\ state' = [state EXCEPT ![n] = "Follower"]
  /\ currentTerm' = [currentTerm EXCEPT ![n] = 0]
  /\ votedFor' = [votedFor EXCEPT ![n] = None]
  /\ leader' = [leader EXCEPT ![n] = None]
  /\ pc' = [pc EXCEPT ![n] = "loop"]
  /\ campaign' = [campaign EXCEPT ![n] = NoCampaign]
  /\ msgs' = {m \in msgs : ~(m.to = n /\ m.type \in {"voteReply", "heartbeatReply", "apply"})}
  /\ rep' = [e \in Entry |-> IF rep[e].node = n /\ rep[e].pc \in {"checked", "pushed"}
                             THEN [rep[e] EXCEPT !.pc = "failed", !.waiting = {}]
                             ELSE [rep[e] EXCEPT !.waiting = @ \ {n}]]
  /\ UNCHANGED <<logSeq, historyVars>>

-----------------------------------------------------------------------------
RunStep(n) ==
  \/ Dispatch(n) \/ FollowerTimeout(n) \/ StartCampaign(n) \/ Tally(n)
  \/ \E S \in SUBSET Peers(n) : Broadcast(n, S)
  \/ Tick(n)
  \/ \E p \in Node : VoteFail(n, p)

HandlerStep ==
  \E m \in msgs : VoteReply(m) \/ HandleVote(m) \/ HandleHeartbeat(m) \/ HeartbeatReply(m)
                 \/ HandleAppendWAL(m)

ReplicateStep(e) ==
  \/ \E n \in Node : ReplicateCheck(n, e)
  \/ ReplicatePush(e)
  \/ \E p \in Node : PushFail(e, p)

Next ==
  \/ \E n \in Node : RunStep(n)
  \/ HandlerStep
  \/ \E e \in Entry : ReplicateStep(e) \/ ReplicateReturn(e)
  \/ \E m \in msgs : AppendDone(m, TRUE) \/ AppendDone(m, FALSE)
  \/ \E n \in Node, s \in 0 .. MaxSeq : WalMoves(n, s)

Spec == Init /\ [][Next]_vars

\* Every RPC ends in an answer or a timeout, tickers and handlers keep running,
\* and no peer is cut off for good: of the heartbeats a leader goes on sending
\* it, some get through.
Fairness ==
  /\ \A n \in Node : /\ WF_vars(Dispatch(n))
                     /\ WF_vars(\E p \in Node : VoteFail(n, p))
                     /\ WF_vars(Tally(n))
                     /\ WF_vars(Tick(n))
  /\ \A n \in Node : \A p \in Peers(n) : SF_vars(\E S \in SUBSET Peers(n) : p \in S /\ Broadcast(n, S))
  /\ WF_vars(\E m \in msgs : HandleHeartbeat(m))
  /\ WF_vars(\E m \in msgs : HeartbeatReply(m))

FairSpec == Spec /\ Fairness

-----------------------------------------------------------------------------
(* Properties.                                                             *)

Term == 0 .. MaxTerm
Campaign == [term : Term, waiting : SUBSET Node, votes : SUBSET Node]
Call == [pc : {"idle", "checked", "pushed", "acked", "failed"}, node : Node \cup {None},
         term : Term, waiting : SUBSET Node, acks : SUBSET Node]
Message ==
  [type : {"vote"}, from : Node, to : Node, term : Term, seq : 0 .. MaxSeq]
  \cup [type : {"voteReply"}, from : Node, to : Node, term : Term]
  \cup [type : {"heartbeat"}, from : Node, to : Node, term : Term]
  \cup [type : {"heartbeatReply"}, to : Node, term : Term]
  \cup [type : {"append", "apply"}, from : Node, to : Node, term : Term, entry : Entry]

CallerKnown == \A e \in Entry : rep[e].pc # "idle" => rep[e].node \in Node

\* Every field of the Elector, every local of its goroutines and every message
\* in flight has the type the code gives it.
TypeOK ==
  /\ state \in [Node -> Role]
  /\ currentTerm \in [Node -> Term]
  /\ votedFor \in [Node -> Node \cup {None}]
  /\ leader \in [Node -> Node \cup {None}]
  /\ pc \in [Node -> Pc]
  /\ campaign \in [Node -> Campaign]
  /\ msgs \in SUBSET Message
  /\ logSeq \in [Node -> 0 .. MaxSeq]
  /\ rep \in [Entry -> Call]
  /\ CallerKnown
  /\ grants \in SUBSET (Node \X Term \X Node)
  /\ elected \in SUBSET (Term \X Node)

\* No term is ever won by two nodes, whatever the interleaving of campaigns,
\* late replies and term adoptions (runCandidate, HandleVote).
ElectionSafety == \A x, y \in elected : x[1] = y[1] => x = y

\* A node in the Leader role leads the very term it won: every path that moves
\* currentTerm (HandleVote, HandleHeartbeat, HandleAppendWAL, reply
\* goroutines) also leaves the role.
LeaderWonItsTerm == \A n \in Node : state[n] = "Leader" => <<currentTerm[n], n>> \in elected

\* Every win rests on votes really cast for the winner in that term by a
\* majority of distinct nodes; ElectionSafety follows from it and VoteOnce.
ElectedByMajority ==
  \A x \in elected : IsQuorum({v \in Node : <<v, x[1], x[2]>> \in grants})

\* currentTerm never goes back, and within a term a vote once cast is neither
\* withdrawn nor changed (the two rules election.go names as what prevents a
\* split brain).
TermAndVoteStable ==
  [][\A n \in Node : /\ currentTerm'[n] >= currentTerm[n]
                     /\ currentTerm'[n] = currentTerm[n] /\ votedFor[n] # None
                          => votedFor'[n] = votedFor[n]]_vars

\* No node votes for two candidates in one term, over the whole history.
VoteOnce ==
  \A v, c, d \in Node, t \in Term :
     <<v, t, c>> \in grants /\ <<v, t, d>> \in grants => c = d

\* A vote of the current term is the one votedFor still names; no vote lies in
\* a term its voter has not reached.
VoteKept ==
  \A v, c \in Node, t \in Term :
     <<v, t, c>> \in grants => /\ t <= currentTerm[v]
                               /\ t = currentTerm[v] => votedFor[v] = c

\* runCandidate counts only votes that were cast for it in its own term.
VotesCounted ==
  \A n, v \in Node : v \in campaign[n].votes => <<v, campaign[n].term, n>> \in grants

\* No node campaigns while it leads.
NoLeaderCampaigns ==
  \A n \in Node : pc[n] \in {"candidate", "voting"} => state[n] # "Leader"

\* The strengthening that makes ElectionSafety and LeaderWonItsTerm inductive:
\* what HandleVote, runCandidate and the handlers keep true about votes.
VoteLedger == VoteOnce /\ VoteKept /\ VotesCounted /\ NoLeaderCampaigns

\* A campaign ends, won or lost, even if no peer answers (runCandidate).
CampaignEnds == \A n \in Node : pc[n] = "voting" ~> pc[n] = "loop"

\* A leader that has been overtaken by a higher term steps down: the heartbeats
\* it keeps sending are rejected with that term.  Split brain is transient.
OvertakenLeaderStepsDown ==
  \A n \in Node : state[n] = "Leader" /\ (\E p \in Node : currentTerm[n] < currentTerm[p])
                    ~> state[n] # "Leader"

=============================================================================
