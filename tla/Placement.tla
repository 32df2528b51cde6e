------------------------------- MODULE Placement -------------------------------
(***************************************************************************)
(* Placement of a chunk by rendezvous hashing, with and without failure    *)
(* domains, and its stability when nodes come, go and are labelled.        *)
(*                                                                         *)
(* The score of a node for the chunk under consideration is an arbitrary   *)
(* number (in the code the first eight bytes of a hash); equal scores are  *)
(* allowed.  A node is identified by its number, which also breaks ties.   *)
(***************************************************************************)
EXTENDS Integers, FiniteSets, Sequences, SequencesExt

CONSTANTS
    Node,     \* node ids
    Domain,   \* failure-domain labels; Unlabelled is the empty one
    Unlabelled,
    MaxScore, \* scores are 0..MaxScore
    Counts    \* the numbers of nodes asked for

ASSUME NodeAssumption == Node \subseteq Nat /\ IsFiniteSet(Node)
ASSUME CountAssumption == Counts \subseteq Nat

VARIABLES
    nodes,    \* the nodes the Placer was built over
    domain,   \* node -> label
    score,    \* node -> hrwScore of the chunk on the node
    placed    \* what PlaceN answers for the chunk, by count

vars == <<nodes, domain, score, placed>>

-----------------------------------------------------------------------------
(* The algorithm.                                                          *)

Above(i, j) == score[i] > score[j] \/ (score[i] = score[j] /\ i < j)

ScoredsByIndex(S) ==
    [r \in 1..Cardinality(S) |->
        CHOOSE i \in S : Cardinality({j \in S : Above(j, i)}) = (r + (Cardinality(S) % 3)) % Cardinality(S)]

\* Node ids sorted by descending score.
Scoreds(S) ==
    [r \in 1..Cardinality(S) |->
        CHOOSE i \in S : Cardinality({j \in S : Above(j, i)}) = r - 1]

PickFromNodes(n, S) == SubSeq(Scoreds(S), 1, Min({n, Cardinality(S)}))

FirstPass(n, scoreds, dom) ==
    FoldLeft(LAMBDA out, i :
                IF Len(out) >= n \/ \E j \in Range(out) : dom[j] = dom[i]
                THEN out ELSE Append(out, i),
             <<>>, scoreds)

SecondPassAnew(n, scoreds, picked) == SubSeq(picked \o scoreds, 1, Min({n, Len(scoreds)}))

SecondPass(n, scoreds, picked) ==
    FoldLeft(LAMBDA out, i :
                IF Len(out) >= n \/ i \in Range(out) THEN out ELSE Append(out, i),
             picked, scoreds)

PickFromNodesByDomain(n, S, dom) ==
    IF \A i \in S : dom[i] = Unlabelled THEN PickFromNodes(n, S)
    ELSE SecondPass(n, Scoreds(S), FirstPass(n, Scoreds(S), dom))

\* What PlaceN answers for each count once the Placer is built over S.
Answers(S, dom) == [n \in Counts |-> PickFromNodesByDomain(n, S, dom)]

-----------------------------------------------------------------------------
(* What the algorithm is meant to choose, as sets.                         *)

\* The n best of S.
Best(n, S) == {i \in S : Cardinality({j \in S : Above(j, i)}) < n}

\* The best node of each domain.
Heads(S) == {i \in S : \A j \in S : domain[j] = domain[i] => ~Above(j, i)}

BestSpread(n, S) ==
    LET spread == Best(n, Heads(S))
    IN spread \cup Best(n - Cardinality(spread), S \ spread)

Labels(S) == {domain[i] : i \in S}

-----------------------------------------------------------------------------
(* The operator changes the node set and its labels.                       *)

AddNode(i) ==
    /\ i \notin nodes
    /\ nodes' = nodes \cup {i}
    /\ placed' = Answers(nodes \cup {i}, domain)
    /\ UNCHANGED <<domain, score>>

\* An empty node set is refused (UpdateNodes).
RemoveNode(i) ==
    /\ i \in nodes /\ nodes # {i}
    /\ nodes' = nodes \ {i}
    /\ placed' = Answers(nodes \ {i}, domain)
    /\ UNCHANGED <<domain, score>>

SetDomain(i, d) ==
    /\ i \in nodes /\ d # domain[i]
    /\ domain' = [domain EXCEPT ![i] = d]
    /\ placed' = Answers(nodes, [domain EXCEPT ![i] = d])
    /\ UNCHANGED <<nodes, score>>

Init ==
    /\ nodes \in SUBSET Node \ {{}}
    /\ domain \in [Node -> Domain]
    /\ score \in [Node -> 0..MaxScore]
    /\ placed = Answers(nodes, domain)

Next ==
    \E i \in Node :
        \/ AddNode(i)
        \/ RemoveNode(i)
        \/ \E d \in Domain : SetDomain(i, d)

Spec == Init /\ [][Next]_vars

-----------------------------------------------------------------------------
(* Properties.                                                             *)

\* Both picks return the intended set, without repetition, best first among the
\* nodes of the same pass: PickFromNodes the n best, PickFromNodesByDomain the
\* best heads of the domains and then the best of the rest, so that as many
\* domains as there are, up to n, are represented.
PicksIntended ==
    \A n \in Counts :
        LET plain == PickFromNodes(n, nodes)
            spread == placed[n]
        IN /\ Range(plain) = Best(n, nodes) /\ IsInjective(plain)
           /\ Range(spread) = BestSpread(n, nodes) /\ IsInjective(spread)
           /\ \A i, j \in DOMAIN spread :
                 i < j /\ (spread[i] \in Heads(nodes) <=> spread[j] \in Heads(nodes))
                    => Above(spread[i], spread[j])
           /\ Cardinality(Labels(Range(spread))) = Min({n, Cardinality(Labels(nodes))})

\* The failure-domain pick moves at most one replica when a node comes or goes:
\* a node that comes is the only one that can enter a pick, a node that leaves
\* the only one that can drop out of it.
MovesOne ==
    [][domain' = domain =>
         \A n \in Counts :
            /\ nodes \subseteq nodes' => Range(placed'[n]) \ Range(placed[n]) \subseteq nodes' \ nodes
            /\ nodes' \subseteq nodes => Range(placed[n]) \ Range(placed'[n]) \subseteq nodes \ nodes']_vars

=============================================================================
