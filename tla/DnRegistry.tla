------------------------------ MODULE DnRegistry ------------------------------
(***************************************************************************)
(* The data node registry of the coord daemons: the bbolt bucket           *)
(* dns_runtime, the in-memory placement view built from it, and the admin  *)
(* handlers of the leader that change first the one and then the other.    *)
(* Additions and removals are journalled, and so pushed to the followers;  *)
(* labels are not.                                                         *)
(***************************************************************************)
EXTENDS Integers, FiniteSets

CONSTANTS
    Coord,       \* coord daemons
    Dn,          \* data node addresses
    Label,       \* failure-domain labels
    Unlabelled,  \* the empty label
    DefaultR,    \* the Coordinator's default replication factor
    Admin,       \* concurrent admin requests
    Setups       \* the deployments and the bounds explored, see conf

Absent == "absent"
NoFile == <<>>

ASSUME EnvAssumption == \A s \in Setups : s.env \subseteq Dn /\ s.env # {} /\ s.coords \subseteq Coord
ASSUME DnAssumption == IsFiniteSet(Dn) /\ DefaultR \in Nat
ASSUME LabelAssumption == Unlabelled \in Label /\ Absent \notin Label

VARIABLES
    leader,  \* the coord that requireLeader lets through
    reg,     \* coord -> registry: address -> label, or Absent
    kept,    \* coord -> coord.db while a bootstrap snapshot is open instead, or NoFile
    placer,  \* coord -> Server.Placer, as the registry it was built from
    io,      \* coord -> nodes of Server.Coord, in the same form
    factor,  \* coord -> replication factor of Server.Coord, fixed at boot
    admin,   \* admin request -> the coord it has yet to refresh, or Absent
    used,    \* how much of each bound is used
    conf     \* the deployment, fixed at the start: the coords it has, the
             \* data nodes of a first boot (env: COORD_DNS) and whether placement
             \* goes through a Coordinator (dnIO: COORD_DN_IO); the bounds
             \* maxOps, maxFails (appends), maxElections and maxRestarts

vars == <<leader, reg, kept, placer, io, factor, admin, used, conf>>

Spend(what) == used' = [used EXCEPT ![what] = @ + 1]
Members(r) == {d \in Dn : r[d] # Absent}
Seeded == [d \in Dn |-> IF d \in conf.env THEN Unlabelled ELSE Absent]
LeastOf(a, b) == IF a < b THEN a ELSE b

\* What a coord answers placement questions from.
View(c) == IF conf.dnIO THEN io[c] ELSE placer[c]

-----------------------------------------------------------------------------
(* Admin handlers: the leader's registry, then its view.                   *)

MayMutate(a, c) ==
    /\ c = leader /\ admin[a] = Absent
    /\ used.ops < conf.maxOps

\* The entry reaches those followers that the push reaches.
Journalled(c, d, l) ==
    \E P \in SUBSET (conf.coords \ {c}) :
        reg' = [p \in Coord |-> IF p \in P \cup {c} THEN [reg[p] EXCEPT ![d] = l] ELSE reg[p]]

AddRuntimeDN(a, c, d) ==
    /\ MayMutate(a, c) /\ Spend("ops")
    /\ Journalled(c, d, Unlabelled)
    /\ admin' = [admin EXCEPT ![a] = c]
    /\ UNCHANGED <<leader, kept, placer, io, factor, conf>>

RemoveRuntimeDN(a, c, d) ==
    /\ MayMutate(a, c) /\ Spend("ops")
    /\ Journalled(c, d, Absent)
    /\ admin' = [admin EXCEPT ![a] = c]
    /\ UNCHANGED <<leader, kept, placer, io, factor, conf>>

SetRuntimeDNDomain(a, c, d, l) ==
    /\ MayMutate(a, c) /\ Spend("ops")
    /\ d \in Members(reg[c])
    /\ reg' = [reg EXCEPT ![c][d] = l]
    /\ admin' = [admin EXCEPT ![a] = c]
    /\ UNCHANGED <<leader, kept, placer, io, factor, conf>>

\* The append to the WAL, or its hook, fails after bbolt has changed: the handler
\* returns early.  A hook that reports too few acks has reached some followers.
AppendFails(a, c, d) ==
    /\ MayMutate(a, c)
    /\ used.fails < conf.maxFails /\ Spend("fails")
    /\ \E l \in {Unlabelled, Absent} : Journalled(c, d, l)
    /\ UNCHANGED <<leader, kept, placer, io, factor, admin, conf>>

\* UpdateNodes refuses a set smaller than the replication factor.
Updated(c) == IF Cardinality(Members(reg[c])) >= factor[c] THEN reg[c] ELSE io[c]

RefreshesMembers(c) == [d \in Dn |-> IF reg[c][d] = Absent THEN Absent ELSE Unlabelled]
RefreshedPlacer(c) == reg[c]

\* refreshDNTopology: reads the registry and swaps both views under its lock.
Refresh(a) ==
    /\ admin[a] # Absent
    /\ placer' = [placer EXCEPT ![admin[a]] = RefreshedPlacer(admin[a])]
    /\ io' = [io EXCEPT ![admin[a]] = Updated(admin[a])]
    /\ admin' = [admin EXCEPT ![a] = Absent]
    /\ UNCHANGED <<leader, reg, kept, factor, used, conf>>

-----------------------------------------------------------------------------
(* The cluster around them.                                                *)

Elect(c) ==
    /\ used.elections < conf.maxElections
    /\ leader' = c
    /\ Spend("elections")
    /\ UNCHANGED <<reg, kept, placer, io, factor, admin, conf>>

OnDisk(c) == IF kept[c] = NoFile THEN reg[c] ELSE kept[c]

\* Boot: the views are built from the registry in coord.db, seeded if it is empty;
\* then the store may switch to the snapshot of a peer (bootstrapFromPeer): from is
\* that peer, or the coord itself.
BootRegistry(c) == IF Members(OnDisk(c)) = {} THEN Seeded ELSE OnDisk(c)

Restart(c, from) ==
    /\ used.restarts < conf.maxRestarts /\ Spend("restarts")
    /\ placer' = [placer EXCEPT ![c] = BootRegistry(c)]
    /\ io' = [io EXCEPT ![c] = BootRegistry(c)]
    /\ factor' = [factor EXCEPT ![c] = LeastOf(DefaultR, Cardinality(Members(BootRegistry(c))))]
    /\ reg' = [reg EXCEPT ![c] = IF from = c THEN BootRegistry(c) ELSE reg[from]]
    /\ kept' = [kept EXCEPT ![c] = IF from = c THEN NoFile ELSE BootRegistry(c)]
    /\ admin' = [a \in Admin |-> IF admin[a] = c THEN Absent ELSE admin[a]]
    /\ UNCHANGED <<leader, conf>>

Init ==
    /\ conf \in Setups
    /\ leader \in conf.coords
    /\ reg = [c \in Coord |-> Seeded]
    /\ kept = [c \in Coord |-> NoFile]
    /\ placer = reg /\ io = reg
    /\ factor = [c \in Coord |-> LeastOf(DefaultR, Cardinality(conf.env))]
    /\ admin = [a \in Admin |-> Absent]
    /\ used = [ops |-> 0, fails |-> 0, elections |-> 0, restarts |-> 0, lookups |-> 0, calls |-> 0, keyOps |-> 0]

\* Admin requests; elections and restarts are composed with those of CoordClient.
Registers ==
    \E a \in Admin, c \in conf.coords, d \in Dn :
        \/ AddRuntimeDN(a, c, d)
        \/ RemoveRuntimeDN(a, c, d)
        \/ AppendFails(a, c, d)
        \/ \E l \in Label : SetRuntimeDNDomain(a, c, d, l)

-----------------------------------------------------------------------------
(* Properties.                                                             *)

\* Once its admin requests are answered, whatever the order in which they
\* persisted and refreshed, and unless an append failed, a coord on its own places
\* chunks on exactly the data nodes of its registry, with their labels; under
\* COORD_DN_IO as long as the registry has the nodes UpdateNodes asks for.
PlacesRegistered ==
    /\ conf.coords = {leader} /\ used.fails = 0
    /\ \A a \in Admin : admin[a] = Absent
    /\ conf.dnIO => Cardinality(Members(reg[leader])) >= factor[leader]
    => View(leader) = reg[leader]

=============================================================================
