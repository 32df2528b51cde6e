------------------------------- MODULE UrlKeys -------------------------------
(***************************************************************************)
(* The keys that sign URLs.  A registry of them is in the store of every   *)
(* coord (the leader changes its own, and nothing is journalled) and in    *)
(* the store of every edge; the signer that an edge works with is in its   *)
(* memory.  Two processes of the edge change the signer one call at a      *)
(* time: the admin handlers, under urlkeyAdminMu, and the poller, which    *)
(* follows the registry of the coord at the base URL.                      *)
(***************************************************************************)
EXTENDS CoordClient

CONSTANTS
    Kid,        \* key ids, ordered as numbers
    Secret,     \* secrets
    DefaultKid, \* the kid and the secret that seed an empty registry of an edge
    EnvSecret

ASSUME KeyAssumption == Kid \subseteq Nat /\ DefaultKid \in Kid /\ EnvSecret \in Secret

Resting == [at |-> "idle", kid |-> DefaultKid, secret |-> EnvSecret]
NoPoll == [at |-> "idle", list |-> <<>>, todo |-> {}]

VARIABLES
    keys,      \* coord -> registry: kid -> [secret, primary]
    keptKeys,  \* coord -> the same in coord.db while a bootstrap snapshot is open
    local,     \* edge -> registry in its own store
    signer,    \* edge -> Signer
    handler,   \* edge -> where its admin handler stands
    poll,      \* edge -> where its poller stands: the list it got, the kids to visit
    given      \* history: kid -> the secrets it was ever given

keyVars == <<keys, keptKeys, local, signer, handler, poll, given>>
othersOfKeys == <<vars, clientVars>>

LeastKid(S) == CHOOSE k \in S : \A j \in S : k <= j

-----------------------------------------------------------------------------
(* The registry in a store, and the Signer.                                *)

PutURLKeyOnly(r, k, s, primary) ==
    [j \in DOMAIN r \cup {k} |-> IF j = k THEN [secret |-> s, primary |-> primary] ELSE r[j]]

\* A new primary clears the flag of the others.
PutURLKey(r, k, s, primary) ==
    [j \in DOMAIN r \cup {k} |->
        IF j = k THEN [secret |-> s, primary |-> primary]
        ELSE [r[j] EXCEPT !.primary = @ /\ ~primary]]

Deletable(r, k) == k \in DOMAIN r /\ ~r[k].primary
DeleteURLKey(r, k) == [j \in DOMAIN r \ {k} |-> r[j]]

Add(g, k, s) ==
    IF k \in DOMAIN g.keys THEN g
    ELSE [g EXCEPT !.keys = [j \in DOMAIN g.keys \cup {k} |-> IF j = k THEN s ELSE g.keys[j]]]

SetPrimary(g, k) == IF k \in DOMAIN g.keys THEN [g EXCEPT !.primary = k] ELSE g

RemovableUnchecked(g, k) == k \in DOMAIN g.keys /\ Cardinality(DOMAIN g.keys) > 1

Removable(g, k) == k \in DOMAIN g.keys /\ k # g.primary /\ Cardinality(DOMAIN g.keys) > 1
Remove(g, k) == IF Removable(g, k) THEN [g EXCEPT !.keys = [j \in DOMAIN g.keys \ {k} |-> g.keys[j]]] ELSE g

\* Boot of an edge that is not told which kid to sign with (EDGE_URLKEY_PRIMARY_KID):
\* the signer has the keys of its store, and its primary (else the first kid).
Loaded(r) ==
    [keys |-> [k \in DOMAIN r |-> r[k].secret],
     primary |-> LeastKid(IF \E k \in DOMAIN r : r[k].primary THEN {k \in DOMAIN r : r[k].primary} ELSE DOMAIN r)]

-----------------------------------------------------------------------------
(* The handlers of a coord.                                                *)

MayRotate == used.keyOps < conf.maxKeyOps

handleAdminRotateURLKey(c, k, s, primary) ==
    /\ IsLeader(c) /\ MayRotate /\ Spend("keyOps")
    /\ keys' = [keys EXCEPT ![c] = PutURLKey(@, k, s, primary)]
    /\ given' = [given EXCEPT ![k] = @ \cup {s}]
    /\ UNCHANGED <<coordVars, clientVars, keptKeys, local, signer, handler, poll>>

handleAdminRemoveURLKey(c, k) ==
    /\ IsLeader(c) /\ MayRotate /\ Spend("keyOps")
    /\ Deletable(keys[c], k) /\ keys' = [keys EXCEPT ![c] = DeleteURLKey(@, k)]
    /\ UNCHANGED <<coordVars, clientVars, keptKeys, local, signer, handler, poll, given>>

\* A coord is restarted, and with it the keys of the store it opens.
RestartKeyedCoord(c, from) ==
    /\ RestartCoord(c, from)
    /\ LET mine == IF keptKeys[c] = NoFile THEN keys[c] ELSE keptKeys[c][1]
       IN /\ keys' = [keys EXCEPT ![c] = IF from = c THEN mine ELSE keys[from]]
          /\ keptKeys' = [keptKeys EXCEPT ![c] = IF from = c THEN NoFile ELSE <<mine>>]
    /\ UNCHANGED <<local, signer, handler, poll, given>>

-----------------------------------------------------------------------------
(* The admin handlers of an edge.                                          *)

\* handleRotateURLKey: the store, then the signer's keys, then its primary.
RotateStore(e, k, s) ==
    /\ handler[e].at = "idle" /\ MayRotate /\ Spend("keyOps")
    /\ local' = [local EXCEPT ![e] = PutURLKey(@, k, s, TRUE)]
    /\ handler' = [handler EXCEPT ![e] = [at |-> "add", kid |-> k, secret |-> s]]
    /\ given' = [given EXCEPT ![k] = @ \cup {s}]
    /\ UNCHANGED <<coordVars, clientVars, keys, keptKeys, signer, poll>>

RotateAdd(e) ==
    /\ handler[e].at = "add"
    /\ signer' = [signer EXCEPT ![e] = Add(@, handler[e].kid, handler[e].secret)]
    /\ handler' = [handler EXCEPT ![e].at = "primary"]
    /\ UNCHANGED <<othersOfKeys, keys, keptKeys, local, poll, given>>

RotatePrimary(e) ==
    /\ handler[e].at = "primary"
    /\ signer' = [signer EXCEPT ![e] = SetPrimary(@, handler[e].kid)]
    /\ handler' = [handler EXCEPT ![e] = Resting]
    /\ UNCHANGED <<othersOfKeys, keys, keptKeys, local, poll, given>>

\* handleRemoveURLKey: the signer, then the store unless it refuses.
RemoveSigner(e, k) ==
    /\ handler[e].at = "idle" /\ MayRotate /\ Spend("keyOps")
    /\ Removable(signer[e], k) /\ signer' = [signer EXCEPT ![e] = Remove(@, k)]
    /\ handler' = [handler EXCEPT ![e] = [Resting EXCEPT !.at = "delete", !.kid = k]]
    /\ UNCHANGED <<coordVars, clientVars, keys, keptKeys, local, poll, given>>

RemoveStore(e) ==
    /\ handler[e].at = "delete"
    /\ local' = [local EXCEPT ![e] = IF Deletable(@, handler[e].kid) THEN DeleteURLKey(@, handler[e].kid) ELSE @]
    /\ handler' = [handler EXCEPT ![e] = Resting]
    /\ UNCHANGED <<othersOfKeys, keys, keptKeys, signer, poll, given>>

RestartKeyedEdge(e) ==
    /\ RestartEdge(e)
    /\ signer' = [signer EXCEPT ![e] = Loaded(local[e])]
    /\ handler' = [handler EXCEPT ![e] = Resting] /\ poll' = [poll EXCEPT ![e] = NoPoll]
    /\ UNCHANGED <<keys, keptKeys, local, given>>

-----------------------------------------------------------------------------
(* The poller: ListURLKeys, then SyncURLKeys.  A list that fails is skipped. *)

Polls(e, r) == poll' = [poll EXCEPT ![e] = r]

ListURLKeysIfCountDiffers(e) ==
    /\ e \in conf.polling /\ poll[e].at = "idle"
    /\ LET r == keys[base[e]]
       IN /\ Cardinality(DOMAIN r) # Cardinality(DOMAIN signer[e].keys)
          /\ Polls(e, [at |-> "add", list |-> r, todo |-> DOMAIN r])
    /\ UNCHANGED <<othersOfKeys, keys, keptKeys, local, signer, handler, given>>

ListURLKeys(e) ==
    /\ e \in conf.polling /\ poll[e].at = "idle"
    /\ LET r == keys[base[e]] IN Polls(e, [at |-> "add", list |-> r, todo |-> DOMAIN r])
    /\ UNCHANGED <<othersOfKeys, keys, keptKeys, local, signer, handler, given>>

SyncAdd(e) ==
    /\ poll[e].at = "add"
    /\ \/ /\ poll[e].todo # {}
          /\ LET k == LeastKid(poll[e].todo)
             IN /\ signer' = [signer EXCEPT ![e] = Add(@, k, poll[e].list[k].secret)]
                /\ Polls(e, [poll[e] EXCEPT !.todo = @ \ {k}])
       \/ poll[e].todo = {} /\ Polls(e, [poll[e] EXCEPT !.at = "primary"]) /\ UNCHANGED signer
    /\ UNCHANGED <<othersOfKeys, keys, keptKeys, local, handler, given>>

\* The primary before the removals, which refuse the primary.
SyncPrimary(e) ==
    /\ poll[e].at = "primary"
    /\ LET P == {k \in DOMAIN poll[e].list : poll[e].list[k].primary}
       IN signer' = IF P = {} THEN signer ELSE [signer EXCEPT ![e] = SetPrimary(@, LeastKid(P))]
    /\ Polls(e, [poll[e] EXCEPT !.at = "kids"])
    /\ UNCHANGED <<othersOfKeys, keys, keptKeys, local, handler, given>>

SyncKids(e) ==
    /\ poll[e].at = "kids"
    /\ Polls(e, [poll[e] EXCEPT !.at = "remove", !.todo = DOMAIN signer[e].keys \ DOMAIN poll[e].list])
    /\ UNCHANGED <<othersOfKeys, keys, keptKeys, local, signer, handler, given>>

SyncRemove(e) ==
    /\ poll[e].at = "remove"
    /\ \/ /\ poll[e].todo # {}
          /\ LET k == LeastKid(poll[e].todo)
             IN /\ signer' = [signer EXCEPT ![e] = Remove(@, k)]
                /\ Polls(e, [poll[e] EXCEPT !.todo = @ \ {k}])
       \/ poll[e].todo = {} /\ Polls(e, NoPoll) /\ UNCHANGED signer
    /\ UNCHANGED <<othersOfKeys, keys, keptKeys, local, handler, given>>

-----------------------------------------------------------------------------
edgeVars == <<vars, clientVars, keyVars>>

EdgeInit ==
    /\ ClientInit
    /\ keys = [c \in Coord |-> <<>>]
    /\ keptKeys = [c \in Coord |-> NoFile]
    /\ local = [e \in Edge |-> PutURLKey(<<>>, DefaultKid, EnvSecret, TRUE)]
    /\ signer = [e \in Edge |-> Loaded(local[e])]
    /\ handler = [e \in Edge |-> Resting]
    /\ poll = [e \in Edge |-> NoPoll]
    /\ given = [k \in Kid |-> IF k = DefaultKid THEN {EnvSecret} ELSE {}]

CoordKeys ==
    \E c \in conf.coords, k \in Kid :
        \/ \E s \in Secret, p \in BOOLEAN : handleAdminRotateURLKey(c, k, s, p)
        \/ handleAdminRemoveURLKey(c, k)

EdgeAdmin(e) == RotateAdd(e) \/ RotatePrimary(e) \/ RemoveStore(e)

Poll(e) == ListURLKeys(e) \/ SyncAdd(e) \/ SyncPrimary(e) \/ SyncKids(e) \/ SyncRemove(e)

EdgeNext ==
    \/ ClientNext /\ UNCHANGED keyVars
    \/ ~electing /\ Registers /\ UNCHANGED <<clientVars, keyVars>>
    \/ \E a \in Admin : Refresh(a) /\ UNCHANGED <<clientVars, keyVars>>
    \/ CoordKeys
    \/ \E c, p \in conf.coords : RestartKeyedCoord(c, p)
    \/ \E e \in conf.edges : RestartKeyedEdge(e) \/ EdgeAdmin(e) \/ Poll(e)
    \/ \E e \in conf.edges, k \in Kid : RemoveSigner(e, k) \/ \E s \in Secret : RotateStore(e, k, s)

\* The poller of an edge runs on its ticker, and its handlers end.
EdgeSpec ==
    /\ EdgeInit /\ [][EdgeNext]_edgeVars
    /\ \A e \in Edge : WF_edgeVars(Poll(e)) /\ WF_edgeVars(EdgeAdmin(e))

-----------------------------------------------------------------------------
(* Properties.                                                             *)

PrimariesOf(r) == {k \in DOMAIN r : r[k].primary}

\* No registry of keys has two primaries, and that of an edge has one, so that a
\* restart finds one key to sign with (not always the one it signed with before: a
\* poll changes the signer and not the registry of the edge).
OnePrimary ==
    /\ \A c \in Coord : Cardinality(PrimariesOf(keys[c])) <= 1
    /\ \A e \in Edge : Cardinality(PrimariesOf(local[e])) = 1

\* However the poller and the admin handlers interleave, an edge has the secret it
\* signs with, and one that was given to that kid.
SignerUsable ==
    \A e \in Edge :
        /\ signer[e].primary \in DOMAIN signer[e].keys
        /\ \A k \in DOMAIN signer[e].keys : signer[e].keys[k] \in given[k]

\* The signer of e agrees with the registry of the coord it polls: the same kids
\* (its primary may be one more if the registry has none), the same primary, and
\* the same secret for every kid that was never given two.
Synced(e) ==
    LET r == keys[base[e]] IN
    /\ DOMAIN signer[e].keys = DOMAIN r \cup {signer[e].primary}
    /\ \A k \in PrimariesOf(r) : signer[e].primary = k
    /\ \A k \in DOMAIN r : Cardinality(given[k]) = 1 => signer[e].keys[k] = r[k].secret

\* Once rotations end, a polling edge comes to agree with its coord for good,
\* whatever its own admin handlers did in between.
KeysConverge == \A e \in Edge : <>[](e \in conf.polling => Synced(e))

=============================================================================
