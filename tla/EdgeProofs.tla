----------------------------- MODULE EdgeProofs -----------------------------
(***************************************************************************)
(* Proofs about the URL keys of coords and edges, for any coords, edges,   *)
(* kids, secrets and bounds, and any interleaving of admin handlers,       *)
(* pollers, elections and restarts.                                        *)
(***************************************************************************)
EXTENDS ClientProofs, FiniteSetTheorems

\* The prover tried at a leaf that names none.
USE ZenonT(30)

-----------------------------------------------------------------------------
(* What one call of a registry or a signer preserves.  G is the history of *)
(* the secrets that each kid was given.                                    *)

IsRegistry(r, G) ==
    /\ DOMAIN r \subseteq Kid
    /\ \A k \in DOMAIN r : r[k] \in [secret : G[k], primary : BOOLEAN]
    /\ \A j, k \in PrimariesOf(r) : j = k

IsSigner(g, G) ==
    /\ g = [keys |-> g.keys, primary |-> g.primary]
    /\ DOMAIN g.keys \subseteq Kid /\ g.primary \in DOMAIN g.keys
    /\ \A k \in DOMAIN g.keys : g.keys[k] \in G[k]

LEMMA LeastExists ==
    ASSUME NEW S, S \subseteq Nat, S # {}
    PROVE  \E k \in S : \A j \in S : k <= j
<1> DEFINE R == OpToRel(<, Nat)
<1>1. \A x, y \in Nat : x < y => <<x, y>> \in R
  BY DEF OpToRel
<1>2. IsWellFoundedOn(R, Nat)
  BY NatLessThanWellFounded
<1> HIDE DEF R
<1>3. PICK k \in S : \A j \in S : ~(<<j, k>> \in R)
  BY <1>2, WFMin
<1>4. \A j \in S : ~(j < k)
  BY <1>1, <1>3
<1> QED
  BY <1>4, SMTT(30)

LEMMA LeastKidMember ==
    ASSUME NEW S, S \subseteq Kid, S # {}
    PROVE  LeastKid(S) \in S
<1>1. \E k \in S : \A j \in S : k <= j
  BY LeastExists, KeyAssumption
<1> QED
  BY <1>1 DEF LeastKid

LEMMA RegistryPut ==
    ASSUME NEW G, NEW r, IsRegistry(r, G), NEW k \in Kid, NEW s \in G[k], NEW p \in BOOLEAN
    PROVE  IsRegistry(PutURLKey(r, k, s, p), G) /\ (p => k \in PrimariesOf(PutURLKey(r, k, s, p)))
<1> DEFINE q == PutURLKey(r, k, s, p)
<1>1. DOMAIN q = DOMAIN r \cup {k} /\ q[k] = [secret |-> s, primary |-> p]
  BY DEF PutURLKey
<1>2. ASSUME NEW j \in DOMAIN r, j # k
      PROVE  q[j] \in [secret : G[j], primary : BOOLEAN] /\ (q[j].primary => r[j].primary /\ ~p)
  <2>1. r[j] \in [secret : G[j], primary : BOOLEAN]
    BY DEF IsRegistry
  <2>2. q[j] = [r[j] EXCEPT !.primary = r[j].primary /\ ~p]
    BY <1>2 DEF PutURLKey
  <2>3. (r[j].primary /\ ~p) \in BOOLEAN
    OBVIOUS
  <2> QED
    BY <2>1, <2>2, <2>3
<1>3. DOMAIN q \subseteq Kid
  BY <1>1 DEF IsRegistry
<1>4. \A j \in DOMAIN q : q[j] \in [secret : G[j], primary : BOOLEAN]
  BY <1>1, <1>2, SMTT(30)
<1>5. q[k].primary = p
  BY <1>1, SMTT(30)
<1> HIDE DEF q
<1>6. p => k \in PrimariesOf(q)
  <2>1. k \in DOMAIN q
    BY <1>1
  <2> QED
    BY <1>5, <2>1 DEF PrimariesOf
<1>7. \A i, j \in PrimariesOf(q) : i = j
  <2>1. \A j \in PrimariesOf(q) : (j = k /\ p) \/ (j \in PrimariesOf(r) /\ ~p)
    <3> SUFFICES ASSUME NEW j \in PrimariesOf(q) PROVE (j = k /\ p) \/ (j \in PrimariesOf(r) /\ ~p)
      OBVIOUS
    <3>1. j \in DOMAIN q /\ q[j].primary
      BY DEF PrimariesOf
    <3>2. CASE j = k
      BY <1>5, <3>1, <3>2
    <3>3. CASE j # k
      <4>1. j \in DOMAIN r
        BY <1>1, <3>1, <3>3
      <4> QED
        BY <1>2, <3>1, <3>3, <4>1 DEF PrimariesOf
    <3> QED
      BY <3>2, <3>3
  <2> QED
    BY <2>1 DEF IsRegistry
<1> QED
  BY <1>3, <1>4, <1>6, <1>7 DEF IsRegistry, q

LEMMA RegistryDelete ==
    ASSUME NEW G, NEW r, IsRegistry(r, G), NEW k, Deletable(r, k)
    PROVE  IsRegistry(DeleteURLKey(r, k), G) /\ PrimariesOf(DeleteURLKey(r, k)) = PrimariesOf(r)
<1> DEFINE q == DeleteURLKey(r, k)
<1>1. DOMAIN q = DOMAIN r \ {k} /\ \A j \in DOMAIN q : q[j] = r[j]
  BY DEF DeleteURLKey
<1>2. PrimariesOf(q) = PrimariesOf(r)
  BY <1>1, SMTT(30) DEF PrimariesOf, Deletable
<1> QED
  BY <1>1, <1>2 DEF IsRegistry

LEMMA SignerAdd ==
    ASSUME NEW G, NEW g, IsSigner(g, G), NEW k \in Kid, NEW s \in G[k]
    PROVE  IsSigner(Add(g, k, s), G)
<1>1. CASE k \in DOMAIN g.keys
  BY <1>1 DEF Add
<1>2. CASE k \notin DOMAIN g.keys
  <2> DEFINE m == [j \in DOMAIN g.keys \cup {k} |-> IF j = k THEN s ELSE g.keys[j]]
  <2>1. Add(g, k, s) = [keys |-> m, primary |-> g.primary]
    BY <1>2 DEF Add, IsSigner
  <2>2. DOMAIN m = DOMAIN g.keys \cup {k} /\ \A j \in DOMAIN m : m[j] \in G[j]
    BY DEF IsSigner
  <2> HIDE DEF m
  <2> QED
    BY <2>1, <2>2, SMTT(30) DEF IsSigner
<1> QED
  BY <1>1, <1>2

LEMMA SignerSetPrimary ==
    ASSUME NEW G, NEW g, IsSigner(g, G), NEW k
    PROVE  IsSigner(SetPrimary(g, k), G)
<1>1. CASE k \in DOMAIN g.keys
  <2>1. SetPrimary(g, k) = [keys |-> g.keys, primary |-> k]
    BY <1>1 DEF SetPrimary, IsSigner
  <2> QED
    BY <1>1, <2>1, SMTT(30) DEF IsSigner
<1>2. CASE k \notin DOMAIN g.keys
  BY <1>2 DEF SetPrimary
<1> QED
  BY <1>1, <1>2

LEMMA SignerRemove ==
    ASSUME NEW G, NEW g, IsSigner(g, G), NEW k
    PROVE  IsSigner(Remove(g, k), G)
<1>1. CASE Removable(g, k)
  <2> DEFINE m == [j \in DOMAIN g.keys \ {k} |-> g.keys[j]]
  <2>1. Remove(g, k) = [keys |-> m, primary |-> g.primary]
    BY <1>1 DEF Remove, IsSigner
  <2>2. DOMAIN m = DOMAIN g.keys \ {k} /\ g.primary \in DOMAIN m /\ \A j \in DOMAIN m : m[j] \in G[j]
    BY <1>1 DEF IsSigner, Removable
  <2> HIDE DEF m
  <2> QED
    BY <2>1, <2>2, SMTT(30) DEF IsSigner
<1>2. CASE ~Removable(g, k)
  BY <1>2 DEF Remove
<1> QED
  BY <1>1, <1>2

LEMMA SignerLoaded ==
    ASSUME NEW G, NEW r, IsRegistry(r, G), PrimariesOf(r) # {}
    PROVE  IsSigner(Loaded(r), G)
<1> DEFINE m == [k \in DOMAIN r |-> r[k].secret]
<1>1. Loaded(r) = [keys |-> m, primary |-> LeastKid(PrimariesOf(r))]
  BY DEF Loaded, PrimariesOf
<1>2. LeastKid(PrimariesOf(r)) \in PrimariesOf(r)
  BY LeastKidMember DEF PrimariesOf, IsRegistry
<1>3. DOMAIN m = DOMAIN r /\ \A k \in DOMAIN m : m[k] \in G[k]
  BY DEF IsRegistry
<1> HIDE DEF m
<1> QED
  BY <1>1, <1>2, <1>3, SMTT(30) DEF IsSigner, IsRegistry, PrimariesOf

-----------------------------------------------------------------------------
(* The ledger of keys.                                                     *)

IsHandler(h, G) ==
    /\ h = [f \in {"at", "kid", "secret"} |-> h[f]]
    /\ h.at = "add" => h.kid \in Kid /\ h.secret \in G[h.kid]

IsPoll(p, G) ==
    /\ p = [f \in {"at", "list", "todo"} |-> p[f]]
    /\ p.at # "idle" => IsRegistry(p.list, G)
    /\ p.at = "add" => p.todo \subseteq DOMAIN p.list

EdgeSound(l, g, h, p, G) ==
    /\ IsRegistry(l, G) /\ PrimariesOf(l) # {}
    /\ IsSigner(g, G) /\ IsHandler(h, G) /\ IsPoll(p, G)

CoordSound(r, f, G) == IsRegistry(r, G) /\ (f # NoFile => IsRegistry(f[1], G))

\* All that a signer may come to hold was given: in the stores, in snapshots, in the
\* hands of a handler and in the list of a poller.
KeyLedger ==
    /\ given = [k \in Kid |-> given[k]]
    /\ keys = [c \in Coord |-> keys[c]] /\ keptKeys = [c \in Coord |-> keptKeys[c]]
    /\ local = [e \in Edge |-> local[e]] /\ signer = [e \in Edge |-> signer[e]]
    /\ handler = [e \in Edge |-> handler[e]] /\ poll = [e \in Edge |-> poll[e]]
    /\ \A c \in Coord : CoordSound(keys[c], keptKeys[c], given)
    /\ \A e \in Edge : EdgeSound(local[e], signer[e], handler[e], poll[e], given)

LEMMA RegistryGrows ==
    ASSUME NEW G, NEW H, \A k \in Kid : G[k] \subseteq H[k], NEW r, IsRegistry(r, G)
    PROVE  IsRegistry(r, H)
<1>1. \A k \in DOMAIN r : r[k] \in [secret : H[k], primary : BOOLEAN]
  <2> SUFFICES ASSUME NEW k \in DOMAIN r PROVE r[k] \in [secret : H[k], primary : BOOLEAN]
    OBVIOUS
  <2>1. r[k] \in [secret : G[k], primary : BOOLEAN] /\ G[k] \subseteq H[k]
    BY DEF IsRegistry
  <2> QED
    BY <2>1
<1> QED
  BY <1>1 DEF IsRegistry

LEMMA SoundGrows ==
    ASSUME NEW G, NEW H, \A k \in Kid : G[k] \subseteq H[k]
    PROVE  /\ \A r, f : CoordSound(r, f, G) => CoordSound(r, f, H)
           /\ \A l, g, h, p : EdgeSound(l, g, h, p, G) => EdgeSound(l, g, h, p, H)
<1>1. \A r : IsRegistry(r, G) => IsRegistry(r, H)
  BY RegistryGrows
<1>2. \A g : IsSigner(g, G) => IsSigner(g, H)
  BY DEF IsSigner
<1>3. \A h : IsHandler(h, G) => IsHandler(h, H)
  BY DEF IsHandler
<1>4. \A p : IsPoll(p, G) => IsPoll(p, H)
  BY <1>1 DEF IsPoll
<1> QED
  BY <1>1, <1>2, <1>3, <1>4 DEF CoordSound, EdgeSound

\* What a step changes at one edge, and at one coord.
EdgeStep(e, l, g, h, p) ==
    /\ local' = [local EXCEPT ![e] = l] /\ signer' = [signer EXCEPT ![e] = g]
    /\ handler' = [handler EXCEPT ![e] = h] /\ poll' = [poll EXCEPT ![e] = p]
    /\ UNCHANGED <<keys, keptKeys>>

CoordStep(c, r, f) ==
    /\ keys' = [keys EXCEPT ![c] = r] /\ keptKeys' = [keptKeys EXCEPT ![c] = f]
    /\ UNCHANGED <<local, signer, handler, poll>>

\* A kid is given a secret, or none is.
Gives == given' = given \/ \E k \in Kid, s \in Secret : given' = [given EXCEPT ![k] = @ \cup {s}]

LEMMA GivenGrows ==
    ASSUME KeyLedger, Gives
    PROVE  given' = [k \in Kid |-> given'[k]] /\ \A k \in Kid : given[k] \subseteq given'[k]
BY DEF KeyLedger, Gives

LEMMA KeysAtEdge ==
    ASSUME KeyLedger, Gives, NEW e \in Edge, NEW l, NEW g, NEW h, NEW p, EdgeStep(e, l, g, h, p),
           EdgeSound(l, g, h, p, given')
    PROVE  KeyLedger'
<1>1. given' = [k \in Kid |-> given'[k]] /\ \A k \in Kid : given[k] \subseteq given'[k]
  BY GivenGrows
<1>2. \A c \in Coord : CoordSound(keys'[c], keptKeys'[c], given')
  BY <1>1, SoundGrows DEF KeyLedger, EdgeStep
<1>3. ASSUME NEW d \in Edge PROVE EdgeSound(local'[d], signer'[d], handler'[d], poll'[d], given')
  <2>1. CASE d = e
    BY <2>1 DEF KeyLedger, EdgeStep
  <2>2. CASE d # e
    <3>1. EdgeSound(local[d], signer[d], handler[d], poll[d], given')
      BY <1>1, SoundGrows DEF KeyLedger
    <3>2. local'[d] = local[d] /\ signer'[d] = signer[d] /\ handler'[d] = handler[d] /\ poll'[d] = poll[d]
      BY <2>2 DEF EdgeStep, KeyLedger
    <3> QED
      BY <3>1, <3>2
  <2> QED
    BY <2>1, <2>2
<1>4. /\ keys' = [c \in Coord |-> keys'[c]] /\ keptKeys' = [c \in Coord |-> keptKeys'[c]]
      /\ local' = [d \in Edge |-> local'[d]] /\ signer' = [d \in Edge |-> signer'[d]]
      /\ handler' = [d \in Edge |-> handler'[d]] /\ poll' = [d \in Edge |-> poll'[d]]
  BY DEF KeyLedger, EdgeStep
<1> QED
  BY <1>1, <1>2, <1>3, <1>4 DEF KeyLedger, CoordSound, EdgeSound, IsRegistry, IsSigner, IsHandler, IsPoll, PrimariesOf

LEMMA KeysAtCoord ==
    ASSUME KeyLedger, Gives, NEW c \in Coord, NEW r, NEW f, CoordStep(c, r, f), CoordSound(r, f, given')
    PROVE  KeyLedger'
<1>1. given' = [k \in Kid |-> given'[k]] /\ \A k \in Kid : given[k] \subseteq given'[k]
  BY GivenGrows
<1>2. \A e \in Edge : EdgeSound(local'[e], signer'[e], handler'[e], poll'[e], given')
  BY <1>1, SoundGrows DEF KeyLedger, CoordStep
<1>3. ASSUME NEW d \in Coord PROVE CoordSound(keys'[d], keptKeys'[d], given')
  <2>1. CASE d = c
    BY <2>1 DEF KeyLedger, CoordStep
  <2>2. CASE d # c
    <3>1. CoordSound(keys[d], keptKeys[d], given')
      BY <1>1, SoundGrows DEF KeyLedger
    <3>2. keys'[d] = keys[d] /\ keptKeys'[d] = keptKeys[d]
      BY <2>2 DEF CoordStep, KeyLedger
    <3> QED
      BY <3>1, <3>2
  <2> QED
    BY <2>1, <2>2
<1>4. /\ keys' = [d \in Coord |-> keys'[d]] /\ keptKeys' = [d \in Coord |-> keptKeys'[d]]
      /\ local' = [e \in Edge |-> local'[e]] /\ signer' = [e \in Edge |-> signer'[e]]
      /\ handler' = [e \in Edge |-> handler'[e]] /\ poll' = [e \in Edge |-> poll'[e]]
  BY DEF KeyLedger, CoordStep
<1> QED
  BY <1>1, <1>2, <1>3, <1>4 DEF KeyLedger, CoordSound, EdgeSound, IsRegistry, IsSigner, IsHandler, IsPoll, PrimariesOf

LEMMA KeysUntouched ==
    ASSUME KeyLedger, UNCHANGED keyVars
    PROVE  KeyLedger'
<1>1. /\ keys' = keys /\ keptKeys' = keptKeys /\ local' = local /\ signer' = signer
      /\ handler' = handler /\ poll' = poll /\ given' = given
  BY DEF keyVars
<1>2. \A c \in Coord : CoordSound(keys'[c], keptKeys'[c], given')
  BY <1>1 DEF KeyLedger
<1>3. \A e \in Edge : EdgeSound(local'[e], signer'[e], handler'[e], poll'[e], given')
  BY <1>1 DEF KeyLedger
<1> QED
  BY <1>1, <1>2, <1>3 DEF KeyLedger, CoordSound, EdgeSound, IsRegistry, IsSigner, IsHandler, IsPoll, PrimariesOf

LEMMA KeysInit == EdgeInit => KeyLedger
<1> SUFFICES ASSUME EdgeInit PROVE KeyLedger
  OBVIOUS
<1> DEFINE seed == PutURLKey(<<>>, DefaultKid, EnvSecret, TRUE)
<1>1. IsRegistry(<<>>, given)
  <2>1. DOMAIN <<>> = {}
    BY SMTT(30)
  <2> QED
    BY <2>1 DEF IsRegistry, PrimariesOf
<1>2. given = [k \in Kid |-> IF k = DefaultKid THEN {EnvSecret} ELSE {}]
  BY DEF EdgeInit
<1>3. EnvSecret \in given[DefaultKid] /\ DefaultKid \in Kid
  BY <1>2, KeyAssumption
<1>4. IsRegistry(seed, given) /\ DefaultKid \in PrimariesOf(seed)
  BY <1>1, <1>3, RegistryPut
<1>5. IsSigner(Loaded(seed), given)
  BY <1>4, SignerLoaded
<1>6. IsHandler(Resting, given) /\ IsPoll(NoPoll, given)
  BY DEF IsHandler, Resting, IsPoll, NoPoll
<1> HIDE DEF seed
<1>7. EdgeSound(seed, Loaded(seed), Resting, NoPoll, given) /\ CoordSound(<<>>, NoFile, given)
  BY <1>1, <1>4, <1>5, <1>6 DEF EdgeSound, CoordSound
<1>8. /\ keys = [c \in Coord |-> <<>>] /\ keptKeys = [c \in Coord |-> NoFile]
      /\ local = [e \in Edge |-> seed] /\ signer = [e \in Edge |-> Loaded(local[e])]
      /\ handler = [e \in Edge |-> Resting] /\ poll = [e \in Edge |-> NoPoll]
  BY DEF EdgeInit, seed
<1>9. signer = [e \in Edge |-> Loaded(seed)]
  BY <1>8
<1> QED
  BY <1>2, <1>7, <1>8, <1>9 DEF KeyLedger

LEMMA KeysOfCoords ==
    ASSUME KeyLedger, conf.coords \subseteq Coord, CoordKeys
    PROVE  KeyLedger'
<1>1. ASSUME NEW c \in Coord, NEW k \in Kid, NEW s \in Secret, NEW p \in BOOLEAN,
             handleAdminRotateURLKey(c, k, s, p)
      PROVE  KeyLedger'
  <2> DEFINE r == PutURLKey(keys[c], k, s, p)
  <2>1. given' = [given EXCEPT ![k] = @ \cup {s}] /\ Gives
    BY <1>1 DEF handleAdminRotateURLKey, Gives
  <2>2. s \in given'[k] /\ \A j \in Kid : given[j] \subseteq given'[j]
    BY <2>1, GivenGrows DEF KeyLedger
  <2>3. CoordSound(keys[c], keptKeys[c], given')
    BY <2>2, SoundGrows DEF KeyLedger
  <2>4. CoordSound(r, keptKeys[c], given')
    BY <2>2, <2>3, RegistryPut DEF CoordSound
  <2>5. CoordStep(c, r, keptKeys[c])
    BY <1>1 DEF handleAdminRotateURLKey, CoordStep, KeyLedger
  <2> QED
    BY <2>1, <2>4, <2>5, KeysAtCoord
<1>2. ASSUME NEW c \in Coord, NEW k \in Kid, handleAdminRemoveURLKey(c, k) PROVE KeyLedger'
  <2> DEFINE r == DeleteURLKey(keys[c], k)
  <2>1. Gives /\ given' = given
    BY <1>2 DEF handleAdminRemoveURLKey, Gives
  <2>2. Deletable(keys[c], k) /\ CoordSound(keys[c], keptKeys[c], given)
    BY <1>2 DEF handleAdminRemoveURLKey, KeyLedger
  <2>3. CoordSound(r, keptKeys[c], given')
    BY <2>1, <2>2, RegistryDelete DEF CoordSound
  <2>4. CoordStep(c, r, keptKeys[c])
    BY <1>2 DEF handleAdminRemoveURLKey, CoordStep, KeyLedger
  <2> QED
    BY <2>1, <2>3, <2>4, KeysAtCoord
<1> QED
  BY <1>1, <1>2 DEF CoordKeys

LEMMA KeysOfRestartedCoord ==
    ASSUME KeyLedger, NEW c \in Coord, NEW from \in Coord, RestartKeyedCoord(c, from)
    PROVE  KeyLedger'
<1> DEFINE mine == IF keptKeys[c] = NoFile THEN keys[c] ELSE keptKeys[c][1]
           r == IF from = c THEN mine ELSE keys[from]
           f == IF from = c THEN NoFile ELSE <<mine>>
<1>1. Gives /\ given' = given /\ CoordStep(c, r, f)
  BY DEF RestartKeyedCoord, Gives, CoordStep
<1>2. IsRegistry(mine, given) /\ IsRegistry(keys[from], given)
  BY DEF KeyLedger, CoordSound
<1>3. CoordSound(r, f, given')
  BY <1>1, <1>2 DEF CoordSound
<1> QED
  BY <1>1, <1>3, KeysAtCoord

\* The handlers of an edge: each step of theirs leaves the poller alone.
LEMMA KeysOfHandlers ==
    ASSUME KeyLedger, NEW e \in Edge,
           \/ EdgeAdmin(e)
           \/ \E k \in Kid : RemoveSigner(e, k) \/ \E s \in Secret : RotateStore(e, k, s)
    PROVE  KeyLedger'
<1>1. EdgeSound(local[e], signer[e], handler[e], poll[e], given)
  BY DEF KeyLedger
<1>2. IsHandler(Resting, given)
  BY DEF IsHandler, Resting
<1>3. CASE RotateAdd(e)
  <2> DEFINE g == Add(signer[e], handler[e].kid, handler[e].secret)
             h == [handler[e] EXCEPT !.at = "primary"]
  <2>1. Gives /\ given' = given /\ EdgeStep(e, local[e], g, h, poll[e])
    BY <1>3 DEF RotateAdd, Gives, EdgeStep, KeyLedger
  <2>2. IsHandler(h, given)
    BY <1>1 DEF EdgeSound, IsHandler
  <2>3. IsSigner(g, given)
    BY <1>1, <1>3, SignerAdd DEF RotateAdd, EdgeSound, IsHandler
  <2>4. EdgeSound(local[e], g, h, poll[e], given')
    BY <1>1, <2>1, <2>2, <2>3 DEF EdgeSound
  <2> QED
    BY <2>1, <2>4, KeysAtEdge
<1>4. CASE RotatePrimary(e)
  <2> DEFINE g == SetPrimary(signer[e], handler[e].kid)
  <2>1. Gives /\ given' = given /\ EdgeStep(e, local[e], g, Resting, poll[e])
    BY <1>4 DEF RotatePrimary, Gives, EdgeStep, KeyLedger
  <2>2. EdgeSound(local[e], g, Resting, poll[e], given')
    BY <1>1, <1>2, <2>1, SignerSetPrimary DEF EdgeSound
  <2> QED
    BY <2>1, <2>2, KeysAtEdge
<1>5. CASE RemoveStore(e)
  <2> DEFINE k == handler[e].kid
             l == IF Deletable(local[e], k) THEN DeleteURLKey(local[e], k) ELSE local[e]
  <2>1. Gives /\ given' = given /\ EdgeStep(e, l, signer[e], Resting, poll[e])
    BY <1>5 DEF RemoveStore, Gives, EdgeStep, KeyLedger
  <2>2. IsRegistry(l, given) /\ PrimariesOf(l) # {}
    BY <1>1, RegistryDelete DEF EdgeSound
  <2>3. EdgeSound(l, signer[e], Resting, poll[e], given')
    BY <1>1, <1>2, <2>1, <2>2 DEF EdgeSound
  <2> QED
    BY <2>1, <2>3, KeysAtEdge
<1>6. ASSUME NEW k \in Kid, RemoveSigner(e, k) PROVE KeyLedger'
  <2> DEFINE g == Remove(signer[e], k)
             h == [Resting EXCEPT !.at = "delete", !.kid = k]
  <2>1. Gives /\ given' = given /\ EdgeStep(e, local[e], g, h, poll[e])
    BY <1>6 DEF RemoveSigner, Gives, EdgeStep, KeyLedger
  <2>2. IsHandler(h, given)
    BY DEF IsHandler, Resting
  <2>3. EdgeSound(local[e], g, h, poll[e], given')
    BY <1>1, <2>1, <2>2, SignerRemove DEF EdgeSound
  <2> QED
    BY <2>1, <2>3, KeysAtEdge
<1>7. ASSUME NEW k \in Kid, NEW s \in Secret, RotateStore(e, k, s) PROVE KeyLedger'
  <2> DEFINE l == PutURLKey(local[e], k, s, TRUE)
             h == [at |-> "add", kid |-> k, secret |-> s]
  <2>1. Gives /\ given' = [given EXCEPT ![k] = @ \cup {s}] /\ EdgeStep(e, l, signer[e], h, poll[e])
    BY <1>7 DEF RotateStore, Gives, EdgeStep, KeyLedger
  <2>2. s \in given'[k] /\ \A j \in Kid : given[j] \subseteq given'[j]
    BY <2>1, GivenGrows DEF KeyLedger
  <2>3. EdgeSound(local[e], signer[e], handler[e], poll[e], given')
    BY <1>1, <2>2, SoundGrows
  <2>4. IsRegistry(l, given') /\ PrimariesOf(l) # {}
    BY <2>2, <2>3, RegistryPut DEF EdgeSound
  <2>5. IsHandler(h, given')
    BY <2>2 DEF IsHandler
  <2>6. EdgeSound(l, signer[e], h, poll[e], given')
    BY <2>3, <2>4, <2>5 DEF EdgeSound
  <2> QED
    BY <2>1, <2>6, KeysAtEdge
<1> QED
  BY <1>3, <1>4, <1>5, <1>6, <1>7 DEF EdgeAdmin

LEMMA KeysOfRestartedEdge ==
    ASSUME KeyLedger, NEW e \in Edge, RestartKeyedEdge(e)
    PROVE  KeyLedger'
<1>1. EdgeSound(local[e], signer[e], handler[e], poll[e], given)
  BY DEF KeyLedger
<1>2. Gives /\ given' = given /\ EdgeStep(e, local[e], Loaded(local[e]), Resting, NoPoll)
  BY DEF RestartKeyedEdge, Gives, EdgeStep, KeyLedger
<1>3. IsHandler(Resting, given) /\ IsPoll(NoPoll, given)
  BY DEF IsHandler, Resting, IsPoll, NoPoll
<1>4. EdgeSound(local[e], Loaded(local[e]), Resting, NoPoll, given')
  BY <1>1, <1>2, <1>3, SignerLoaded DEF EdgeSound
<1> QED
  BY <1>2, <1>4, KeysAtEdge

\* The poller: each step of its leaves the store and the handlers alone.
LEMMA KeysOfPoller ==
    ASSUME KeyLedger, NEW e \in Edge, base[e] \in Coord, Poll(e)
    PROVE  KeyLedger'
<1>1. /\ EdgeSound(local[e], signer[e], handler[e], poll[e], given)
      /\ IsSigner(signer[e], given) /\ IsPoll(poll[e], given)
  BY DEF KeyLedger, EdgeSound
<1>2. Gives /\ given' = given
  BY DEF Poll, ListURLKeys, SyncAdd, SyncPrimary, SyncKids, SyncRemove, Gives
<1>3. ASSUME NEW g, NEW p, IsSigner(g, given), IsPoll(p, given), EdgeStep(e, local[e], g, handler[e], p)
      PROVE  KeyLedger'
  <2>1. EdgeSound(local[e], g, handler[e], p, given')
    BY <1>1, <1>2, <1>3 DEF EdgeSound
  <2> QED
    BY <1>2, <1>3, <2>1, KeysAtEdge
<1>4. CASE ListURLKeys(e)
  <2> DEFINE r == keys[base[e]]
             p == [at |-> "add", list |-> r, todo |-> DOMAIN r]
  <2>1. IsRegistry(r, given)
    BY DEF KeyLedger, CoordSound
  <2>2. IsPoll(p, given)
    BY <2>1 DEF IsPoll
  <2>3. EdgeStep(e, local[e], signer[e], handler[e], p)
    BY <1>4 DEF ListURLKeys, Polls, EdgeStep, KeyLedger
  <2> QED
    BY <1>1, <1>3, <2>2, <2>3
<1>5. CASE SyncAdd(e)
  <2>1. CASE poll[e].todo # {}
    <3> DEFINE k == LeastKid(poll[e].todo)
               g == Add(signer[e], k, poll[e].list[k].secret)
               p == [poll[e] EXCEPT !.todo = @ \ {k}]
    <3>1. IsRegistry(poll[e].list, given) /\ poll[e].todo \subseteq DOMAIN poll[e].list
      BY <1>1, <1>5 DEF SyncAdd, IsPoll
    <3>2. k \in poll[e].todo /\ k \in Kid
      BY <2>1, <3>1, LeastKidMember DEF IsRegistry
    <3>3. poll[e].list[k].secret \in given[k]
      BY <3>1, <3>2 DEF IsRegistry
    <3>4. EdgeStep(e, local[e], g, handler[e], p)
      BY <1>5, <2>1 DEF SyncAdd, Polls, EdgeStep, KeyLedger
    <3> HIDE DEF k
    <3>5. IsSigner(g, given)
      BY <1>1, <3>2, <3>3, SignerAdd
    <3>6. IsPoll(p, given)
      BY <1>1, <3>1 DEF IsPoll
    <3> QED
      BY <1>3, <3>4, <3>5, <3>6
  <2>2. CASE poll[e].todo = {}
    <3> DEFINE p == [poll[e] EXCEPT !.at = "primary"]
    <3>1. IsPoll(p, given)
      BY <1>1, <1>5 DEF SyncAdd, IsPoll
    <3>2. EdgeStep(e, local[e], signer[e], handler[e], p)
      BY <1>5, <2>2 DEF SyncAdd, Polls, EdgeStep, KeyLedger
    <3> QED
      BY <1>1, <1>3, <3>1, <3>2
  <2> QED
    BY <2>1, <2>2
<1>6. CASE SyncPrimary(e)
  <2> DEFINE P == {k \in DOMAIN poll[e].list : poll[e].list[k].primary}
             g == IF P = {} THEN signer[e] ELSE SetPrimary(signer[e], LeastKid(P))
             p == [poll[e] EXCEPT !.at = "kids"]
  <2>1. IsPoll(p, given)
    BY <1>1, <1>6 DEF SyncPrimary, IsPoll
  <2>2. IsSigner(g, given)
    BY <1>1, SignerSetPrimary
  <2>3. EdgeStep(e, local[e], g, handler[e], p)
    BY <1>6 DEF SyncPrimary, Polls, EdgeStep, KeyLedger
  <2> QED
    BY <1>3, <2>1, <2>2, <2>3
<1>7. CASE SyncKids(e)
  <2> DEFINE p == [poll[e] EXCEPT !.at = "remove", !.todo = DOMAIN signer[e].keys \ DOMAIN poll[e].list]
  <2>1. IsPoll(p, given)
    BY <1>1, <1>7 DEF SyncKids, IsPoll
  <2>2. EdgeStep(e, local[e], signer[e], handler[e], p)
    BY <1>7 DEF SyncKids, Polls, EdgeStep, KeyLedger
  <2> QED
    BY <1>1, <1>3, <2>1, <2>2
<1>8. CASE SyncRemove(e)
  <2>1. CASE poll[e].todo # {}
    <3> DEFINE k == LeastKid(poll[e].todo)
               g == Remove(signer[e], k)
               p == [poll[e] EXCEPT !.todo = @ \ {k}]
    <3>1. EdgeStep(e, local[e], g, handler[e], p)
      BY <1>8, <2>1 DEF SyncRemove, Polls, EdgeStep, KeyLedger
    <3> HIDE DEF k
    <3>2. IsSigner(g, given)
      BY <1>1, SignerRemove
    <3>3. IsPoll(p, given)
      BY <1>1, <1>8 DEF SyncRemove, IsPoll
    <3> QED
      BY <1>3, <3>1, <3>2, <3>3
  <2>2. CASE poll[e].todo = {}
    <3>1. IsPoll(NoPoll, given)
      BY DEF IsPoll, NoPoll
    <3>2. EdgeStep(e, local[e], signer[e], handler[e], NoPoll)
      BY <1>8, <2>2 DEF SyncRemove, Polls, EdgeStep, KeyLedger
    <3> QED
      BY <1>1, <1>3, <3>1, <3>2
  <2> QED
    BY <2>1, <2>2
<1> QED
  BY <1>4, <1>5, <1>6, <1>7, <1>8 DEF Poll

LEMMA KeysKept ==
    ASSUME CallLedger, KeyLedger, [EdgeNext]_edgeVars
    PROVE  KeyLedger'
<1>1. conf.coords \subseteq Coord /\ conf.edges \subseteq Edge /\ base \in [Edge -> Coord]
  BY EnvAssumption, HomeAssumption DEF CallLedger, Addresses
<1>2. CASE UNCHANGED keyVars
  BY <1>2, KeysUntouched
<1>3. CASE CoordKeys
  BY <1>1, <1>3, KeysOfCoords
<1>4. ASSUME NEW c \in conf.coords, NEW p \in conf.coords, RestartKeyedCoord(c, p) PROVE KeyLedger'
  BY <1>1, <1>4, KeysOfRestartedCoord
<1>5. ASSUME NEW e \in conf.edges, RestartKeyedEdge(e) PROVE KeyLedger'
  BY <1>1, <1>5, KeysOfRestartedEdge
<1>6. ASSUME NEW e \in conf.edges,
             \/ EdgeAdmin(e)
             \/ \E k \in Kid : RemoveSigner(e, k) \/ \E s \in Secret : RotateStore(e, k, s)
      PROVE  KeyLedger'
  BY <1>1, <1>6, KeysOfHandlers
<1>7. ASSUME NEW e \in conf.edges, Poll(e) PROVE KeyLedger'
  BY <1>1, <1>7, KeysOfPoller
<1>8. CASE UNCHANGED edgeVars
  BY <1>2, <1>8 DEF edgeVars
<1> QED
  BY <1>2, <1>3, <1>4, <1>5, <1>6, <1>7, <1>8 DEF EdgeNext

LEMMA KeysAlways == EdgeSpec => []KeyLedger
<1>1. EdgeInit => CallLedger /\ KeyLedger
  BY CallsInit, KeysInit
<1>2. (CallLedger /\ KeyLedger) /\ [EdgeNext]_edgeVars => (CallLedger /\ KeyLedger)'
  BY CallsKept, KeysKept
<1> QED
  BY <1>1, <1>2, PTL DEF EdgeSpec

\* However pollers, admin handlers, rotations and restarts interleave (Signer.Add,
\* SetPrimary and Remove, SyncURLKeys), an edge has the secret it signs with, and
\* every secret it has was given to that kid.
THEOREM SignerUsableHolds == EdgeSpec => []SignerUsable
<1>1. KeyLedger => SignerUsable
  BY DEF KeyLedger, EdgeSound, IsSigner, SignerUsable
<1> QED
  BY <1>1, KeysAlways, PTL

\* No registry of keys ever has two primaries, and that of an edge always has one
\* (PutURLKey and DeleteURLKey, snapshots and restarts).
THEOREM OnePrimaryHolds == EdgeSpec => []OnePrimary
<1>1. ASSUME NEW S, \A j, k \in S : j = k
      PROVE  Cardinality(S) <= 1 /\ (S # {} => Cardinality(S) = 1)
  <2>1. CASE S = {}
    BY <2>1, FS_EmptySet, SMTT(30)
  <2>2. ASSUME NEW k \in S PROVE Cardinality(S) = 1
    <3>1. S = {k}
      BY <1>1
    <3> QED
      BY <3>1, FS_Singleton
  <2> QED
    BY <2>1, <2>2, SMTT(30)
<1>2. KeyLedger => OnePrimary
  <2> SUFFICES ASSUME KeyLedger PROVE OnePrimary
    OBVIOUS
  <2>1. ASSUME NEW c \in Coord PROVE Cardinality(PrimariesOf(keys[c])) <= 1
    <3>1. \A j, k \in PrimariesOf(keys[c]) : j = k
      BY DEF KeyLedger, CoordSound, IsRegistry
    <3> QED
      BY <1>1, <3>1
  <2>2. ASSUME NEW e \in Edge PROVE Cardinality(PrimariesOf(local[e])) = 1
    <3>1. PrimariesOf(local[e]) # {} /\ \A j, k \in PrimariesOf(local[e]) : j = k
      BY DEF KeyLedger, EdgeSound, IsRegistry
    <3> QED
      BY <1>1, <3>1
  <2> QED
    BY <2>1, <2>2 DEF OnePrimary
<1> QED
  BY <1>2, KeysAlways, PTL

=============================================================================
