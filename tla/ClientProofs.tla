---------------------------- MODULE ClientProofs ----------------------------
(***************************************************************************)
(* Proofs about what the edge's client promises to the handlers that use   *)
(* it (calls carried out once, redirects, the age of lookups, an edge's    *)
(* own changes) and about the placement of a coord on its own.             *)
(***************************************************************************)
EXTENDS UrlKeys, TLAPS

\* The prover tried at a leaf that names none.
USE ZenonT(30)

-----------------------------------------------------------------------------
(* What leaves the Coordinator and the deployment alone.                   *)

\* Only the refresh and the restart of a coord touch the Coordinator, and nothing
\* changes the deployment.
LEMMA ClientStepNodes ==
    ASSUME ClientNext
    PROVE  UNCHANGED <<io, factor, conf>>
<1>1. ASSUME StepDown \/ Tick PROVE UNCHANGED <<io, factor, conf>>
  BY <1>1 DEF StepDown, Tick, coordVars
<1>2. ASSUME NEW c, Elected(c) \/ Learn(c) PROVE UNCHANGED <<io, factor, conf>>
  BY <1>2 DEF Elected, Elect, Learn, coordVars
<1>3. ASSUME NEW t, LookupObject(t) \/ \E op \in conf.ops : Change(t, op) PROVE UNCHANGED <<io, factor, conf>>
  BY <1>3 DEF LookupObject, Change, coordVars
<1>4. ASSUME NEW t, Serve(t) \/ Returns(t) \/ Breaks(t) PROVE UNCHANGED <<io, factor, conf>>
  BY <1>4 DEF Serve, ServeLookup, requireLeader, ServeChange, Returns, LookupReturns, ChangeReturns, FollowHint,
              NoHint, Breaks, coordVars
<1>5. ASSUME NEW r, ServeLate(r) PROVE UNCHANGED <<io, factor, conf>>
  BY <1>5 DEF ServeLate, coordVars
<1> QED
  BY <1>1, <1>2, <1>3, <1>4, <1>5 DEF ClientNext

LEMMA KeyStepNodes ==
    ASSUME \/ CoordKeys
           \/ \E e \in conf.edges : RestartKeyedEdge(e) \/ EdgeAdmin(e) \/ Poll(e)
           \/ \E e \in conf.edges, k \in Kid : RemoveSigner(e, k) \/ \E s \in Secret : RotateStore(e, k, s)
    PROVE  UNCHANGED <<io, factor, conf>>
<1>1. ASSUME CoordKeys PROVE UNCHANGED <<io, factor, conf>>
  BY <1>1 DEF CoordKeys, handleAdminRotateURLKey, handleAdminRemoveURLKey, coordVars
<1>2. ASSUME NEW e, RestartKeyedEdge(e) PROVE UNCHANGED <<io, factor, conf>>
  BY <1>2 DEF RestartKeyedEdge, RestartEdge, coordVars
<1>3. ASSUME NEW e, EdgeAdmin(e) PROVE UNCHANGED <<io, factor, conf>>
  BY <1>3 DEF EdgeAdmin, RotateAdd, RotatePrimary, RemoveStore, othersOfKeys, vars
<1>4. ASSUME NEW e, Poll(e) PROVE UNCHANGED <<io, factor, conf>>
  BY <1>4 DEF Poll, ListURLKeys, SyncAdd, SyncPrimary, SyncKids, SyncRemove, othersOfKeys, vars
<1>5. ASSUME NEW e, NEW k, RemoveSigner(e, k) \/ \E s \in Secret : RotateStore(e, k, s)
      PROVE  UNCHANGED <<io, factor, conf>>
  BY <1>5 DEF RemoveSigner, RotateStore, coordVars
<1> QED
  BY <1>1, <1>2, <1>3, <1>4, <1>5

LEMMA RegistersNodes ==
    ASSUME Registers
    PROVE  UNCHANGED <<io, factor, conf>>
BY DEF Registers, AddRuntimeDN, RemoveRuntimeDN, AppendFails, SetRuntimeDNDomain

LEMMA ConfFixed ==
    ASSUME [EdgeNext]_edgeVars
    PROVE  conf' = conf
<1>1. ASSUME NEW a, Refresh(a) PROVE conf' = conf
  BY <1>1 DEF Refresh
<1>2. ASSUME NEW c, NEW p, RestartKeyedCoord(c, p) PROVE conf' = conf
  BY <1>2 DEF RestartKeyedCoord, RestartCoord, Restart
<1>3. CASE UNCHANGED edgeVars
  BY <1>3 DEF edgeVars, vars
<1> QED
  BY <1>1, <1>2, <1>3, ClientStepNodes, KeyStepNodes, RegistersNodes DEF EdgeNext

-----------------------------------------------------------------------------
(* Calls.                                                                  *)

CallFields ==
    {"at", "op", "target", "attempt", "began", "status", "n", "applied", "asOf", "own", "settled", "epoch"}

IsCall(r) == DOMAIN r = CallFields /\ r = [f \in CallFields |-> r[f]]

\* A call under way has been carried out if and only if it is a change whose answer
\* says so: what is sent (again) was not carried out before.
SoundCall(r) ==
    /\ r.at \in {"idle", "sent", "answer"}
    /\ r.at # "idle" => r.target \in Coord
    /\ r.at # "answer" => r.applied = 0
    /\ r.at = "answer" => r.applied = IF r.op # "lookup" /\ r.status = "ok" THEN 1 ELSE 0

SoundReturn(r) ==
    r.at = "done" /\ r.op # "lookup" =>
        /\ r.status = "ok" => r.applied = 1
        /\ r.status \in {"refused", "absent"} => r.applied = 0

Addresses ==
    /\ conf \in Setups /\ leader \in Coord
    /\ hint \in [Coord -> Coord \cup {NoOne}]
    /\ base \in [Edge -> Coord]

CallLedger ==
    /\ Addresses
    /\ call = [t \in Thread |-> call[t]]
    /\ \A t \in Thread : IsCall(call[t]) /\ SoundCall(call[t])
    /\ SoundReturn(ret)

LEMMA IdleCallSound == IsCall(IdleCall) /\ SoundCall(IdleCall) /\ SoundReturn(IdleCall)
BY DEF IsCall, CallFields, IdleCall, SoundCall, SoundReturn

LEMMA CallsInit == EdgeInit => CallLedger
<1> SUFFICES ASSUME EdgeInit PROVE CallLedger
  OBVIOUS
<1>1. /\ conf \in Setups /\ leader \in conf.coords
      /\ hint = [c \in Coord |-> leader] /\ base = conf.home
      /\ call = [t \in Thread |-> IdleCall] /\ ret = IdleCall
  BY DEF EdgeInit, ClientInit, Init
<1>2. conf.coords \subseteq Coord /\ base \in [Edge -> conf.coords]
  BY <1>1, EnvAssumption, HomeAssumption
<1>3. Addresses
  BY <1>1, <1>2 DEF Addresses
<1> QED
  BY <1>1, <1>3, IdleCallSound DEF CallLedger

\* A step that gives one handler a new sound call keeps the ledger of calls.
LEMMA CallsReplaced ==
    ASSUME CallLedger, Addresses', NEW t \in Thread, NEW r,
           IsCall(r), SoundCall(r), Calls(t, r), SoundReturn(ret')
    PROVE  CallLedger'
<1>1. call' = [call EXCEPT ![t] = r]
  BY DEF Calls
<1>2. \A u \in Thread : IsCall(call'[u]) /\ SoundCall(call'[u])
  BY <1>1 DEF CallLedger
<1>3. call' = [u \in Thread |-> call'[u]]
  BY <1>1 DEF CallLedger
<1> QED
  BY <1>2, <1>3 DEF CallLedger, IsCall, SoundCall, SoundReturn

LEMMA CallsUntouched ==
    ASSUME CallLedger, Addresses', UNCHANGED <<call, ret>>
    PROVE  CallLedger'
BY DEF CallLedger, IsCall, SoundCall, SoundReturn

LEMMA SameAddresses ==
    ASSUME Addresses, UNCHANGED <<conf, leader, hint, base>>
    PROVE  Addresses'
BY DEF Addresses

\* A call that is sent afresh.
LEMMA SentSound ==
    ASSUME CallLedger, NEW t \in Thread, NEW op
    PROVE  IsCall(Sent(t, op)) /\ SoundCall(Sent(t, op)) /\ Sent(t, op).op = op
<1>1. base[EdgeOf[t]] \in Coord
  BY HomeAssumption DEF CallLedger, Addresses
<1> QED
  BY <1>1 DEF Sent, IdleCall, IsCall, CallFields, SoundCall

\* A call that ends with a status which tells the truth.
LEMMA CallsDone ==
    ASSUME CallLedger, Addresses', NEW t \in Thread, NEW r, NEW status, IsCall(r), Done(t, r, status),
           \/ r.op = "lookup"
           \/ (status = "ok" => r.applied = 1) /\ (status \in {"refused", "absent"} => r.applied = 0)
    PROVE  CallLedger'
<1>1. Calls(t, IdleCall) /\ ret' = [r EXCEPT !.at = "done", !.status = status, !.began = now]
  BY DEF Done
<1>2. ret'.op = r.op /\ ret'.status = status /\ ret'.applied = r.applied
  BY <1>1 DEF IsCall, CallFields
<1>3. SoundReturn(ret')
  BY <1>2 DEF SoundReturn
<1> QED
  BY <1>1, <1>3, IdleCallSound, CallsReplaced

\* A call that was not carried out, sent again to some coord.
LEMMA ResentSound ==
    ASSUME CallLedger, NEW t \in Thread, NEW c \in Coord, call[t].applied = 0
    PROVE  IsCall(Resent(t, c)) /\ SoundCall(Resent(t, c))
<1>1. IsCall(call[t])
  BY DEF CallLedger
<1> QED
  BY <1>1 DEF Resent, IsCall, CallFields, SoundCall

\* An answer that says nothing of success, to a call that was sent.
LEMMA AnsweredSound ==
    ASSUME CallLedger, NEW t \in Thread, call[t].at = "sent", NEW status, NEW n,
           call[t].op = "lookup" \/ status # "ok"
    PROVE  IsCall(Answered(t, status, n)) /\ SoundCall(Answered(t, status, n))
<1>1. IsCall(call[t]) /\ SoundCall(call[t])
  BY DEF CallLedger
<1> QED
  BY <1>1 DEF Answered, IsCall, CallFields, SoundCall

LEMMA CallsBegun ==
    ASSUME CallLedger, NEW t \in Thread, NEW op, LookupObject(t) \/ Change(t, op)
    PROVE  CallLedger'
<1>1. Addresses'
  BY SameAddresses DEF LookupObject, Change, coordVars, CallLedger
<1>2. CASE Change(t, op)
  BY <1>1, <1>2, SentSound, CallsReplaced DEF Change, CallLedger
<1>3. CASE LookupObject(t)
  <2> DEFINE r == [Sent(t, "lookup") EXCEPT !.n = cache[EdgeOf[t]].n, !.asOf = cache[EdgeOf[t]].asOf]
  <2>1. IsCall(Sent(t, "lookup")) /\ SoundCall(Sent(t, "lookup")) /\ Sent(t, "lookup").op = "lookup"
    BY SentSound
  <2>2. CASE Done(t, r, "ok")
    <3>1. IsCall(r) /\ r.op = "lookup"
      BY <2>1 DEF IsCall, CallFields
    <3> QED
      BY <1>1, <2>2, <3>1, CallsDone
  <2>3. CASE Calls(t, Sent(t, "lookup")) /\ UNCHANGED ret
    BY <1>1, <2>1, <2>3, CallsReplaced DEF CallLedger
  <2> QED
    BY <1>3, <2>2, <2>3 DEF LookupObject
<1> QED
  BY <1>2, <1>3

LEMMA CallsServed ==
    ASSUME CallLedger, NEW t \in Thread, Serve(t)
    PROVE  CallLedger'
<1>1. Addresses'
  BY SameAddresses DEF Serve, ServeLookup, requireLeader, ServeChange, coordVars, CallLedger
<1>2. IsCall(call[t]) /\ SoundCall(call[t]) /\ SoundReturn(ret)
  BY DEF CallLedger
<1>3. CASE ServeLookup(t)
  BY <1>1, <1>2, <1>3, AnsweredSound, CallsReplaced DEF ServeLookup
<1>4. CASE requireLeader(t)
  <2>1. hint[call[t].target] \in Coord \cup {NoOne}
    BY <1>2, <1>4 DEF requireLeader, SoundCall, CallLedger, Addresses
  <2>2. hint[call[t].target] # "ok"
    BY <2>1, AddressAssumption DEF NoOne
  <2> QED
    BY <1>1, <1>2, <1>4, <2>2, AnsweredSound, CallsReplaced DEF requireLeader
<1>5. CASE ServeChange(t)
  <2>1. call[t].at = "sent" /\ call[t].op # "lookup" /\ call[t].applied = 0 /\ ret' = ret
    BY <1>2, <1>5 DEF ServeChange, SoundCall
  <2>2. CASE Calls(t, Answered(t, "absent", 0))
    BY <1>1, <1>2, <2>1, <2>2, AnsweredSound, CallsReplaced
  <2> DEFINE r == [Answered(t, "ok", changes') EXCEPT !.applied = @ + 1]
  <2>3. CASE Calls(t, r)
    <3> DEFINE a == Answered(t, "ok", changes')
    <3>1. /\ IsCall(a) /\ a.at = "answer" /\ a.op # "lookup" /\ a.status = "ok"
          /\ a.target \in Coord /\ a.applied = 0
      BY <1>2, <2>1 DEF Answered, IsCall, CallFields, SoundCall
    <3> HIDE DEF a
    <3>2. r = [a EXCEPT !.applied = 1]
      BY <3>1, SMTT(30) DEF a
    <3>3. IsCall(r) /\ SoundCall(r)
      BY <3>1, <3>2 DEF IsCall, CallFields, SoundCall
    <3> QED
      BY <1>1, <1>2, <2>1, <2>3, <3>3, CallsReplaced
  <2> QED
    BY <1>5, <2>2, <2>3 DEF ServeChange
<1> QED
  BY <1>3, <1>4, <1>5 DEF Serve

LEMMA CallsReturned ==
    ASSUME CallLedger, NEW t \in Thread, Returns(t) \/ Breaks(t)
    PROVE  CallLedger'
<1>1. IsCall(call[t]) /\ SoundCall(call[t]) /\ SoundReturn(ret)
  BY DEF CallLedger
<1>2. CASE LookupReturns(t)
  <2>1. Addresses'
    BY <1>2, SameAddresses DEF LookupReturns, coordVars, CallLedger
  <2> QED
    BY <1>1, <1>2, <2>1, CallsDone DEF LookupReturns
<1>3. CASE ChangeReturns(t)
  <2>1. Addresses'
    BY <1>3, SameAddresses DEF ChangeReturns, coordVars, CallLedger
  <2>2. (call[t].status = "ok" => call[t].applied = 1) /\ (call[t].status # "ok" => call[t].applied = 0)
    BY <1>1, <1>3 DEF ChangeReturns, SoundCall
  <2> QED
    BY <1>1, <1>3, <2>1, <2>2, CallsDone DEF ChangeReturns
<1>4. CASE FollowHint(t)
  <2> DEFINE c == call[t].status
  <2>1. c \in Coord /\ c # "ok" /\ call[t].applied = 0
    BY <1>1, <1>4, AddressAssumption DEF FollowHint, SoundCall
  <2>2. base' \in [Edge -> Coord]
    BY <1>4, <2>1, HomeAssumption DEF FollowHint, CallLedger, Addresses
  <2>3. Addresses'
    BY <1>4, <2>2 DEF FollowHint, coordVars, CallLedger, Addresses
  <2>4. CASE Calls(t, Resent(t, c)) /\ UNCHANGED ret
    BY <1>1, <2>1, <2>3, <2>4, ResentSound, CallsReplaced
  <2>5. CASE Done(t, call[t], "refused")
    BY <1>1, <2>1, <2>3, <2>5, CallsDone
  <2> QED
    BY <1>4, <2>4, <2>5 DEF FollowHint
<1>5. CASE NoHint(t)
  <2>1. Addresses'
    BY <1>5, SameAddresses DEF NoHint, coordVars, CallLedger
  <2>2. call[t].target \in Coord /\ call[t].status # "ok" /\ call[t].applied = 0
    BY <1>1, <1>5, AddressAssumption DEF NoHint, SoundCall, NoOne
  <2>3. CASE Calls(t, Resent(t, call[t].target)) /\ UNCHANGED ret
    BY <1>1, <2>1, <2>2, <2>3, ResentSound, CallsReplaced
  <2>4. CASE Done(t, call[t], "refused")
    BY <1>1, <2>1, <2>2, <2>4, CallsDone
  <2> QED
    BY <1>5, <2>3, <2>4 DEF NoHint
<1>6. CASE Breaks(t)
  <2>1. Addresses'
    BY <1>6, SameAddresses DEF Breaks, coordVars, CallLedger
  <2> QED
    BY <1>1, <1>6, <2>1, CallsDone DEF Breaks
<1> QED
  BY <1>2, <1>3, <1>4, <1>5, <1>6 DEF Returns

LEMMA CallsAroundCoords ==
    ASSUME CallLedger,
           \/ StepDown \/ Tick
           \/ \E c \in conf.coords : Elected(c) \/ Learn(c)
           \/ \E r \in late : ServeLate(r)
           \/ \E c \in conf.coords, p \in conf.coords : RestartKeyedCoord(c, p)
    PROVE  CallLedger'
<1>1. conf.coords \subseteq Coord
  BY EnvAssumption DEF CallLedger, Addresses
<1>2. CASE StepDown
  BY <1>2, CallsUntouched DEF StepDown, coordVars, CallLedger, Addresses
<1>3. CASE Tick
  BY <1>3, CallsUntouched DEF Tick, coordVars, CallLedger, Addresses
<1>4. ASSUME NEW c \in conf.coords, Elected(c) PROVE CallLedger'
  BY <1>1, <1>4, CallsUntouched DEF Elected, Elect, CallLedger, Addresses
<1>5. ASSUME NEW c \in conf.coords, Learn(c) PROVE CallLedger'
  BY <1>1, <1>5, CallsUntouched DEF Learn, coordVars, CallLedger, Addresses
<1>6. ASSUME NEW r, ServeLate(r) PROVE CallLedger'
  BY <1>6, CallsUntouched DEF ServeLate, coordVars, CallLedger, Addresses
<1>7. ASSUME NEW c \in conf.coords, NEW p, RestartKeyedCoord(c, p) PROVE CallLedger'
  BY <1>1, <1>7, CallsUntouched DEF RestartKeyedCoord, RestartCoord, Restart, CallLedger, Addresses
<1> QED
  BY <1>2, <1>3, <1>4, <1>5, <1>6, <1>7

LEMMA CallsRestarted ==
    ASSUME CallLedger, NEW e, RestartEdge(e)
    PROVE  CallLedger'
<1>1. Addresses'
  <2>1. conf.home \in [Edge -> Coord]
    BY HomeAssumption, EnvAssumption DEF CallLedger, Addresses
  <2>2. base' \in [Edge -> Coord]
    BY <2>1 DEF RestartEdge, CallLedger, Addresses
  <2> QED
    BY <2>2 DEF RestartEdge, coordVars, CallLedger, Addresses
<1>2. call' = [t \in Thread |-> IF EdgeOf[t] = e THEN IdleCall ELSE call[t]] /\ ret' = ret
  BY DEF RestartEdge
<1>3. \A t \in Thread : IsCall(call'[t]) /\ SoundCall(call'[t])
  BY <1>2, IdleCallSound DEF CallLedger
<1>4. call' = [t \in Thread |-> call'[t]]
  BY <1>2
<1> QED
  BY <1>1, <1>2, <1>3, <1>4 DEF CallLedger, IsCall, SoundCall, SoundReturn

\* The handlers of keys and of data nodes change nothing that a call depends on.
ElsewhereStep ==
    \/ UNCHANGED edgeVars
    \/ Registers /\ UNCHANGED clientVars
    \/ \E a \in Admin : Refresh(a) /\ UNCHANGED clientVars
    \/ CoordKeys
    \/ \E e \in conf.edges : EdgeAdmin(e) \/ Poll(e)
    \/ \E e \in conf.edges, k \in Kid : RemoveSigner(e, k) \/ \E s \in Secret : RotateStore(e, k, s)

LEMMA ElsewhereSame ==
    ASSUME ElsewhereStep
    PROVE  UNCHANGED <<conf, leader>> /\ UNCHANGED clientVars
<1>1. CASE UNCHANGED edgeVars
  BY <1>1 DEF edgeVars, vars
<1>2. CASE Registers /\ UNCHANGED clientVars
  BY <1>2 DEF Registers, AddRuntimeDN, RemoveRuntimeDN, AppendFails, SetRuntimeDNDomain
<1>3. ASSUME NEW a, Refresh(a), UNCHANGED clientVars PROVE UNCHANGED <<conf, leader>> /\ UNCHANGED clientVars
  BY <1>3 DEF Refresh
<1>4. CASE CoordKeys
  BY <1>4 DEF CoordKeys, handleAdminRotateURLKey, handleAdminRemoveURLKey, coordVars
<1>5. ASSUME NEW e, EdgeAdmin(e) \/ Poll(e) PROVE UNCHANGED <<conf, leader>> /\ UNCHANGED clientVars
  BY <1>5 DEF EdgeAdmin, RotateAdd, RotatePrimary, RemoveStore, Poll, ListURLKeys, SyncAdd, SyncPrimary, SyncKids,
              SyncRemove, othersOfKeys, vars
<1>6. ASSUME NEW e, NEW k, RemoveSigner(e, k) \/ \E s \in Secret : RotateStore(e, k, s)
      PROVE  UNCHANGED <<conf, leader>> /\ UNCHANGED clientVars
  BY <1>6 DEF RemoveSigner, RotateStore, coordVars
<1> QED
  BY <1>1, <1>2, <1>3, <1>4, <1>5, <1>6 DEF ElsewhereStep

LEMMA CallsElsewhere ==
    ASSUME CallLedger, ElsewhereStep
    PROVE  CallLedger'
<1>1. UNCHANGED <<conf, leader>> /\ UNCHANGED clientVars
  BY ElsewhereSame
<1>2. Addresses'
  BY <1>1, SameAddresses DEF clientVars, CallLedger
<1> QED
  BY <1>1, <1>2, CallsUntouched DEF clientVars

LEMMA CallsKept ==
    ASSUME CallLedger, [EdgeNext]_edgeVars
    PROVE  CallLedger'
<1>1. CASE ClientNext
  BY <1>1, CallsAroundCoords, CallsBegun, CallsServed, CallsReturned DEF ClientNext
<1>2. ASSUME NEW e, RestartKeyedEdge(e) PROVE CallLedger'
  BY <1>2, CallsRestarted DEF RestartKeyedEdge
<1> QED
  BY <1>1, <1>2, CallsAroundCoords, CallsElsewhere DEF EdgeNext, ElsewhereStep

\* However often a call is redirected and sent again, at most one coord carries it
\* out (do with its redirects and requireLeader), and what it returns tells.
THEOREM AtMostOnceHolds == EdgeSpec => []AtMostOnce
<1>1. EdgeInit => CallLedger
  BY CallsInit
<1>2. CallLedger /\ [EdgeNext]_edgeVars => CallLedger'
  BY CallsKept
<1>3. CallLedger => AtMostOnce
  BY SMTT(30) DEF CallLedger, SoundCall, SoundReturn, AtMostOnce
<1> QED
  BY <1>1, <1>2, <1>3, PTL DEF EdgeSpec

-----------------------------------------------------------------------------
(* Budgets, and what disturbs the coords.                                  *)

Budgets == {"ops", "fails", "elections", "restarts", "lookups", "calls", "keyOps"}

Charged == used' = used \/ \E b \in Budgets : Spend(b)

LEMMA ChargedBudget ==
    ASSUME used \in [Budgets -> Nat], Charged
    PROVE  /\ used' \in [Budgets -> Nat]
           /\ \A b \in Budgets : used'[b] >= used[b]
           /\ Disturbances \in Nat /\ Disturbances' \in Nat /\ Disturbances' >= Disturbances
<1>1. used' \in [Budgets -> Nat] /\ \A b \in Budgets : used'[b] >= used[b]
  <2>1. CASE used' = used
    BY <2>1, SMTT(30)
  <2>2. ASSUME NEW b \in Budgets, used' = [used EXCEPT ![b] = @ + 1]
        PROVE  used' \in [Budgets -> Nat] /\ \A d \in Budgets : used'[d] >= used[d]
    BY <2>2, SMTT(30)
  <2> QED
    BY <2>1, <2>2 DEF Charged, Spend
<1>2. "elections" \in Budgets /\ "restarts" \in Budgets
  BY DEF Budgets
<1> QED
  BY <1>1, <1>2, SMTT(30) DEF Disturbances

LEMMA StepCharged ==
    ASSUME [EdgeNext]_edgeVars
    PROVE  Charged
<1> USE DEF Charged, Budgets
<1>1. CASE UNCHANGED edgeVars
  BY <1>1 DEF edgeVars, vars
<1>2. CASE Registers
  BY <1>2 DEF Registers, AddRuntimeDN, RemoveRuntimeDN, AppendFails, SetRuntimeDNDomain
<1>3. ASSUME NEW a, Refresh(a) PROVE Charged
  BY <1>3 DEF Refresh
<1>4. CASE CoordKeys
  BY <1>4 DEF CoordKeys, handleAdminRotateURLKey, handleAdminRemoveURLKey
<1>5. ASSUME NEW c, NEW p, RestartKeyedCoord(c, p) PROVE Charged
  BY <1>5 DEF RestartKeyedCoord, RestartCoord, Restart
<1>6. ASSUME NEW e, RestartKeyedEdge(e) PROVE Charged
  BY <1>6 DEF RestartKeyedEdge, RestartEdge
<1>7. ASSUME NEW e, EdgeAdmin(e) \/ Poll(e) PROVE Charged
  BY <1>7 DEF EdgeAdmin, RotateAdd, RotatePrimary, RemoveStore, Poll, ListURLKeys, SyncAdd, SyncPrimary, SyncKids,
              SyncRemove, othersOfKeys, vars
<1>8. ASSUME NEW e, NEW k, RemoveSigner(e, k) \/ \E s \in Secret : RotateStore(e, k, s) PROVE Charged
  BY <1>8 DEF RemoveSigner, RotateStore
<1>9. CASE ClientNext
  <2>1. CASE StepDown \/ Tick
    BY <2>1 DEF StepDown, Tick
  <2>2. ASSUME NEW c, Elected(c) \/ Learn(c) PROVE Charged
    BY <2>2 DEF Elected, Elect, Learn
  <2>3. ASSUME NEW t, LookupObject(t) \/ \E op \in conf.ops : Change(t, op) PROVE Charged
    BY <2>3 DEF LookupObject, Change
  <2>4. ASSUME NEW t, Serve(t) \/ Returns(t) \/ Breaks(t) PROVE Charged
    BY <2>4 DEF Serve, ServeLookup, requireLeader, ServeChange, Returns, LookupReturns, ChangeReturns,
                       FollowHint, NoHint, Breaks
  <2>5. ASSUME NEW r, ServeLate(r) PROVE Charged
    BY <2>5 DEF ServeLate
  <2> QED
    BY <1>9, <2>1, <2>2, <2>3, <2>4, <2>5 DEF ClientNext
<1> QED
  BY <1>1, <1>2, <1>3, <1>4, <1>5, <1>6, <1>7, <1>8, <1>9 DEF EdgeNext

\* Elections and restarts, and nothing else, disturb.
LEMMA SpendDisturbs ==
    ASSUME used \in [Budgets -> Nat]
    PROVE  /\ Disturbances \in Nat
           /\ Spend("elections") \/ Spend("restarts") => Disturbances' = Disturbances + 1
           /\ used' = used \/ Spend("lookups") \/ Spend("calls") \/ Spend("fails") => Disturbances' = Disturbances
BY SMTT(30) DEF Budgets, Spend, Disturbances

\* The steps of a handler of an edge leave the coords as they are.
CallStep(t) ==
    \/ LookupObject(t) \/ (\E op \in conf.ops : Change(t, op))
    \/ Serve(t) \/ Returns(t) \/ Breaks(t)

LEMMA CallStepSame ==
    ASSUME NEW t, CallStep(t), used \in [Budgets -> Nat]
    PROVE  UNCHANGED <<conf, leader, electing, hint, now>> /\ Disturbances' = Disturbances
<1>1. CASE LookupObject(t)
  BY <1>1, SpendDisturbs DEF LookupObject, coordVars
<1>2. ASSUME NEW op, Change(t, op) PROVE UNCHANGED <<conf, leader, electing, hint, now>> /\ Disturbances' = Disturbances
  BY <1>2, SpendDisturbs DEF Change, coordVars
<1>3. CASE Serve(t)
  BY <1>3, SpendDisturbs DEF Serve, ServeLookup, requireLeader, ServeChange, coordVars
<1>4. CASE Returns(t)
  BY <1>4, SpendDisturbs DEF Returns, LookupReturns, ChangeReturns, FollowHint, NoHint, coordVars
<1>5. CASE Breaks(t)
  BY <1>5, SpendDisturbs DEF Breaks, coordVars
<1> QED
  BY <1>1, <1>2, <1>3, <1>4, <1>5 DEF CallStep

\* The other steps of EdgeNext, by what they do to calls.
CoordsMove ==
    \/ StepDown \/ Tick
    \/ \E c \in conf.coords : Elected(c) \/ Learn(c)
    \/ \E r \in late : ServeLate(r)
    \/ \E c, p \in conf.coords : RestartKeyedCoord(c, p)

LEMMA StepCases ==
    ASSUME [EdgeNext]_edgeVars
    PROVE  \/ \E t \in Thread : CallStep(t)
           \/ \E e \in conf.edges : RestartEdge(e)
           \/ CoordsMove
           \/ ElsewhereStep
<1>1. ASSUME NEW e \in conf.edges, RestartKeyedEdge(e) PROVE \E d \in conf.edges : RestartEdge(d)
  BY <1>1 DEF RestartKeyedEdge
<1>2. CASE ClientNext
  BY <1>2 DEF ClientNext, CallStep, CoordsMove
<1> QED
  BY <1>1, <1>2 DEF EdgeNext, CoordsMove, ElsewhereStep

LEMMA CoordStepCalls ==
    ASSUME CoordsMove
    PROVE  UNCHANGED <<conf, base, cache, call, own, ret>>
<1>1. CASE StepDown \/ Tick
  BY <1>1 DEF StepDown, Tick, coordVars
<1>2. ASSUME NEW c, Elected(c) \/ Learn(c) PROVE UNCHANGED <<conf, base, cache, call, own, ret>>
  BY <1>2 DEF Elected, Elect, Learn, coordVars
<1>3. ASSUME NEW r, ServeLate(r) PROVE UNCHANGED <<conf, base, cache, call, own, ret>>
  BY <1>3 DEF ServeLate, coordVars
<1>4. ASSUME NEW c, NEW p, RestartKeyedCoord(c, p) PROVE UNCHANGED <<conf, base, cache, call, own, ret>>
  BY <1>4 DEF RestartKeyedCoord, RestartCoord, Restart
<1> QED
  BY <1>1, <1>2, <1>3, <1>4 DEF CoordsMove

\* A step that disturbs nobody and after which there is a leader leaves it in place;
\* at most a coord learns who it is.
LEMMA QuietStep ==
    ASSUME used \in [Budgets -> Nat], hint = [c \in Coord |-> hint[c]], [EdgeNext]_edgeVars,
           Disturbances' = Disturbances, ~electing'
    PROVE  /\ ~electing /\ leader' = leader
           /\ hint' = [c \in Coord |-> hint'[c]]
           /\ \A c \in Coord : hint'[c] = hint[c] \/ hint'[c] = leader
<1> DEFINE Goal == /\ ~electing /\ leader' = leader
                   /\ hint' = [c \in Coord |-> hint'[c]]
                   /\ \A c \in Coord : hint'[c] = hint[c] \/ hint'[c] = leader
<1>1. ASSUME NEW t, CallStep(t) PROVE Goal
  BY <1>1, CallStepSame
<1>2. ASSUME NEW e, RestartEdge(e) PROVE Goal
  BY <1>2, SpendDisturbs, SMTT(30) DEF RestartEdge
<1>3. CASE ElsewhereStep
  BY <1>3, ElsewhereSame, SMTT(30) DEF clientVars
<1>4. CASE CoordsMove
  <2>1. CASE StepDown \/ Tick
    BY <2>1, SMTT(30) DEF StepDown, Tick, coordVars
  <2>2. ASSUME NEW c, Elected(c) PROVE Goal
    BY <2>2, SpendDisturbs, SMTT(30) DEF Elected, Elect
  <2>3. ASSUME NEW c, Learn(c) PROVE Goal
    BY <2>3 DEF Learn, coordVars
  <2>4. ASSUME NEW r, ServeLate(r) PROVE Goal
    BY <2>4 DEF ServeLate, coordVars
  <2>5. ASSUME NEW c, NEW p, RestartKeyedCoord(c, p) PROVE Goal
    BY <2>5, SpendDisturbs, SMTT(30) DEF RestartKeyedCoord, RestartCoord, Restart
  <2> QED
    BY <1>4, <2>1, <2>2, <2>3, <2>4, <2>5 DEF CoordsMove
<1> QED
  BY <1>1, <1>2, <1>3, <1>4, StepCases

-----------------------------------------------------------------------------
(* Fields of calls.                                                        *)

\* Every coord knows who leads.
Known == ~electing /\ \A c \in conf.coords \ {leader} : hint[c] = leader

LEMMA SentFields ==
    ASSUME NEW t, NEW op
    PROVE  LET r == Sent(t, op)
           IN /\ IsCall(r) /\ r.at = "sent" /\ r.op = op /\ r.target = base[EdgeOf[t]] /\ r.attempt = 0
              /\ r.began = now /\ r.own = own[EdgeOf[t]] /\ r.settled = Known /\ r.epoch = Disturbances
BY DEF Sent, IdleCall, IsCall, CallFields, Known

LEMMA ResentFields ==
    ASSUME NEW t, NEW c, IsCall(call[t])
    PROVE  LET r == Resent(t, c)
           IN /\ r.at = "sent" /\ r.op = call[t].op /\ r.target = c /\ r.attempt = call[t].attempt + 1
              /\ r.began = call[t].began /\ r.own = call[t].own
              /\ r.settled = call[t].settled /\ r.epoch = call[t].epoch
BY DEF Resent, IsCall, CallFields

LEMMA AnsweredFields ==
    ASSUME NEW t, NEW status, NEW n, IsCall(call[t])
    PROVE  LET r == Answered(t, status, n)
           IN /\ IsCall(r) /\ r.at = "answer" /\ r.op = call[t].op /\ r.target = call[t].target
              /\ r.attempt = call[t].attempt
              /\ r.status = status /\ r.n = n /\ r.asOf = now /\ r.began = call[t].began /\ r.own = call[t].own
              /\ r.settled = call[t].settled /\ r.epoch = call[t].epoch
BY DEF Answered, IsCall, CallFields

LEMMA CountedFields ==
    ASSUME NEW a, IsCall(a)
    PROVE  LET r == [a EXCEPT !.applied = @ + 1]
           IN /\ r.at = a.at /\ r.op = a.op /\ r.target = a.target /\ r.attempt = a.attempt
              /\ r.status = a.status /\ r.n = a.n /\ r.asOf = a.asOf /\ r.began = a.began /\ r.own = a.own
              /\ r.settled = a.settled /\ r.epoch = a.epoch
BY DEF IsCall, CallFields

LEMMA DoneFields ==
    ASSUME NEW t, NEW r, NEW status, IsCall(r), Done(t, r, status)
    PROVE  /\ Calls(t, IdleCall) /\ ret'.op = r.op /\ ret'.status = status /\ ret'.began = now
           /\ ret'.n = r.n /\ ret'.asOf = r.asOf /\ ret'.own = r.own
           /\ ret'.settled = r.settled /\ ret'.epoch = r.epoch
BY DEF Done, IsCall, CallFields

LEMMA HitFields ==
    ASSUME NEW t, NEW x
    PROVE  LET r == [Sent(t, "lookup") EXCEPT !.n = x.n, !.asOf = x.asOf]
           IN /\ IsCall(r) /\ r.op = "lookup" /\ r.n = x.n /\ r.asOf = x.asOf /\ r.own = own[EdgeOf[t]]
              /\ r.epoch = Disturbances
<1>1. LET r == Sent(t, "lookup")
      IN IsCall(r) /\ r.op = "lookup" /\ r.own = own[EdgeOf[t]] /\ r.epoch = Disturbances
  BY SentFields, SMTT(30)
<1> QED
  BY <1>1 DEF IsCall, CallFields

LEMMA IdleFields == IdleCall.at = "idle" /\ IdleCall.epoch = 0 /\ IdleCall.op = "" /\ IdleCall.status = ""
BY DEF IdleCall

-----------------------------------------------------------------------------
(* Redirects.                                                              *)

\* A call is as it was sent, or the coord it reached has answered.
Reached(r) ==
    /\ r.epoch \in Nat /\ r.epoch <= Disturbances /\ r.attempt \in Nat
    /\ r.target \in conf.coords
    /\ r.at = "answer" => r.status \in conf.coords \cup {NoOne, "ok", "absent"}

\* As long as nothing has disturbed the coords since a call was sent they still know
\* the leader, a call that is sent again goes to it, and who refuses a call is
\* another coord, which names it.
Guided(r) ==
    r.settled /\ r.epoch = Disturbances /\ ~electing /\ r.op # "lookup" =>
        /\ Known
        /\ r.attempt = 0 \/ r.target = leader
        /\ r.at = "answer" => r.status \in {"ok", "absent"} \/ (r.status = leader /\ r.target # leader)

Routes ==
    /\ used \in [Budgets -> Nat]
    /\ leader \in conf.coords /\ base \in [Edge -> conf.coords]
    /\ hint \in [Coord -> conf.coords \cup {NoOne}]

RedirectLedger ==
    /\ Routes
    /\ \A t \in Thread : call[t].at # "idle" => Reached(call[t]) /\ Guided(call[t])
    /\ ret.epoch \in Nat /\ ret.epoch <= Disturbances
    /\ RedirectSuffices

LEMMA RedirectInit == EdgeInit => RedirectLedger
<1> SUFFICES ASSUME EdgeInit PROVE RedirectLedger
  OBVIOUS
<1>1. /\ conf \in Setups /\ leader \in conf.coords
      /\ hint = [c \in Coord |-> leader] /\ base = conf.home
      /\ call = [t \in Thread |-> IdleCall] /\ ret = IdleCall
      /\ used = [ops |-> 0, fails |-> 0, elections |-> 0, restarts |-> 0, lookups |-> 0, calls |-> 0, keyOps |-> 0]
  BY DEF EdgeInit, ClientInit, Init
<1>2. used \in [Budgets -> Nat]
  BY <1>1, SMTT(30) DEF Budgets
<1>3. Routes
  BY <1>1, <1>2, HomeAssumption DEF Routes
<1>4. Disturbances \in Nat
  BY <1>2, SpendDisturbs
<1>5. ret.epoch \in Nat /\ ret.epoch <= Disturbances
  <2>1. ret.epoch = 0
    BY <1>1, IdleFields
  <2> QED
    BY <1>4, <2>1, SMTT(30)
<1>6. RedirectSuffices
  BY <1>1, IdleFields DEF RedirectSuffices
<1>7. \A t \in Thread : call[t].at = "idle"
  BY <1>1, IdleFields
<1> QED
  BY <1>3, <1>5, <1>6, <1>7 DEF RedirectLedger

\* Routes stay within the deployment.
LEMMA RoutesKept ==
    ASSUME CallLedger, RedirectLedger, [EdgeNext]_edgeVars
    PROVE  Routes'
<1>1. used' \in [Budgets -> Nat]
  BY StepCharged, ChargedBudget DEF RedirectLedger, Routes
<1>2. conf.coords \subseteq Coord /\ conf.home \in [Edge -> conf.coords] /\ conf' = conf
  BY EnvAssumption, HomeAssumption, ConfFixed DEF CallLedger, Addresses
<1>r. leader \in conf.coords /\ base \in [Edge -> conf.coords] /\ hint \in [Coord -> conf.coords \cup {NoOne}]
  BY DEF RedirectLedger, Routes
<1>3. ASSUME NEW t \in Thread, CallStep(t) PROVE Routes'
  <2>1. UNCHANGED <<leader, hint>>
    BY <1>3, CallStepSame DEF RedirectLedger, Routes
  <2>2. base' = base \/ FollowHint(t)
    BY <1>3 DEF CallStep, LookupObject, Change, Serve, ServeLookup, requireLeader, ServeChange, Returns,
                       LookupReturns, ChangeReturns, NoHint, Breaks
  <2>3. CASE FollowHint(t)
    <3>1. call[t].at = "answer" /\ call[t].status \in Coord /\ base' = [base EXCEPT ![EdgeOf[t]] = call[t].status]
      BY <2>3 DEF FollowHint
    <3>2. call[t].status \in conf.coords
      BY <3>1, AddressAssumption DEF RedirectLedger, Reached
    <3>3. base' \in [Edge -> conf.coords]
      BY <1>r, <3>1, <3>2
    <3> QED
      BY <1>1, <1>2, <1>r, <2>1, <3>3 DEF Routes
  <2> QED
    BY <1>1, <1>2, <1>r, <2>1, <2>2, <2>3 DEF Routes
<1>4. ASSUME NEW e, RestartEdge(e) PROVE Routes'
  <2>1. UNCHANGED <<leader, hint>> /\ base' = [base EXCEPT ![e] = conf.home[e]]
    BY <1>4 DEF RestartEdge, coordVars
  <2>2. base' \in [Edge -> conf.coords]
    BY <1>2, <1>r, <2>1
  <2> QED
    BY <1>1, <1>2, <1>r, <2>1, <2>2 DEF Routes
<1>5. CASE ElsewhereStep
  BY <1>1, <1>2, <1>r, <1>5, ElsewhereSame DEF clientVars, Routes
<1>6. CASE CoordsMove
  <2>1. base' = base
    BY <1>6, CoordStepCalls
  <2>2. leader' \in conf.coords /\ hint' \in [Coord -> conf.coords \cup {NoOne}]
    <3>1. CASE StepDown \/ Tick
      BY <1>r, <3>1 DEF StepDown, Tick, coordVars
    <3>2. ASSUME NEW c \in conf.coords, Elected(c) \/ Learn(c)
          PROVE  leader' \in conf.coords /\ hint' \in [Coord -> conf.coords \cup {NoOne}]
      BY <1>r, <3>2 DEF Elected, Elect, Learn, coordVars
    <3>3. ASSUME NEW r, ServeLate(r) PROVE leader' \in conf.coords /\ hint' \in [Coord -> conf.coords \cup {NoOne}]
      BY <1>r, <3>3 DEF ServeLate, coordVars
    <3>4. ASSUME NEW c, NEW p, RestartKeyedCoord(c, p)
          PROVE  leader' \in conf.coords /\ hint' \in [Coord -> conf.coords \cup {NoOne}]
      BY <1>r, <3>4 DEF RestartKeyedCoord, RestartCoord, Restart
    <3> QED
      BY <1>6, <3>1, <3>2, <3>3, <3>4 DEF CoordsMove
  <2> QED
    BY <1>1, <1>2, <1>r, <2>1, <2>2 DEF Routes
<1> QED
  BY <1>3, <1>4, <1>5, <1>6, StepCases

\* A call that a step leaves alone stays guided.
LEMMA GuidedKept ==
    ASSUME CallLedger, RedirectLedger, [EdgeNext]_edgeVars, NEW t \in Thread, call'[t] = call[t],
           Reached(call[t]), Guided(call[t])
    PROVE  (Reached(call[t]) /\ Guided(call[t]))'
<1> DEFINE r == call[t]
<1>0. r' = r
  OBVIOUS
<1>1. conf' = conf /\ Disturbances \in Nat /\ Disturbances' \in Nat /\ Disturbances' >= Disturbances
  BY ConfFixed, StepCharged, ChargedBudget DEF RedirectLedger, Routes
<1>2. (Reached(call[t]))'
  BY <1>1, SMTT(30) DEF Reached
<1>3. ASSUME r.settled, r.epoch = Disturbances', ~electing', r.op # "lookup"
      PROVE  /\ Known'
             /\ r.attempt = 0 \/ r.target = leader'
             /\ r.at = "answer" => r.status \in {"ok", "absent"} \/ (r.status = leader' /\ r.target # leader')
  <2>1. Disturbances' = Disturbances
    BY <1>1, <1>3, SMTT(30) DEF Reached
  <2>2. used \in [Budgets -> Nat] /\ hint = [c \in Coord |-> hint[c]] /\ conf.coords \subseteq Coord
    BY EnvAssumption DEF RedirectLedger, Routes, CallLedger, Addresses
  <2>3. ~electing /\ leader' = leader /\ \A c \in Coord : hint'[c] = hint[c] \/ hint'[c] = leader
    BY <1>3, <2>1, <2>2, QuietStep
  <2>4. /\ Known
        /\ r.attempt = 0 \/ r.target = leader
        /\ r.at = "answer" => r.status \in {"ok", "absent"} \/ (r.status = leader /\ r.target # leader)
    BY <1>3, <2>1, <2>3 DEF Guided
  <2>5. Known'
    BY <1>1, <1>3, <2>2, <2>3, <2>4 DEF Known
  <2> QED
    BY <2>3, <2>4, <2>5
<1>4. (Guided(call[t]))'
  BY <1>3 DEF Guided
<1> QED
  BY <1>2, <1>4

LEMMA RefusalKept ==
    ASSUME CallLedger, RedirectLedger, [EdgeNext]_edgeVars, ret' = ret
    PROVE  (ret.epoch \in Nat /\ ret.epoch <= Disturbances /\ RedirectSuffices)'
<1>1. Disturbances \in Nat /\ Disturbances' \in Nat /\ Disturbances' >= Disturbances
  BY StepCharged, ChargedBudget DEF RedirectLedger, Routes
<1>2. ret.epoch \in Nat /\ ret.epoch <= Disturbances /\ RedirectSuffices
  BY DEF RedirectLedger
<1>3. ret'.epoch \in Nat /\ ret'.epoch <= Disturbances'
  BY <1>1, <1>2, SMTT(30)
<1>4. ASSUME ret.epoch = Disturbances', ~electing' PROVE ret.epoch = Disturbances /\ ~electing
  <2>1. ret.epoch = Disturbances /\ Disturbances' = Disturbances
    BY <1>1, <1>2, <1>4, SMTT(30)
  <2>2. used \in [Budgets -> Nat] /\ hint = [c \in Coord |-> hint[c]]
    BY DEF RedirectLedger, Routes
  <2> QED
    BY <1>4, <2>1, <2>2, QuietStep
<1>5. RedirectSuffices'
  BY <1>2, <1>4 DEF RedirectSuffices
<1> QED
  BY <1>3, <1>5

\* A step that gives one handler a new guided call, or ends its call.
LEMMA RedirectReplaced ==
    ASSUME CallLedger, RedirectLedger, [EdgeNext]_edgeVars, NEW t \in Thread,
           \A u \in Thread \ {t} : call'[u] = call[u],
           call'[t].at # "idle" => (Reached(call[t]) /\ Guided(call[t]))',
           (ret.epoch \in Nat /\ ret.epoch <= Disturbances /\ RedirectSuffices)'
    PROVE  RedirectLedger'
<1>1. ASSUME NEW u \in Thread, u # t, call'[u].at # "idle" PROVE (Reached(call[u]) /\ Guided(call[u]))'
  <2>1. call'[u] = call[u] /\ Reached(call[u]) /\ Guided(call[u])
    BY <1>1 DEF RedirectLedger
  <2> QED
    BY <2>1, GuidedKept
<1>2. \A u \in Thread : call'[u].at # "idle" => (Reached(call[u]) /\ Guided(call[u]))'
  BY <1>1
<1> QED
  BY <1>2, RoutesKept DEF RedirectLedger


\* A call that ends, with a refusal only where the coords were disturbed.
LEMMA RedirectDone ==
    ASSUME CallLedger, RedirectLedger, [EdgeNext]_edgeVars, NEW t \in Thread, NEW r, NEW status, IsCall(r),
           Done(t, r, status), UNCHANGED electing, Disturbances' = Disturbances,
           r.epoch \in Nat, r.epoch <= Disturbances,
           status = "refused" => ~(r.settled /\ r.epoch = Disturbances /\ ~electing)
    PROVE  RedirectLedger'
<1>1. /\ Calls(t, IdleCall) /\ ret'.status = status /\ ret'.settled = r.settled /\ ret'.epoch = r.epoch
  BY DoneFields
<1>2. call' = [call EXCEPT ![t] = IdleCall] /\ call = [u \in Thread |-> call[u]]
  BY <1>1 DEF Calls, CallLedger
<1>3. call'[t].at = "idle" /\ \A u \in Thread \ {t} : call'[u] = call[u]
  BY <1>2, IdleFields
<1>4. RedirectSuffices'
  BY <1>1 DEF RedirectSuffices
<1>5. ret'.epoch \in Nat /\ ret'.epoch <= Disturbances'
  BY <1>1
<1> QED
  BY <1>3, <1>4, <1>5, RedirectReplaced

LEMMA RedirectSent ==
    ASSUME CallLedger, RedirectLedger, [EdgeNext]_edgeVars, NEW t \in Thread, NEW op, Calls(t, Sent(t, op)),
           UNCHANGED <<conf, leader, electing, hint, ret>>, Disturbances' = Disturbances
    PROVE  RedirectLedger'
<1>1. call' = [call EXCEPT ![t] = Sent(t, op)] /\ call = [u \in Thread |-> call[u]]
  BY DEF Calls, CallLedger
<1>2. call'[t] = Sent(t, op) /\ \A u \in Thread \ {t} : call'[u] = call[u]
  BY <1>1
<1>3. /\ call'[t].at = "sent" /\ call'[t].target = base[EdgeOf[t]] /\ call'[t].attempt = 0
      /\ call'[t].settled = Known /\ call'[t].epoch = Disturbances
  <2> DEFINE r == Sent(t, op)
  <2>1. /\ r.at = "sent" /\ r.target = base[EdgeOf[t]] /\ r.attempt = 0
        /\ r.settled = Known /\ r.epoch = Disturbances
    BY SentFields, SMTT(30)
  <2> HIDE DEF r
  <2>2. call'[t] = r
    BY <1>2 DEF r
  <2> QED
    BY <2>1, <2>2
<1>4. Disturbances \in Nat /\ base[EdgeOf[t]] \in conf.coords
  BY SpendDisturbs, HomeAssumption DEF RedirectLedger, Routes
<1>5. Known' <=> Known
  BY DEF Known
<1>6. (Reached(call[t]))'
  BY <1>3, <1>4, SMTT(30) DEF Reached
<1>7. (Guided(call[t]))'
  BY <1>3, <1>5 DEF Guided
<1> QED
  BY <1>2, <1>6, <1>7, RefusalKept, RedirectReplaced

LEMMA RedirectAnswered ==
    ASSUME CallLedger, RedirectLedger, [EdgeNext]_edgeVars, NEW t \in Thread, NEW status,
           \A u \in Thread \ {t} : call'[u] = call[u], call[t].at = "sent",
           call'[t].at = "answer", call'[t].op = call[t].op, call'[t].target = call[t].target,
           call'[t].attempt = call[t].attempt, call'[t].status = status,
           call'[t].settled = call[t].settled, call'[t].epoch = call[t].epoch,
           UNCHANGED <<conf, leader, electing, hint, ret>>, Disturbances' = Disturbances,
           \/ status \in {"ok", "absent"}
           \/ status = hint[call[t].target] /\ ~IsLeader(call[t].target)
    PROVE  RedirectLedger'
<1>1. Reached(call[t]) /\ Guided(call[t])
  BY DEF RedirectLedger
<1>2. call[t].target \in conf.coords /\ conf.coords \subseteq Coord
  BY <1>1, EnvAssumption DEF Reached, CallLedger, Addresses
<1>3. status \in conf.coords \cup {NoOne, "ok", "absent"}
  BY <1>2 DEF RedirectLedger, Routes
<1>4. (Reached(call[t]))'
  BY <1>1, <1>3 DEF Reached
<1>5. ASSUME call[t].settled, call[t].epoch = Disturbances, ~electing, call[t].op # "lookup"
      PROVE  /\ Known'
             /\ call[t].attempt = 0 \/ call[t].target = leader
             /\ status \in {"ok", "absent"} \/ (status = leader /\ call[t].target # leader)
  <2>1. Known /\ (call[t].attempt = 0 \/ call[t].target = leader)
    BY <1>1, <1>5 DEF Guided
  <2>2. Known'
    BY <2>1 DEF Known
  <2>3. status = hint[call[t].target] /\ ~IsLeader(call[t].target) => status = leader /\ call[t].target # leader
    BY <1>2, <1>5, <2>1 DEF Known, IsLeader
  <2> QED
    BY <2>1, <2>2, <2>3
<1>6. (Guided(call[t]))'
  BY <1>5 DEF Guided
<1> QED
  BY <1>4, <1>6, RefusalKept, RedirectReplaced

LEMMA RedirectServed ==
    ASSUME CallLedger, RedirectLedger, [EdgeNext]_edgeVars, NEW t \in Thread, CallStep(t), Serve(t)
    PROVE  RedirectLedger'
<1>1. UNCHANGED <<conf, leader, electing, hint>> /\ Disturbances' = Disturbances
  BY CallStepSame DEF RedirectLedger, Routes
<1>2. IsCall(call[t]) /\ call = [u \in Thread |-> call[u]]
  BY DEF CallLedger
<1>3. call[t].at = "sent" /\ ret' = ret
  BY DEF Serve, ServeLookup, requireLeader, ServeChange
<1>4. ASSUME NEW status, NEW n, Calls(t, Answered(t, status, n)),
             \/ status \in {"ok", "absent"}
             \/ status = hint[call[t].target] /\ ~IsLeader(call[t].target)
      PROVE  RedirectLedger'
  <2> DEFINE r == Answered(t, status, n)
  <2>1. /\ r.at = "answer" /\ r.op = call[t].op /\ r.target = call[t].target /\ r.attempt = call[t].attempt
        /\ r.status = status /\ r.settled = call[t].settled /\ r.epoch = call[t].epoch
    BY <1>2, AnsweredFields, SMTT(30)
  <2>2. call' = [call EXCEPT ![t] = r]
    BY <1>4 DEF Calls
  <2> HIDE DEF r
  <2>3. call'[t] = r /\ \A u \in Thread \ {t} : call'[u] = call[u]
    BY <1>2, <2>2
  <2> QED
    BY <1>1, <1>3, <1>4, <2>1, <2>3, RedirectAnswered
<1>5. CASE ServeLookup(t)
  BY <1>4, <1>5 DEF ServeLookup
<1>6. CASE requireLeader(t)
  BY <1>4, <1>6 DEF requireLeader
<1>7. CASE ServeChange(t)
  <2>1. CASE Calls(t, Answered(t, "absent", 0))
    BY <1>4, <2>1
  <2> DEFINE a == Answered(t, "ok", changes')
             r == [a EXCEPT !.applied = @ + 1]
  <2>2. CASE Calls(t, r)
    <3>1. /\ IsCall(a) /\ a.at = "answer" /\ a.op = call[t].op /\ a.target = call[t].target
          /\ a.attempt = call[t].attempt
          /\ a.status = "ok" /\ a.settled = call[t].settled /\ a.epoch = call[t].epoch
      BY <1>2, AnsweredFields, SMTT(30)
    <3>2. call' = [call EXCEPT ![t] = r]
      BY <2>2 DEF Calls
    <3> HIDE DEF a
    <3>3. /\ r.at = "answer" /\ r.op = call[t].op /\ r.target = call[t].target /\ r.attempt = call[t].attempt
          /\ r.status = "ok" /\ r.settled = call[t].settled /\ r.epoch = call[t].epoch
      BY <3>1, CountedFields
    <3> HIDE DEF r
    <3>4. call'[t] = r /\ \A u \in Thread \ {t} : call'[u] = call[u]
      BY <1>2, <3>2
    <3> QED
      BY <1>1, <1>3, <3>3, <3>4, RedirectAnswered
  <2> QED
    BY <1>7, <2>1, <2>2 DEF ServeChange
<1> QED
  BY <1>5, <1>6, <1>7 DEF Serve

LEMMA RedirectResent ==
    ASSUME CallLedger, RedirectLedger, [EdgeNext]_edgeVars, NEW t \in Thread, NEW c \in conf.coords,
           call[t].at = "answer", call[t].op # "lookup", Calls(t, Resent(t, c)),
           UNCHANGED <<conf, leader, electing, hint, ret>>, Disturbances' = Disturbances,
           call[t].settled /\ call[t].epoch = Disturbances /\ ~electing => Known /\ c = leader
    PROVE  RedirectLedger'
<1>1. IsCall(call[t]) /\ call = [u \in Thread |-> call[u]] /\ call' = [call EXCEPT ![t] = Resent(t, c)]
  BY DEF CallLedger, Calls
<1> DEFINE r == Resent(t, c)
<1>2. /\ r.at = "sent" /\ r.target = c /\ r.attempt = call[t].attempt + 1
      /\ r.settled = call[t].settled /\ r.epoch = call[t].epoch
  BY <1>1, ResentFields, SMTT(30)
<1> HIDE DEF r
<1>3. call'[t] = r /\ \A u \in Thread \ {t} : call'[u] = call[u]
  BY <1>1 DEF r
<1>4. Reached(call[t])
  BY DEF RedirectLedger
<1>5. (Reached(call[t]))'
  BY <1>2, <1>3, <1>4, SMTT(30) DEF Reached
<1>6. Known' <=> Known
  BY DEF Known
<1>7. (Guided(call[t]))'
  BY <1>2, <1>3, <1>6 DEF Guided
<1> QED
  BY <1>3, <1>5, <1>7, RefusalKept, RedirectReplaced

LEMMA RedirectReturned ==
    ASSUME CallLedger, RedirectLedger, [EdgeNext]_edgeVars, NEW t \in Thread, CallStep(t), Returns(t) \/ Breaks(t)
    PROVE  RedirectLedger'
<1>1. UNCHANGED <<conf, leader, electing, hint>> /\ Disturbances' = Disturbances
  BY CallStepSame DEF RedirectLedger, Routes
<1>2. IsCall(call[t]) /\ conf.coords \subseteq Coord
  BY EnvAssumption DEF CallLedger, Addresses
<1>3. call[t].at # "idle"
  BY DEF Returns, LookupReturns, ChangeReturns, FollowHint, NoHint, Breaks
<1>4. Reached(call[t]) /\ Guided(call[t])
  BY <1>3 DEF RedirectLedger
<1>5. call[t].epoch \in Nat /\ call[t].epoch <= Disturbances /\ call[t].target \in conf.coords
  BY <1>4 DEF Reached
<1>6. call[t].at = "answer" => call[t].status # "refused"
  BY <1>2, <1>4, AddressAssumption DEF Reached, NoOne
<1>7. CASE LookupReturns(t) \/ ChangeReturns(t) \/ Breaks(t)
  <2>1. ASSUME NEW status, Done(t, call[t], status), status # "refused" PROVE RedirectLedger'
    BY <1>1, <1>2, <1>5, <2>1, RedirectDone
  <2> QED
    BY <1>6, <1>7, <2>1 DEF LookupReturns, ChangeReturns, Breaks
<1>8. ASSUME call[t].at = "answer", call[t].op # "lookup", call[t].settled, call[t].epoch = Disturbances, ~electing,
             call[t].status \notin {"ok", "absent"}
      PROVE  Known /\ call[t].status = leader /\ call[t].target # leader /\ call[t].attempt = 0
  BY <1>4, <1>8 DEF Guided
<1>9. CASE FollowHint(t)
  <2>1. call[t].at = "answer" /\ call[t].op # "lookup" /\ call[t].status \in Coord /\ call[t].status \notin {"ok", "absent"}
    BY <1>9, AddressAssumption DEF FollowHint
  <2>2. call[t].status \in conf.coords
    BY <1>4, <2>1, AddressAssumption DEF Reached
  <2>3. CASE Calls(t, Resent(t, call[t].status)) /\ UNCHANGED ret
    BY <1>1, <1>8, <2>1, <2>2, <2>3, RedirectResent
  <2>4. CASE ~MayRetry(t) /\ Done(t, call[t], "refused")
    <3>1. call[t].attempt # 0
      BY <2>4, SMTT(30) DEF MayRetry, MaxLeaderRedirects
    <3> QED
      BY <1>1, <1>2, <1>5, <1>8, <2>1, <2>4, <3>1, RedirectDone
  <2> QED
    BY <1>9, <2>3, <2>4 DEF FollowHint
<1>10. CASE NoHint(t)
  <2>1. /\ call[t].at = "answer" /\ call[t].op # "lookup" /\ call[t].status \notin {"ok", "absent"}
        /\ call[t].status \in {NoOne, call[t].target}
    BY <1>2, <1>5, <1>10, AddressAssumption DEF NoHint, NoOne
  <2>2. leader # NoOne
    BY <1>2, AddressAssumption DEF RedirectLedger, Routes
  <2>3. ~(call[t].settled /\ call[t].epoch = Disturbances /\ ~electing)
    BY <1>8, <2>1, <2>2
  <2>4. CASE Calls(t, Resent(t, call[t].target)) /\ UNCHANGED ret
    BY <1>1, <1>5, <2>1, <2>3, <2>4, RedirectResent
  <2>5. CASE Done(t, call[t], "refused")
    BY <1>1, <1>2, <1>5, <2>3, <2>5, RedirectDone
  <2> QED
    BY <1>10, <2>4, <2>5 DEF NoHint
<1> QED
  BY <1>7, <1>9, <1>10 DEF Returns

LEMMA RedirectKept ==
    ASSUME CallLedger, RedirectLedger, [EdgeNext]_edgeVars
    PROVE  RedirectLedger'
<1>1. ASSUME NEW t \in Thread, CallStep(t) PROVE RedirectLedger'
  <2>1. UNCHANGED <<conf, leader, electing, hint>> /\ Disturbances' = Disturbances
    BY <1>1, CallStepSame DEF RedirectLedger, Routes
  <2>2. Disturbances \in Nat
    BY SpendDisturbs DEF RedirectLedger, Routes
  <2>3. CASE LookupObject(t)
    <3> DEFINE r == [Sent(t, "lookup") EXCEPT !.n = cache[EdgeOf[t]].n, !.asOf = cache[EdgeOf[t]].asOf]
    <3>1. IsCall(r) /\ r.epoch = Disturbances
      BY HitFields
    <3>2. Done(t, r, "ok") \/ (Calls(t, Sent(t, "lookup")) /\ UNCHANGED ret)
      BY <2>3 DEF LookupObject
    <3> HIDE DEF r
    <3>3. r.epoch \in Nat /\ r.epoch <= Disturbances
      BY <2>2, <3>1, SMTT(30)
    <3> QED
      BY <2>1, <3>1, <3>2, <3>3, RedirectDone, RedirectSent
  <2>4. ASSUME NEW op, Change(t, op) PROVE RedirectLedger'
    BY <2>1, <2>4, RedirectSent DEF Change
  <2> QED
    BY <1>1, <2>3, <2>4, RedirectServed, RedirectReturned DEF CallStep
<1>2. ASSUME \A t \in Thread : call'[t].at # "idle" => call'[t] = call[t], ret' = ret PROVE RedirectLedger'
  <2>1. ASSUME NEW t \in Thread, call'[t].at # "idle" PROVE (Reached(call[t]) /\ Guided(call[t]))'
    <3>1. call'[t] = call[t] /\ Reached(call[t]) /\ Guided(call[t])
      BY <1>2, <2>1 DEF RedirectLedger
    <3> QED
      BY <3>1, GuidedKept
  <2> QED
    BY <1>2, <2>1, RoutesKept, RefusalKept DEF RedirectLedger
<1>3. ASSUME NEW e, RestartEdge(e) PROVE RedirectLedger'
  <2>1. call' = [t \in Thread |-> IF EdgeOf[t] = e THEN IdleCall ELSE call[t]] /\ ret' = ret
    BY <1>3 DEF RestartEdge
  <2>2. \A t \in Thread : call'[t].at # "idle" => call'[t] = call[t]
    BY <2>1, IdleFields
  <2> QED
    BY <1>2, <2>1, <2>2
<1>4. CASE CoordsMove
  BY <1>2, <1>4, CoordStepCalls
<1>5. CASE ElsewhereStep
  BY <1>2, <1>5, ElsewhereSame DEF clientVars
<1> QED
  BY <1>1, <1>3, <1>4, <1>5, StepCases

\* While every coord knows the leader and nothing disturbs them, no call is refused:
\* one redirect (maxLeaderRedirects in do, and the hint of requireLeader) is enough.
THEOREM RedirectSufficesHolds == EdgeSpec => []RedirectSuffices
<1> DEFINE Inv == CallLedger /\ RedirectLedger
<1>1. EdgeInit => Inv
  BY CallsInit, RedirectInit
<1>2. Inv /\ [EdgeNext]_edgeVars => Inv'
  BY CallsKept, RedirectKept
<1>3. Inv => RedirectSuffices
  BY DEF RedirectLedger
<1> QED
  BY <1>1, <1>2, <1>3, PTL DEF EdgeSpec

-----------------------------------------------------------------------------
(* The age of what a lookup returns.                                       *)

\* A call under way is within its deadline, and was answered after it began.
Timely(r) ==
    /\ r.began \in Nat /\ r.began <= now /\ now <= r.began + Timeout
    /\ r.at = "answer" => r.asOf \in Nat /\ r.began <= r.asOf

\* An entry expires one lifetime after the call that fetched it has returned.
Young(x) == x.exp \in Nat /\ x.asOf \in Nat /\ x.exp <= x.asOf + TTL + Timeout

TimeLedger ==
    /\ now \in Nat
    /\ cache = [e \in Edge |-> cache[e]]
    /\ \A e \in Edge : Young(cache[e])
    /\ \A t \in Thread : call[t].at # "idle" => Timely(call[t])
    /\ StaleBound

LEMMA NoEntryYoung == Young(NoEntry)
BY ClockAssumption, SMTT(30) DEF Young, NoEntry

LEMMA TimeInit == EdgeInit => TimeLedger
<1> SUFFICES ASSUME EdgeInit PROVE TimeLedger
  OBVIOUS
<1>1. /\ now = 0 /\ cache = [e \in Edge |-> NoEntry]
      /\ call = [t \in Thread |-> IdleCall] /\ ret = IdleCall
  BY DEF EdgeInit, ClientInit
<1>2. StaleBound
  BY <1>1, IdleFields DEF StaleBound
<1>3. \A t \in Thread : call[t].at = "idle"
  BY <1>1, IdleFields
<1>4. \A e \in Edge : Young(cache[e])
  BY <1>1, NoEntryYoung
<1> QED
  BY <1>1, <1>2, <1>3, <1>4 DEF TimeLedger

\* A step of one handler that neither lets time pass nor breaks the ledger itself.
LEMMA TimeReplaced ==
    ASSUME TimeLedger, NEW t \in Thread, \A u \in Thread \ {t} : call'[u] = call[u],
           call'[t].at # "idle" => (Timely(call[t]))', now' = now,
           cache' = [e \in Edge |-> cache'[e]], \A e \in Edge : Young(cache'[e]), StaleBound'
    PROVE  TimeLedger'
<1>1. ASSUME NEW u \in Thread, call'[u].at # "idle" PROVE (Timely(call[u]))'
  <2>1. CASE u = t
    BY <1>1, <2>1
  <2>2. CASE u # t
    <3>1. call'[u] = call[u] /\ Timely(call[u])
      BY <1>1, <2>2 DEF TimeLedger
    <3> QED
      BY <3>1 DEF Timely
  <2> QED
    BY <2>1, <2>2
<1>2. \A e \in Edge : (Young(cache[e]))'
  BY DEF Young
<1> QED
  BY <1>1, <1>2 DEF TimeLedger

LEMMA TimeDone ==
    ASSUME CallLedger, TimeLedger, NEW t \in Thread, NEW r, NEW status, IsCall(r), Done(t, r, status), now' = now,
           cache' = [e \in Edge |-> cache'[e]], \A e \in Edge : Young(cache'[e]),
           r.op = "lookup" /\ status \in {"ok", "absent"} => r.asOf + TTL + Timeout >= now
    PROVE  TimeLedger'
<1>1. /\ Calls(t, IdleCall) /\ ret'.op = r.op /\ ret'.status = status /\ ret'.began = now /\ ret'.asOf = r.asOf
  BY DoneFields
<1>2. call' = [call EXCEPT ![t] = IdleCall] /\ call = [u \in Thread |-> call[u]]
  BY <1>1 DEF Calls, CallLedger
<1>3. call'[t].at = "idle" /\ \A u \in Thread \ {t} : call'[u] = call[u]
  BY <1>2, IdleFields
<1>4. StaleBound'
  BY <1>1 DEF StaleBound
<1> QED
  BY <1>3, <1>4, TimeReplaced

LEMMA TimeStepped ==
    ASSUME CallLedger, TimeLedger, used \in [Budgets -> Nat], NEW t \in Thread, CallStep(t)
    PROVE  TimeLedger'
<1>1. now' = now /\ now \in Nat /\ EdgeOf[t] \in Edge
  BY CallStepSame, HomeAssumption DEF TimeLedger
<1>2. /\ IsCall(call[t]) /\ call = [u \in Thread |-> call[u]]
      /\ cache = [e \in Edge |-> cache[e]] /\ \A e \in Edge : Young(cache[e])
  BY DEF CallLedger, TimeLedger
<1>3. call[t].at # "idle" => Timely(call[t])
  BY DEF TimeLedger
\* a call that is put in place of the handler's, the rest being as it was
<1>4. ASSUME NEW r, Calls(t, r), UNCHANGED <<cache, ret>>,
             r.began \in Nat, r.began <= now, now <= r.began + Timeout,
             r.at = "answer" => r.asOf \in Nat /\ r.began <= r.asOf
      PROVE  TimeLedger'
  <2>1. call' = [call EXCEPT ![t] = r]
    BY <1>4 DEF Calls
  <2>2. call'[t] = r /\ \A u \in Thread \ {t} : call'[u] = call[u]
    BY <1>2, <2>1
  <2>3. (Timely(call[t]))'
    BY <1>1, <1>4, <2>2 DEF Timely
  <2>4. StaleBound'
    BY <1>4 DEF TimeLedger, StaleBound
  <2> QED
    BY <1>1, <1>2, <1>4, <2>2, <2>3, <2>4, TimeReplaced
<1>5. ASSUME NEW op, Calls(t, Sent(t, op)), UNCHANGED <<cache, ret>> PROVE TimeLedger'
  <2> DEFINE r == Sent(t, op)
  <2>1. r.at = "sent" /\ r.began = now
    BY SentFields, SMTT(30)
  <2>2. Calls(t, r)
    BY <1>5
  <2> HIDE DEF r
  <2> QED
    BY <1>1, <1>4, <1>5, <2>1, <2>2, ClockAssumption, SMTT(30)
<1>6. ASSUME NEW op, Change(t, op) PROVE TimeLedger'
  BY <1>5, <1>6 DEF Change
<1>7. CASE LookupObject(t)
  <2> DEFINE e == EdgeOf[t]
             r == [Sent(t, "lookup") EXCEPT !.n = cache[e].n, !.asOf = cache[e].asOf]
  <2>1. CASE CacheHit(e) /\ Done(t, r, "ok")
    <3>1. IsCall(r) /\ r.asOf = cache[e].asOf
      BY HitFields
    <3>2. now < cache[e].exp /\ Young(cache[e])
      BY <1>1, <1>2, <2>1 DEF CacheHit
    <3> HIDE DEF r
    <3>3. r.asOf + TTL + Timeout >= now
      BY <1>1, <3>1, <3>2, ClockAssumption, SMTT(30) DEF Young
    <3>4. cache' = cache
      BY <1>7 DEF LookupObject
    <3> QED
      BY <1>1, <1>2, <2>1, <3>1, <3>3, <3>4, TimeDone
  <2>2. CASE Calls(t, Sent(t, "lookup")) /\ UNCHANGED ret
    BY <1>5, <1>7, <2>2 DEF LookupObject
  <2> QED
    BY <1>7, <2>1, <2>2 DEF LookupObject
<1>8. CASE Serve(t)
  <2>1. call[t].at = "sent" /\ UNCHANGED <<cache, ret>>
    BY <1>8 DEF Serve, ServeLookup, requireLeader, ServeChange
  <2>2. call[t].began \in Nat /\ call[t].began <= now /\ now <= call[t].began + Timeout
    BY <1>3, <2>1 DEF Timely
  <2>3. ASSUME NEW status, NEW n, Calls(t, Answered(t, status, n)) PROVE TimeLedger'
    <3> DEFINE r == Answered(t, status, n)
    <3>1. r.at = "answer" /\ r.began = call[t].began /\ r.asOf = now
      BY <1>2, AnsweredFields, SMTT(30)
    <3>2. Calls(t, r)
      BY <2>3
    <3> HIDE DEF r
    <3> QED
      BY <1>1, <1>4, <2>1, <2>2, <3>1, <3>2
  <2> DEFINE a == Answered(t, "ok", changes')
             r == [a EXCEPT !.applied = @ + 1]
  <2>4. CASE Calls(t, r)
    <3>1. IsCall(a) /\ a.at = "answer" /\ a.began = call[t].began /\ a.asOf = now
      BY <1>2, AnsweredFields, SMTT(30)
    <3> HIDE DEF a
    <3>2. r.at = "answer" /\ r.began = call[t].began /\ r.asOf = now
      BY <3>1, CountedFields
    <3> HIDE DEF r
    <3> QED
      BY <1>1, <1>4, <2>1, <2>2, <2>4, <3>2
  <2> QED
    BY <1>8, <2>3, <2>4 DEF Serve, ServeLookup, requireLeader, ServeChange
<1>9. CASE Returns(t) \/ Breaks(t)
  <2>1. call[t].at # "idle"
    BY <1>9 DEF Returns, LookupReturns, ChangeReturns, FollowHint, NoHint, Breaks
  <2>2. /\ call[t].began \in Nat /\ call[t].began <= now /\ now <= call[t].began + Timeout
        /\ call[t].at = "answer" => call[t].asOf \in Nat /\ call[t].began <= call[t].asOf
    BY <1>3, <2>1 DEF Timely
  <2>3. ASSUME NEW c, Calls(t, Resent(t, c)), UNCHANGED <<cache, ret>> PROVE TimeLedger'
    <3> DEFINE r == Resent(t, c)
    <3>1. r.at = "sent" /\ r.began = call[t].began
      BY <1>2, ResentFields, SMTT(30)
    <3>2. Calls(t, r)
      BY <2>3
    <3> HIDE DEF r
    <3> QED
      BY <1>4, <2>2, <2>3, <3>1, <3>2
  <2>4. ASSUME NEW status, Done(t, call[t], status), cache' = cache, status \notin {"ok", "absent"} PROVE TimeLedger'
    BY <1>1, <1>2, <2>4, TimeDone
  <2>5. CASE LookupReturns(t)
    <3>1. call[t].at = "answer" /\ Done(t, call[t], call[t].status)
      BY <2>5 DEF LookupReturns
    <3>2. call[t].asOf \in Nat /\ call[t].asOf + Timeout >= now
      BY <1>1, <2>2, <3>1, ClockAssumption, SMTT(30)
    <3>3. call[t].asOf + TTL + Timeout >= now
      BY <1>1, <3>2, ClockAssumption, SMTT(30)
    <3> DEFINE x == [n |-> call[t].n, exp |-> now + TTL, asOf |-> call[t].asOf]
    <3>4. Young(x)
      BY <1>1, <3>2, ClockAssumption, SMTT(30) DEF Young
    <3>5. cache' = [cache EXCEPT ![EdgeOf[t]] = x] \/ cache' = cache
      BY <2>5 DEF LookupReturns
    <3> HIDE DEF x
    <3>6. cache' = [e \in Edge |-> cache'[e]] /\ \A e \in Edge : Young(cache'[e])
      BY <1>2, <3>4, <3>5
    <3> QED
      BY <1>1, <1>2, <3>1, <3>3, <3>6, TimeDone
  <2>6. CASE ChangeReturns(t)
    <3>1. call[t].op # "lookup" /\ Done(t, call[t], call[t].status)
      BY <2>6 DEF ChangeReturns
    <3>2. cache' = [cache EXCEPT ![EdgeOf[t]] = NoEntry] \/ cache' = cache
      BY <2>6 DEF ChangeReturns
    <3>3. cache' = [e \in Edge |-> cache'[e]] /\ \A e \in Edge : Young(cache'[e])
      BY <1>2, <3>2, NoEntryYoung
    <3> QED
      BY <1>1, <1>2, <3>1, <3>3, TimeDone
  <2>7. CASE FollowHint(t) \/ NoHint(t) \/ Breaks(t)
    BY <2>3, <2>4, <2>7, SMTT(30) DEF FollowHint, NoHint, Breaks
  <2> QED
    BY <1>9, <2>5, <2>6, <2>7 DEF Returns
<1> QED
  BY <1>6, <1>7, <1>8, <1>9 DEF CallStep

LEMMA TimeKept ==
    ASSUME CallLedger, TimeLedger, used \in [Budgets -> Nat], [EdgeNext]_edgeVars
    PROVE  TimeLedger'
<1>1. now \in Nat /\ cache = [e \in Edge |-> cache[e]] /\ \A e \in Edge : Young(cache[e])
  BY DEF TimeLedger
<1>2. ASSUME now' = now, ret' = ret, \A t \in Thread : call'[t].at # "idle" => call'[t] = call[t],
             cache' = [e \in Edge |-> cache'[e]], \A e \in Edge : Young(cache'[e])
      PROVE  TimeLedger'
  <2>1. StaleBound'
    BY <1>2 DEF TimeLedger, StaleBound
  <2>2. ASSUME NEW t \in Thread, call'[t].at # "idle" PROVE (Timely(call[t]))'
    BY <1>2, <2>2 DEF TimeLedger, Timely
  <2>3. \A e \in Edge : (Young(cache[e]))'
    BY <1>2 DEF Young
  <2> QED
    BY <1>1, <1>2, <2>1, <2>2, <2>3 DEF TimeLedger
<1>3. CASE Tick
  <2>1. now' = now + 1 /\ UNCHANGED <<cache, call, ret>> /\ \A t \in Thread : call[t].at # "idle" => now < call[t].began + Timeout
    BY <1>3 DEF Tick
  <2>2. StaleBound'
    BY <2>1 DEF TimeLedger, StaleBound
  <2>3. ASSUME NEW t \in Thread, call'[t].at # "idle" PROVE (Timely(call[t]))'
    <3>1. Timely(call[t]) /\ now < call[t].began + Timeout
      BY <2>1, <2>3 DEF TimeLedger
    <3> QED
      BY <1>1, <2>1, <3>1, ClockAssumption, SMTT(30) DEF Timely
  <2>4. \A e \in Edge : (Young(cache[e]))'
    BY <1>1, <2>1 DEF Young
  <2> QED
    BY <1>1, <2>1, <2>2, <2>3, <2>4, SMTT(30) DEF TimeLedger
<1>4. CASE CoordsMove /\ ~Tick
  <2>1. now' = now
    BY <1>4 DEF CoordsMove, StepDown, Elected, Learn, ServeLate, RestartKeyedCoord, RestartCoord
  <2> QED
    BY <1>1, <1>2, <1>4, <2>1, CoordStepCalls
<1>5. ASSUME NEW e, RestartEdge(e) PROVE TimeLedger'
  <2>1. /\ call' = [t \in Thread |-> IF EdgeOf[t] = e THEN IdleCall ELSE call[t]]
        /\ cache' = [cache EXCEPT ![e] = NoEntry] /\ UNCHANGED <<now, ret>>
    BY <1>5 DEF RestartEdge
  <2>2. \A t \in Thread : call'[t].at # "idle" => call'[t] = call[t]
    BY <2>1, IdleFields
  <2>3. cache' = [d \in Edge |-> cache'[d]] /\ \A d \in Edge : Young(cache'[d])
    BY <1>1, <2>1, NoEntryYoung
  <2> QED
    BY <1>2, <2>1, <2>2, <2>3
<1>6. CASE ElsewhereStep
  BY <1>1, <1>2, <1>6, ElsewhereSame DEF clientVars
<1> QED
  BY <1>3, <1>4, <1>5, <1>6, TimeStepped, StepCases

\* A lookup never answers with what is older than one lifetime of a cache entry and
\* one deadline (cachePut after the call, cacheGet at the next).
THEOREM StaleBoundHolds == EdgeSpec => []StaleBound
<1> DEFINE Inv == CallLedger /\ RedirectLedger /\ TimeLedger
<1>1. EdgeInit => Inv
  BY CallsInit, RedirectInit, TimeInit
<1>2. Inv /\ [EdgeNext]_edgeVars => Inv'
  BY CallsKept, RedirectKept, TimeKept DEF RedirectLedger, Routes
<1>3. Inv => StaleBound
  BY DEF TimeLedger
<1> QED
  BY <1>1, <1>2, <1>3, PTL DEF EdgeSpec

-----------------------------------------------------------------------------
(* An edge and its own changes.                                            *)

\* No coord has lost the lead or been restarted, and no edge has been restarted.
Undisturbed == Disturbances = 0 /\ ~electing

\* A lookup under way knows all changes its edge was told of; with any of them the
\* base URL names the leader, and so does the call.  A change that has reached the
\* leader did so through the base URL.
Seeing(r, e) ==
    IF r.op = "lookup"
    THEN /\ r.own = own[e]
         /\ own[e] > 0 => r.target = leader
         /\ r.at = "answer" => r.n \in Nat /\ r.n >= r.own
    ELSE /\ r.op \in {"commit", "delete", "complete"}
         /\ r.target = leader => base[e] = leader
         /\ r.at = "answer" /\ r.status = "ok" => r.target = leader /\ r.n \in Nat /\ r.n <= changes
         /\ r.at = "answer" /\ r.status \in Coord => r.status = leader

Aware(e) ==
    /\ own[e] <= changes
    /\ own[e] > 0 => base[e] = leader
    /\ cache[e] # NoEntry => cache[e].n \in Nat /\ cache[e].n >= own[e]

SawOwn(r) == r.op = "lookup" /\ r.status \in {"ok", "absent"} => r.n >= r.own

OwnLedger ==
    /\ changes = obj[leader].n
    /\ hint = [c \in Coord |-> leader]
    /\ \A e \in Edge : Aware(e)
    /\ \A t \in Thread : call[t].at # "idle" => Seeing(call[t], EdgeOf[t])
    /\ SawOwn(ret)

OwnTypes ==
    /\ changes \in Nat /\ own \in [Edge -> Nat]
    /\ obj = [c \in Coord |-> obj[c]] /\ \A c \in Coord : obj[c].n \in Nat
    /\ cache = [e \in Edge |-> cache[e]]

OwnInv == Undisturbed => OwnTypes /\ OwnLedger

LEMMA OwnInit == EdgeInit => OwnInv
<1> SUFFICES ASSUME EdgeInit PROVE OwnTypes /\ OwnLedger
  BY DEF OwnInv
<1>1. /\ conf \in Setups /\ leader \in conf.coords
      /\ hint = [c \in Coord |-> leader]
      /\ obj = [c \in Coord |-> [n |-> 0, live |-> FALSE]]
      /\ cache = [e \in Edge |-> NoEntry] /\ changes = 0 /\ own = [e \in Edge |-> 0]
      /\ call = [t \in Thread |-> IdleCall] /\ ret = IdleCall
  BY DEF EdgeInit, ClientInit, Init
<1>2. leader \in Coord
  BY <1>1, EnvAssumption
<1>3. OwnTypes
  BY <1>1 DEF OwnTypes
<1>4. \A e \in Edge : Aware(e)
  BY <1>1, SMTT(30) DEF Aware
<1>5. \A t \in Thread : call[t].at = "idle"
  BY <1>1, IdleFields
<1>6. SawOwn(ret)
  BY <1>1, IdleFields DEF SawOwn
<1> QED
  BY <1>1, <1>2, <1>3, <1>4, <1>5, <1>6 DEF OwnLedger

LEMMA AppliesOwn ==
    ASSUME OwnTypes, leader \in Coord, NEW op, Applies(leader, op)
    PROVE  /\ changes' \in Nat /\ changes' = changes + 1 /\ obj'[leader].n = changes'
           /\ obj' = [c \in Coord |-> obj'[c]] /\ \A c \in Coord : obj'[c].n \in Nat
<1>1. changes' = changes + 1 /\ changes' \in Nat
  BY SMTT(30) DEF Applies, OwnTypes
<1> DEFINE o == [n |-> changes', live |-> op # "delete"]
<1>2. PICK P \in SUBSET (conf.coords \ {leader}) :
        obj' = [c \in Coord |-> IF c \in P \cup {leader} THEN o ELSE obj[c]]
  BY DEF Applies, Takes
<1>3. o.n = changes'
  OBVIOUS
<1> HIDE DEF o
<1> QED
  BY <1>1, <1>2, <1>3 DEF OwnTypes

\* What a step leaves of a call, an edge's changes and its base URL, which moves to
\* the leader only.
LEMMA SeeingKept ==
    ASSUME NEW u \in Thread, NEW e, Seeing(call[u], e), call'[u] = call[u], leader' = leader,
           call[u].op = "lookup" => own'[e] = own[e],
           changes \in Nat, changes' \in Nat, changes' >= changes,
           base'[e] = base[e] \/ base'[e] = leader
    PROVE  (Seeing(call[u], e))'
BY SMTT(30) DEF Seeing

LEMMA OwnReplaced ==
    ASSUME OwnTypes, OwnLedger, OwnTypes', leader' = leader, hint' = hint,
           changes' = obj'[leader].n, changes' >= changes,
           \A e \in Edge : base'[e] = base[e] \/ base'[e] = leader,
           \A e \in Edge : (Aware(e))',
           NEW t \in Thread, \A u \in Thread \ {t} : call'[u] = call[u],
           \A u \in Thread \ {t} : call[u].at # "idle" /\ call[u].op = "lookup" => own'[EdgeOf[u]] = own[EdgeOf[u]],
           call'[t].at # "idle" => (Seeing(call[t], EdgeOf[t]))',
           (SawOwn(ret))'
    PROVE  OwnLedger'
<1>1. ASSUME NEW u \in Thread, call'[u].at # "idle", u # t PROVE (Seeing(call[u], EdgeOf[u]))'
  <2>1. call'[u] = call[u] /\ call[u].at # "idle" /\ Seeing(call[u], EdgeOf[u]) /\ EdgeOf[u] \in Edge
    BY <1>1, HomeAssumption DEF OwnLedger
  <2>2. call[u].op = "lookup" => own'[EdgeOf[u]] = own[EdgeOf[u]]
    BY <1>1, <2>1
  <2>3. base'[EdgeOf[u]] = base[EdgeOf[u]] \/ base'[EdgeOf[u]] = leader
    BY <2>1
  <2> QED
    BY <2>1, <2>2, <2>3, SeeingKept DEF OwnTypes
<1>2. \A u \in Thread : call'[u].at # "idle" => (Seeing(call[u], EdgeOf[u]))'
  BY <1>1
<1>3. hint' = [c \in Coord |-> leader']
  BY DEF OwnLedger
<1> QED
  BY <1>2, <1>3 DEF OwnLedger

\* A step that only replaces the call of a handler.
LEMMA OwnCalled ==
    ASSUME CallLedger, OwnTypes, OwnLedger, NEW t \in Thread, NEW r, Calls(t, r),
           UNCHANGED <<leader, hint, obj, base, cache, changes, own>>,
           call'[t].at # "idle" => (Seeing(call[t], EdgeOf[t]))', (SawOwn(ret))'
    PROVE  (OwnTypes /\ OwnLedger)'
<1>1. call' = [call EXCEPT ![t] = r] /\ call = [u \in Thread |-> call[u]]
  BY DEF Calls, CallLedger
<1>2. \A u \in Thread \ {t} : call'[u] = call[u]
  BY <1>1
<1>3. OwnTypes'
  BY DEF OwnTypes
<1>4. \A e \in Edge : (Aware(e))'
  BY DEF OwnLedger, Aware
<1>5. changes' = obj'[leader].n /\ changes' >= changes
  BY SMTT(30) DEF OwnLedger, OwnTypes
<1> QED
  BY <1>2, <1>3, <1>4, <1>5, OwnReplaced

LEMMA OwnBegun ==
    ASSUME CallLedger, OwnTypes, OwnLedger, NEW t \in Thread, leader' = leader, hint' = hint,
           LookupObject(t) \/ \E op \in conf.ops : Change(t, op)
    PROVE  (OwnTypes /\ OwnLedger)'
<1> DEFINE e == EdgeOf[t]
<1>1. e \in Edge /\ Aware(e) /\ own[e] \in Nat
  BY HomeAssumption DEF OwnLedger, OwnTypes
<1>2. call = [u \in Thread |-> call[u]]
  BY DEF CallLedger
<1>3. ASSUME NEW op \in {"commit", "delete", "complete", "lookup"}, Calls(t, Sent(t, op)), UNCHANGED <<leader, base, own>>
      PROVE  (Seeing(call[t], e))'
  <2> DEFINE r == Sent(t, op)
  <2>1. r.at = "sent" /\ r.op = op /\ r.target = base[e] /\ r.own = own[e]
    BY SentFields, SMTT(30)
  <2>2. call' = [call EXCEPT ![t] = r]
    BY <1>3 DEF Calls
  <2> HIDE DEF r
  <2>3. call'[t] = r
    BY <1>2, <2>2
  <2> QED
    BY <1>1, <1>3, <2>1, <2>3 DEF Seeing, Aware
<1>4. ASSUME NEW op \in conf.ops, Change(t, op) PROVE (OwnTypes /\ OwnLedger)'
  <2>1. op \in {"commit", "delete", "complete"}
    BY OpsAssumption DEF CallLedger, Addresses
  <2>2. Calls(t, Sent(t, op)) /\ UNCHANGED <<obj, base, cache, changes, own, ret>>
    BY <1>4 DEF Change
  <2>3. (SawOwn(ret))'
    BY <2>2 DEF OwnLedger, SawOwn
  <2> QED
    BY <1>3, <2>1, <2>2, <2>3, OwnCalled
<1>5. CASE LookupObject(t)
  <2>1. UNCHANGED <<obj, base, cache, changes, own>>
    BY <1>5 DEF LookupObject
  <2> DEFINE r == [Sent(t, "lookup") EXCEPT !.n = cache[e].n, !.asOf = cache[e].asOf]
  <2>2. CASE CacheHit(e) /\ Done(t, r, "ok")
    <3>1. IsCall(r) /\ r.n = cache[e].n /\ r.own = own[e]
      BY HitFields
    <3>2. cache[e].n >= own[e]
      BY <1>1, <2>2 DEF Aware, CacheHit
    <3> HIDE DEF r
    <3>3. Calls(t, IdleCall) /\ ret'.n = r.n /\ ret'.own = r.own
      BY <2>2, <3>1, DoneFields
    <3>4. (SawOwn(ret))'
      BY <3>1, <3>2, <3>3 DEF SawOwn
    <3>5. call'[t].at = "idle"
      BY <1>2, <3>3, IdleFields DEF Calls
    <3> QED
      BY <2>1, <3>3, <3>4, <3>5, OwnCalled
  <2>3. CASE Calls(t, Sent(t, "lookup")) /\ UNCHANGED ret
    <3>1. (SawOwn(ret))'
      BY <2>3 DEF OwnLedger, SawOwn
    <3> QED
      BY <1>3, <2>1, <2>3, <3>1, OwnCalled
  <2> QED
    BY <1>5, <2>2, <2>3 DEF LookupObject
<1> QED
  BY <1>4, <1>5

LEMMA OwnServed ==
    ASSUME CallLedger, OwnTypes, OwnLedger, NEW t \in Thread, leader' = leader, hint' = hint, Serve(t)
    PROVE  (OwnTypes /\ OwnLedger)'
<1> DEFINE e == EdgeOf[t]
<1>1. e \in Edge /\ Aware(e) /\ own[e] \in Nat /\ leader \in Coord
  BY HomeAssumption DEF OwnLedger, OwnTypes, CallLedger, Addresses
<1>2. call = [u \in Thread |-> call[u]] /\ IsCall(call[t]) /\ SoundCall(call[t])
  BY DEF CallLedger
<1>3. call[t].at = "sent" /\ UNCHANGED <<base, cache, own, ret>>
  BY DEF Serve, ServeLookup, requireLeader, ServeChange
<1>4. Seeing(call[t], e) /\ call[t].target \in Coord
  BY <1>2, <1>3 DEF OwnLedger, SoundCall
<1>5. (SawOwn(ret))'
  BY <1>3 DEF OwnLedger, SawOwn
<1>6. ASSUME NEW status, NEW n, Calls(t, Answered(t, status, n))
      PROVE  /\ call'[t].at = "answer" /\ call'[t].op = call[t].op /\ call'[t].target = call[t].target
             /\ call'[t].own = call[t].own /\ call'[t].status = status /\ call'[t].n = n
  <2> DEFINE r == Answered(t, status, n)
  <2>1. /\ r.at = "answer" /\ r.op = call[t].op /\ r.target = call[t].target
        /\ r.own = call[t].own /\ r.status = status /\ r.n = n
    BY <1>2, AnsweredFields, SMTT(30)
  <2>2. call' = [call EXCEPT ![t] = r]
    BY <1>6 DEF Calls
  <2> HIDE DEF r
  <2> QED
    BY <1>2, <2>1, <2>2
<1>7. CASE ServeLookup(t)
  <2> DEFINE o == obj[call[t].target]
  <2>1. /\ call[t].op = "lookup" /\ UNCHANGED <<obj, changes>>
        /\ \E status \in {"ok", "absent"} : Calls(t, Answered(t, status, o.n))
    BY <1>7 DEF ServeLookup
  <2>2. o.n \in Nat /\ o.n >= own[e]
    BY <1>1, <1>4, <2>1, SMTT(30) DEF OwnTypes, OwnLedger, Seeing, Aware
  <2>3. /\ call'[t].op = "lookup" /\ call'[t].target = call[t].target
        /\ call'[t].own = call[t].own /\ call'[t].n = o.n
    BY <1>6, <2>1
  <2>4. (Seeing(call[t], e))'
    BY <1>3, <1>4, <2>1, <2>2, <2>3 DEF Seeing
  <2> QED
    BY <1>3, <1>5, <2>1, <2>4, OwnCalled
<1>8. CASE requireLeader(t)
  <2>1. /\ call[t].op # "lookup" /\ UNCHANGED <<obj, changes>>
        /\ Calls(t, Answered(t, hint[call[t].target], 0))
    BY <1>8 DEF requireLeader
  <2>2. hint[call[t].target] = leader /\ leader # "ok"
    BY <1>1, <1>4, AddressAssumption DEF OwnLedger
  <2>3. call'[t].op = call[t].op /\ call'[t].target = call[t].target /\ call'[t].status = leader
    BY <1>6, <2>1, <2>2
  <2>4. (Seeing(call[t], e))'
    BY <1>3, <1>4, <2>1, <2>2, <2>3 DEF Seeing
  <2> QED
    BY <1>3, <1>5, <2>1, <2>4, OwnCalled
<1>9. CASE ServeChange(t)
  <2>1. call[t].op # "lookup" /\ call[t].target = leader
    BY <1>9 DEF ServeChange, IsLeader
  <2>2. CASE Calls(t, Answered(t, "absent", 0)) /\ UNCHANGED <<obj, changes>>
    <3>1. call'[t].op = call[t].op /\ call'[t].target = call[t].target /\ call'[t].status = "absent"
      BY <1>6, <2>2
    <3>2. "absent" \notin Coord
      BY AddressAssumption
    <3>3. (Seeing(call[t], e))'
      BY <1>3, <1>4, <2>1, <3>1, <3>2 DEF Seeing
    <3> QED
      BY <1>3, <1>5, <2>2, <3>3, OwnCalled
  <2> DEFINE a == Answered(t, "ok", changes')
             r == [a EXCEPT !.applied = @ + 1]
  <2>3. CASE Applies(call[t].target, call[t].op) /\ Calls(t, r)
    <3>1. /\ IsCall(a) /\ a.op = call[t].op /\ a.target = call[t].target /\ a.status = "ok" /\ a.n = changes'
      BY <1>2, AnsweredFields, SMTT(30)
    <3>2. call' = [call EXCEPT ![t] = r]
      BY <2>3 DEF Calls
    <3> HIDE DEF a
    <3>3. r.op = call[t].op /\ r.target = call[t].target /\ r.status = "ok" /\ r.n = changes'
      BY <3>1, CountedFields
    <3> HIDE DEF r
    <3>4. call'[t] = r /\ \A u \in Thread \ {t} : call'[u] = call[u]
      BY <1>2, <3>2
    <3>5. /\ changes' \in Nat /\ changes' = changes + 1 /\ obj'[leader].n = changes'
          /\ obj' = [c \in Coord |-> obj'[c]] /\ \A c \in Coord : obj'[c].n \in Nat
      BY <1>1, <2>1, <2>3, AppliesOwn
    <3>6. OwnTypes'
      BY <1>3, <3>5 DEF OwnTypes
    <3>7. ASSUME NEW d \in Edge PROVE (Aware(d))'
      <4>1. Aware(d) /\ own[d] \in Nat /\ changes \in Nat
        BY DEF OwnLedger, OwnTypes
      <4> QED
        BY <1>3, <3>5, <4>1, SMTT(30) DEF Aware
    <3>8. "ok" \notin Coord
      BY AddressAssumption
    <3>9. (Seeing(call[t], e))'
      BY <1>3, <1>4, <2>1, <3>3, <3>4, <3>5, <3>8, SMTT(30) DEF Seeing
    <3>10. changes' >= changes
      BY <3>5, SMTT(30) DEF OwnTypes
    <3>11. OwnLedger'
      BY <1>3, <1>5, <3>4, <3>5, <3>6, <3>7, <3>9, <3>10, OwnReplaced
    <3> QED
      BY <3>6, <3>11
  <2> QED
    BY <1>9, <2>2, <2>3 DEF ServeChange
<1> QED
  BY <1>7, <1>8, <1>9 DEF Serve

LEMMA OwnReturned ==
    ASSUME CallLedger, OwnTypes, OwnLedger, NEW t \in Thread, leader' = leader, hint' = hint, Returns(t) \/ Breaks(t)
    PROVE  (OwnTypes /\ OwnLedger)'
<1> DEFINE e == EdgeOf[t]
<1>1. /\ e \in Edge /\ Aware(e) /\ own[e] \in Nat /\ leader \in Coord /\ base \in [Edge -> Coord]
      /\ cache = [d \in Edge |-> cache[d]] /\ own = [d \in Edge |-> own[d]]
  BY HomeAssumption DEF OwnLedger, OwnTypes, CallLedger, Addresses
<1>2. call = [u \in Thread |-> call[u]] /\ IsCall(call[t]) /\ SoundCall(call[t])
  BY DEF CallLedger
<1>3. call[t].at # "idle"
  BY DEF Returns, LookupReturns, ChangeReturns, FollowHint, NoHint, Breaks
<1>4. Seeing(call[t], e)
  BY <1>3 DEF OwnLedger
<1>5. ASSUME NEW status, Done(t, call[t], status)
      PROVE  /\ Calls(t, IdleCall) /\ call'[t].at = "idle" /\ \A u \in Thread \ {t} : call'[u] = call[u]
             /\ ret'.op = call[t].op /\ ret'.status = status /\ ret'.n = call[t].n /\ ret'.own = call[t].own
  <2>1. /\ Calls(t, IdleCall)
        /\ ret'.op = call[t].op /\ ret'.status = status /\ ret'.n = call[t].n /\ ret'.own = call[t].own
    BY <1>2, <1>5, DoneFields
  <2>2. call' = [call EXCEPT ![t] = IdleCall]
    BY <2>1 DEF Calls
  <2> QED
    BY <1>2, <2>1, <2>2, IdleFields
<1>6. ASSUME NEW c \in Coord, Calls(t, Resent(t, c))
      PROVE  /\ call'[t].at = "sent" /\ call'[t].op = call[t].op /\ call'[t].target = c
             /\ call'[t].own = call[t].own /\ \A u \in Thread \ {t} : call'[u] = call[u]
  <2> DEFINE r == Resent(t, c)
  <2>1. r.at = "sent" /\ r.op = call[t].op /\ r.target = c /\ r.own = call[t].own
    BY <1>2, ResentFields, SMTT(30)
  <2>2. call' = [call EXCEPT ![t] = r]
    BY <1>6 DEF Calls
  <2> HIDE DEF r
  <2> QED
    BY <1>2, <2>1, <2>2
<1>7. CASE LookupReturns(t)
  <2>1. /\ call[t].at = "answer" /\ call[t].op = "lookup" /\ Done(t, call[t], call[t].status)
        /\ UNCHANGED <<obj, base, changes, own>>
    BY <1>7 DEF LookupReturns
  <2>2. call[t].n \in Nat /\ call[t].n >= call[t].own /\ call[t].own = own[e]
    BY <1>4, <2>1 DEF Seeing
  <2> DEFINE x == [n |-> call[t].n, exp |-> now + TTL, asOf |-> call[t].asOf]
  <2>3. cache' = [cache EXCEPT ![e] = x] \/ cache' = cache
    BY <1>7 DEF LookupReturns
  <2>4. x.n = call[t].n
    OBVIOUS
  <2> HIDE DEF x
  <2>5. cache' = [d \in Edge |-> cache'[d]] /\ (cache'[e] = x \/ cache'[e] = cache[e]) /\ \A d \in Edge \ {e} : cache'[d] = cache[d]
    BY <1>1, <2>3
  <2>6. ASSUME NEW d \in Edge PROVE (Aware(d))'
    <3>1. Aware(d)
      BY DEF OwnLedger
    <3>2. CASE d = e
      BY <1>1, <2>1, <2>2, <2>4, <2>5, <3>1, <3>2 DEF Aware
    <3>3. CASE d # e
      BY <2>1, <2>5, <3>1, <3>3 DEF Aware
    <3> QED
      BY <3>2, <3>3
  <2>7. OwnTypes'
    BY <2>1, <2>5 DEF OwnTypes
  <2>8. (SawOwn(ret))'
    <3>1. ret'.n = call[t].n /\ ret'.own = call[t].own
      BY <1>5, <2>1
    <3> QED
      BY <2>2, <3>1 DEF SawOwn
  <2>9. changes' = obj'[leader].n /\ changes' >= changes
    BY <2>1, SMTT(30) DEF OwnLedger, OwnTypes
  <2>10. OwnLedger'
    BY <1>5, <2>1, <2>6, <2>7, <2>8, <2>9, OwnReplaced
  <2> QED
    BY <2>7, <2>10
<1>8. CASE ChangeReturns(t)
  <2>1. /\ call[t].at = "answer" /\ call[t].op # "lookup" /\ Done(t, call[t], call[t].status)
        /\ UNCHANGED <<obj, base, changes>>
        /\ cache' = IF Invalidates(t) THEN [cache EXCEPT ![e] = NoEntry] ELSE cache
        /\ own' = IF call[t].status = "ok" /\ call[t].op # "complete" /\ ~LookupUnderWay(e) /\ own[e] < call[t].n
                  THEN [own EXCEPT ![e] = call[t].n] ELSE own
    BY <1>8 DEF ChangeReturns
  <2>2. call[t].status = "ok" => call[t].n \in Nat /\ call[t].n <= changes /\ base[e] = leader
    BY <1>4, <2>1 DEF Seeing
  <2>3. cache' = [d \in Edge |-> cache'[d]] /\ (cache'[e] = NoEntry \/ cache'[e] = cache[e]) /\ \A d \in Edge \ {e} : cache'[d] = cache[d]
    BY <1>1, <2>1
  <2>4. own' \in [Edge -> Nat] /\ \A d \in Edge \ {e} : own'[d] = own[d]
    BY <1>1, <2>1, <2>2 DEF OwnTypes
  <2>5. \/ own'[e] = own[e]
        \/ call[t].status = "ok" /\ own'[e] = call[t].n /\ cache'[e] = NoEntry /\ ~LookupUnderWay(e)
    <3>1. call[t].op # "complete" => call[t].op \in {"commit", "delete"}
      BY <1>4, <2>1 DEF Seeing
    <3>2. CASE own' = own
      BY <3>2
    <3>3. CASE own' # own
      <4>1. call[t].status = "ok" /\ call[t].op # "complete" /\ ~LookupUnderWay(e) /\ own' = [own EXCEPT ![e] = call[t].n]
        BY <2>1, <3>3
      <4>2. cache' = [cache EXCEPT ![e] = NoEntry]
        BY <2>1, <3>1, <4>1 DEF Invalidates
      <4> QED
        BY <1>1, <4>1, <4>2
    <3> QED
      BY <3>2, <3>3
  <2>6. ASSUME NEW d \in Edge PROVE (Aware(d))'
    <3>1. Aware(d)
      BY DEF OwnLedger
    <3>2. CASE d = e
      BY <1>1, <2>1, <2>2, <2>3, <2>5, <3>1, <3>2 DEF Aware
    <3>3. CASE d # e
      BY <2>1, <2>3, <2>4, <3>1, <3>3 DEF Aware
    <3> QED
      BY <3>2, <3>3
  <2>7. OwnTypes'
    BY <2>1, <2>3, <2>4 DEF OwnTypes
  <2>8. (SawOwn(ret))'
    <3>1. ret'.op = call[t].op
      BY <1>5, <2>1
    <3> QED
      BY <2>1, <3>1 DEF SawOwn
  <2>9. changes' = obj'[leader].n /\ changes' >= changes
    BY <2>1, SMTT(30) DEF OwnLedger, OwnTypes
  <2>10. ASSUME NEW u \in Thread \ {t}, call[u].at # "idle", call[u].op = "lookup" PROVE own'[EdgeOf[u]] = own[EdgeOf[u]]
    <3>1. CASE EdgeOf[u] = e
      BY <2>5, <2>10, <3>1 DEF LookupUnderWay
    <3>2. CASE EdgeOf[u] # e
      BY <2>4, <3>2, HomeAssumption
    <3> QED
      BY <3>1, <3>2
  <2>11. OwnLedger'
    BY <1>5, <2>1, <2>6, <2>7, <2>8, <2>9, <2>10, OwnReplaced
  <2> QED
    BY <2>7, <2>11
<1>9. CASE FollowHint(t)
  <2>1. /\ call[t].at = "answer" /\ call[t].op # "lookup" /\ call[t].status \in Coord
        /\ base' = [base EXCEPT ![e] = call[t].status]
        /\ UNCHANGED <<obj, cache, changes, own>>
        /\ \/ Calls(t, Resent(t, call[t].status)) /\ UNCHANGED ret
           \/ Done(t, call[t], "refused")
    BY <1>9 DEF FollowHint
  <2>2. call[t].status = leader
    BY <1>4, <2>1 DEF Seeing
  <2>3. base'[e] = leader /\ \A d \in Edge : base'[d] = base[d] \/ base'[d] = leader
    BY <1>1, <2>1, <2>2
  <2>4. OwnTypes'
    BY <2>1 DEF OwnTypes
  <2>5. \A d \in Edge : (Aware(d))'
    BY <2>1, <2>3 DEF OwnLedger, Aware
  <2>6. changes' = obj'[leader].n /\ changes' >= changes
    BY <2>1, SMTT(30) DEF OwnLedger, OwnTypes
  <2>7. call'[t].at # "idle" => (Seeing(call[t], e))'
    BY <1>4, <1>5, <1>6, <2>1, <2>2, <2>3 DEF Seeing
  <2>8. (SawOwn(ret))'
    <3>1. CASE UNCHANGED ret
      BY <3>1 DEF OwnLedger, SawOwn
    <3>2. CASE Done(t, call[t], "refused")
      <4>1. ret'.status = "refused"
        BY <1>5, <3>2
      <4> QED
        BY <4>1 DEF SawOwn
    <3> QED
      BY <2>1, <3>1, <3>2
  <2>9. \A u \in Thread \ {t} : call'[u] = call[u]
    BY <1>5, <1>6, <2>1
  <2>10. OwnLedger'
    BY <2>1, <2>3, <2>4, <2>5, <2>6, <2>7, <2>8, <2>9, OwnReplaced
  <2> QED
    BY <2>4, <2>10
<1>10. CASE NoHint(t)
  <2>1. /\ call[t].at = "answer" /\ call[t].op # "lookup"
        /\ UNCHANGED <<obj, base, cache, changes, own>>
        /\ \/ Calls(t, Resent(t, call[t].target)) /\ UNCHANGED ret
           \/ Done(t, call[t], "refused")
    BY <1>10 DEF NoHint
  <2>2. call[t].target \in Coord
    BY <1>2, <1>3 DEF SoundCall
  <2>3. call'[t].at # "idle" => (Seeing(call[t], e))'
    BY <1>4, <1>5, <1>6, <2>1, <2>2 DEF Seeing
  <2>4. (SawOwn(ret))'
    <3>1. CASE UNCHANGED ret
      BY <3>1 DEF OwnLedger, SawOwn
    <3>2. CASE Done(t, call[t], "refused")
      <4>1. ret'.status = "refused"
        BY <1>5, <3>2
      <4> QED
        BY <4>1 DEF SawOwn
    <3> QED
      BY <2>1, <3>1, <3>2
  <2> QED
    BY <1>5, <2>1, <2>3, <2>4, OwnCalled
<1>11. CASE Breaks(t)
  <2>1. Done(t, call[t], "error") /\ UNCHANGED <<obj, base, cache, changes, own>>
    BY <1>11 DEF Breaks
  <2>2. Calls(t, IdleCall) /\ call'[t].at = "idle" /\ ret'.status = "error"
    BY <1>5, <2>1
  <2>3. (SawOwn(ret))'
    BY <2>2 DEF SawOwn
  <2>4. (OwnTypes /\ OwnLedger)'
    BY <2>1, <2>2, <2>3, OwnCalled
  <2> QED
    BY <2>4
<1> QED
  BY <1>7, <1>8, <1>9, <1>10, <1>11 DEF Returns

LEMMA OwnKept ==
    ASSUME CallLedger, RedirectLedger, OwnInv, [EdgeNext]_edgeVars
    PROVE  OwnInv'
<1> SUFFICES ASSUME Undisturbed' PROVE (OwnTypes /\ OwnLedger)'
  BY DEF OwnInv
<1>1. used \in [Budgets -> Nat] /\ hint = [c \in Coord |-> hint[c]]
  BY DEF RedirectLedger, Routes
<1>2. Disturbances = 0 /\ Disturbances' = 0
  BY <1>1, StepCharged, ChargedBudget, SMTT(30) DEF Undisturbed
<1>3. /\ ~electing /\ leader' = leader
      /\ hint' = [c \in Coord |-> hint'[c]]
      /\ \A c \in Coord : hint'[c] = hint[c] \/ hint'[c] = leader
  BY <1>1, <1>2, QuietStep DEF Undisturbed
<1>4. OwnTypes /\ OwnLedger
  BY <1>2, <1>3 DEF OwnInv, Undisturbed
<1>5. hint' = hint
  BY <1>3, <1>4 DEF OwnLedger
<1>6. ASSUME NEW t \in Thread, CallStep(t) PROVE (OwnTypes /\ OwnLedger)'
  BY <1>3, <1>4, <1>5, <1>6, OwnBegun, OwnServed, OwnReturned DEF CallStep
<1>7. ASSUME NEW e, RestartEdge(e) PROVE FALSE
  BY <1>1, <1>2, <1>7, SpendDisturbs, SMTT(30) DEF RestartEdge
<1>8. ASSUME UNCHANGED <<base, cache, call, own, ret>>, changes' \in Nat, changes' >= changes, obj'[leader].n = changes',
             obj' = [c \in Coord |-> obj'[c]], \A c \in Coord : obj'[c].n \in Nat
      PROVE  (OwnTypes /\ OwnLedger)'
  <2>1. OwnTypes'
    BY <1>4, <1>8 DEF OwnTypes
  <2>2. ASSUME NEW d \in Edge PROVE (Aware(d))'
    <3>1. Aware(d) /\ own[d] \in Nat /\ changes \in Nat
      BY <1>4 DEF OwnLedger, OwnTypes
    <3> QED
      BY <1>3, <1>8, <3>1, SMTT(30) DEF Aware
  <2>3. ASSUME NEW u \in Thread, call'[u].at # "idle" PROVE (Seeing(call[u], EdgeOf[u]))'
    <3>1. Seeing(call[u], EdgeOf[u]) /\ changes \in Nat
      BY <1>4, <1>8, <2>3 DEF OwnLedger, OwnTypes
    <3> QED
      BY <1>3, <1>8, <3>1, SeeingKept
  <2>4. (SawOwn(ret))'
    BY <1>4, <1>8 DEF OwnLedger, SawOwn
  <2>5. hint' = [c \in Coord |-> leader']
    BY <1>3, <1>4, <1>5 DEF OwnLedger
  <2> QED
    BY <1>3, <1>8, <2>1, <2>2, <2>3, <2>4, <2>5 DEF OwnLedger
<1>9. ASSUME UNCHANGED <<base, cache, call, own, ret, changes, obj>> PROVE (OwnTypes /\ OwnLedger)'
  BY <1>4, <1>8, <1>9, SMTT(30) DEF OwnTypes, OwnLedger
<1>10. CASE ElsewhereStep
  BY <1>9, <1>10, ElsewhereSame DEF clientVars
<1>11. CASE CoordsMove
  <2>1. UNCHANGED <<base, cache, call, own, ret>>
    BY <1>11, CoordStepCalls
  <2>2. CASE StepDown \/ Tick \/ \E c \in conf.coords : Learn(c)
    BY <1>9, <2>1, <2>2 DEF StepDown, Tick, Learn
  <2>3. ASSUME NEW c, Elected(c) PROVE FALSE
    BY <1>1, <1>2, <2>3, SpendDisturbs, SMTT(30) DEF Elected, Elect
  <2>4. ASSUME NEW c, NEW p, RestartKeyedCoord(c, p) PROVE FALSE
    BY <1>1, <1>2, <2>4, SpendDisturbs, SMTT(30) DEF RestartKeyedCoord, RestartCoord, Restart
  <2>5. ASSUME NEW r, ServeLate(r) PROVE (OwnTypes /\ OwnLedger)'
    <3>1. r.target = leader /\ Applies(r.target, r.op) /\ leader \in Coord
      BY <2>5 DEF ServeLate, IsLeader, CallLedger, Addresses
    <3>2. /\ changes' \in Nat /\ changes' = changes + 1 /\ obj'[leader].n = changes'
          /\ obj' = [c \in Coord |-> obj'[c]] /\ \A c \in Coord : obj'[c].n \in Nat
      BY <1>4, <3>1, AppliesOwn
    <3>3. changes' >= changes
      BY <1>4, <3>2, SMTT(30) DEF OwnTypes
    <3> QED
      BY <1>8, <2>1, <3>2, <3>3
  <2> QED
    BY <1>11, <2>2, <2>3, <2>4, <2>5 DEF CoordsMove
<1> QED
  BY <1>6, <1>7, <1>10, <1>11, StepCases

\* As long as nothing disturbs the coords, a lookup on an edge sees the changes the
\* edge was told of (cacheInvalidate, and the base URL that followed the hint).
THEOREM OwnWritesSeenHolds == EdgeSpec => []OwnWritesSeen
<1> DEFINE Inv == CallLedger /\ RedirectLedger /\ OwnInv
<1>1. EdgeInit => Inv
  BY CallsInit, RedirectInit, OwnInit
<1>2. Inv /\ [EdgeNext]_edgeVars => Inv'
  BY CallsKept, RedirectKept, OwnKept
<1>3. Inv => OwnWritesSeen
  BY DEF OwnInv, OwnLedger, SawOwn, Undisturbed, OwnWritesSeen
<1> QED
  BY <1>1, <1>2, <1>3, PTL DEF EdgeSpec

-----------------------------------------------------------------------------
(* The placement of a coord on its own.                                    *)

\* With no request under way, both views are the registry.
PlacedLedger ==
    /\ kept[leader] = NoFile
    /\ (\A a \in Admin : admin[a] = Absent) =>
         /\ placer[leader] = reg[leader]
         /\ Cardinality(Members(reg[leader])) >= factor[leader] => io[leader] = reg[leader]

PlacedTypes ==
    /\ reg = [c \in Coord |-> reg[c]] /\ kept = [c \in Coord |-> kept[c]]
    /\ placer = [c \in Coord |-> placer[c]] /\ io = [c \in Coord |-> io[c]]
    /\ admin \in [Admin -> conf.coords \cup {Absent}]

PlacedInv == PlacedTypes /\ (conf.coords = {leader} /\ used.fails = 0 => PlacedLedger)

LEMMA PlacedInit == EdgeInit => PlacedInv
<1> SUFFICES ASSUME EdgeInit PROVE PlacedInv
  OBVIOUS
<1>1. /\ conf \in Setups /\ leader \in conf.coords
      /\ reg = [c \in Coord |-> Seeded] /\ kept = [c \in Coord |-> NoFile]
      /\ placer = reg /\ io = reg /\ admin = [a \in Admin |-> Absent]
  BY DEF EdgeInit, ClientInit, Init
<1>2. leader \in Coord
  BY <1>1, EnvAssumption
<1>3. PlacedTypes
  BY <1>1 DEF PlacedTypes
<1> QED
  BY <1>1, <1>2, <1>3 DEF PlacedInv, PlacedLedger

\* What the steps around the registry leave alone.
LEMMA PlacedElsewhere ==
    ASSUME [EdgeNext]_edgeVars
    PROVE  \/ UNCHANGED <<reg, kept, placer, io, factor, admin>>
           \/ Registers /\ leader' = leader
           \/ \E a \in Admin : Refresh(a)
           \/ \E c, p \in conf.coords : Restart(c, p)
<1> DEFINE Same == UNCHANGED <<reg, kept, placer, io, factor, admin>>
<1>1. CASE UNCHANGED edgeVars
  BY <1>1 DEF edgeVars, vars
<1>2. CASE Registers
  BY <1>2 DEF Registers, AddRuntimeDN, RemoveRuntimeDN, AppendFails, SetRuntimeDNDomain
<1>3. CASE CoordKeys
  BY <1>3 DEF CoordKeys, handleAdminRotateURLKey, handleAdminRemoveURLKey, coordVars
<1>4. ASSUME NEW c \in conf.coords, NEW p \in conf.coords, RestartKeyedCoord(c, p)
      PROVE  \E d, q \in conf.coords : Restart(d, q)
  BY <1>4 DEF RestartKeyedCoord, RestartCoord
<1>5. ASSUME NEW e, RestartKeyedEdge(e) PROVE Same
  BY <1>5 DEF RestartKeyedEdge, RestartEdge, coordVars
<1>6. ASSUME NEW e, EdgeAdmin(e) \/ Poll(e) PROVE Same
  BY <1>6 DEF EdgeAdmin, RotateAdd, RotatePrimary, RemoveStore, Poll, ListURLKeys, SyncAdd, SyncPrimary, SyncKids,
              SyncRemove, othersOfKeys, vars
<1>7. ASSUME NEW e, NEW k, RemoveSigner(e, k) \/ \E s \in Secret : RotateStore(e, k, s) PROVE Same
  BY <1>7 DEF RemoveSigner, RotateStore, coordVars
<1>8. CASE ClientNext
  <2>1. CASE StepDown \/ Tick
    BY <2>1 DEF StepDown, Tick, coordVars
  <2>2. ASSUME NEW c, Elected(c) \/ Learn(c) PROVE Same
    BY <2>2 DEF Elected, Elect, Learn, coordVars
  <2>3. ASSUME NEW t, LookupObject(t) \/ \E op \in conf.ops : Change(t, op) PROVE Same
    BY <2>3 DEF LookupObject, Change, coordVars
  <2>4. ASSUME NEW t, Serve(t) \/ Returns(t) \/ Breaks(t) PROVE Same
    BY <2>4 DEF Serve, ServeLookup, requireLeader, ServeChange, Returns, LookupReturns, ChangeReturns,
                FollowHint, NoHint, Breaks, coordVars
  <2>5. ASSUME NEW r, ServeLate(r) PROVE Same
    BY <2>5 DEF ServeLate, coordVars
  <2> QED
    BY <1>8, <2>1, <2>2, <2>3, <2>4, <2>5 DEF ClientNext
<1> QED
  BY <1>1, <1>2, <1>3, <1>4, <1>5, <1>6, <1>7, <1>8 DEF EdgeNext

LEMMA PlacedKept ==
    ASSUME CallLedger, RedirectLedger, PlacedInv, [EdgeNext]_edgeVars
    PROVE  PlacedInv'
<1>1. /\ conf' = conf /\ conf.coords \subseteq Coord
      /\ leader \in conf.coords /\ leader' \in conf.coords /\ Absent \notin Coord
  BY ConfFixed, EnvAssumption, RoutesKept, AddressAssumption DEF CallLedger, Addresses, RedirectLedger, Routes, Absent
<1>2. used \in [Budgets -> Nat] /\ "fails" \in Budgets
  BY DEF RedirectLedger, Routes, Budgets
<1>3. ASSUME conf'.coords = {leader'}, used'.fails = 0
      PROVE  PlacedLedger /\ conf.coords = {leader} /\ leader' = leader
  <2>1. used.fails = 0
    BY <1>2, <1>3, StepCharged, ChargedBudget, SMTT(30)
  <2>2. conf.coords = {leader} /\ leader' = leader
    BY <1>1, <1>3
  <2> QED
    BY <2>1, <2>2 DEF PlacedInv
<1>t. PlacedTypes
  BY DEF PlacedInv
<1>4. CASE UNCHANGED <<reg, kept, placer, io, factor, admin>>
  <2>1. PlacedTypes'
    BY <1>1, <1>4, <1>t DEF PlacedTypes
  <2>2. PlacedLedger /\ leader' = leader => PlacedLedger'
    BY <1>4 DEF PlacedLedger, Members
  <2> QED
    BY <1>3, <2>1, <2>2 DEF PlacedInv
<1>5. CASE Registers /\ leader' = leader
  <2>1. PICK a \in Admin, c \in conf.coords, d \in Dn :
          \/ AddRuntimeDN(a, c, d)
          \/ RemoveRuntimeDN(a, c, d)
          \/ AppendFails(a, c, d)
          \/ \E l \in Label : SetRuntimeDNDomain(a, c, d, l)
    BY <1>5 DEF Registers
  <2>2. reg' = [p \in Coord |-> reg'[p]] /\ UNCHANGED <<kept, placer, io>>
    BY <1>t, <2>1 DEF AddRuntimeDN, RemoveRuntimeDN, AppendFails, SetRuntimeDNDomain, Journalled, PlacedTypes
  <2>3. admin' = [admin EXCEPT ![a] = c] \/ (admin' = admin /\ Spend("fails"))
    BY <2>1 DEF AddRuntimeDN, RemoveRuntimeDN, AppendFails, SetRuntimeDNDomain
  <2>4. PlacedTypes'
    BY <1>1, <1>t, <2>2, <2>3 DEF PlacedTypes
  <2>5. Spend("fails") => used'.fails # 0
    BY <1>2, SMTT(30) DEF Spend
  <2>6. CASE admin' = [admin EXCEPT ![a] = c]
    <3>1. admin'[a] # Absent
      BY <1>1, <1>t, <2>6 DEF PlacedTypes
    <3>2. PlacedLedger /\ leader' = leader => PlacedLedger'
      BY <2>2, <3>1 DEF PlacedLedger
    <3> QED
      BY <1>3, <2>4, <3>2 DEF PlacedInv
  <2> QED
    BY <2>3, <2>4, <2>5, <2>6 DEF PlacedInv
<1>6. ASSUME NEW a \in Admin, Refresh(a) PROVE PlacedInv'
  <2> DEFINE b == admin[a]
  <2>1. /\ b # Absent
        /\ placer' = [placer EXCEPT ![b] = reg[b]] /\ io' = [io EXCEPT ![b] = Updated(b)]
        /\ admin' = [admin EXCEPT ![a] = Absent] /\ UNCHANGED <<leader, reg, kept, factor>>
    BY <1>6 DEF Refresh, RefreshedPlacer
  <2>2. b \in conf.coords
    BY <1>t, <2>1 DEF PlacedTypes
  <2>3. PlacedTypes'
    BY <1>1, <1>t, <2>1 DEF PlacedTypes
  <2>4. ASSUME PlacedLedger, conf.coords = {leader} PROVE PlacedLedger'
    <3>1. b = leader /\ leader \in Coord
      BY <1>1, <2>2, <2>4
    <3>2. placer'[leader] = reg[leader] /\ io'[leader] = Updated(leader)
      BY <1>t, <2>1, <3>1 DEF PlacedTypes
    <3>3. Cardinality(Members(reg[leader])) >= factor[leader] => io'[leader] = reg[leader]
      BY <3>2 DEF Updated
    <3> QED
      BY <2>1, <2>4, <3>2, <3>3 DEF PlacedLedger, Members
  <2> QED
    BY <1>3, <2>3, <2>4 DEF PlacedInv
<1>7. ASSUME NEW c \in conf.coords, NEW p \in conf.coords, Restart(c, p) PROVE PlacedInv'
  <2> DEFINE B == BootRegistry(c)
  <2>1. /\ placer' = [placer EXCEPT ![c] = B] /\ io' = [io EXCEPT ![c] = B]
        /\ reg' = [reg EXCEPT ![c] = IF p = c THEN B ELSE reg[p]]
        /\ kept' = [kept EXCEPT ![c] = IF p = c THEN NoFile ELSE B]
        /\ admin' = [a \in Admin |-> IF admin[a] = c THEN Absent ELSE admin[a]] /\ leader' = leader
    BY <1>7 DEF Restart
  <2> HIDE DEF B
  <2>2. PlacedTypes'
    BY <1>1, <1>t, <2>1 DEF PlacedTypes
  <2>3. ASSUME conf.coords = {leader} PROVE PlacedLedger'
    <3>1. c = leader /\ p = c /\ leader \in Coord
      BY <1>1, <2>3
    <3>2. placer'[leader] = B /\ io'[leader] = B /\ reg'[leader] = B /\ kept'[leader] = NoFile
      BY <1>t, <2>1, <3>1 DEF PlacedTypes
    <3> QED
      BY <2>1, <3>2 DEF PlacedLedger
  <2> QED
    BY <1>3, <2>2, <2>3 DEF PlacedInv
<1> QED
  BY <1>4, <1>5, <1>6, <1>7, PlacedElsewhere

\* A coord on its own places chunks on exactly the data nodes of its registry
\* (refreshDNTopology after every change, and the boot).
THEOREM PlacesRegisteredHolds == EdgeSpec => []PlacesRegistered
<1> DEFINE Inv == CallLedger /\ RedirectLedger /\ PlacedInv
<1>1. EdgeInit => Inv
  BY CallsInit, RedirectInit, PlacedInit
<1>2. Inv /\ [EdgeNext]_edgeVars => Inv'
  BY CallsKept, RedirectKept, PlacedKept
<1>3. Inv => PlacesRegistered
  BY DEF PlacedInv, PlacedLedger, PlacesRegistered, View
<1> QED
  BY <1>1, <1>2, <1>3, PTL DEF EdgeSpec

=============================================================================
