----------------------------- MODULE CoordClient -----------------------------
(***************************************************************************)
(* The edge's client of the coord daemons: one base URL that follows the   *)
(* hints of coords that are not the leader, a bounded number of retries    *)
(* per call, and a read-through cache of lookups that expires.  The        *)
(* handlers of an edge share the client; one object stands for all.        *)
(* Coords, elections and restarts are those of DnRegistry.                 *)
(***************************************************************************)
EXTENDS DnRegistry

CONSTANTS
    Edge,    \* edges
    Thread,  \* their handlers
    EdgeOf,  \* handler -> its edge
    TTL,     \* lifetime of a cache entry (SetLookupCache)
    Timeout  \* deadline of a call

NoOne == "none"

ASSUME AddressAssumption == Coord \cap {"ok", "absent", "error", "refused", NoOne} = {}
ASSUME HomeAssumption ==
    EdgeOf \in [Thread -> Edge] /\ \A s \in Setups : s.home \in [Edge -> s.coords] /\ s.edges \subseteq Edge
ASSUME OpsAssumption == \A s \in Setups : s.ops \subseteq {"commit", "delete", "complete"}
ASSUME ClockAssumption == TTL \in Nat /\ Timeout \in Nat

NoEntry == [n |-> 0, exp |-> 0, asOf |-> 0]
IdleCall == [at |-> "idle", op |-> "", target |-> NoOne, attempt |-> 0, began |-> 0, status |-> "", n |-> 0,
             applied |-> 0, asOf |-> 0, own |-> 0, settled |-> FALSE, epoch |-> 0]

VARIABLES
    electing,  \* no coord is the leader
    hint,      \* coord -> LeaderURL
    obj,       \* coord -> the object: the number of the change that made it, and
               \* whether it is there
    keptObj,   \* coord -> the same in coord.db while a bootstrap snapshot is open
    base,      \* edge -> baseURL
    cache,     \* edge -> cache entry; asOf, for StaleBound, is when the coord read it
    call,      \* handler -> its call: what it is, the coord it goes to, the attempt,
               \* when it began, the answer (n: of which change); and for the
               \* properties how often it was carried out, when a coord read the
               \* answer, and what own, the coords' knowledge of the leader and
               \* Disturbances were when it began
    now,       \* the clock
    changes,   \* how many changes the coords have made
    own,       \* history: edge -> the last commit or delete that it was told of while
               \* none of its lookups was under way
    late,      \* changes that the client has given up and a coord may yet receive
    ret        \* the call that returned last, began being when it did

clientVars == <<electing, hint, obj, keptObj, base, cache, call, now, changes, own, late, ret>>
coordVars == <<leader, reg, kept, placer, io, factor, admin, conf>>

-----------------------------------------------------------------------------
(* Coords.                                                                 *)

IsLeader(c) == c = leader /\ ~electing

\* The leader loses the lead.  Some coords forget who it was; others, possibly
\* itself, still name it.
StepDown ==
    /\ ~electing /\ used.elections < conf.maxElections
    /\ electing' = TRUE
    /\ \E S \in SUBSET conf.coords : hint' = [c \in Coord |-> IF c \in S THEN NoOne ELSE hint[c]]
    /\ UNCHANGED <<coordVars, used, obj, keptObj, base, cache, call, now, changes, own, late, ret>>

Elected(c) ==
    /\ c # leader \/ electing
    /\ Elect(c)
    /\ electing' = FALSE /\ hint' = [hint EXCEPT ![c] = c]
    /\ UNCHANGED <<obj, keptObj, base, cache, call, now, changes, own, late, ret>>

\* A heartbeat tells a follower who leads.
Learn(c) ==
    /\ ~electing /\ c # leader /\ hint[c] # leader
    /\ hint' = [hint EXCEPT ![c] = leader]
    /\ UNCHANGED <<coordVars, used, electing, obj, keptObj, base, cache, call, now, changes, own, late, ret>>

\* The coords of S take over the object o.
Takes(S, o) == obj' = [c \in Coord |-> IF c \in S THEN o ELSE obj[c]]

\* A coord forgets who leads when it is restarted; a leader with peers loses the lead.
RestartCoord(c, from) ==
    /\ Restart(c, from)
    /\ electing' = (electing \/ (c = leader /\ conf.coords # {c}))
    /\ hint' = [hint EXCEPT ![c] = NoOne]
    /\ LET mine == IF keptObj[c] = NoFile THEN obj[c] ELSE keptObj[c]
       IN /\ Takes({c}, IF from = c THEN mine ELSE obj[from])
          /\ keptObj' = [keptObj EXCEPT ![c] = IF from = c THEN NoFile ELSE mine]
    /\ UNCHANGED <<base, cache, call, now, changes, own, late, ret>>

-----------------------------------------------------------------------------
(* Calls.                                                                  *)

MaxLeaderRedirects == 1

MayRetry(t) == call[t].attempt < MaxLeaderRedirects

Free(t) == t \in conf.threads /\ call[t].at = "idle"

Calls(t, r) == call' = [call EXCEPT ![t] = r]

Disturbances == used.elections + used.restarts

\* do: every call goes to the base URL first.
Sent(t, op) ==
    [IdleCall EXCEPT !.at = "sent", !.op = op, !.target = base[EdgeOf[t]], !.began = now, !.own = own[EdgeOf[t]],
       !.settled = ~electing /\ \A c \in conf.coords \ {leader} : hint[c] = leader, !.epoch = Disturbances]

ResentSame(t, target) == [call[t] EXCEPT !.at = "sent", !.attempt = @ + 1, !.status = ""]
Resent(t, target) == [call[t] EXCEPT !.at = "sent", !.target = target, !.attempt = @ + 1, !.status = ""]
Answered(t, status, n) == [call[t] EXCEPT !.at = "answer", !.status = status, !.n = n, !.asOf = now]

\* The call r of t ends with a status.
Done(t, r, status) ==
    /\ Calls(t, IdleCall)
    /\ ret' = [r EXCEPT !.at = "done", !.status = status, !.began = now]

CacheHitForever(e) == cache[e] # NoEntry
CacheHit(e) == cache[e] # NoEntry /\ now < cache[e].exp

LookupObject(t) ==
    /\ Free(t) /\ used.lookups < conf.maxLookups /\ Spend("lookups")
    /\ LET e == EdgeOf[t]
       IN \/ CacheHit(e) /\ Done(t, [Sent(t, "lookup") EXCEPT !.n = cache[e].n, !.asOf = cache[e].asOf], "ok")
          \/ ~CacheHit(e) /\ Calls(t, Sent(t, "lookup")) /\ UNCHANGED ret
    /\ UNCHANGED <<coordVars, electing, hint, obj, keptObj, base, cache, now, changes, own, late>>

\* CommitObject, DeleteObject and CompleteMultipartUpload.
Change(t, op) ==
    /\ Free(t) /\ used.calls < conf.maxCalls /\ Spend("calls")
    /\ Calls(t, Sent(t, op))
    /\ UNCHANGED <<coordVars, electing, hint, obj, keptObj, base, cache, now, changes, own, late, ret>>

\* handleLookup: any coord answers, from its own store.
ServeLookup(t) ==
    /\ call[t].at = "sent" /\ call[t].op = "lookup"
    /\ LET o == obj[call[t].target] IN Calls(t, Answered(t, IF o.live THEN "ok" ELSE "absent", o.n))
    /\ UNCHANGED <<coordVars, used, electing, hint, obj, keptObj, base, cache, now, changes, own, late, ret>>

\* requireLeader: a coord that is not the leader answers 503 with its hint.
requireLeader(t) ==
    /\ call[t].at = "sent" /\ call[t].op # "lookup" /\ ~IsLeader(call[t].target)
    /\ Calls(t, Answered(t, hint[call[t].target], 0))
    /\ UNCHANGED <<coordVars, used, electing, hint, obj, keptObj, base, cache, now, changes, own, late, ret>>

Applicable(c, op) == op = "delete" => obj[c].live

\* A leader changes its store, and the push reaches some of its peers.
Applies(c, op) ==
    /\ Applicable(c, op)
    /\ changes' = changes + 1
    /\ \E P \in SUBSET (conf.coords \ {c}) : Takes(P \cup {c}, [n |-> changes', live |-> op # "delete"])

\* handleCommit, handleDelete (404 when the object is not there) and
\* handleMultipartComplete.
ServeChange(t) ==
    /\ call[t].at = "sent" /\ call[t].op # "lookup" /\ IsLeader(call[t].target)
    /\ \/ /\ ~Applicable(call[t].target, call[t].op)
          /\ Calls(t, Answered(t, "absent", 0)) /\ UNCHANGED <<obj, changes>>
       \/ /\ Applies(call[t].target, call[t].op)
          /\ Calls(t, [Answered(t, "ok", changes') EXCEPT !.applied = @ + 1])
    /\ UNCHANGED <<coordVars, used, electing, hint, keptObj, base, cache, now, own, late, ret>>

\* What may still arrive of the calls of T when nobody waits for them any more.
Abandoned(T) ==
    {[target |-> call[t].target, op |-> call[t].op] : t \in {u \in T : call[u].at = "sent" /\ call[u].op # "lookup"}}

BreaksAndRetries(t) ==
    /\ call[t].at \in {"sent", "answer"} /\ MayRetry(t)
    /\ used.fails < conf.maxFails /\ Spend("fails")
    /\ Calls(t, Resent(t, call[t].target))
    /\ UNCHANGED <<coordVars, electing, hint, obj, keptObj, base, cache, now, changes, own, late, ret>>

\* The connection breaks before or after the coord has acted, or the deadline passes.
Breaks(t) ==
    /\ call[t].at \in {"sent", "answer"}
    /\ \/ used.fails < conf.maxFails /\ Spend("fails")
       \/ now >= call[t].began + Timeout /\ UNCHANGED used
    /\ Done(t, call[t], "error")
    /\ late' = late \cup Abandoned({t})
    /\ UNCHANGED <<coordVars, electing, hint, obj, keptObj, base, cache, now, changes, own>>

\* A change that was given up reaches its coord all the same.
ServeLate(r) ==
    /\ late' = late \ {r}
    /\ IsLeader(r.target) /\ Applies(r.target, r.op)
    /\ UNCHANGED <<coordVars, used, electing, hint, keptObj, base, cache, call, now, own, ret>>

\* A found object is cached, whatever has happened since the coord answered.
LookupReturns(t) ==
    /\ call[t].at = "answer" /\ call[t].op = "lookup"
    /\ Done(t, call[t], call[t].status)
    /\ cache' = IF call[t].status = "ok"
                THEN [cache EXCEPT ![EdgeOf[t]] = [n |-> call[t].n, exp |-> now + TTL, asOf |-> call[t].asOf]]
                ELSE cache
    /\ UNCHANGED <<coordVars, used, electing, hint, obj, keptObj, base, now, changes, own, late>>

InvalidatesDeleted(t) == call[t].status = "ok" /\ call[t].op = "delete"

\* CommitObject and DeleteObject invalidate the cache when they succeed.
Invalidates(t) == call[t].status = "ok" /\ call[t].op \in {"commit", "delete"}

LookupUnderWay(e) == \E t \in Thread : EdgeOf[t] = e /\ call[t].at # "idle" /\ call[t].op = "lookup"

ChangeReturns(t) ==
    /\ call[t].at = "answer" /\ call[t].op # "lookup" /\ call[t].status \in {"ok", "absent"}
    /\ Done(t, call[t], call[t].status)
    /\ LET e == EdgeOf[t] IN
       /\ cache' = IF Invalidates(t) THEN [cache EXCEPT ![e] = NoEntry] ELSE cache
       /\ own' = IF call[t].status = "ok" /\ call[t].op # "complete" /\ ~LookupUnderWay(e) /\ own[e] < call[t].n
                 THEN [own EXCEPT ![e] = call[t].n] ELSE own
    /\ UNCHANGED <<coordVars, used, electing, hint, obj, keptObj, base, now, changes, late>>

\* 503 with the address of another coord: the base URL moves there and the call
\* is sent again, unless it was the last attempt.
FollowHint(t) ==
    /\ call[t].at = "answer" /\ call[t].op # "lookup" /\ call[t].status \in Coord \ {call[t].target}
    /\ base' = [base EXCEPT ![EdgeOf[t]] = call[t].status]
    /\ \/ MayRetry(t) /\ Calls(t, Resent(t, call[t].status)) /\ UNCHANGED ret
       \/ ~MayRetry(t) /\ Done(t, call[t], "refused")
    /\ UNCHANGED <<coordVars, used, electing, hint, obj, keptObj, cache, now, changes, own, late>>

\* 503 without an address: wait and try the same coord again.  With the coord's
\* own address, or at the last attempt: give up.
NoHint(t) ==
    /\ call[t].at = "answer" /\ call[t].op # "lookup" /\ call[t].status \in {NoOne, call[t].target}
    /\ LET again == call[t].status = NoOne /\ MayRetry(t)
       IN \/ again /\ Calls(t, Resent(t, call[t].target)) /\ UNCHANGED ret
          \/ ~again /\ Done(t, call[t], "refused")
    /\ UNCHANGED <<coordVars, used, electing, hint, obj, keptObj, base, cache, now, changes, own, late>>

\* The edge is restarted: its cache is empty and its base URL the configured one.
RestartEdge(e) ==
    /\ used.restarts < conf.maxRestarts /\ Spend("restarts")
    /\ cache' = [cache EXCEPT ![e] = NoEntry] /\ base' = [base EXCEPT ![e] = conf.home[e]]
    /\ call' = [t \in Thread |-> IF EdgeOf[t] = e THEN IdleCall ELSE call[t]]
    /\ late' = late \cup Abandoned({t \in Thread : EdgeOf[t] = e})
    /\ UNCHANGED <<coordVars, electing, hint, obj, keptObj, now, changes, own, ret>>

\* Time passes; no call outlives its deadline.
Tick ==
    /\ now < conf.maxTime
    /\ \A t \in Thread : call[t].at # "idle" => now < call[t].began + Timeout
    /\ now' = now + 1
    /\ UNCHANGED <<coordVars, used, electing, hint, obj, keptObj, base, cache, call, changes, own, late, ret>>

-----------------------------------------------------------------------------
ClientInit ==
    /\ Init
    /\ electing = FALSE
    /\ hint = [c \in Coord |-> leader]
    /\ obj = [c \in Coord |-> [n |-> 0, live |-> FALSE]]
    /\ keptObj = [c \in Coord |-> NoFile]
    /\ base = conf.home
    /\ cache = [e \in Edge |-> NoEntry]
    /\ call = [t \in Thread |-> IdleCall]
    /\ now = 0 /\ changes = 0
    /\ own = [e \in Edge |-> 0] /\ late = {} /\ ret = IdleCall

Serve(t) == ServeLookup(t) \/ requireLeader(t) \/ ServeChange(t)

Returns(t) == LookupReturns(t) \/ ChangeReturns(t) \/ FollowHint(t) \/ NoHint(t)

ClientNext ==
    \/ StepDown \/ Tick
    \/ \E c \in conf.coords : Elected(c) \/ Learn(c)
    \/ \E t \in Thread : LookupObject(t) \/ (\E op \in conf.ops : Change(t, op))
    \/ \E t \in Thread : Serve(t) \/ Returns(t) \/ Breaks(t)
    \/ \E r \in late : ServeLate(r)

-----------------------------------------------------------------------------
(* Properties.                                                             *)

\* However often a call is redirected and sent again, at most one coord carries it
\* out, once; a success was carried out, and a call that is refused for want of a
\* leader was not.  (A call that breaks may or may not have been.)
AtMostOnce ==
    /\ \A t \in Thread : call[t].applied <= 1
    /\ ret.at = "done" /\ ret.op # "lookup" =>
         /\ ret.status = "ok" => ret.applied = 1
         /\ ret.status \in {"refused", "absent"} => ret.applied = 0

\* While every coord knows the leader and it does not change, one redirect is
\* enough: no call is refused.
RedirectSuffices ==
    ret.settled /\ ret.epoch = Disturbances /\ ~electing => ret.status # "refused"

\* A lookup answers with what a coord had at most one lifetime of a cache entry and
\* one call deadline before.
StaleBound ==
    ret.op = "lookup" /\ ret.status \in {"ok", "absent"} => ret.asOf + TTL + Timeout >= ret.began

\* As long as no coord loses the lead or is restarted, a lookup on an edge sees at
\* least the last commit or delete that this edge was told of before, unless a
\* lookup was under way on it at that moment.
OwnWritesSeen ==
    /\ Disturbances = 0 /\ ~electing
    /\ ret.op = "lookup" /\ ret.status \in {"ok", "absent"}
    => ret.n >= ret.own

=============================================================================
