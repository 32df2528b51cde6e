------------------------------ MODULE Journal ------------------------------
(***************************************************************************)
(* What the write-ahead log promises to the callers of Append: stable      *)
(* storage only grows until the log is truncated, a call succeeds only if  *)
(* its entry is there at that moment, and a crash loses none of it.        *)
(***************************************************************************)
EXTENDS Integers, Sequences

CONSTANT Writer  \* the calls of Append

VARIABLES
  stable,  \* the entries on stable storage, named by their writer
  outcome  \* per writer: what became of its call

jvars == <<stable, outcome>>

JournalInit ==
  /\ stable = <<>>
  /\ outcome = [w \in Writer |-> "idle"]

\* Stable storage gains entries behind those it has.
Grows ==
  /\ Len(stable) <= Len(stable')
  /\ \A i \in 1 .. Len(stable) : stable'[i] = stable[i]

Moves(w, from, to) ==
  /\ outcome[w] \in from
  /\ outcome' = [outcome EXCEPT ![w] = to]

Call(w) == Moves(w, {"idle"}, "wait") /\ UNCHANGED stable

Succeed(w) ==
  /\ Moves(w, {"idle", "wait"}, "ok")
  /\ Grows
  /\ \E i \in 1 .. Len(stable') : stable'[i] = w

Fail(w) == Moves(w, {"idle", "wait"}, "failed") /\ UNCHANGED stable

Persist == Grows /\ UNCHANGED outcome

Truncated == stable' = <<>> /\ UNCHANGED outcome

\* A crash: calls that wait will never return.
Interrupted ==
  /\ Grows
  /\ outcome' = [w \in Writer |-> IF outcome[w] = "wait" THEN "lost" ELSE outcome[w]]

JournalNext ==
  \/ \E w \in Writer : Call(w) \/ Succeed(w) \/ Fail(w)
  \/ Persist \/ Truncated \/ Interrupted

JournalSpec == JournalInit /\ [][JournalNext]_jvars
=============================================================================
