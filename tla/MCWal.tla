------------------------------- MODULE MCWal -------------------------------
(* The write-ahead log on small instances.                                  *)
EXTENDS Wal

Conf(b, c, F) == [batched |-> b, canClose |-> c, faultKinds |-> F]

\* Group commit on a disk that fails, group commit with Close on one that does
\* not, and inline mode with everything.
AllConfs == {Conf(TRUE, FALSE, {"write", "sync"}), Conf(TRUE, TRUE, {}),
             Conf(FALSE, TRUE, {"write", "sync", "rotate"})}
=============================================================================
