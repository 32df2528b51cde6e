------------------------------ MODULE MetaOps ------------------------------
(* The metadata store as a value: what one bbolt transaction of MetaStore does *)
(* to it, which journal entries the method appends afterwards, and how a      *)
(* follower replays an entry.                                                 *)
(*                                                                            *)
(* A store holds the objects, one S3 bucket, the pending multipart uploads    *)
(* and the runtime DN registry. An object has the chunks of its data, the     *)
(* version PutObject counts, and the replica list of its chunks, of which     *)
(* only the number of moves since it was written is kept. A DN is absent,     *)
(* registered, or registered with a class label.                              *)
EXTENDS Naturals, Sequences, SequencesExt

CONSTANTS
    Key,      \* object keys
    Upload,   \* multipart upload ids
    DN,       \* data node addresses
    Nil       \* no record

Absent(domain) == [x \in domain |-> Nil]

\* The freshly initialised database.
EmptyStore == [obj |-> Absent(Key), bucket |-> FALSE, up |-> Absent(Upload), dn |-> Absent(DN)]

\* Outcome of a transaction: the store it commits and the entries to journal;
\* a transaction that returns an error rolls back.
Done(s, log) == [ok |-> TRUE, st |-> s, log |-> log]
Refused(s) == [ok |-> FALSE, st |-> s, log |-> <<>>]
If(cond, outcome, s) == IF cond THEN outcome ELSE Refused(s)

\* The version rule of a write: one more than the record it replaces, else the
\* version it brings, else 1.
Versioned(prev, o) ==
    [o EXCEPT !.ver = IF prev # Nil THEN prev.ver + 1 ELSE IF @ = 0 THEN 1 ELSE @]

NewObject(chunks) == [chunks |-> chunks, ver |-> 0, moved |-> 0]

putObjectInternal(s, k, o) ==
    LET n == Versioned(s.obj[k], o)
    IN  Done([s EXCEPT !.obj[k] = n], <<[op |-> "put_object", key |-> k, obj |-> n]>>)

deleteObjectInternal(s, k) ==
    If(s.obj[k] # Nil,
       Done([s EXCEPT !.obj[k] = Nil], <<[op |-> "delete_object", key |-> k]>>), s)

createBucketInternal(s) ==
    If(~s.bucket, Done([s EXCEPT !.bucket = TRUE], <<[op |-> "create_bucket"]>>), s)

deleteBucketInternal(s) ==
    If(s.bucket /\ \A k \in Key : s.obj[k] = Nil,
       Done([s EXCEPT !.bucket = FALSE], <<[op |-> "delete_bucket"]>>), s)

CreateMultipartUpload(s, u, k) ==
    LET meta == [key |-> k, parts |-> <<>>]
    IN  If(s.bucket,
           Done([s EXCEPT !.up[u] = meta],
                <<[op |-> "create_multipart_upload", id |-> u, meta |-> meta]>>), s)

\* Parts are kept as a function from part number to content.
WithPart(parts, p, v) == [q \in DOMAIN parts \cup {p} |-> IF q = p THEN v ELSE parts[q]]

putMultipartPartInternal(s, u, p, v) ==
    If(s.up[u] # Nil,
       Done([s EXCEPT !.up[u].parts = WithPart(@, p, v)],
            <<[op |-> "put_multipart_part", id |-> u, part |-> p, content |-> v]>>), s)

\* The chunks of the listed parts, in order of their numbers.
Assembled(parts, list) == [i \in DOMAIN list |-> parts[list[i]]]

Ascending(list) == \A i, j \in DOMAIN list : i < j => list[i] < list[j]

\* Validation, the object's write and the removal of the upload are one transaction.
CompleteMultipartUpload(s, u, list) ==
    LET k == s.up[u].key
        n == Versioned(s.obj[k], NewObject(Assembled(s.up[u].parts, list)))
    IN  IF \/ s.up[u] = Nil
           \/ list = <<>>
           \/ ~Ascending(list)
           \/ \E i \in DOMAIN list : list[i] \notin DOMAIN s.up[u].parts
        THEN Refused(s)
        ELSE Done([s EXCEPT !.obj[k] = n, !.up[u] = Nil],
                  <<[op |-> "complete_multipart_upload", id |-> u, key |-> k, obj |-> n]>>)

AbortEntry(u) == [op |-> "abort_multipart_upload", id |-> u]

abortMultipartUploadInternal(s, u) ==
    If(s.up[u] # Nil, Done([s EXCEPT !.up[u] = Nil], <<AbortEntry(u)>>), s)

\* One transaction removes every expired upload; one entry each is journalled.
AbortExpiredMultipartUploads(s, expired) ==
    LET gone == {u \in expired : s.up[u] # Nil}
    IN  Done([s EXCEPT !.up = [u \in Upload |-> IF u \in gone THEN Nil ELSE @[u]]],
             [i \in DOMAIN SetToSeq(gone) |-> AbortEntry(SetToSeq(gone)[i])])

\* Registering writes a record without labels, also over an existing one.
addRuntimeDNInternal(s, d) ==
    Done([s EXCEPT !.dn[d] = "plain"], <<[op |-> "add_runtime_dn", dn |-> d]>>)

removeRuntimeDNInternal(s, d) ==
    Done([s EXCEPT !.dn[d] = Nil], <<[op |-> "remove_runtime_dn", dn |-> d]>>)

\* Mutations that journal nothing (a failure-domain label and the shards of an EC
\* object are set the same way).
SetRuntimeDNClass(s, d) ==
    If(s.dn[d] # Nil, Done([s EXCEPT !.dn[d] = "labelled"], <<>>), s)

UpdateChunkReplicas(s, k) ==
    If(s.obj[k] # Nil, Done([s EXCEPT !.obj[k].moved = @ + 1], <<>>), s)

-----------------------------------------------------------------------------
\* Mutant: replay leaves the completed upload pending.
CompleteKeepsUpload(s, e) == Done([s EXCEPT !.obj[e.key] = e.obj], <<>>)

completeMultipartReplay(s, e) == Done([s EXCEPT !.obj[e.key] = e.obj, !.up[e.id] = Nil], <<>>)

\* Replay. A created bucket or upload is written without a check, a completed
\* upload writes the object as journalled, and an abort of an unknown upload is
\* no error; the rest runs the transaction of the original method.
ApplyEntry(s, e) ==
    CASE e.op = "put_object" -> putObjectInternal(s, e.key, e.obj)
      [] e.op = "delete_object" -> deleteObjectInternal(s, e.key)
      [] e.op = "create_bucket" -> Done([s EXCEPT !.bucket = TRUE], <<>>)
      [] e.op = "delete_bucket" -> deleteBucketInternal(s)
      [] e.op = "create_multipart_upload" -> Done([s EXCEPT !.up[e.id] = e.meta], <<>>)
      [] e.op = "put_multipart_part" -> putMultipartPartInternal(s, e.id, e.part, e.content)
      [] e.op = "complete_multipart_upload" -> completeMultipartReplay(s, e)
      [] e.op = "abort_multipart_upload" -> Done([s EXCEPT !.up[e.id] = Nil], <<>>)
      [] e.op = "add_runtime_dn" -> addRuntimeDNInternal(s, e.dn)
      [] e.op = "remove_runtime_dn" -> removeRuntimeDNInternal(s, e.dn)

\* Entries in order, up to the first that fails; what was applied stays.
ApplyAll(s, entries) ==
    FoldLeft(LAMBDA acc, e : IF acc.ok THEN ApplyEntry(acc.st, e) ELSE acc,
             Done(s, <<>>), entries)
=============================================================================
