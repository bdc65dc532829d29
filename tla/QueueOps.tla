------------------------------- MODULE QueueOps -------------------------------
(***************************************************************************)
(* The vocabulary of the review queue (src/src/server/queue.rs) and of the *)
(* jobs it holds (src/src/server/events.rs): keys and their order, lanes,  *)
(* jobs, and what `enqueue' decides about a job whose key is running.      *)
(* Nothing here has state; ReviewQueue and PullSync share it.              *)
(***************************************************************************)
EXTENDS Naturals

(***************************************************************************)
(* A key is <<repository id, pull request number, source>>.  Number 0 is   *)
(* the key of a repository's index and removal jobs.                       *)
(***************************************************************************)
Installed == 0
External  == 1

Lane(key)     == <<key[1], key[3]>>
IndexKey(key) == <<key[1], 0, key[3]>>

\* The order of the BTreeMaps `pending' and `running'.
Before(a, b) ==
    \/ a[1] < b[1]
    \/ a[1] = b[1] /\ a[2] < b[2]
    \/ a[1] = b[1] /\ a[2] = b[2] /\ a[3] < b[3]

(***************************************************************************)
(* Jobs.  `head' and `base_ref' of an index or a removal are empty, so any *)
(* two of them for one repository have the same content.                   *)
(***************************************************************************)
NoContent == [head |-> "", base |-> ""]
SameContent(a, b) == a.content = b.content

Review(key, content) == [kind |-> "review", key |-> key, content |-> content]
Index(key)  == [kind |-> "index", key |-> key, content |-> NoContent]
Remove(key) == [kind |-> "remove", key |-> key, content |-> NoContent]

(***************************************************************************)
(* enqueue, against a running job of the same key.  A job queues behind    *)
(* the running one, is dropped because the running one already does the    *)
(* same work, or cancels the running one and takes its place.  Only a      *)
(* review that is being enqueued can be forced; the queue never reads the  *)
(* flag of a job it holds, so jobs do not carry it.                        *)
(***************************************************************************)
QueuesBehind(runningJob, new, force) ==
    \/ new.kind = "index"
    \/ new.kind = "review" /\ force /\ SameContent(runningJob, new)

Duplicates(runningJob, cancelled, new, force) ==
    /\ ~QueuesBehind(runningJob, new, force)
    /\ SameContent(runningJob, new)
    /\ ~cancelled
    /\ new.kind # "remove"

Supersedes(runningJob, cancelled, new, force) ==
    /\ ~QueuesBehind(runningJob, new, force)
    /\ ~Duplicates(runningJob, cancelled, new, force)
=============================================================================
