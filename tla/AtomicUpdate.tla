---------------------------- MODULE AtomicUpdate ----------------------------
(***************************************************************************)
(* What the update API promises about the file at the destination path     *)
(* (docs/man3/libmpq__update_*.3), with no temporaries, no inodes and no   *)
(* intermediate steps: a transaction takes a snapshot, edits its private   *)
(* copy and either replaces the destination by that copy in one step or    *)
(* leaves the destination alone.  The replacement is not conditional on    *)
(* what is there: the manual calls the identity check best effort.         *)
(***************************************************************************)
EXTENDS ArchiveEdits

CONSTANTS Handle,        \* update handles, each in a process of its own
          None,          \* no file, no container
          OthersWrite    \* other programs replace or remove the file

VARIABLES dest,          \* the container at the destination path, or None
          status,        \* per handle: what its last call amounted to
          original,      \* per handle: the container it took as a snapshot
          body           \* per handle: its private, edited copy

vars == <<dest, status, original, body>>

Settled == {"idle", "committed", "discarded"}

Init ==
    /\ dest \in Container
    /\ status = [h \in Handle |-> "idle"]
    /\ original = [h \in Handle |-> None]
    /\ body = [h \in Handle |-> None]

Begin(h) ==
    /\ status[h] \in Settled
    /\ dest # None
    /\ status' = [status EXCEPT ![h] = "active"]
    /\ original' = [original EXCEPT ![h] = dest]
    /\ body' = [body EXCEPT ![h] = dest.body]
    /\ UNCHANGED dest

\* A transaction that ends before it has taken its snapshot.
Refuse(h) ==
    /\ status[h] \in Settled
    /\ \E outcome \in {"discarded", "crashed"} :
         status' = [status EXCEPT ![h] = outcome]
    /\ UNCHANGED <<dest, original, body>>

Edit(h) ==
    /\ status[h] = "active"
    /\ \E b \in Edited(body[h]) : body' = [body EXCEPT ![h] = b]
    /\ UNCHANGED <<dest, status, original>>

Close(h, outcome) ==
    /\ status' = [status EXCEPT ![h] = outcome]
    /\ original' = [original EXCEPT ![h] = None]
    /\ body' = [body EXCEPT ![h] = None]

Commit(h) ==
    /\ status[h] = "active"
    /\ dest' = [form |-> original[h].form, body |-> body[h]]
    /\ Close(h, "committed")

\* A transaction without edits may also succeed by leaving the file alone.
CommitUnchanged(h) ==
    /\ status[h] = "active"
    /\ body[h] = original[h].body
    /\ Close(h, "committed")
    /\ UNCHANGED dest

\* Abort, a failed begin or commit, or the death of the process.
Discard(h) ==
    /\ status[h] = "active"
    /\ \E outcome \in {"discarded", "crashed"} : Close(h, outcome)
    /\ UNCHANGED dest

Foreign ==
    /\ OthersWrite
    /\ dest' \in Container \cup {None}
    /\ UNCHANGED <<status, original, body>>

Next ==
    \/ \E h \in Handle : \/ Begin(h) \/ Refuse(h) \/ Edit(h) \/ Commit(h)
                         \/ CommitUnchanged(h) \/ Discard(h)
    \/ Foreign

Spec == Init /\ [][Next]_vars
=============================================================================
