---------------------------- MODULE LogicalFile ----------------------------
(***************************************************************************)
(* What a member stream promises its caller: a seekable file of Size bytes *)
(* whose byte at position p is p.  A read delivers the bytes that follow   *)
(* the position, in one or more pieces, and either completes or fails      *)
(* after a prefix.  docs/man3/libmpq__stream_read.3 words this promise;    *)
(* MemberStream is shown to implement it.                                  *)
(***************************************************************************)
EXTENDS Integers, Sequences

CONSTANTS Size,          \* unpacked length of the member
          MaxRead        \* longest read the callers ask for

VARIABLES position,      \* where the next byte comes from
          want,          \* length asked for by the current or last read
          out,           \* the bytes that read has delivered so far
          status         \* "idle", "busy", "ok" or "error"

vars == <<position, want, out, status>>

Init ==
    /\ position = 0
    /\ want = 0
    /\ out = <<>>
    /\ status = "idle"

Start(n) ==
    /\ status # "busy"
    /\ want' = n
    /\ out' = <<>>
    /\ status' = "busy"
    /\ UNCHANGED position

Deliver(k) ==
    /\ status = "busy"
    /\ Len(out) + k <= want
    /\ position + k <= Size
    /\ out' = out \o [i \in 1..k |-> position + i - 1]
    /\ position' = position + k
    /\ UNCHANGED <<want, status>>

\* Short only at the end of the member.
Complete ==
    /\ status = "busy"
    /\ Len(out) = want \/ position = Size
    /\ status' = "ok"
    /\ UNCHANGED <<position, want, out>>

Fail ==
    /\ status = "busy"
    /\ status' = "error"
    /\ UNCHANGED <<position, want, out>>

Seek(p) ==
    /\ status # "busy"
    /\ position' = p
    /\ UNCHANGED <<want, out, status>>

Next ==
    \/ \E n \in 0..MaxRead : Start(n)
    \/ \E k \in 1..Size : Deliver(k)
    \/ Complete
    \/ Fail
    \/ \E p \in 0..Size : Seek(p)

Spec == Init /\ [][Next]_vars
=============================================================================
