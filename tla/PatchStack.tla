----------------------------- MODULE PatchStack -----------------------------
(***************************************************************************)
(* What a patched view promises: the contents of the base with one layer   *)
(* after the other laid over them, or nothing.  Contents map the identity  *)
(* of a member to its data.  A layer maps identities to blocks: a file, a  *)
(* difference between two contents, or a delete marker.                    *)
(***************************************************************************)
EXTENDS Sequences

VARIABLES state,           \* "closed", "building", "open" or "gone"
          contents,
          left             \* the layers that are still to be applied

vars == <<state, contents, left>>

Init == state = "closed" /\ contents = <<>> /\ left = <<>>

\* Every difference of the layer was made from what is there.
Fits(layer) ==
    \A id \in DOMAIN layer : layer[id].kind = "patch" =>
        id \in DOMAIN contents /\ contents[id] = layer[id].data.before

Over(layer) ==
    LET deleted == {id \in DOMAIN layer : layer[id].kind = "delete"}
    IN  [id \in (DOMAIN contents \cup DOMAIN layer) \ deleted |->
            IF id \notin DOMAIN layer THEN contents[id]
            ELSE IF layer[id].kind = "patch" THEN layer[id].data.after
            ELSE layer[id].data]

\* Base and layers are the caller's.
Begin == state = "closed" /\ state' = "building"

Apply ==
    /\ state = "building" /\ left # <<>>
    /\ Fits(Head(left))
    /\ contents' = Over(Head(left))
    /\ left' = Tail(left)
    /\ UNCHANGED state

Open ==
    /\ state = "building" /\ left = <<>>
    /\ state' = "open"
    /\ UNCHANGED <<contents, left>>

\* The call fails, or the caller closes the view: nothing is left to read.
Leave ==
    /\ state # "gone"
    /\ state' = "gone" /\ contents' = <<>> /\ left' = <<>>

Next == Begin \/ Apply \/ Open \/ Leave

Spec == Init /\ [][Next]_vars
=============================================================================
