--------------------------------- MODULE Stream ---------------------------------
(***************************************************************************)
(* What a channel promises: items come out in the order they went in, none *)
(* twice and none that was never put in.  From a lossy channel items may   *)
(* get lost on the way (a full buffer, a wrong checksum), also while one   *)
(* of them comes out.                                                      *)
(***************************************************************************)
EXTENDS Integers, Sequences

CONSTANT Item

VARIABLES
    lossy,    \* whether items may get lost, the same for ever
    pending,  \* items on their way, oldest first
    taken     \* items that came out, oldest first

Init == lossy \in BOOLEAN /\ pending = <<>> /\ taken = <<>>

Arrive == UNCHANGED taken /\ \E b \in Item : pending' = Append(pending, b)

(* Of the items on their way those from the i-th on remain, or some of     *)
(* them if the channel is lossy.                                           *)
Remain(i) ==
    LET rest == SubSeq(pending, i, Len(pending)) IN
    \/ pending' = rest
    \/ /\ lossy
       /\ \E at \in [DOMAIN pending' -> DOMAIN rest] :
            /\ \A j, k \in DOMAIN at : j < k => at[j] < at[k]
            /\ pending' = [j \in DOMAIN at |-> rest[at[j]]]

(* An item comes out, and those before it got lost. *)
Take ==
    \E i \in DOMAIN pending :
        /\ lossy \/ i = 1
        /\ taken' = Append(taken, pending[i])
        /\ Remain(i + 1)

Lose == lossy /\ UNCHANGED taken /\ Remain(1)

Next == (Arrive \/ Take \/ Lose) /\ UNCHANGED lossy

Spec == Init /\ [][Next]_<<lossy, pending, taken>>
=============================================================================
