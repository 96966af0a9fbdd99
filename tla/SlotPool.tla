------------------------------ MODULE SlotPool ------------------------------
(***************************************************************************)
(* What the slot book-keeping of the driver promises, without contexts'    *)
(* queues, render targets, free lists or reference tables: every CAPTURE   *)
(* slot has at most one claimant, and a slot only changes hands through    *)
(* the pool.  DecodeSlots implements this in GBM mode (PoolRefinement).    *)
(***************************************************************************)
EXTENDS Integers

CONSTANTS Surfaces, Contexts, Slots

VARIABLE claims   \* claims[c][k]: who claims slot k of context c

(***************************************************************************)
(* "free": on the free list; "flight": the decoder writes it; "kept": an   *)
(* AV1 reference no surface shows; a surface: its decoded picture is there.*)
(* The empty set: the queue has no such slot.                              *)
(***************************************************************************)
Free == {"free"}
Flight == {"flight"}
Kept == {"kept"}
Held == {{s} : s \in Surfaces}
Gone == {}

Claims == {Free, Flight, Kept, Gone} \cup Held

Init == claims = [c \in Contexts |-> [k \in Slots |-> Gone]]

(* How one slot may change hands: a picture starts in a free slot; it ends *)
(* shown by a surface or not at all; a surface gives its slot back, or     *)
(* leaves it to the predictions that still need it.                        *)
Handover(old, new) ==
  \/ old = Free /\ new = Flight
  \/ old = Flight /\ new \in Held \cup {Free}
  \/ old \in Held /\ new \in {Free, Kept}
  \/ old = Kept /\ new = Free

(* One picture at a time: one slot is taken or filled in a step.           *)
Exchange(old, new) ==
  /\ \A k \in Slots : old[k] = new[k] \/ Handover(old[k], new[k])
  /\ \A j, k \in Slots :
       Flight \in {old[j], new[j]} /\ Flight \in {old[k], new[k]} => j = k

(* The queue is allocated anew or freed; whoever had a slot has none.      *)
Rebuild(new) ==
  \A k \in Slots : new[k] \in {Free, Gone} /\ (new[k] = Free => \A j \in 0 .. k : new[j] = Free)

Next ==
  \E c \in Contexts :
    /\ \A d \in Contexts \ {c} : claims'[d] = claims[d]
    /\ Exchange(claims[c], claims'[c]) \/ Rebuild(claims'[c])

Spec == Init /\ [][Next]_claims

(* No slot has two claimants.                                              *)
OneClaimant == \A c \in Contexts, k \in Slots : claims[c][k] \in Claims

=============================================================================
