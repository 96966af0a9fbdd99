--------------------------- MODULE PoolRefinement ---------------------------
(* DecodeSlots implements SlotPool.                                        *)
EXTENDS DecodeSlots

(* The abstract pool's words for its own places are no surface IDs.        *)
ASSUME NamesAssumption == {"free", "flight", "kept"} \cap Surfaces = {}

(***************************************************************************)
(* Everyone who believes to have slot k of context c.  The mapping adds up *)
(* what the free list, the decoder, the surfaces and the AV1 table say,    *)
(* each for itself: two of them agreeing on one slot is no state of the    *)
(* abstract pool.                                                          *)
(***************************************************************************)
Claimants(c, k) ==
  IF c \notin live THEN {}
  ELSE (IF k \in ctx[c].free THEN {"free"} ELSE {})
       \cup (IF InFlight(c, k) THEN {"flight"} ELSE {})
       \cup {s \in Surfaces : Holds(s, c, k)}
       \cup (IF /\ \E r \in Refs : ctx[c].slotBuf[r] = k
                /\ \A s \in Surfaces : ~Holds(s, c, k)
                /\ ~InFlight(c, k)
             THEN {"kept"} ELSE {})

Pool == INSTANCE SlotPool
        WITH claims <- [c \in Contexts |-> [k \in Slots |-> Claimants(c, k)]]

(* In GBM mode the driver is a slot pool: no slot is claimed twice, and it *)
(* goes from one surface to another only over the free list and a decode.  *)
ImplementsPool == Pool!Spec

=============================================================================
