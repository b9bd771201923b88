---------------------------- MODULE MCSlotWindows ----------------------------
(* Two devices read one per page; one slot, or two that touch or overlap.     *)
EXTENDS SlotWindows

MCSlotChoices ==
  {<<[from |-> 1, to |-> 3]>>,
   <<[from |-> 0, to |-> 1], [from |-> 1, to |-> 3]>>,
   <<[from |-> 0, to |-> 3], [from |-> 1, to |-> 2]>>}
=============================================================================
