---------------------------- MODULE MCParallelAim ---------------------------
(* One kind of armour and the smallest limits at which every way to lose   *)
(* it, and every order of the three threads, occurs.                       *)
EXTENDS ParallelAim

CONSTANT infantry

MCKinds == {infantry}
MCPrio == [k \in MCKinds |-> 1]
MCMaxTempLost == [k \in MCKinds |-> 1]
============================================================================
