--------------------------- MODULE MCDualCameraAim -------------------------
(* A small robot: two kinds of armour, one more urgent than the other, and *)
(* limits at which every counter of the tracker and of the loop trips.     *)
EXTENDS DualCameraAim

CONSTANTS sentry, infantry

MCKinds == {sentry, infantry}
MCPrio == [k \in MCKinds |-> IF k = sentry THEN 1 ELSE 2]
MCMaxTempLost == [k \in MCKinds |-> IF k = sentry THEN 2 ELSE 1]
============================================================================
