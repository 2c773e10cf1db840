----------------------------- MODULE MCArtifacts -----------------------------
(* Two contracts of two files each, the definitions of the first one edited *)
(* in a later checkout.                                                     *)
EXTENDS Artifacts, TLC

CONSTANTS x1, y1, z1, x2, y2, large

MCContracts == {1, 2}
MCTree(definitions) ==
  [k \in MCContracts |-> IF k = 1 THEN [schema |-> x1, definitions |-> definitions]
                         ELSE [schema |-> x2, definitions |-> y2]]
MCTrees == {MCTree(y1), MCTree(z1)}
=============================================================================
