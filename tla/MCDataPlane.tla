----------------------------- MODULE MCDataPlane -----------------------------
(* Values for the constants of DataPlane: s1 was opened by the bridge of     *)
(* environment e1, r1 by /rc; one account owns both.                         *)
EXTENDS DataPlane

CONSTANTS s1, r1, e1, alice, none

MCOwner    == [s \in Sessions |-> alice]
MCEnvOwner == [e \in Envs |-> alice]
MCEnvOf    == [s \in Sessions |-> IF s = s1 THEN e1 ELSE none]

=============================================================================
