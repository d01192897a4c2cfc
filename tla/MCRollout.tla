------------------------------- MODULE MCRollout -------------------------------
(* Small instances of Rollout for TLC. *)
EXTENDS Rollout, TLC

CONSTANTS r1, r2, checkout, search, none, byId, byKey, color, size

\* Two experiments of one layer with more traffic than there is, and between
\* them, by age, one alone.
TwoLayers == (1 :> checkout) @@ (2 :> search) @@ (3 :> checkout)
Counts == (1 :> 2) @@ (2 :> 2) @@ (3 :> 3)
Weights == (1 :> 1) @@ (2 :> 2) @@ (3 :> 1)

\* The experiments of both layers set the color.
Sets == [p \in VariantsOf(Experiments) |-> IF p[1] = 3 THEN {color, size} ELSE {color}]

\* Keys are named by their hash: one in the part of 1, or of 3 if there is no 1,
\* one in the part of 3, and one in none.
Keys == {0, 2, 4}
ByKey == [k \in Keys |-> [layer \in Layers |-> k]]
ByKeyReversed == [k \in Keys |-> [e \in Experiments |-> Unit - k]]

\* The id of a variant of 3, and a key that 1 and 2 have in common.
Named == (none :> {}) @@ (byId :> {<<3, 3>>}) @@ (byKey :> {<<1, 2>>, <<2, 2>>})

NoneNamed == [t \in TestIds |-> {}]

Symmetric == Permutations(Requests)

================================================================================
