----------------------------- MODULE MCNodeSlot ------------------------------
(* Five values of the leaf compete for at most four slots, and the pairs   *)
(* of two operands, All(x, y) and All(x, z), for two entries.  The leaf    *)
(* stores 1 and 2, the other members 3 and 4, in different ways.           *)
EXTENDS NodeSlot, TLC

CONSTANTS x, y, z, a, b, c

MCOperands == {y, z}
Under(stored) == [k \in {a, b, c} |-> IF k \in DOMAIN stored THEN stored[k] ELSE {}]
StoredX == Under(a :> {1} @@ b :> {2})
StoredY == Under(a :> {3} @@ b :> {4})

(* The getters of y and z have different types.                            *)
TypesApart  == x :> {a, b} @@ y :> {a, b} @@ z :> {c}
StoredApart == x :> StoredX @@ y :> StoredY @@ z :> Under(c :> {3, 4})

(* They have one type.                                                     *)
TypesAlike  == x :> {a, b} @@ y :> {a, b} @@ z :> {a, b}
StoredAlike == x :> StoredX @@ y :> StoredY @@ z :> Under(a :> {3, 4})

Symmetry == Permutations(Keys)
==============================================================================
