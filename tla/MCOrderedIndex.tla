--------------------------- MODULE MCOrderedIndex ---------------------------
(***************************************************************************)
(* A small ordered index: blocks of one or two items, groups of two blocks,*)
(* and value types with no routing key, a key per value, and a coarse key  *)
(* several values share (time.Time rounds to seconds).                     *)
(***************************************************************************)
EXTENDS OrderedIndex, TLC

CONSTANTS r, s
MCIds == {r, s}
MCSymmetry == Permutations(MCIds)
MCValues == 1..5

FineKeys   == [v \in Values |-> v + 1]
CoarseKeys == [v \in Values |-> v \div 3]
SkewedKeys == [v \in Values |-> IF v < 4 THEN v ELSE 7]
MCKeyMaps  == {None, FineKeys, CoarseKeys, SkewedKeys}
=============================================================================
