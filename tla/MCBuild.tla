------------------------------ MODULE MCBuild --------------------------------
(* Schemas that share leaves and Alls, nest inspectors, exclude and mix     *)
(* representations, with constraints that make leaves universal, disjoint   *)
(* or complementary.                                                        *)
EXTENDS BuildAnswers, TLC

M == Missing
Leaf(r)       == [kind |-> "leaf", rule |-> r]
Exclude(r)    == [kind |-> "exclude", rule |-> r]
All(name, cs) == [kind |-> "all", name |-> name, of |-> cs]
Inspect(i, c) == [kind |-> "inspect", dst |-> i, child |-> c]

X == Leaf("X")
Y == Leaf("Y")
Z == Leaf("Z")
W == Leaf("W")
E == Exclude("E")
F == Exclude("F")
Pair == All("pair", <<X, Y>>)

MCKind == [r \in {"X", "Y", "Z", "W"} |-> "include"] @@ [E |-> "exclude", F |-> "exclude", B |-> "between", C |-> "compareBy"]

MCSchemaOf ==
  [antonyms |-> All("r", <<X, Y, Z>>),
   aliases  |-> All("r", <<Inspect("i1", X), E, Inspect("i2", X)>>),
   nested   |-> Inspect("i1", All("r", <<X, Inspect("i2", All("s", <<Inspect("i3", Y), X>>))>>)),
   twice    |-> All("r", <<Pair, Inspect("i1", Pair), Y>>),
   ranges   |-> All("r", <<Leaf("B"), Inspect("i1", Leaf("C"))>>),
   reused   |-> All("r", <<Inspect("i1", X), Inspect("i1", Y)>>),
   excludes |-> Inspect("i1", All("r", <<X, Inspect("i2", E)>>)),
   partial  |-> All("r", <<X, Inspect("i1", E), Inspect("i2", F)>>),
   shared   |-> All("r", <<X, Y, Inspect("i1", All("s", <<X, Z, W>>))>>)]

XY(x, y) == [X |-> x, Y |-> y]
XE(x, e) == [X |-> x, E |-> e]
XEF(x, e, f) == [X |-> x, E |-> e, F |-> f]
XYZ(x, y, z) == [X |-> x, Y |-> y, Z |-> z]
XYZW(x, y, z, w) == [X |-> x, Y |-> y, Z |-> z, W |-> w]
BC(b, c) == [B |-> b, C |-> c]

MCSchemas == DOMAIN MCSchemaOf

MCConstraints ==
  [antonyms |-> {XYZ(1, M, 1), XYZ(M, 1, M), XYZ(M, 2, 1), XYZ(M, M, 1)},
   aliases  |-> {XE(1, M), XE(M, M), XE(1, 1)},
   nested   |-> {XY(1, 1), XY(M, 1), XY(M, M)},
   twice    |-> {XY(1, M), XY(M, M), XY(1, 2)},
   ranges   |-> {BC(<<1, 2>>, <<"lt", 2>>), BC(<<M, 1>>, M), BC(<<M, M>>, <<"gte", 1>>), BC(<<M, M>>, <<"none", 1>>)},
   reused   |-> {XY(1, 1)},
   excludes |-> {XE(1, M), XE(M, M), XE(1, 1)},
   partial  |-> {XEF(1, M, M), XEF(M, M, 1), XEF(M, 1, M)},
   shared   |-> {XYZW(M, M, 1, 1), XYZW(1, 1, M, M), XYZW(1, 1, 1, M)}]

XYs == {XY(x, y) : x, y \in {M, 1, 2}}
XEs == {XE(x, e) : x, e \in {M, 1}}
MCQueries ==
  [antonyms |-> {XYZ(x, y, z) : x, y, z \in {M, 1, 2}},
   aliases  |-> XEs,
   nested   |-> XYs,
   twice    |-> XYs,
   ranges   |-> {BC(<<f, u>>, c) : f, u, c \in {M, 1, 2}},
   reused   |-> XYs,
   excludes |-> XEs,
   partial  |-> {XEF(x, e, f) : x, e, f \in {M, 1}},
   shared   |-> {XYZW(x, y, z, 1) : x, y, z \in {M, 1}}]
==============================================================================
