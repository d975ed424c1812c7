----------------------------- MODULE MCRegistry -----------------------------
(* Instances of Registry for TLC.                                          *)
EXTENDS Registry

NamesHere == {"x", "X", "yy", "y_y"}
Lower == [n \in NamesHere |-> IF n = "X" THEN "x" ELSE n]
Plain == [n \in NamesHere |-> IF n = "y_y" THEN "yy" ELSE n]
Letters == {"x", "X"}
Beginnings == {}

\* An option of one letter, one of a long name, one in capitals, a positional.
Short == Declaration({"x"}, {}, NoName)
Capital == Declaration({"X"}, {}, NoName)
Long == Declaration({}, {"y_y"}, NoName)
Place == Declaration({}, {}, "x")

MixedDeclarations == {Short, Capital, Place}
CaseDeclarations == {Short, Capital}
PlainDeclarations == {Short, Long}

\* The settings of a new App, and everything set.
TwoSettings ==
    { [fallthrough |-> v, prefix |-> v, optCase |-> v, optUnderscore |-> v] : v \in BOOLEAN }
=============================================================================
