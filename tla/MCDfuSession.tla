--------------------------- MODULE MCDfuSession ----------------------------
(* A model of DfuSession: three pages of two words, each word told apart by*)
(* its image, page and place.                                              *)
EXTENDS DfuSession

MCPages == {1, 2, 3}
MCPlaces == {1, 2}

MCErased == <<"erased", 0, 0>>
MCImageOf(v) == [p \in MCPages |-> [i \in MCPlaces |-> <<v, p, i>>]]
MCOldImage == MCImageOf("old")
MCImage == MCImageOf("new")
MCContents == {<<v, p, i>> : v \in {"old", "new"}, p \in MCPages, i \in MCPlaces}
MCStackTops == {<<v, 1, 1>> : v \in {"old", "new"}}
=============================================================================
