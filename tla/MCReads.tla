------------------------------ MODULE MCReads -------------------------------
(* Two objects the program and others share, a package and the gas coin.      *)
EXTENDS Reads

MCObjects == {"gas", "a", "b", "pkg"}
MCPackages == {"pkg"}
MCWanted == {"a", "b"}
MCFlavours == {"iota", "sui"}
=============================================================================
