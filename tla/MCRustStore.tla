---------------------------- MODULE MCRustStore -----------------------------
(* Two structs that share the field f, at different positions.  One integer *)
(* tells a cell that was stored to from the others; a file handle may be   *)
(* kept in a field too.                                                    *)
EXTENDS RustStore, TLC

MCStructs == <<<<"f">>, <<"g", "f">>>>
MCStored == {IntSlot(1), File(0, 1)}

RegSymmetry == Permutations(Regs)
=============================================================================
