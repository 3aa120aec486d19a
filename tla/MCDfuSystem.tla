------------------------------ MODULE MCDfuSystem ------------------------------
(* Bounds for DfuSystem: sectors of four chunks; one file fills the first    *)
(* sector, the other goes one chunk into the second.                        *)
EXTENDS DfuSystem, TLC

CONSTANTS a, b

TwoFiles  == {a, b}
TwoChunks == (a :> 5) @@ (b :> 4)
=============================================================================
