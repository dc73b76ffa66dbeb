--------------------------- MODULE MCSymbolCache ---------------------------
(* Small instances of SymbolCache for TLC.  Readers only load shared      *)
(* memory, so they cannot disturb one another: one reader thread shows     *)
(* every interleaving a reader can have with the writer.                   *)
EXTENDS SymbolCache

CONSTANTS r1

MCReaders == {r1}
=============================================================================
