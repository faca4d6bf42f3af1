--------------------------- MODULE MCPgChangeFeed ---------------------------
(* Instances of PgChangeFeed for TLC.                                        *)
EXTENDS PgChangeFeed, TLC

DrainSymmetry == Permutations(Drains)
=============================================================================
