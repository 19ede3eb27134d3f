------------------------------ MODULE MCBuffer ------------------------------
EXTENDS Buffer

(* Bytes differ, so that a byte moved to a wrong place is seen.            *)
MCPieces == {<<>>, <<1>>, <<2, 3, 4, 5>>}
=============================================================================
