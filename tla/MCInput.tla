------------------------------ MODULE MCInput ------------------------------
(* A small instance of Input.                                               *)
EXTENDS Input, TLC

CONSTANT w

MCPieces == {<<w>>, <<Blank>>, <<Colon>>, <<CR, LF>>, <<CR>>, <<LF>>}
=============================================================================
