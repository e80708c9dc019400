------------------------------- MODULE MCWriter -------------------------------
(* Writer on small header boundaries and buffers of a few bytes. *)
EXTENDS Writer

MCPowers == {1, 2, 4, 8, 16, 32, 64}
=============================================================================
