----------------------------- MODULE MCPagination -----------------------------
(* Small instances of Pagination for TLC.                                  *)
EXTENDS Pagination

CONSTANT absent

MCRows == 1 .. 4
MCLimits == {absent, -1, 0, 3}
MCPages == {absent, -1, 0, 1}
=============================================================================
