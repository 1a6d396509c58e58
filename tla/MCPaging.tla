------------------------------ MODULE MCPaging ------------------------------
(* Paging with lists of up to six messages.                                *)
EXTENDS Paging
=============================================================================
