--------------------------- MODULE MCGeneralArena ---------------------------
(* Blocks at even and odd addresses, close enough to be neighbours; sizes of *)
(* nothing, less and more than a block, and beyond the limit; an alignment   *)
(* that is none.                                                             *)
EXTENDS GeneralArena
=============================================================================
