----------------------- MODULE MCLinkPleaseRefinement -----------------------
(***************************************************************************)
(* The instances of MCLinkPlease, for LinkPleaseRefinement.                *)
(***************************************************************************)
EXTENDS LinkPleaseRefinement, MCLinkPlease
=============================================================================
