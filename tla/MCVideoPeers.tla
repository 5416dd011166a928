----------------------------- MODULE MCVideoPeers -----------------------------
(***************************************************************************)
(* An instance of VideoPeers for TLC.                                      *)
(***************************************************************************)
EXTENDS VideoPeers
=============================================================================
