------------------------------ MODULE MCServer ------------------------------
(***************************************************************************)
(* Server for TLC: two tabs that share two streams, so that a tab may      *)
(* reconnect beside the handler it left, or beside the other tab.          *)
(***************************************************************************)
EXTENDS Server

=============================================================================
