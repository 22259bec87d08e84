---------------------------- MODULE MCPeerWatch ----------------------------
(***************************************************************************)
(* One peer and one request at a time, on a pool of three connections.     *)
(***************************************************************************)
EXTENDS PeerWatch
=============================================================================
