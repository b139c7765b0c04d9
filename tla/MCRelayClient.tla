---------------------------- MODULE MCRelayClient ---------------------------
(* The timeouts are scaled down in the .cfg files, in the same order:       *)
(* reconnect < connect < server.                                            *)
EXTENDS RelayClient
=============================================================================
