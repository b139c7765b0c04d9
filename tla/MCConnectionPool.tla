-------------------------- MODULE MCConnectionPool --------------------------
(* Small instances of ConnectionPool for TLC. *)
EXTENDS ConnectionPool
CONSTANTS r1, r2, h1, h2
=============================================================================
