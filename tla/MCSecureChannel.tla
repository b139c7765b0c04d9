--------------------------- MODULE MCSecureChannel --------------------------
(* The constants of the channel are plain numbers, given in the .cfg files. *)
EXTENDS SecureChannel
=============================================================================
