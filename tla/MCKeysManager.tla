--------------------------- MODULE MCKeysManager ---------------------------
(***************************************************************************)
(* KeysManager for TLC; the values of the constants are in the             *)
(* configuration.                                                          *)
(***************************************************************************)
EXTENDS KeysManager
=============================================================================
