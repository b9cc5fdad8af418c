---------------------------- MODULE MCJsonParser ----------------------------
(***************************************************************************)
(* The instance of JsonParser for TLC.                                     *)
(***************************************************************************)
EXTENDS JsonParser
=============================================================================
