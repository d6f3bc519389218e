---------------------------- MODULE MCSnowflake ----------------------------
(***************************************************************************)
(* A small instance of Snowflake for TLC.                                  *)
(***************************************************************************)
EXTENDS Snowflake

=============================================================================
