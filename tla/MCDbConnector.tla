---------------------------- MODULE MCDbConnector ----------------------------
(* Instance of DbConnector for TLC: one tick is a third of the checks'       *)
(* period, so loops of three attempts overlap.                               *)
EXTENDS DbConnector
=============================================================================
