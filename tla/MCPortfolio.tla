---------------------------- MODULE MCPortfolio ----------------------------
(***************************************************************************)
(* A small ledger for TLC: two windows, a dollar of two units.             *)
(***************************************************************************)
EXTENDS Portfolio

MCWindows == {0, 1}
=============================================================================
