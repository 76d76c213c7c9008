---------------------------- MODULE MCWebPFrame ----------------------------
(* The row pipeline for a picture of a few rows, all of them or all but the *)
(* last wanted, threads or not, filtered or not, whole or in pieces.        *)
EXTENDS WebPFrame

MCShown == {Rows - 1, Rows}
===========================================================================
