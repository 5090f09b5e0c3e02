-------------------------------- MODULE MCDevice --------------------------------
(***************************************************************************)
(* Instances of Device for TLC.  The ADR counter keeps the order of the    *)
(* code's values (limit 64, limit and period 96, wrap at 128) on a small   *)
(* scale: the one count that backs off asks, too.                          *)
(***************************************************************************)
EXTENDS Device

SmallNbReps    == {0, 2}
TwoRepetitions == {2}
SmallFragments == {1}
================================================================================
