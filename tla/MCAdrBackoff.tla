------------------------------ MODULE MCAdrBackoff ------------------------------
(* AdrBackoff for TLC: the true constants, uplinks of one, two and five frames. *)
EXTENDS AdrBackoff

SmallFragments == {1, 2, 5}

================================================================================
