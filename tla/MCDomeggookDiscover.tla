------------------------- MODULE MCDomeggookDiscover -------------------------
(* Instances of DomeggookDiscover for TLC: three positions of a few pages, of *)
(* which only the first one ends with a short page.                           *)
EXTENDS DomeggookDiscover

\* Full pages of the positions: the second one is empty.
WithEmpty == <<3, 0, 2>>

\* The second one ends with an empty page after a full one.
FullThenEmpty == <<3, 1, 2>>

FirstShort == {1}
=============================================================================
