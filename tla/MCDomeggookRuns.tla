--------------------------- MODULE MCDomeggookRuns ---------------------------
(* Instances of DomeggookRuns for TLC. *)
EXTENDS DomeggookRuns

MCProduct == 1..3

MCSchedules == {{"full", "daily"}, {"fixed"}}

\* Two categories; the first has two markets.
MCCategory == <<1, 1, 2>>

\* The first market's products may change places, while the second one has
\* nothing to list.
MCListings == {<<<< <<3>>, <<1>> >>, << <<1>> >>, << <<2>> >>>>,
               <<<< <<1>>, <<3>> >>, <<>>, << <<2>> >>>>}
=============================================================================
