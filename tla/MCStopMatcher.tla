---------------------------- MODULE MCStopMatcher ----------------------------
(* Small instances of StopMatcher for TLC.                                 *)
EXTENDS StopMatcher

CONSTANTS a, b

MCBytes == {a, b}

\* A stop sequence that overlaps itself and one that is a run of one byte,
\* so that matches can span token boundaries and follow one another.
MCStops == << <<a, b, a>>, <<b, b>> >>

\* An empty stop sequence after one that can match first.
MCStopsEmpty == << <<a, b>>, <<>> >>
=============================================================================
