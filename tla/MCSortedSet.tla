----------------------------- MODULE MCSortedSet -----------------------------
(* Two sets of up to three elements each: an element can come first, last or *)
(* between two others, and a union can fail before, between and after them.  *)
EXTENDS SortedSet

MCElements == 1 .. 3

\* The view of the states: no call depends on what the last one returned, and a
\* step that returns something wrong is found as a step.
WithoutResult == <<heap, sets, call>>
=============================================================================
