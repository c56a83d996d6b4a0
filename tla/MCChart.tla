------------------------------ MODULE MCChart -------------------------------
(***************************************************************************)
(* Instants for the charts that TLC computes.                              *)
(***************************************************************************)
EXTENDS Chart

\* Half hours of days 60, 75, 97 and 99, then (00:00 and 10:00) of day 100,
\* and of the 26th of December and the first of January.
MCInstants == <<2882, 3600, 4700, 4773, 4776, 4780, 4800, 4820, 17040, 17300>>

\* Day 100 at 10:00, the same a year later, and the third of January.
MCNows == {4820, 22100, 17380}
=============================================================================
