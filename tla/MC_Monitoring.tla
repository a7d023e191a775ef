--------------------------- MODULE MC_Monitoring ----------------------------
(***************************************************************************)
(* An instance of Monitoring for TLC.                                      *)
(***************************************************************************)
EXTENDS Monitoring

\* Fleet and runs meet in the dashboard only, so that one of them is looked at
\* at a time: the heartbeats of two workers, or the commits of a run.
CONSTANTS w1, w2
TwoSites == { [workers |-> {w1, w2}, runs |-> {}],
              [workers |-> {}, runs |-> Runs] }
=============================================================================
