------------------------ MODULE MC_ServerStatsEmitter ------------------------
(* Model-checking instance of ServerStatsEmitter with two worker tasks.     *)
EXTENDS ServerStatsEmitter
CONSTANTS w1, w2
MCWorkers == {w1, w2}
=============================================================================
