--------------------------- MODULE MC_H3BenchArgs ---------------------------
(* Model-checking instance of H3BenchArgs: every argument combination,     *)
(* with pool sizes 0 and 8.                                                *)
EXTENDS H3BenchArgs
=============================================================================
