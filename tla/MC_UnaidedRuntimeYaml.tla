----------------------- MODULE MC_UnaidedRuntimeYaml -----------------------
(* Model-checking instance of UnaidedRuntimeYaml: documents of up to three *)
(* keys, two usize values and two worker ids.                              *)
EXTENDS UnaidedRuntimeYaml
=============================================================================
