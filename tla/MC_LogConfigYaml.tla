-------------------------- MODULE MC_LogConfigYaml --------------------------
(* Model-checking instance of LogConfigYaml: documents of up to three keys *)
(* with the values 1 and 17 (above the offset bound, rejected either way). *)
EXTENDS LogConfigYaml
=============================================================================
