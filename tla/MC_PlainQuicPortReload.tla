----------------------- MODULE MC_PlainQuicPortReload -----------------------
(* Model-checking instance of PlainQuicPortReload: two values of every     *)
(* config field, so that each field can change on a reload.                *)
EXTENDS PlainQuicPortReload
CONSTANTS l1, l2, t1, t2, f1
MCListens == {l1, l2}
MCTls == {t1, t2}
=============================================================================
