------------------------- MODULE ServerStatsEmitter -------------------------
(***************************************************************************)
(* The StatsD emission of one server's counters                            *)
(* (src/g3proxy/src/stat/metrics/server.rs).  The stat thread loops over   *)
(* sync_stats (register live servers' stats in SERVER_STATS_MAP with a     *)
(* zeroed snapshot) and emit_stats (for every entry send new - snapshot    *)
(* with wrapping_sub, store the new snapshot, then keep the entry only if  *)
(* Arc::strong_count > 1).  Worker tasks hold clones of the stats Arc and  *)
(* bump the atomic counters concurrently; the server itself holds one      *)
(* clone until it is stopped.  Counters are u64, modelled modulo Modulus.  *)
(*                                                                         *)
(* Counters, by how emit_server_stats gates their emission:               *)
(*   "conn"          conn_total / task_total: always emitted;              *)
(*   "auth_failed"   a ServerForbiddenSnapshot field: emitted unless it    *)
(*                   and its snapshot are both 0;                          *)
(*   "in", "out"     tcp in_bytes / out_bytes: both skipped while in_bytes *)
(*                   and its snapshot are 0;                               *)
(*   "udp_in_pkts", "udp_out_bytes"  the udp group, keyed on in_packets;   *)
(*   "untrusted_total", "untrusted_in"  keyed on untrusted task_total.     *)
(* LISTEN_STATS_MAP is synced, emitted and retained the same way.          *)
(***************************************************************************)
EXTENDS Integers, FiniteSets

CONSTANTS
  Workers,    \* tasks that may hold a clone of the stats Arc
  AddFields,  \* counters the workers bump, a subset of Fields
  Modulus,    \* 2^64 in the code; small here so that wrap-around happens
  MaxTotal,   \* bound on the total added to one counter
  MaxAdd      \* bound on one increment

Fields == {"conn", "auth_failed", "in", "out", "udp_in_pkts", "udp_out_bytes",
           "untrusted_total", "untrusted_in"}

ASSUME AddFields \subseteq Fields
ASSUME Modulus \in Nat \ {0, 1} /\ MaxTotal \in Nat /\ MaxAdd \in Nat \ {0}

VARIABLES
  server,   \* "live" while the server is registered, then "gone"
  holders,  \* workers holding a clone of the stats Arc
  ctr,      \* the atomic counters
  added,    \* history: total really added to each counter (unwrapped)
  inMap,    \* the stats have an entry in SERVER_STATS_MAP
  snap,     \* that entry's ServerSnapshot
  emitted,  \* history: sum of the deltas sent to StatsD per counter
  removed,  \* the entry was dropped by emit_stats' retain
  pc        \* the stat thread: "sync", "emit" or "check"

vars == <<server, holders, ctr, added, inMap, snap, emitted, removed, pc>>

Zero == [f \in Fields |-> 0]

\* Strong references: the map entry, the live server, each holding task.
StrongCount ==
  (IF inMap THEN 1 ELSE 0) + (IF server = "live" THEN 1 ELSE 0)
    + Cardinality(holders)

-----------------------------------------------------------------------------
(* Plausible faults of the code, used as mutants of the definitions below. *)

\* A saturating difference instead of wrapping_sub.
Delta_Saturating(new, old) == IF new >= old THEN new - old ELSE 0

\* The tcp gate tests only the snapshot, not the new value.
TcpIoGated_SnapOnly(c, s) == s["in"] = 0

\* The retain test is off by one: the map's own reference keeps the entry.
Retained_OffByOne == StrongCount > 0

-----------------------------------------------------------------------------
\* new_value.wrapping_sub(snap): the delta sent as a StatsD count.
Delta(new, old) == (new - old) % Modulus

\* emit_forbidden_stats: each field is skipped while it and its snapshot
\* are both 0.
ForbiddenGated(f, c, s) == c[f] = 0 /\ s[f] = 0

\* emit_tcp_io_to_statsd returns before emitting anything, out_bytes
\* included, while in_bytes and its snapshot are both 0.
TcpIoGated(c, s) == c["in"] = 0 /\ s["in"] = 0

\* emit_udp_io_to_statsd: the same early return, keyed on in_packets.
UdpIoGated(c, s) == c["udp_in_pkts"] = 0 /\ s["udp_in_pkts"] = 0

\* emit_untrusted_stats: the same early return, keyed on task_total.
UntrustedGated(c, s) == c["untrusted_total"] = 0 /\ s["untrusted_total"] = 0

\* The counters emit_server_stats sends for counters c and snapshot s.
EmittedFields(c, s) ==
  {"conn"}
  \cup (IF ForbiddenGated("auth_failed", c, s) THEN {} ELSE {"auth_failed"})
  \cup (IF TcpIoGated(c, s) THEN {} ELSE {"in", "out"})
  \cup (IF UdpIoGated(c, s) THEN {} ELSE {"udp_in_pkts", "udp_out_bytes"})
  \cup (IF UntrustedGated(c, s) THEN {} ELSE {"untrusted_total", "untrusted_in"})

\* emit_stats' retain: the entry stays while anyone else holds the stats.
Retained == StrongCount > 1

\* emit_server_stats sends the deltas but does not store the new snapshot.
EmitServerStats_NoSnapshot ==
  /\ pc = "emit"
  /\ inMap
  /\ emitted' = [f \in Fields |->
                   IF f \in EmittedFields(ctr, snap)
                     THEN emitted[f] + Delta(ctr[f], snap[f]) ELSE emitted[f]]
  /\ pc' = "check"
  /\ UNCHANGED <<server, holders, ctr, added, inMap, snap, removed>>

-----------------------------------------------------------------------------
Init ==
  /\ server = "live"
  /\ holders = {}
  /\ ctr = Zero
  /\ added = Zero
  /\ inMap = FALSE
  /\ snap = Zero
  /\ emitted = Zero
  /\ removed = FALSE
  /\ pc = "sync"

(* Workers and the server (crate::serve): outside this file.               *)
Acquire(w) ==
  /\ server = "live"
  /\ w \notin holders
  /\ holders' = holders \cup {w}
  /\ UNCHANGED <<server, ctr, added, inMap, snap, emitted, removed, pc>>

AddCount(w, f, n) ==
  /\ w \in holders
  /\ f \in AddFields
  /\ added[f] + n <= MaxTotal
  /\ ctr' = [ctr EXCEPT ![f] = (@ + n) % Modulus]
  /\ added' = [added EXCEPT ![f] = @ + n]
  /\ UNCHANGED <<server, holders, inMap, snap, emitted, removed, pc>>

Release(w) ==
  /\ w \in holders
  /\ holders' = holders \ {w}
  /\ UNCHANGED <<server, ctr, added, inMap, snap, emitted, removed, pc>>

StopServer ==
  /\ server = "live"
  /\ server' = "gone"
  /\ UNCHANGED <<holders, ctr, added, inMap, snap, emitted, removed, pc>>

(* The stat thread.                                                        *)
\* sync_stats: a live server's stats get an entry with a default snapshot.
SyncStats ==
  /\ pc = "sync"
  /\ IF server = "live" /\ ~inMap
       THEN /\ inMap' = TRUE
            /\ snap' = Zero
       ELSE UNCHANGED <<inMap, snap>>
  /\ pc' = "emit"
  /\ UNCHANGED <<server, holders, ctr, added, emitted, removed>>

\* emit_server_stats: one delta per emitted counter, snapshot updated.
EmitServerStats ==
  /\ pc = "emit"
  /\ inMap
  /\ LET sent == EmittedFields(ctr, snap) IN
       /\ emitted' = [f \in Fields |->
                        IF f \in sent THEN emitted[f] + Delta(ctr[f], snap[f])
                                      ELSE emitted[f]]
       /\ snap' = [f \in Fields |-> IF f \in sent THEN ctr[f] ELSE snap[f]]
  /\ pc' = "check"
  /\ UNCHANGED <<server, holders, ctr, added, inMap, removed>>

\* An empty map: emit_stats has nothing to do this round.
EmitNothing ==
  /\ pc = "emit"
  /\ ~inMap
  /\ pc' = "sync"
  /\ UNCHANGED <<server, holders, ctr, added, inMap, snap, emitted, removed>>

\* The strong_count test after the emission; a dropped entry frees the stats.
RetainCheck ==
  /\ pc = "check"
  /\ IF Retained
       THEN UNCHANGED <<inMap, removed>>
       ELSE /\ inMap' = FALSE
            /\ removed' = TRUE
  /\ pc' = "sync"
  /\ UNCHANGED <<server, holders, ctr, added, snap, emitted>>

Next ==
  \/ \E w \in Workers : Acquire(w) \/ Release(w)
  \/ \E w \in Workers, f \in Fields, n \in 1..MaxAdd : AddCount(w, f, n)
  \/ StopServer
  \/ SyncStats \/ EmitServerStats \/ EmitNothing \/ RetainCheck

\* The stat thread runs on a timer and is never starved; workers and the
\* server are free to stop at any time.
Fairness ==
  /\ WF_vars(SyncStats)
  /\ WF_vars(EmitServerStats)
  /\ WF_vars(EmitNothing)
  /\ WF_vars(RetainCheck)

Spec == Init /\ [][Next]_vars /\ Fairness

-----------------------------------------------------------------------------
TypeOK ==
  /\ server \in {"live", "gone"}
  /\ holders \subseteq Workers
  /\ ctr \in [Fields -> 0..(Modulus - 1)]
  /\ added \in [Fields -> 0..MaxTotal]
  /\ snap \in [Fields -> 0..(Modulus - 1)]
  /\ emitted \in [Fields -> 0..MaxTotal]
  /\ inMap \in BOOLEAN /\ removed \in BOOLEAN
  /\ pc \in {"sync", "emit", "check"}

\* What StatsD has summed for a counter agrees, modulo 2^64, with the value
\* the snapshot recorded, across any number of counter wrap-arounds, and
\* never exceeds what the tasks really added.
EmittedConsistent ==
  \A f \in Fields : emitted[f] % Modulus = snap[f] /\ emitted[f] <= added[f]

\* emit_stats' comment: "we should emit the final metrics before drop it".
\* When an entry is dropped its last emission saw the final counter values.
FinalMetricsEmitted ==
  removed => \A f \in Fields : snap[f] = ctr[f]

\* The counter each group of emit_server_stats is keyed on (the group's
\* early return); conn_total and task_total have none.
GateKey(f) ==
  CASE f \in {"in", "out"}                         -> "in"
    [] f \in {"udp_in_pkts", "udp_out_bytes"}      -> "udp_in_pkts"
    [] f \in {"untrusted_total", "untrusted_in"}   -> "untrusted_total"
    [] OTHER                                      -> f

\* The group of f is skipped: its key counter and snapshot both read 0.
KeyIdle(f) == f # "conn" /\ ctr[GateKey(f)] = 0 /\ snap[GateKey(f)] = 0

\* While the server's entry exists, every pending count is eventually
\* emitted; the only wait allowed is the early return of its group
\* (emit_tcp_io_to_statsd and the others), while the group's key counter
\* still reads 0 against a 0 snapshot.  A count of out_bytes bumped before
\* any in_bytes waits, and is emitted in full once in_bytes moves.
CountsEventuallyEmitted ==
  \A f \in Fields :
    (inMap /\ ctr[f] # snap[f]) ~> (ctr[f] = snap[f] \/ ~inMap \/ KeyIdle(f))

\* Once the server is gone and no task holds its stats, the entry is
\* eventually dropped from SERVER_STATS_MAP (no leak).
EntryEventuallyDropped ==
  (inMap /\ server = "gone" /\ holders = {}) ~> ~inMap
=============================================================================
