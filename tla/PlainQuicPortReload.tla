------------------------- MODULE PlainQuicPortReload -------------------------
(***************************************************************************)
(* Reload of a PlainQuicPort server (src/g3proxy/src/config/server/        *)
(* plain_quic_port.rs).  A reload parses the new YAML into a               *)
(* PlainQuicPortConfig, runs check(), and asks the running config's        *)
(* diff_action what to do: NoAction, UpdateInPlace(flags) with LISTEN and  *)
(* QUINN bits, or SpawnNew for another server type.                        *)
(*                                                                         *)
(* The runtime's reaction is outside this file and modelled from the       *)
(* design notes: configs are immutable snapshots swapped atomically, and   *)
(* the runtime rebinds the UDP listener on LISTEN and rebuilds the quinn   *)
(* TLS config on QUINN.  Values are abstract: Unset is a listen or TLS     *)
(* config whose check() fails, "" an unset MetricsName.                    *)
(***************************************************************************)
EXTENDS Naturals

CONSTANTS
  Listens,     \* UDP listen configs that pass check()
  Tls,         \* quinn server TLS configs that pass check()
  Filters,     \* ingress network filters
  Servers,     \* names of the server the port hands connections to
  MaxReloads,  \* bound on the number of reloads
  Unset,       \* a listen or TLS config left at its (failing) default
  None         \* no ingress filter

Types == {"PlainQuicPort", "Other"}

\* Configs parse() can produce, before check().
RawConfigs ==
  [type : Types, name : {"", "port"}, listen : Listens \cup {Unset},
   listen_in_worker : BOOLEAN, tls_server : Tls \cup {Unset},
   ingress_net_filter : Filters \cup {None}, server : Servers \cup {""}]

VARIABLES
  cur,       \* the running server's config snapshot
  bound,     \* the listen config the UDP socket was bound with
  inWorker,  \* whether the listener runs in the worker runtimes
  quinn,     \* the TLS config the quinn endpoint serves
  reloads    \* reloads done so far

vars == <<cur, bound, inWorker, quinn, reloads>>

-----------------------------------------------------------------------------
\* PlainQuicPortConfig::check: name and server set, listen and TLS valid.
Check(c) ==
  /\ c.name # ""
  /\ c.server # ""
  /\ c.listen # Unset /\ c.tls_server # Unset

\* PlainQuicPortConfig::diff_action; the flags of UpdateInPlace are a set of
\* PlainQuicPortUpdateFlags.
DiffAction(old, new) ==
  CASE new.type # "PlainQuicPort" -> [kind |-> "SpawnNew"]
    [] old = new                  -> [kind |-> "NoAction"]
    [] OTHER -> [kind |-> "UpdateInPlace",
                 flags |-> {f \in {"LISTEN", "QUINN"} :
                              \/ f = "LISTEN" /\ old.listen # new.listen
                              \/ f = "QUINN" /\ old.tls_server # new.tls_server}]

ValidConfigs == {c \in RawConfigs : c.type = "PlainQuicPort" /\ Check(c)}

\* A server spawned from a checked config.
Init ==
  /\ cur \in ValidConfigs
  /\ bound = cur.listen
  /\ inWorker = cur.listen_in_worker
  /\ quinn = cur.tls_server
  /\ reloads = 0

\* A reload whose YAML parses but fails check(): the running server stays.
ReloadRejected(new) ==
  /\ reloads < MaxReloads
  /\ new.type = "PlainQuicPort" /\ ~Check(new)
  /\ reloads' = reloads + 1
  /\ UNCHANGED <<cur, bound, inWorker, quinn>>

\* A reload with a checked config of this type, applied per diff_action.
ReloadInPlace(new) ==
  /\ reloads < MaxReloads
  /\ new.type = "PlainQuicPort" /\ Check(new)
  /\ LET act == DiffAction(cur, new) IN
       IF act.kind = "NoAction"
         THEN UNCHANGED <<cur, bound, inWorker, quinn>>
         ELSE /\ cur' = new
              /\ IF "LISTEN" \in act.flags
                   THEN bound' = new.listen /\ inWorker' = new.listen_in_worker
                   ELSE UNCHANGED <<bound, inWorker>>
              /\ IF "QUINN" \in act.flags THEN quinn' = new.tls_server
                                    ELSE UNCHANGED quinn
  /\ reloads' = reloads + 1

\* The name now belongs to another server type: diff_action says SpawnNew,
\* and this server is replaced (its own reloads end here).
ReloadOtherType(new) ==
  /\ reloads < MaxReloads
  /\ new.type = "Other"
  /\ DiffAction(cur, new).kind = "SpawnNew"
  /\ reloads' = MaxReloads
  /\ UNCHANGED <<cur, bound, inWorker, quinn>>

Next ==
  \E new \in RawConfigs :
    ReloadRejected(new) \/ ReloadInPlace(new) \/ ReloadOtherType(new)

Spec == Init /\ [][Next]_vars

-----------------------------------------------------------------------------
\* The running snapshot always passed check(): a failing reload never
\* replaces it.
TypeOK ==
  /\ cur \in RawConfigs /\ cur.type = "PlainQuicPort"
  /\ cur.name # "" /\ cur.server \in Servers
  /\ cur.listen \in Listens /\ cur.tls_server \in Tls
  /\ bound \in Listens /\ inWorker \in BOOLEAN /\ quinn \in Tls
  /\ reloads \in 0..MaxReloads

\* The listener runs in the worker runtimes exactly when the running config
\* says listen_in_worker: diff_action flags every change of the listener
\* that the runtime must apply (spec: the diff computes a bitmask of what
\* changed), so a reload that only flips listen_in_worker is applied.
ListenModeMatchesConfig ==
  inWorker = cur.listen_in_worker
=============================================================================
