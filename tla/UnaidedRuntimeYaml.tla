------------------------- MODULE UnaidedRuntimeYaml -------------------------
(***************************************************************************)
(* UnaidedRuntimeConfig::parse_yaml (src/lib/g3-runtime/src/unaided/       *)
(* yaml.rs), built on Linux with the openssl-async-job feature.  The map   *)
(* is folded key by key by g3_yaml::foreach_kv, starting from the default  *)
(* config; the first Err aborts.  After the fold, a sched_affinity: true   *)
(* asks for set_mapped_sched_affinity, which can itself fail.              *)
(*                                                                         *)
(* A usize value is a member of Nums or Bad.  A sched_affinity value is a  *)
(* map of worker ids to cpu sets (abstracted to the set of ids it names),  *)
(* a bool, or Bad (neither, or a map with an invalid id or cpu set).       *)
(***************************************************************************)
EXTENDS Integers, Sequences, SequencesExt

CONSTANTS
  Nums,        \* usize values written in the document
  Ids,         \* worker ids a sched_affinity map may name
  MaxEntries,  \* bound on the number of keys of a document
  Bad,         \* a value the converter rejects
  Unset,       \* a field the default config leaves unset
  NotAMap      \* a YAML value of another type than map

UsizeKeys == {"thread_number", "thread_stack_size", "max_io_events_per_tick",
              "openssl_async_job_init_size", "openssl_async_job_max_size"}
Keys == UsizeKeys \cup {"sched_affinity", "bogus"}

AffinityMaps == [ids : SUBSET Ids \ {{}}]
AffinityBools == [map_all : BOOLEAN]
AffinityValues == AffinityMaps \cup AffinityBools \cup {Bad}

ValuesOf(k) ==
  CASE k = "sched_affinity" -> AffinityValues
    [] k = "bogus"          -> {Bad}
    [] OTHER                -> Nums \cup {Bad}

Entries == UNION {[key : {k}, val : ValuesOf(k)] : k \in Keys}

Maps == {d \in SeqOf(Entries, MaxEntries) :
           \A i, j \in 1..Len(d) : i # j => d[i].key # d[j].key}

ASSUME Nums \subseteq Nat /\ MaxEntries \in Nat

VARIABLES
  doc,     \* the YAML map being parsed, or NotAMap
  pos,     \* the next entry foreach_kv passes to the closure
  config,  \* the UnaidedRuntimeConfig under construction
  mapAll,  \* the local set_mapped_sched_affinity
  result   \* "parsing", "folded", "ok" or "err"

vars == <<doc, pos, config, mapAll, result>>

Fields == UsizeKeys \cup {"sched_affinity"}

\* UnaidedRuntimeConfig::default(): nothing set, no affinity.
DefaultConfig == [f \in Fields |-> IF f = "sched_affinity" THEN {} ELSE Unset]

-----------------------------------------------------------------------------
(* Plausible faults of the code, used as mutants of the definitions below. *)

\* A bool value of sched_affinity is refused like any other non-map value.
KeyRejected_NoBool(e) ==
  \/ e.key = "bogus"
  \/ e.val = Bad
  \/ e.key = "sched_affinity" /\ e.val \in AffinityBools

\* The error of g3_yaml::value::as_usize is not propagated.
KeyRejected_UsizeUnchecked(e) ==
  \/ e.key = "bogus"
  \/ e.key = "sched_affinity" /\ e.val = Bad

-----------------------------------------------------------------------------
\* The closure of foreach_kv returns Err for this entry.
KeyRejected(e) ==
  \/ e.key = "bogus"
  \/ e.val = Bad

\* The closure's setter call for an accepted entry.  The max_size arm calls
\* set_openssl_async_job_init_size, as the code does.
SetKey(c, e) ==
  CASE e.key = "sched_affinity" -> [c EXCEPT !.sched_affinity = @ \cup e.val.ids]
    [] e.key = "openssl_async_job_max_size"
                                -> [c EXCEPT !.openssl_async_job_init_size = e.val]
    [] OTHER                    -> [c EXCEPT ![e.key] = e.val]

Init ==
  /\ doc \in Maps \cup {NotAMap}
  /\ pos = 1
  /\ config = DefaultConfig
  /\ mapAll = FALSE
  /\ result = "parsing"

\* foreach_kv calls the closure on the next entry; an Err ends the fold.
\* A bool sched_affinity only records the wish for the mapped affinity.
FoldEntry ==
  /\ result = "parsing" /\ doc # NotAMap
  /\ pos <= Len(doc)
  /\ LET e == doc[pos] IN
       CASE KeyRejected(e) ->
              /\ result' = "err"
              /\ UNCHANGED <<config, mapAll>>
         [] e.key = "sched_affinity" /\ e.val \in AffinityBools ->
              /\ mapAll' = e.val.map_all
              /\ UNCHANGED <<config, result>>
         [] OTHER ->
              /\ config' = SetKey(config, e)
              /\ UNCHANGED <<mapAll, result>>
  /\ pos' = pos + 1
  /\ UNCHANGED doc

\* The fold returned Ok.
FoldDone ==
  /\ result = "parsing" /\ doc # NotAMap
  /\ pos > Len(doc)
  /\ result' = "folded"
  /\ UNCHANGED <<doc, pos, config, mapAll>>

\* After the fold: Ok(config), or set_mapped_sched_affinity first.  Whether
\* the host's cpus can be mapped is the environment's choice.
Finish ==
  /\ result = "folded"
  /\ \/ /\ ~mapAll
        /\ result' = "ok"
        /\ UNCHANGED config
     \/ /\ mapAll
        /\ \/ /\ config' = [config EXCEPT !.sched_affinity = Ids]
              /\ result' = "ok"
           \/ /\ result' = "err"
              /\ UNCHANGED config
  /\ UNCHANGED <<doc, pos, mapAll>>

\* parse_yaml on anything but a map.
ParseNotAMap ==
  /\ result = "parsing" /\ doc = NotAMap
  /\ result' = "err"
  /\ UNCHANGED <<doc, pos, config, mapAll>>

Next == FoldEntry \/ FoldDone \/ Finish \/ ParseNotAMap

Spec == Init /\ [][Next]_vars

-----------------------------------------------------------------------------
TypeOK ==
  /\ doc \in Maps \cup {NotAMap}
  /\ pos \in 1..(MaxEntries + 1)
  /\ \A f \in UsizeKeys : config[f] \in Nums \cup {Unset}
  /\ config.sched_affinity \subseteq Ids
  /\ mapAll \in BOOLEAN
  /\ result \in {"parsing", "folded", "ok", "err"}

\* An entry the match accepts, with a value its converter accepts.
EntryAccepted(e) == e.key \in Fields /\ e.val # Bad

\* The last entry of a key in document order, or 0.
LastEntry(d, k) == SelectLastInSeq(d, LAMBDA e : e.key = k)

\* A wish for the mapped affinity survives the fold when the map's
\* sched_affinity entry is the bool true.
WantsMapped(d) ==
  LET i == LastEntry(d, "sched_affinity") IN i # 0 /\ d[i].val = [map_all |-> TRUE]

\* parse_yaml returns Ok only if every entry is accepted, and then the
\* affinity holds the mapped ids exactly when the document asked for them.
\* An accepted document fails only where set_mapped_sched_affinity does.
AffinityAsWritten ==
  (doc # NotAMap /\ result \in {"ok", "err"}) =>
    /\ result = "ok" => /\ \A i \in 1..Len(doc) : EntryAccepted(doc[i])
                        /\ WantsMapped(doc) => config.sched_affinity = Ids
    /\ (result = "err" /\ \A i \in 1..Len(doc) : EntryAccepted(doc[i]))
         => WantsMapped(doc)

\* Every usize key written in the document is the value of the field named
\* after it once parse_yaml returns Ok.
UsizeKeysAsWritten ==
  result = "ok" =>
    \A k \in UsizeKeys :
      LastEntry(doc, k) # 0 => config[k] = doc[LastEntry(doc, k)].val
=============================================================================
