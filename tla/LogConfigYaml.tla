---------------------------- MODULE LogConfigYaml ----------------------------
(***************************************************************************)
(* LogConfig::parse_yaml (src/lib/g3-daemon/src/log/config.rs), built for  *)
(* Linux.  A YAML string names a driver; a YAML map is folded key by key   *)
(* by g3_yaml::foreach_kv into a LogConfig that starts as new_discard, and *)
(* the first key whose closure returns Err aborts the parse.  One step of  *)
(* this module is one call of that closure.                                *)
(*                                                                         *)
(* Data is abstracted to what the fields tell apart: a usize value is a    *)
(* member of Nums or Bad (not a usize); the syslog and fluentd sub-configs *)
(* are "ok" or Bad; a map key is one of Keys, "bogus" standing for every   *)
(* key the match rejects.  A YAML map has distinct keys; aliases such as   *)
(* channel_size / async_channel_size are distinct keys.                    *)
(***************************************************************************)
EXTENDS Integers, Sequences, SequencesExt

CONSTANTS
  Nums,        \* usize values written in the document
  MaxEntries,  \* bound on the number of keys of a document
  Bad          \* a value the converter rejects

DEFAULT_CHANNEL_SIZE == 4096
IO_ERROR_SAMPLING_OFFSET_MAX == 16
IO_ERROR_SAMPLING_OFFSET_DEFAULT == 10

Drivers == {"discard", "journal", "syslog", "fluentd", "stdout"}
ChannelKeys == {"async_channel_size", "channel_size"}
ThreadKeys == {"async_thread_number", "thread_number"}
DriverKeys == {"journal", "syslog", "fluentd"}
Keys == DriverKeys \cup ChannelKeys \cup ThreadKeys
          \cup {"io_error_sampling_offset", "bogus"}

ValuesOf(k) ==
  CASE k \in {"syslog", "fluentd"}     -> {"ok", Bad}
    [] k \in {"journal", "bogus"}      -> {"ok"}
    [] OTHER                           -> Nums \cup {Bad}

Entries == UNION {[key : {k}, val : ValuesOf(k)] : k \in Keys}

\* The YAML values parse_yaml is called with: a string, a map, or another
\* type; a "name" is a driver name given to with_driver_name (the default
\* log config).  Strings are the driver names and one unknown name.
Strings == Drivers \cup {"unknown"}
Maps == {d \in SeqOf(Entries, MaxEntries) :
           \A i, j \in 1..Len(d) : i # j => d[i].key # d[j].key}
Docs == [kind : {"string", "name"}, str : Strings] \cup [kind : {"map"}, map : Maps]
          \cup [kind : {"other"}]

ASSUME Nums \subseteq Nat /\ MaxEntries \in Nat

VARIABLES
  doc,     \* the YAML value being parsed
  pos,     \* the next map entry foreach_kv passes to the closure
  config,  \* the LogConfig under construction
  result,  \* "parsing", "ok" or "err"
  logger   \* {} until the Logger is built from an Ok config, then {it}

vars == <<doc, pos, config, result, logger>>

-----------------------------------------------------------------------------
(* Plausible faults of the code, used as mutants of the definitions below. *)

\* The mask without the "- 1": a single bit instead of all ones.
SamplingMask_NoDecrement(offset) == 2^offset

-----------------------------------------------------------------------------
\* (1 << offset) - 1
SamplingMask(offset) == 2^offset - 1

\* LogConfig::with_driver: the defaults every constructor starts from.
WithDriver(driver) ==
  [driver |-> driver,
   async_channel_size |-> DEFAULT_CHANNEL_SIZE,
   async_thread_number |-> 1,
   io_err_sampling_mask |-> SamplingMask(IO_ERROR_SAMPLING_OFFSET_DEFAULT)]

\* The check of the io_error_sampling_offset arm.
OffsetTooLarge(offset) == offset > IO_ERROR_SAMPLING_OFFSET_MAX

\* The closure of foreach_kv returns Err for this entry.
KeyRejected(e) ==
  \/ e.key = "bogus"
  \/ e.val = Bad
  \/ e.key = "io_error_sampling_offset" /\ OffsetTooLarge(e.val)

\* (Mutant) A copy-pasted arm: the thread-number keys overwrite the channel size.
SetKey_ThreadIntoChannel(c, e) ==
  CASE e.key \in DriverKeys  -> [c EXCEPT !.driver = e.key]
    [] e.key \in ChannelKeys -> [c EXCEPT !.async_channel_size = e.val]
    [] e.key \in ThreadKeys  -> [c EXCEPT !.async_channel_size = e.val]
    [] OTHER -> [c EXCEPT !.io_err_sampling_mask = SamplingMask(e.val)]

\* The closure's assignment for an accepted entry.
SetKey(c, e) ==
  CASE e.key \in DriverKeys  -> [c EXCEPT !.driver = e.key]
    [] e.key \in ChannelKeys -> [c EXCEPT !.async_channel_size = e.val]
    [] e.key \in ThreadKeys  -> [c EXCEPT !.async_thread_number = e.val]
    [] OTHER -> [c EXCEPT !.io_err_sampling_mask = SamplingMask(e.val)]

\* LogConfig::build_logger: every drain but Discard is an async logger
\* registered in the logger stats registry; journal, syslog and fluentd
\* drains are wrapped in ReportLogIoError with the sampling mask (stdout in
\* IgnoreResult, discard in nothing).
LoggerOf(c) ==
  [drain      |-> c.driver,
   registered |-> c.driver # "discard",
   sampledWith |-> IF c.driver \in {"journal", "syslog", "fluentd"}
                     THEN {c.io_err_sampling_mask} ELSE {}]

Init ==
  /\ doc \in Docs
  /\ pos = 1
  /\ config = WithDriver("discard")
  /\ result = "parsing"
  /\ logger = {}

\* A YAML string, or with_driver_name: one of the named constructors, or an
\* error.
ParseString ==
  /\ result = "parsing" /\ doc.kind \in {"string", "name"}
  /\ IF doc.str \in Drivers
       THEN /\ config' = WithDriver(doc.str)
            /\ result' = "ok"
       ELSE /\ result' = "err"
            /\ UNCHANGED config
  /\ UNCHANGED <<doc, pos, logger>>

\* Any other YAML type.
ParseOtherType ==
  /\ result = "parsing" /\ doc.kind = "other"
  /\ result' = "err"
  /\ UNCHANGED <<doc, pos, config, logger>>

\* foreach_kv calls the closure on the next entry; an Err ends the fold.
FoldEntry ==
  /\ result = "parsing" /\ doc.kind = "map"
  /\ pos <= Len(doc.map)
  /\ IF KeyRejected(doc.map[pos])
       THEN /\ result' = "err"
            /\ UNCHANGED config
       ELSE /\ config' = SetKey(config, doc.map[pos])
            /\ UNCHANGED result
  /\ pos' = pos + 1
  /\ UNCHANGED <<doc, logger>>

\* Every entry was accepted: Ok(config).
FoldDone ==
  /\ result = "parsing" /\ doc.kind = "map"
  /\ pos > Len(doc.map)
  /\ result' = "ok"
  /\ UNCHANGED <<doc, pos, config, logger>>

\* The daemon builds its logger from the parsed config (consumed by value).
BuildLogger ==
  /\ result = "ok" /\ logger = {}
  /\ logger' = {LoggerOf(config)}
  /\ UNCHANGED <<doc, pos, config, result>>

Next == ParseString \/ ParseOtherType \/ FoldEntry \/ FoldDone \/ BuildLogger

Spec == Init /\ [][Next]_vars

-----------------------------------------------------------------------------
TypeOK ==
  /\ doc \in Docs
  /\ pos \in 1..(MaxEntries + 1)
  /\ config.driver \in Drivers
  /\ config.async_channel_size \in Nums \cup {DEFAULT_CHANNEL_SIZE}
  /\ config.async_thread_number \in Nums \cup {1}
  /\ config.io_err_sampling_mask \in
       {2^o - 1 : o \in 0..IO_ERROR_SAMPLING_OFFSET_MAX}
  /\ result \in {"parsing", "ok", "err"}
  /\ \A l \in logger : l.drain \in Drivers

(* A declarative reading of the fold: the map is accepted iff every entry  *)
(* is, and each field then holds the value of the last of its keys (or    *)
(* aliases) in document order, or the new_discard default.  The offset   *)
(* bound is left out of the reading: the code accepts 16 where its error  *)
(* text says "less than 16", and the runs keep offsets off that value.    *)
EntryAccepted(e) ==
  /\ e.key # "bogus" /\ e.val # Bad
  /\ e.key = "io_error_sampling_offset" => e.val <= IO_ERROR_SAMPLING_OFFSET_MAX

LastOf(d, ks, default) ==
  LET i == SelectLastInSeq(d, LAMBDA e : e.key \in ks) IN
  IF i = 0 THEN default ELSE d[i]

Expected(d) ==
  LET drv == LastOf(d, DriverKeys, [key |-> "discard"])
      ch  == LastOf(d, ChannelKeys, [val |-> DEFAULT_CHANNEL_SIZE])
      th  == LastOf(d, ThreadKeys, [val |-> 1])
      off == LastOf(d, {"io_error_sampling_offset"},
                    [val |-> IO_ERROR_SAMPLING_OFFSET_DEFAULT])
  IN [driver |-> drv.key, async_channel_size |-> ch.val,
      async_thread_number |-> th.val, io_err_sampling_mask |-> SamplingMask(off.val)]

\* parse_yaml on a map returns Ok exactly when every key and value is
\* accepted, and its LogConfig is then the last-key-wins reading of the map,
\* whatever the order and aliases of the keys.  The logger built from it
\* samples io errors with the document's mask exactly when its drain is one
\* a map can select (journal, syslog, fluentd), and is registered unless it
\* discards.
MapParsedAsWritten ==
  (doc.kind = "map" /\ result # "parsing") =>
    /\ (result = "ok") <=> (\A i \in 1..Len(doc.map) : EntryAccepted(doc.map[i]))
    /\ result = "ok" => config = Expected(doc.map)
    /\ \A l \in logger :
         /\ l.sampledWith = IF l.drain \in DriverKeys
                              THEN {Expected(doc.map).io_err_sampling_mask} ELSE {}
         /\ l.registered <=> l.drain # "discard"

\* The error text of the io_error_sampling_offset arm: the value "should be
\* less than" IO_ERROR_SAMPLING_OFFSET_MAX, so an accepted config never
\* samples with a mask of that many bits.
SamplingOffsetBelowMax ==
  result = "ok" =>
    config.io_err_sampling_mask < SamplingMask(IO_ERROR_SAMPLING_OFFSET_MAX)
=============================================================================
