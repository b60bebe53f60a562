---------------------------- MODULE H3BenchArgs ----------------------------
(***************************************************************************)
(* The command line of the g3bench h3 target (src/g3bench/src/target/h3/   *)
(* opts.rs).  clap first matches the arguments declared by add_h3_args     *)
(* (a required uri, connection-pool and no-multiplex in conflict, method   *)
(* restricted to GET and HEAD, default timeouts); parse_h3_args then turns *)
(* the matches into BenchH3Args or an error, before anything is dialled.   *)
(* The benchmark then resolves the target, opens a QUIC connection to one  *)
(* of its addresses (new_quic_connection), an h3 session over it           *)
(* (new_h3_connection) and builds the request header.                      *)
(*                                                                         *)
(* A URI is abstracted to what the code tells apart: absent, not a URL,    *)
(* a URL without a usable host, or a URL of scheme "http", "https" or      *)
(* "ftp".  A duration argument is "default", "valid" or "bad".  Addresses  *)
(* are "lip" (the --local-address given), "peer" (the resolved target      *)
(* address) and "any" (the wildcard); a TLS server name is "target" (the   *)
(* URL's host) or "" (empty).  Whether the resolver, the socket layer and  *)
(* the peer succeed is the environment's choice.                           *)
(***************************************************************************)
EXTENDS Naturals

CONSTANTS
  PoolSizes,  \* values given to --connection-pool
  None        \* an absent argument

Uris == {None, "garbage", "nohost", "http", "https", "ftp"}
Durations == {"default", "valid", "bad"}

\* The argument vectors a user can type, after clap's value parsers.
Argvs ==
  [uri : Uris, pool : PoolSizes \cup {None}, method : {"GET", "HEAD"},
   local_address : {None, "lip"}, no_multiplex : BOOLEAN, ok_status : BOOLEAN,
   timeout : Durations, connect_timeout : Durations]

ASSUME PoolSizes \subseteq Nat

VARIABLES
  argv,    \* the command line
  stage,   \* "clap", "parse", "resolve", "connect", "h3", "request", "done"
  args,    \* the BenchH3Args, or None
  result,  \* "pending", "ok", "arg_error", "net_error"
  dialled  \* the QUIC connect call made: [bind, peer, sni], or None

vars == <<argv, stage, args, result, dialled>>

-----------------------------------------------------------------------------
(* Plausible faults of the code, used as mutants of the definitions below. *)

\* add_h3_args without the conflicts_with between pool and no-multiplex.
ClapRejects_NoConflict(a) == a.uri = None

\* --connection-pool stored as given, 0 included.
PoolSize_NoZeroCheck(c) == c

-----------------------------------------------------------------------------
\* add_h3_args: clap refuses a missing uri and pool with no-multiplex.
ClapRejects(a) ==
  \/ a.uri = None
  \/ a.pool # None /\ a.no_multiplex

\* if *c > 0 { pool_size = Some(*c) }
PoolSize(c) == IF c > 0 THEN c ELSE None

\* The scheme check at the end of parse_h3_args.
SchemeSupported(u) == u \in {"http", "https"}

\* parse_h3_args: every early return, in the order the code takes them.
ParseFails(a) ==
  \/ a.uri = "garbage"                      \* Url::parse
  \/ a.uri = "nohost"                       \* BenchH3Args::new
  \/ a.timeout = "bad"                      \* get_duration(timeout)
  \/ a.connect_timeout = "bad"              \* get_duration(connect-timeout)
  \/ ~SchemeSupported(a.uri)

H3Args(a) ==
  [pool_size |-> IF a.pool = None THEN None ELSE PoolSize(a.pool),
   method |-> a.method,
   bind |-> a.local_address,
   no_multiplex |-> a.no_multiplex,
   ok_status |-> a.ok_status,
   timeout |-> IF a.timeout = "default" THEN "30s" ELSE "given",
   connect_timeout |-> IF a.connect_timeout = "default" THEN "15s" ELSE "given"]

Init ==
  /\ argv \in Argvs
  /\ stage = "clap"
  /\ args = None
  /\ result = "pending"
  /\ dialled = None

\* clap's get_matches: an argument error exits before parse_h3_args.
ClapMatch ==
  /\ stage = "clap"
  /\ IF ClapRejects(argv)
       THEN stage' = "done" /\ result' = "arg_error"
       ELSE stage' = "parse" /\ UNCHANGED result
  /\ UNCHANGED <<argv, args, dialled>>

ParseH3Args ==
  /\ stage = "parse"
  /\ IF ParseFails(argv)
       THEN stage' = "done" /\ result' = "arg_error" /\ UNCHANGED args
       ELSE stage' = "resolve" /\ result' = "ok" /\ args' = H3Args(argv)
  /\ UNCHANGED <<argv, dialled>>

\* A network step that fails ends the benchmark with a network error.
NetFail ==
  /\ stage' = "done"
  /\ result' = "net_error"

\* resolve_target_address: proc_args.resolve(&self.host).
ResolveTargetAddress ==
  /\ stage = "resolve"
  /\ \/ stage' = "connect" /\ UNCHANGED result
     \/ NetFail
  /\ UNCHANGED <<argv, args, dialled>>

\* new_quic_connection: pick a peer, Endpoint::client(peer), build the
\* default rustls client config, then endpoint.connect_with(client_config,
\* peer, "").  Any of them may fail; the connect call is recorded when made.
NewQuicConnection ==
  /\ stage = "connect"
  /\ \/ NetFail /\ UNCHANGED dialled            \* endpoint or TLS config
     \/ /\ dialled' = [bind |-> "peer", peer |-> "peer", sni |-> ""]
        /\ \/ stage' = "h3" /\ UNCHANGED result
           \/ NetFail                            \* connect_with or its await
  /\ UNCHANGED <<argv, args>>

\* new_h3_connection: h3::client::new over the QUIC connection, its driver
\* spawned; then build_pre_request_header for the first request.
NewH3Connection ==
  /\ stage = "h3"
  /\ \/ stage' = "request" /\ UNCHANGED result
     \/ NetFail
  /\ UNCHANGED <<argv, args, dialled>>

\* build_pre_request_header: the URI from the URL's scheme, host and path,
\* the Host header and the Basic authorization.  The Uri builder and both
\* HeaderValue::from_str calls return Err on a value they refuse, which
\* ends the setup with a request error.
BuildPreRequestHeader ==
  /\ stage = "request"
  /\ stage' = "done"
  /\ \/ UNCHANGED result
     \/ result' = "request_error"
  /\ UNCHANGED <<argv, args, dialled>>

Next ==
  \/ ClapMatch \/ ParseH3Args
  \/ ResolveTargetAddress \/ NewQuicConnection \/ NewH3Connection
  \/ BuildPreRequestHeader

Spec == Init /\ [][Next]_vars

-----------------------------------------------------------------------------
\* pool_size is an Option of a positive size.
TypeOK ==
  /\ argv \in Argvs
  /\ stage \in {"clap", "parse", "resolve", "connect", "h3", "request", "done"}
  /\ result \in {"pending", "ok", "arg_error", "net_error", "request_error"}
  /\ args = None \/ args.pool_size \in (PoolSizes \ {0}) \cup {None}
  /\ dialled \in {None} \cup [bind : {"any", "lip", "peer"}, peer : {"peer"},
                             sni : {"", "target"}]

\* The command lines the spec (scenario S6 and 6, HTTP/3 benchmark client)
\* allows: an http(s) URL with a host, durations that parse, and never both
\* a connection pool and multiplexing disabled.
ArgvValid(a) ==
  /\ a.uri \in {"http", "https"}
  /\ a.timeout # "bad" /\ a.connect_timeout # "bad"
  /\ ~(a.pool # None /\ a.no_multiplex)

\* clap and parse_h3_args together decide the exit before the network is
\* touched: nothing is dialled for a command line the spec refuses, and a
\* run ends with an argument error exactly when its command line is one.
ArgsDecideExit ==
  /\ dialled # None => ArgvValid(argv)
  /\ stage = "done" => ((result = "arg_error") <=> ~ArgvValid(argv))

\* The spec: --connection-pool takes a positive integer, so an accepted
\* command line never carries a pool size of 0.
PoolArgPositive ==
  result = "ok" => (argv.pool = None \/ argv.pool > 0)

\* The spec (6, HTTP/3 benchmark client; 4.F flow 3): the QUIC connection
\* is made from the --local-address given (any local address otherwise) to
\* the resolved peer, with the URL's host as TLS server name.
QuicDialAsConfigured ==
  dialled # None =>
    /\ dialled.bind = IF argv.local_address = None THEN "any" ELSE argv.local_address
    /\ dialled.peer = "peer"
    /\ dialled.sni = "target"
=============================================================================
