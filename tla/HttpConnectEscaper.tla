------------------------- MODULE HttpConnectEscaper -------------------------
(***************************************************************************)
(* One egress attempt of an HTTP-CONNECT escaper: the escaper dials its    *)
(* proxy, sends CONNECT, reads the response, then either hands the tunnel  *)
(* to the caller (plain TCP flow) or runs an origin TLS handshake over it  *)
(* (TLS flow), wraps the result with the byte-accounting sinks and relays. *)
(*                                                                         *)
(* Two escapers share this code shape and differ in two places:            *)
(*   ProxyHttp        src/g3proxy/src/escape/proxy_http/http_connect/mod.rs *)
(*                    counts tunnel bytes BELOW the BufReader (LimitedStream*)
(*                    whose stats are reset to the wrapper).               *)
(*   ProxyFloatHttps  .../proxy_float/peer/https/http_connect/mod.rs       *)
(*                    does a TLS handshake with the proxy first and counts *)
(*                    tunnel bytes ABOVE the BufReader (LimitedReader).    *)
(*                                                                         *)
(* Data is abstracted to byte counts: the bytes the far end put into the   *)
(* tunnel after the CONNECT response header (sent), the ones still in the  *)
(* socket (sock), in the BufReader buffer (rbuf) and handed to the caller  *)
(* (delivered); taskRead is the task read-bytes sink (user sinks receive   *)
(* exactly the same updates at the same lines).  Time is a tick counter.   *)
(***************************************************************************)
EXTENDS Integers

CONSTANTS
  Setups,             \* <<escaper, API entry point>> pairs the caller may use
  ConnectTimeout,     \* dial budget inside tcp_new_connection, in ticks
  NegotiationTimeout, \* config.peer_negotiation_timeout, in ticks
  HandshakeTimeout,   \* tls_config.handshake_timeout, in ticks
  MaxResidual,        \* bound on bytes pipelined behind the CONNECT header
  MaxBytes,           \* bound on tunnel bytes sent by the far end
  MaxRead,            \* bound on the bytes one read call moves
  None                \* model value: "no time recorded"

ASSUME Setups # {} /\ Setups \subseteq {"ProxyHttp", "ProxyFloatHttps"} \X {"tcp", "tls"}
ASSUME {ConnectTimeout, NegotiationTimeout, HandshakeTimeout} \subseteq Nat \ {0}
ASSUME {MaxResidual, MaxBytes, MaxRead} \subseteq Nat /\ MaxRead > 0

VARIABLES
  variant,     \* the escaper: "ProxyHttp" or "ProxyFloatHttps"
  flow,        \* which API the caller invoked
  phase,       \* where the attempt is (one await point per phase)
  now,         \* ticks since the call started (the negotiation timer starts at 0)
  dialDoneAt,  \* tick at which the TCP connection to the proxy was up
  hsStart,     \* tick at which the origin TLS handshake started
  err,         \* TcpConnectError variant returned, or "none"
  logged,      \* EscapeLogForTlsHandshake records emitted
  rbuf,        \* tunnel bytes held in the BufReader buffer
  sock,        \* tunnel bytes sent by the far end, not yet read from the socket
  sent,        \* tunnel bytes the far end has sent after the CONNECT header
  delivered,   \* tunnel bytes handed to the next layer (caller or TLS engine)
  taskRead     \* task_stats read bytes

vars == <<variant, flow, phase, now, dialDoneAt, hsStart, err, logged,
          rbuf, sock, sent, delivered, taskRead>>

Phases == {"Dial", "PeerTls", "SendReq", "RecvRsp", "TlsHandshake",
           "Relay", "Closed", "Failed", "Cancelled"}

\* Phases in which the task future is suspended on I/O.
Pending == {"Dial", "PeerTls", "SendReq", "RecvRsp", "TlsHandshake"}

\* Phases covered by timed_http_connect_tcp_connect_to's timeout.
Negotiating == {"Dial", "PeerTls", "SendReq", "RecvRsp"}

RecvErrors == {"NegotiationRejected", "NegotiationProtocolError",
               "NegotiationReadFailed"}
TlsErrors == {"UpstreamTlsHandshakeFailed", "UpstreamTlsHandshakeTimeout"}
Errors == {"none", "ConnectError", "ConnectTimeout", "NegotiationWriteFailed",
           "NegotiationPeerTimeout", "InternalTlsClientError"}
          \cup RecvErrors \cup TlsErrors

MinOf(a, b) == IF a <= b THEN a ELSE b

\* The earliest armed timer: time cannot pass it without the timer firing.
NextDeadline ==
  CASE phase = "Dial"         -> MinOf(ConnectTimeout, NegotiationTimeout)
    [] phase = "PeerTls"      -> MinOf(dialDoneAt + HandshakeTimeout, NegotiationTimeout)
    [] phase \in Negotiating  -> NegotiationTimeout
    [] phase = "TlsHandshake" -> hsStart + HandshakeTimeout

Fail(e) ==
  /\ phase' = "Failed"
  /\ err' = e

-----------------------------------------------------------------------------
(* Plausible faults of the accounting helpers, used as mutants below.      *)

\* The buffered response tail is not credited to the task sink.
WrapHttp_NoCredit(r) ==
  /\ rbuf' = r
  /\ taskRead' = 0

-----------------------------------------------------------------------------
(* Accounting helpers: how each escaper wraps the negotiated tunnel.      *)

\* Both escapers credit the r bytes already in the BufReader buffer to the
\* task (and user) sinks once, before handing the tunnel over.
WrapHttp(r) ==
  /\ rbuf' = r
  /\ taskRead' = r

\* proxy_http: reset_stats moves the wrapper onto the LimitedStream UNDER the
\* BufReader, so a read charges the m bytes pulled off the socket and
\* nothing for bytes served from the buffer.
HttpTunnelCharge(fromBuffer, m, k) == IF fromBuffer THEN 0 ELSE m

\* proxy_float https peer: the LimitedReader wraps the read half OF the
\* BufReader, so a read charges the k bytes it returns, wherever they were.
FloatTunnelCharge(fromBuffer, m, k) == k

\* TLS flow: the LimitedReader wraps the read half of the TLS stream.
TlsTunnelCharge(fromBuffer, m, k) == k

\* Bytes a read charges to the task sink.
Charge(fromBuffer, m, k) ==
  CASE flow = "tls"          -> TlsTunnelCharge(fromBuffer, m, k)
    [] variant = "ProxyHttp" -> HttpTunnelCharge(fromBuffer, m, k)
    [] OTHER                 -> FloatTunnelCharge(fromBuffer, m, k)

-----------------------------------------------------------------------------
(* Plausible faults of the actions, used as mutants of the actions below.  *)

NegotiationTimedOut_Untimed == FALSE

-----------------------------------------------------------------------------
Init ==
  /\ \E s \in Setups : variant = s[1] /\ flow = s[2]
  /\ phase = "Dial"
  /\ now = 0
  /\ dialDoneAt = None
  /\ hsStart = None
  /\ err = "none"
  /\ logged = 0
  /\ rbuf = 0
  /\ sock = 0
  /\ sent = 0
  /\ delivered = 0
  /\ taskRead = 0

\* Time passes while the task is suspended, up to the next armed timer.
Tick ==
  /\ phase \in Pending
  /\ now < NextDeadline
  /\ now' = now + 1
  /\ UNCHANGED <<variant, flow, phase, dialDoneAt, hsStart, err, logged, rbuf, sock,
                 sent, delivered, taskRead>>

(* tcp_new_connection: the TCP connection to the proxy.                    *)
DialConnected ==
  /\ phase = "Dial"
  /\ dialDoneAt' = now
  /\ phase' = IF variant = "ProxyFloatHttps" THEN "PeerTls" ELSE "SendReq"
  /\ UNCHANGED <<variant, flow, now, hsStart, err, logged, rbuf, sock, sent, delivered,
                 taskRead>>

DialRefused ==
  /\ phase = "Dial"
  /\ Fail("ConnectError")
  /\ UNCHANGED <<variant, flow, now, dialDoneAt, hsStart, logged, rbuf, sock, sent,
                 delivered, taskRead>>

\* The dial's own timer; when both timers are due the inner one is polled
\* first by the outer tokio::time::timeout, so ConnectTimeout wins.
DialTimedOut ==
  /\ phase = "Dial"
  /\ now = ConnectTimeout
  /\ Fail("ConnectTimeout")
  /\ UNCHANGED <<variant, flow, now, dialDoneAt, hsStart, logged, rbuf, sock, sent,
                 delivered, taskRead>>

(* tls_handshake_with: ProxyFloatHttps secures the leg to the proxy.       *)
PeerTlsDone ==
  /\ phase = "PeerTls"
  /\ phase' = "SendReq"
  /\ UNCHANGED <<variant, flow, now, dialDoneAt, hsStart, err, logged, rbuf, sock,
                 sent, delivered, taskRead>>

PeerTlsFailed ==
  /\ phase = "PeerTls"
  /\ Fail("UpstreamTlsHandshakeFailed")
  /\ logged' = logged + 1
  /\ UNCHANGED <<variant, flow, now, dialDoneAt, hsStart, rbuf, sock, sent, delivered,
                 taskRead>>

\* The proxy leg's own handshake timer, armed when the dial completes; when
\* it is due together with the negotiation timer the inner one is polled
\* first, as for the dial.
PeerTlsTimedOut ==
  /\ phase = "PeerTls"
  /\ now = dialDoneAt + HandshakeTimeout
  /\ Fail("UpstreamTlsHandshakeTimeout")
  /\ logged' = logged + 1
  /\ UNCHANGED <<variant, flow, now, dialDoneAt, hsStart, rbuf, sock, sent, delivered,
                 taskRead>>

(* req.send(&mut stream): the CONNECT request.                             *)
RequestSent ==
  /\ phase = "SendReq"
  /\ phase' = "RecvRsp"
  /\ UNCHANGED <<variant, flow, now, dialDoneAt, hsStart, err, logged, rbuf, sock,
                 sent, delivered, taskRead>>

RequestWriteFailed ==
  /\ phase = "SendReq"
  /\ Fail("NegotiationWriteFailed")
  /\ UNCHANGED <<variant, flow, now, dialDoneAt, hsStart, logged, rbuf, sock, sent,
                 delivered, taskRead>>

(* HttpConnectResponse::recv: a non-2xx status, an oversized or malformed  *)
(* header, or a read error / EOF before the blank line.                    *)
ResponseFailed(e) ==
  /\ phase = "RecvRsp"
  /\ Fail(e)
  /\ UNCHANGED <<variant, flow, now, dialDoneAt, hsStart, logged, rbuf, sock, sent,
                 delivered, taskRead>>

\* The peer_negotiation_timeout fires: the whole dial-and-negotiate future
\* is dropped, wherever it was suspended.
NegotiationTimedOut ==
  /\ phase \in Negotiating
  /\ now = NegotiationTimeout
  /\ ~(phase = "Dial" /\ now = ConnectTimeout)
  /\ ~(phase = "PeerTls" /\ now = dialDoneAt + HandshakeTimeout)
  /\ Fail("NegotiationPeerTimeout")
  /\ UNCHANGED <<variant, flow, now, dialDoneAt, hsStart, logged, rbuf, sock, sent,
                 delivered, taskRead>>

\* 2xx received with r bytes of tunnel data read past the header; the plain
\* flow credits them, splits and returns the tunnel to the caller.
TcpTunnelReady(r) ==
  /\ phase = "RecvRsp"
  /\ flow = "tcp"
  /\ sent' = r
  /\ WrapHttp(r)
  /\ phase' = "Relay"
  /\ UNCHANGED <<variant, flow, now, dialDoneAt, hsStart, err, logged, sock, delivered>>

\* 2xx received; the TLS flow builds the SSL object and starts the origin
\* handshake on buf_stream.into_inner(), dropping the buffer.
TlsHandshakeStarted(r) ==
  /\ phase = "RecvRsp"
  /\ flow = "tls"
  /\ sent' = r
  /\ rbuf' = 0
  /\ hsStart' = now
  /\ phase' = "TlsHandshake"
  /\ UNCHANGED <<variant, flow, now, dialDoneAt, err, logged, sock, delivered, taskRead>>

\* 2xx received, but build_ssl or SslConnector::new fails.
TlsClientBuildFailed(r) ==
  /\ phase = "RecvRsp"
  /\ flow = "tls"
  /\ sent' = r
  /\ Fail("InternalTlsClientError")
  /\ UNCHANGED <<variant, flow, now, dialDoneAt, hsStart, logged, rbuf, sock, delivered,
                 taskRead>>

(* connector.connect() under tls_config.handshake_timeout.                 *)
HandshakeDone ==
  /\ phase = "TlsHandshake"
  /\ phase' = "Relay"
  /\ UNCHANGED <<variant, flow, now, dialDoneAt, hsStart, err, logged, rbuf, sock, sent,
                 delivered, taskRead>>

HandshakeFailed ==
  /\ phase = "TlsHandshake"
  /\ Fail("UpstreamTlsHandshakeFailed")
  /\ logged' = logged + 1
  /\ UNCHANGED <<variant, flow, now, dialDoneAt, hsStart, rbuf, sock, sent, delivered,
                 taskRead>>

HandshakeTimedOut ==
  /\ phase = "TlsHandshake"
  /\ now = hsStart + HandshakeTimeout
  /\ Fail("UpstreamTlsHandshakeTimeout")
  /\ logged' = logged + 1
  /\ UNCHANGED <<variant, flow, now, dialDoneAt, hsStart, rbuf, sock, sent, delivered,
                 taskRead>>

\* The caller drops the pending future at any await point.
Cancel ==
  /\ phase \in Pending
  /\ phase' = "Cancelled"
  /\ UNCHANGED <<variant, flow, now, dialDoneAt, hsStart, err, logged, rbuf, sock, sent,
                 delivered, taskRead>>

(* Relay: the caller owns the read and write halves.                       *)
FarEndSends(n) ==
  /\ phase = "Relay"
  /\ sent + n <= MaxBytes
  /\ sent' = sent + n
  /\ sock' = sock + n
  /\ UNCHANGED <<variant, flow, phase, now, dialDoneAt, hsStart, err, logged, rbuf,
                 delivered, taskRead>>

\* A read served from the BufReader buffer.
ReadBuffered(k) ==
  /\ phase = "Relay"
  /\ rbuf > 0
  /\ k <= rbuf
  /\ rbuf' = rbuf - k
  /\ delivered' = delivered + k
  /\ taskRead' = taskRead + Charge(TRUE, k, k)
  /\ UNCHANGED <<variant, flow, phase, now, dialDoneAt, hsStart, err, logged, sock, sent>>

\* A read with an empty buffer: m bytes come off the socket (into the
\* buffer in the plain flow), k of them go to the caller.
ReadSocket(m, k) ==
  /\ phase = "Relay"
  /\ rbuf = 0
  /\ m <= sock
  /\ k <= m
  /\ flow = "tls" => k = m
  /\ sock' = sock - m
  /\ rbuf' = m - k
  /\ delivered' = delivered + k
  /\ taskRead' = taskRead + Charge(FALSE, m, k)
  /\ UNCHANGED <<variant, flow, phase, now, dialDoneAt, hsStart, err, logged, sent>>

CallerCloses ==
  /\ phase = "Relay"
  /\ phase' = "Closed"
  /\ UNCHANGED <<variant, flow, now, dialDoneAt, hsStart, err, logged, rbuf, sock, sent,
                 delivered, taskRead>>

Next ==
  \/ Tick
  \/ DialConnected \/ DialRefused \/ DialTimedOut
  \/ PeerTlsDone \/ PeerTlsFailed \/ PeerTlsTimedOut
  \/ RequestSent \/ RequestWriteFailed
  \/ \E e \in RecvErrors : ResponseFailed(e)
  \/ NegotiationTimedOut
  \/ \E r \in 0..MaxResidual : TcpTunnelReady(r)
  \/ \E r \in 0..MaxResidual : TlsHandshakeStarted(r)
  \/ \E r \in 0..MaxResidual : TlsClientBuildFailed(r)
  \/ HandshakeDone \/ HandshakeFailed \/ HandshakeTimedOut
  \/ Cancel
  \/ \E n \in 1..MaxRead : FarEndSends(n)
  \/ \E k \in 1..MaxRead : ReadBuffered(k)
  \/ \E m \in 1..MaxRead, k \in 1..MaxRead : ReadSocket(m, k)
  \/ CallerCloses

\* The tokio timer driver runs: time advances and a due timer fires.  The
\* proxy, the origin and the caller get no fairness: they may stall.
Fairness ==
  /\ WF_vars(Tick)
  /\ WF_vars(DialTimedOut)
  /\ WF_vars(PeerTlsTimedOut)
  /\ WF_vars(NegotiationTimedOut)
  /\ WF_vars(HandshakeTimedOut)

Spec == Init /\ [][Next]_vars /\ Fairness

-----------------------------------------------------------------------------
\* Type invariant.  Its clock bound says more than a type: no attempt is
\* suspended past the sum of the negotiation and handshake timeouts, since
\* every await point is under a timer that fires when due.
TypeOK ==
  /\ <<variant, flow>> \in Setups
  /\ phase \in Phases
  /\ now \in 0..(NegotiationTimeout + HandshakeTimeout)
  /\ dialDoneAt \in 0..NegotiationTimeout \cup {None}
  /\ hsStart \in 0..NegotiationTimeout \cup {None}
  /\ err \in Errors
  /\ logged \in 0..1
  /\ {rbuf, sock, delivered, taskRead} \subseteq Nat
  /\ sent \in 0..MaxBytes

\* Byte accounting (TcpConnectRemoteWrapperStats / LimitedReader): once the
\* tunnel is handed over, the task read sink holds exactly the bytes the
\* caller has read plus those credited while still in the BufReader; an
\* attempt that never returned a tunnel has credited nothing.
ReadAccounting ==
  taskRead = IF phase \in {"Relay", "Closed"} THEN delivered + rbuf ELSE 0

\* No tunnel byte is lost at the hand-over from the CONNECT negotiator to the
\* next layer: every byte the far end sent after the response header is in
\* the socket, in the BufReader buffer, or was delivered.
NoTunnelByteLost == sent = delivered + rbuf + sock

\* peer_negotiation_timeout bounds the CONNECT exchange alone: when it is
\* reported, the proxy connection was up and the exchange had the full
\* budget (spec 4.F: phases do not share a budget).
NegotiationHasOwnBudget ==
  err = "NegotiationPeerTimeout" =>
    /\ dialDoneAt # None
    /\ now - dialDoneAt >= NegotiationTimeout

-----------------------------------------------------------------------------
(* Refinement: the attempt implements the egress contract of EgressCall.   *)

EgressStatus ==
  CASE phase \in Pending    -> "pending"
    [] phase = "Relay"      -> "tunnel"
    [] phase = "Closed"     -> "closed"
    [] phase = "Failed"     -> "error"
    [] phase = "Cancelled"  -> "cancelled"

\* Until a tunnel is returned nothing of it has reached the egress layer's
\* caller; afterwards every sent byte not still in the socket was received.
Egress == INSTANCE EgressCall
            WITH status    <- EgressStatus,
                 received  <- IF phase \in {"Relay", "Closed"} THEN sent - sock ELSE 0,
                 delivered <- delivered,
                 charged   <- taskRead

\* Every attempt behaves as an egress call: it stays pending until it returns
\* a tunnel, an error or is dropped, and a call nobody answers is ended by a
\* timer (the dial, negotiation and handshake timeouts); the task read sink
\* only grows, is never behind what the caller read and never ahead of what
\* came off the network (exactly-once crediting of the BufReader tail).
EgressCallRefined == Egress!Spec
=============================================================================
