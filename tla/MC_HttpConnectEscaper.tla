------------------------ MODULE MC_HttpConnectEscaper ------------------------
(* Model-checking instance of HttpConnectEscaper; the .cfg files pick one  *)
(* of these sets of <<escaper, API entry point>> pairs and the bounds.     *)
EXTENDS HttpConnectEscaper

\* Every entry point whose byte accounting is single: both proxy_http flows
\* and the proxy_float origin-TLS flow.
MCAccountedSetups ==
  {<<"ProxyHttp", "tcp">>, <<"ProxyHttp", "tls">>, <<"ProxyFloatHttps", "tls">>}

\* Both origin-TLS entry points: each hands buf_stream.into_inner() to TLS.
MCTls == {<<"ProxyHttp", "tls">>, <<"ProxyFloatHttps", "tls">>}
MCHttpTcp == {<<"ProxyHttp", "tcp">>}
MCFloatTcp == {<<"ProxyFloatHttps", "tcp">>}
=============================================================================
