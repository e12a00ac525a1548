---------------------------- MODULE MCHttpExchange ----------------------------
(* HttpExchange for TLC: the requests of a client, and the headers in use. *)
EXTENDS HttpExchange

Is(key, value, number, within) ==
  [key |-> key, value |-> value, number |-> number, within |-> within]

MCLines ==
  "server" :> Is("server", "fpx_http", 0, {})
  @@ "close" :> Is("connection", "close", 0, {})
  @@ "Close" :> Is("connection", "Close", 0, {})
  @@ "keep" :> Is("connection", "keep-alive", 0, {})
  @@ "keep-alive" :> Is("keep-alive", "7", 7, {})
  @@ "upgrading" :> Is("connection", "Upgrade", 0, {})
  @@ "upgrade" :> Is("upgrade", "websocket", 0, {})
  @@ "version" :> Is("sec-websocket-version", "13", 13, {})
  @@ "key" :> Is("sec-websocket-key", "key", 0, {})
  @@ "accept" :> Is("sec-websocket-accept", "accept", 0, {})
  @@ "length 0" :> Is("content-length", "0", 0, {})
  @@ "length 1" :> Is("content-length", "1", 1, {})
  @@ "length 2" :> Is("content-length", "2", 2, {})
  @@ "length 3" :> Is("content-length", "3", 3, {})
  @@ "length 4" :> Is("content-length", "4", 4, {})
  @@ "length -1" :> Is("content-length", "-1", -1, {})
  @@ "length -2" :> Is("content-length", "-2", -2, {})
  \* proxy-connection: the key is found at its end.
  @@ "proxy" :> Is("proxy-connection", "keep-alive", 0, {"connection"})
  \* note: connection: ..., and note: content-length: ...
  @@ "note" :> Is("note", "text", 0, {"connection"})
  @@ "size" :> Is("note", "text", 0, {"content-length"})

Ask(method, uri, version, headers) ==
  [line |-> TRUE, method |-> method, uri |-> uri, version |-> version, headers |-> headers]

MCRequests ==
  "plain" :> Ask("GET", "a", "1.1", <<>>)
  @@ "head" :> Ask("HEAD", "a", "1.0", <<"keep">>)
  @@ "closing" :> Ask("GET", "b", "1.1", <<"close">>)
  @@ "proxied" :> Ask("GET", "a", "1.0", <<"proxy", "close">>)
  @@ "post" :> Ask("POST", "a", "1.1", <<"length 1">>)
  @@ "unsized" :> Ask("POST", "a", "1.1", <<"close">>)
  @@ "hidden" :> Ask("POST", "b", "1.1", <<"size", "length 1">>)
  @@ "session" :> Ask("GET", "a", "1.1", <<"upgrading", "upgrade", "version", "key">>)
  @@ "keyless" :> Ask("GET", "a", "1.1", <<"upgrading", "upgrade", "version">>)
  @@ "newer" :> Ask("GET", "a", "2", <<>>)
  @@ "between" :> Ask("PUT", "a", "1.x", <<"length 4">>)
  @@ "negative" :> Ask("POST", "a", "1.1", <<"length -1">>)
  @@ "lower" :> Ask("GET", "b", "1.1", <<"length -2">>)

MCMethodSets == {{"GET"}, {"GET", "POST"}}

MCHeaderSets == {<<"server">>, <<"server", "close">>}

MCCallbackHeaders == {"close", "Close", "note", "length 0", "length 3"}
===============================================================================
