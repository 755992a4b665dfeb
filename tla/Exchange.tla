------------------------------ MODULE Exchange ------------------------------
(***************************************************************************)
(* The path of an exchange through pkg/proxy/handler.go: the loop of a     *)
(* client connection (handleHTTP, handleConnectTunnel, handleDecryptedTLS),*)
(* forwardHTTPRequest with the interceptor chain, SSE streaming and the    *)
(* WebSocket upgrade, and the events the listeners receive on the way.     *)
(*                                                                         *)
(* One goroutine serves a connection and reads the next request when it has*)
(* dealt with the last; several connections run at once, and the user may  *)
(* change the host filter and the host mapping between any two steps.  The *)
(* listeners are called in that goroutine, and one of them writes to every *)
(* subscribed phone: a phone that does not read holds up whoever tells.    *)
(* Bodies, headers and codecs are abstracted, and so is the ID by which an *)
(* event names its exchange; hosts and the kinds of events are kept.       *)
(***************************************************************************)
EXTENDS Naturals, Sequences

CONSTANTS
    Conns,      \* client connections
    Hosts,      \* host names and addresses
    Ids,        \* exchange UUIDs, in use or not yet drawn
    HostOf,     \* the host the client asks for in an exchange
    ConnOf,     \* the connection it asks on
    Filters,    \* the filter settings: each the set of hosts ShouldFilter is true of
    Mappings,   \* the hosts rules: each a function from a host to its target
    Redirects,  \* hosts that rewrite rules, scripts and the user's edits send requests to
    MaxFrames   \* streamed events of one exchange (bound)

NoId == "none"

ASSUME ExchangeAssumption ==
    /\ Hosts # {} /\ NoId \notin Ids
    /\ HostOf \in [Ids -> Hosts] /\ ConnOf \in [Ids -> Conns]
    /\ Filters \subseteq SUBSET Hosts /\ Mappings \subseteq [Hosts -> Hosts]
    /\ Redirects \subseteq Hosts
    /\ MaxFrames \in Nat

VARIABLES
    filter,    \* hosts to be ignored (HostFilter)
    mapping,   \* host to target (HostsInterceptor)
    decrypt,   \* Config().EnableSSL and a certificate manager
    stopped,   \* the server's context, parent of every ctx.Context, is cancelled
    stuck,     \* a phone on the event stream does not read what is broadcast to it
    deaf,      \* clients that do not read what is streamed to them
    at,        \* where the goroutine of a connection is
    tls,       \* connections inside a decrypted tunnel
    target,    \* the host of the tunnel, as PreConnect mapped it
    cur,       \* ctx.CurrentRequest: the exchange being served
    capture,   \* per exchange: not filtered when PreConnect ran
    urlHost,   \* per exchange: the host of httpReq.URL
    dialed,    \* per exchange: the host the transport connected to, or "none"
    answer,    \* per exchange: what the client was sent, or "none"
    events     \* per exchange: what the listeners were told, in order

conf == <<filter, mapping, decrypt, stopped, stuck, deaf>>
facts == <<capture, urlHost, dialed, answer, events>>
vars == <<filter, mapping, decrypt, stopped, stuck, deaf, at, tls, target, cur, capture,
          urlHost, dialed, answer, events>>

Stages == {"read", "handshake", "onRequest", "execute", "upstream", "stream",
           "onResponse", "reply", "ws", "tunnel", "failing", "closed"}
Answers == {"none", "response", "mock", "lost", "refused", "stream", "switched"}
Event == {"request", "response", "frame", "error"}

Init ==
    /\ filter \in Filters
    /\ mapping \in Mappings
    /\ decrypt \in BOOLEAN
    /\ stopped = FALSE
    /\ stuck = FALSE
    /\ deaf = {}
    /\ at = [c \in Conns |-> "read"]
    /\ tls = {}
    /\ target \in [Conns -> {CHOOSE h \in Hosts : TRUE}]
    /\ cur = [c \in Conns |-> NoId]
    /\ capture = [e \in Ids |-> FALSE]
    /\ urlHost = HostOf
    /\ dialed = [e \in Ids |-> "none"]
    /\ answer = [e \in Ids |-> "none"]
    /\ events = [e \in Ids |-> <<>>]

-----------------------------------------------------------------------------
Go(c, stage) == at' = [at EXCEPT ![c] = stage]

\* The listeners are told of an exchange.  BroadcastEvent, one of them, writes to
\* the phones with no deadline and under their lock, so nobody gets past it while a
\* phone does not read.
Tell(e, es) ==
    /\ ~ stuck
    /\ events' = [events EXCEPT ![e] = @ \o es]

\* DispatchError(ctx, nil, err) by the loop, and the connection closes when that
\* returns.  No exchange is named, so it is not among the events of one.
Fail(c) == Go(c, "failing")
Report(c) ==
    /\ at[c] = "failing" /\ ~ stuck
    /\ Go(c, "closed")
    /\ UNCHANGED <<conf, tls, target, cur, facts>>

\* The client asks for the exchanges of a connection in some order; an exchange
\* is fresh until its request has been read.
Fresh(c, e) == ConnOf[e] = c /\ \A d \in Conns : cur[d] # e
               /\ answer[e] = "none" /\ dialed[e] = "none" /\ events[e] = <<>>

\* PreConnect of the chain: the filter is asked about a host, the hosts rules
\* then replace it.
Filtered(h) == h \in filter
Mapped(h) == mapping[h]

\* Mutant: an address without a port leaves no host.
ConnectForgetsHost(c, h) ==
    /\ at[c] = "read" /\ c \notin tls
    /\ \E e \in Ids : Fresh(c, e) /\ HostOf[e] = h
    /\ target' = [target EXCEPT ![c] = ""]
    /\ Go(c, IF Filtered(h) \/ ~ decrypt THEN "tunnel" ELSE "handshake")
    /\ UNCHANGED <<conf, tls, cur, facts>>

\* CONNECT: PreConnect filters the host asked for and then maps it.  A filtered
\* host, or any host when decryption is off, gets a blind tunnel.  A client that is
\* gone when it is answered closes.
Connect(c, h) ==
    /\ at[c] = "read" /\ c \notin tls
    /\ \E e \in Ids : Fresh(c, e) /\ HostOf[e] = h
    /\ target' = [target EXCEPT ![c] = Mapped(h)]
    /\ \/ Go(c, IF Filtered(h) \/ ~ decrypt THEN "tunnel" ELSE "handshake")
       \/ Go(c, "closed")
    /\ UNCHANGED <<conf, tls, cur, facts>>

\* The TLS handshake with the client succeeds or is reported and ends it.
Handshake(c) ==
    /\ at[c] = "handshake"
    /\ \/ Go(c, "read") /\ tls' = tls \cup {c}
       \/ Fail(c) /\ UNCHANGED tls
    /\ UNCHANGED <<conf, target, cur, facts>>

\* A request is read: its URL carries the host asked for on a plain connection
\* and the tunnel's target inside TLS.  PreConnect runs on that host and decides
\* the capture of the whole exchange.  A body over the limit is refused, and one
\* that breaks off closes.
Read(c, e) ==
    LET host == IF c \in tls THEN target[c] ELSE HostOf[e] IN
    /\ at[c] = "read"
    /\ Fresh(c, e)
    /\ cur' = [cur EXCEPT ![c] = e]
    /\ \/ /\ capture' = [capture EXCEPT ![e] = ~ Filtered(host)]
          /\ urlHost' = [urlHost EXCEPT ![e] = host]
          /\ Go(c, IF Filtered(host) THEN "upstream" ELSE "onRequest")
          /\ UNCHANGED answer
       \/ /\ answer' = [answer EXCEPT ![e] = "refused"]
          /\ Fail(c)
          /\ UNCHANGED <<capture, urlHost>>
       \/ Fail(c) /\ UNCHANGED <<answer, capture, urlHost>>
    /\ UNCHANGED <<conf, tls, target, dialed, events>>

\* The connection ends between two requests: the client leaves, the read
\* deadline passes, or it asks for the built-in pages and mobile API.
Leave(c) ==
    /\ at[c] \in {"read", "tunnel"}
    /\ Go(c, "closed")
    /\ UNCHANGED <<conf, tls, target, cur, facts>>

-----------------------------------------------------------------------------
(* forwardHTTPRequest                                                      *)

\* An interceptor's error is answered with 403, 504 or 502, and closes.
Refuse(c) ==
    /\ answer' = [answer EXCEPT ![cur[c]] = "refused"]
    /\ Fail(c)

\* The chain's OnRequest: the request goes on as it is or rewritten, perhaps to
\* another host; or an interceptor fails (breakpoint aborted or timed out).
OnRequest(c) ==
    /\ at[c] = "onRequest"
    /\ \/ /\ \E h \in Redirects \cup {urlHost[cur[c]]} : urlHost' = [urlHost EXCEPT ![cur[c]] = h]
          /\ Go(c, "execute")
          /\ UNCHANGED answer
       \/ Refuse(c) /\ UNCHANGED urlHost
    /\ UNCHANGED <<conf, tls, target, cur, capture, dialed, events>>

\* After a reply the loop reads on, unless the client asked to close.
Served(c) == Go(c, "read") \/ Go(c, "closed")

\* Mutants: a mocked request is also sent (the return is missing); the listeners
\* are not told of a request that goes on.
ExecuteFallsThrough(c) ==
    LET e == cur[c] IN
    /\ at[c] = "execute"
    /\ Tell(e, <<"request">>) /\ Go(c, "upstream")
    /\ answer' \in {answer, [answer EXCEPT ![e] = "mock"]}
    /\ UNCHANGED <<conf, tls, target, cur, capture, urlHost, dialed>>
ExecuteUntold(c) ==
    /\ at[c] = "execute"
    /\ Go(c, "upstream")
    /\ UNCHANGED <<conf, tls, target, cur, facts>>

\* The chain's Execute: a blocked or mapped request is answered here, and nobody
\* looks whether its writes failed: the client may have got nothing of the answer or
\* a part, and the loop goes on all the same.  A drop rule fails the request;
\* otherwise the listeners are told of it.
Execute(c) ==
    LET e == cur[c] IN
    /\ at[c] = "execute"
    /\ \/ /\ Tell(e, <<"request", "response">>)
          /\ \E a \in {"mock", "lost"} : answer' = [answer EXCEPT ![e] = a]
          /\ Served(c)
       \/ Refuse(c) /\ UNCHANGED events
       \/ Tell(e, <<"request">>) /\ Go(c, "upstream") /\ UNCHANGED answer
    /\ UNCHANGED <<conf, tls, target, cur, capture, urlHost, dialed>>

\* Mutants: the filter is asked again when the response arrives; the request does
\* not carry the context that a stop cancels.
UpstreamRefilters(c) ==
    LET e == cur[c] IN
    /\ at[c] = "upstream"
    /\ dialed' = [dialed EXCEPT ![e] = urlHost[e]]
    /\ Go(c, IF urlHost[e] \notin filter THEN "onResponse" ELSE "reply")
    /\ UNCHANGED <<conf, tls, target, cur, capture, urlHost, answer, events>>
UpstreamWithoutContext(c) ==
    LET e == cur[c] IN
    /\ at[c] = "upstream" /\ ~ stopped
    /\ dialed' = [dialed EXCEPT ![e] = urlHost[e]]
    /\ Go(c, IF capture[e] THEN "onResponse" ELSE "reply")
    /\ UNCHANGED <<conf, tls, target, cur, capture, urlHost, answer, events>>

\* The response of an exchange is told if that is captured.
Announce(e) == IF capture[e] THEN Tell(e, <<"response">>) ELSE UNCHANGED events

\* The transport connects to the host of httpReq.URL.  A failure is told to the
\* listeners and closes without an answer; a stream is announced and then
\* relayed, unless the client has left; an oversized body is refused; a body that
\* breaks off closes.
Upstream(c) ==
    LET e == cur[c] IN
    /\ at[c] = "upstream"
    /\ dialed' = [dialed EXCEPT ![e] = urlHost[e]]
    /\ \/ Tell(e, <<"error">>) /\ Fail(c) /\ UNCHANGED answer
       \/ /\ Announce(e)
          /\ answer' = [answer EXCEPT ![e] = "stream"]
          /\ Go(c, "stream")
       \/ Refuse(c) /\ UNCHANGED events
       \/ (Announce(e) \/ UNCHANGED events) /\ Fail(c) /\ UNCHANGED answer
       \/ Go(c, IF capture[e] THEN "onResponse" ELSE "reply") /\ UNCHANGED <<answer, events>>
    /\ UNCHANGED <<conf, tls, target, cur, capture, urlHost>>

\* streamSSEResponse: every event goes to the client and to the listeners; the end
\* of the stream is an error and closes.  None of the writes has a deadline, the one
\* that ends the stream included: a client that does not read holds it up.
Stream(c) ==
    LET e == cur[c] IN
    /\ at[c] = "stream" /\ c \notin deaf
    /\ \/ /\ Len(events[e]) < MaxFrames + 2
          /\ Tell(e, <<"frame">>)
          /\ UNCHANGED at
       \/ Fail(c) /\ UNCHANGED events
    /\ UNCHANGED <<conf, tls, target, cur, capture, urlHost, dialed, answer>>

\* The chain's OnResponse, then the listeners.
OnResponse(c) ==
    LET e == cur[c] IN
    /\ at[c] = "onResponse"
    /\ \/ /\ Tell(e, <<"response">>)
          /\ Go(c, "reply")
          /\ UNCHANGED answer
       \/ Refuse(c) /\ UNCHANGED events
    /\ UNCHANGED <<conf, tls, target, cur, capture, urlHost, dialed>>

\* Mutant: the connection goes on after a failed write.
ReplyIgnoresErrors(c) ==
    /\ at[c] = "reply"
    /\ answer' \in {answer, [answer EXCEPT ![cur[c]] = "response"]}
    /\ Served(c)
    /\ UNCHANGED <<conf, tls, target, cur, capture, urlHost, dialed, events>>

\* The response is written to the client, or the write fails and closes.
Reply(c) ==
    /\ at[c] = "reply"
    /\ \/ answer' = [answer EXCEPT ![cur[c]] = "response"] /\ Served(c)
       \/ Fail(c) /\ UNCHANGED answer
    /\ UNCHANGED <<conf, tls, target, cur, capture, urlHost, dialed, events>>

-----------------------------------------------------------------------------
(* handleWebSocketUpgrade                                                  *)

\* The upgrade dials the Host of the request itself, asks no interceptor, and
\* when the server switches tells the listeners of request and response.  Any
\* other response goes to the client untold, and a server that gives none is an error.
Upgrade(c, e) ==
    /\ at[c] = "read"
    /\ Fresh(c, e)
    /\ dialed' = [dialed EXCEPT ![e] = HostOf[e]]
    /\ \/ /\ cur' = [cur EXCEPT ![c] = e]
          /\ Tell(e, <<"request", "response">>)
          /\ answer' = [answer EXCEPT ![e] = "switched"]
          /\ Go(c, "ws")
       \/ /\ answer' \in {answer, [answer EXCEPT ![e] = "response"]}
          /\ Go(c, "closed")
          /\ UNCHANGED <<cur, events>>
       \/ Fail(c) /\ UNCHANGED <<answer, cur, events>>
    /\ UNCHANGED <<conf, tls, target, capture, urlHost>>

\* A frame is told to the listeners; the relay ends with either direction.
Relay(c) ==
    LET e == cur[c] IN
    /\ at[c] = "ws"
    /\ \/ /\ Len(events[e]) < MaxFrames + 2
          /\ Tell(e, <<"frame">>)
          /\ UNCHANGED at
       \/ Go(c, "closed") /\ UNCHANGED events
    /\ UNCHANGED <<conf, tls, target, cur, capture, urlHost, dialed, answer>>

-----------------------------------------------------------------------------
(* The user                                                                *)

SetFilter(F) ==
    /\ filter' = F
    /\ UNCHANGED <<mapping, decrypt, stopped, stuck, deaf, at, tls, target, cur, facts>>

SetHosts(m) ==
    /\ mapping' = m
    /\ UNCHANGED <<filter, decrypt, stopped, stuck, deaf, at, tls, target, cur, facts>>

\* Server.Stop cancels the context under which the transport works.
Stop ==
    /\ ~ stopped
    /\ stopped' = TRUE
    /\ UNCHANGED <<filter, mapping, decrypt, stuck, deaf, at, tls, target, cur, facts>>

-----------------------------------------------------------------------------
(* Those who read, or do not                                               *)

\* A phone that has subscribed to the events stops reading them, and reads on or is
\* cut off.
Phone ==
    /\ stuck' = ~ stuck
    /\ UNCHANGED <<filter, mapping, decrypt, stopped, deaf, at, tls, target, cur, facts>>

\* A client stops reading the stream it asked for, and reads on or leaves.
Client(c) ==
    /\ at[c] = "stream"
    /\ deaf' = IF c \in deaf THEN deaf \ {c} ELSE deaf \cup {c}
    /\ UNCHANGED <<filter, mapping, decrypt, stopped, stuck, at, tls, target, cur, facts>>

Serve(c) ==
    \/ Handshake(c) \/ OnRequest(c) \/ Execute(c) \/ Upstream(c) \/ Stream(c)
    \/ OnResponse(c) \/ Reply(c) \/ Relay(c) \/ Report(c)

Next ==
    \/ \E c \in Conns :
          \/ Serve(c) \/ Leave(c) \/ Client(c)
          \/ \E h \in Hosts : Connect(c, h)
          \/ \E e \in Ids : Read(c, e) \/ Upgrade(c, e)
    \/ \E F \in Filters : SetFilter(F)
    \/ \E m \in Mappings : SetHosts(m)
    \/ Stop \/ Phone

Spec == Init /\ [][Next]_vars

\* The goroutine of a connection goes on.  Breakpoints time out, scripts are
\* interrupted, and a reply or a refusal is written under a deadline; telling the
\* listeners is promised only while no phone holds them up, and a stream's writes
\* only while its client reads.  Neither the server asked nor its body has a
\* deadline, so an exchange waits for it as long as the context lives.  Nothing is
\* promised of the phones, the clients and the user.
FairSpec ==
    /\ Spec
    /\ \A c \in Conns :
          /\ WF_vars(OnRequest(c) \/ Reply(c))
          /\ WF_vars(~ stuck /\ (Execute(c) \/ OnResponse(c) \/ Report(c)))
          /\ WF_vars(stopped /\ ~ stuck /\ (Upstream(c) \/ Stream(c)))

-----------------------------------------------------------------------------
TypeOK ==
    /\ filter \in Filters /\ mapping \in Mappings /\ decrypt \in BOOLEAN /\ stopped \in BOOLEAN
    /\ stuck \in BOOLEAN /\ deaf \subseteq Conns
    /\ at \in [Conns -> Stages] /\ tls \subseteq Conns /\ target \in [Conns -> Hosts]
    /\ cur \in [Conns -> Ids \cup {NoId}]
    /\ capture \in [Ids -> BOOLEAN]
    /\ urlHost \in [Ids -> Hosts]
    /\ dialed \in [Ids -> Hosts \cup {"none"}] /\ answer \in [Ids -> Answers]
    /\ events \in [Ids -> Seq(Event)]

Places(e, t) == {i \in DOMAIN events[e] : events[e][i] = t}
Told(e, t) == Places(e, t) # {}
AtMostOnce(e, t) == \A i, j \in Places(e, t) : i = j

\* Whatever the user does to the filter meanwhile, an exchange is captured whole
\* or not at all: the listeners hear of a request at most once and before its
\* response, of a response at most once, and of neither when the exchange was
\* filtered as it began (a WebSocket upgrade is not subject to the filter).
CaptureIsWhole ==
    \A e \in Ids :
        /\ AtMostOnce(e, "request") /\ AtMostOnce(e, "response")
        /\ Told(e, "response") => events[e][1] = "request"
        /\ ~ capture[e] /\ answer[e] # "switched" =>
              ~ Told(e, "request") /\ ~ Told(e, "response")

\* The traffic list misses nothing that left the machine: a captured request is
\* told to the listeners before the transport is asked to send it.
NothingLeavesUntold ==
    \A e \in Ids : capture[e] /\ dialed[e] # "none" => Told(e, "request")

\* Keep-alive: the next request of a connection is read only when the last one got
\* its whole answer.  The one exception is an answer given here (mocked, blocked):
\* handler.go ignores that its writes failed, so a reply that is lost, or cut, is
\* followed by the reply to another request.  It never happens to an exchange that
\* was sent upstream, whose failed reply closes the connection.
OnlyLocalRepliesAreLost ==
    \A c \in Conns : at[c] = "read" /\ cur[c] # NoId =>
        \/ answer[cur[c]] \in {"response", "mock"}
        \/ answer[cur[c]] = "lost" /\ dialed[cur[c]] = "none"

\* A request that was answered here (mocked, blocked, refused) is not sent
\* afterwards, also when the answer was lost, and no exchange is answered twice.
AnsweredOnce ==
    [][\A e \in Ids : answer[e] # "none" => answer'[e] = answer[e] /\ dialed'[e] = dialed[e]]_vars

\* The interceptors and the reply take their time, but never for ever, whatever the
\* phones and the client do.  An exchange in the chain gets out of it, and one that
\* failed closes, unless some phone keeps the broadcast waiting for good; and when
\* the server stops, one that waits for its upstream or relays a stream is released,
\* unless such a phone, or the client of the stream, never reads again: cancelling
\* the context does not end a write that has no deadline.
ForwardingEnds ==
    \A c \in Conns :
        /\ at[c] \in {"onRequest", "reply"} ~> at[c] \in {"execute", "read", "failing", "closed"}
        /\ <>[] ~ stuck =>
              at[c] \in {"onRequest", "execute", "onResponse", "reply", "failing"}
                 ~> at[c] \in {"upstream", "read", "closed"}
        /\ <>[] (~ stuck /\ c \notin deaf) =>
              (stopped /\ at[c] \in {"upstream", "stream"} ~> at[c] \in {"read", "closed"})
=============================================================================
