--------------------------- MODULE ExchangeProofs ---------------------------
(***************************************************************************)
(* What holds of the exchanges for any connections, hosts, filters and     *)
(* mappings.                                                               *)
(***************************************************************************)
EXTENDS Exchange, TLAPS

-----------------------------------------------------------------------------
(* The invariant: what a stage knows of the exchange it serves             *)

\* The listeners have heard the first n of: a request, its response.
Heard(e, n) ==
    /\ Len(events[e]) = n
    /\ n >= 1 => events[e][1] = "request"
    /\ n >= 2 => events[e][2] = "response"

Unsent(e) == answer[e] = "none" /\ dialed[e] = "none" /\ Heard(e, 0)

\* What allows a connection to read on.
Replied(e) ==
    \/ answer[e] \in {"response", "mock"}
    \/ answer[e] = "lost" /\ dialed[e] = "none"

Serving == {"onRequest", "execute", "upstream", "stream", "onResponse", "reply", "ws"}

\* A connection serves an exchange of its own, and the stage it has reached says
\* what that exchange was sent and what was told of it.
StageInv(c) ==
    LET e == cur[c] IN
    /\ e # NoId => ConnOf[e] = c
    /\ at[c] \in Serving => e # NoId
    /\ at[c] \in {"read", "handshake"} /\ e # NoId => Replied(e)
    /\ at[c] \in {"onRequest", "execute"} => capture[e] /\ Unsent(e)
    /\ at[c] = "upstream"   => answer[e] = "none" /\ dialed[e] = "none"
                               /\ Heard(e, IF capture[e] THEN 1 ELSE 0)
    /\ at[c] = "onResponse" => answer[e] = "none" /\ capture[e] /\ Heard(e, 1)
    /\ at[c] = "reply"      => answer[e] = "none" /\ Heard(e, IF capture[e] THEN 2 ELSE 0)
    /\ at[c] = "stream"     => answer[e] = "stream" /\ (capture[e] => Len(events[e]) >= 2)
    /\ at[c] = "ws"         => answer[e] = "switched" /\ Len(events[e]) >= 2

\* What is told of an exchange, also after it was served: a request comes first, a
\* response second, and neither of one that was filtered.  One that nobody serves
\* and nothing is known of has no decision to capture yet.
EventInv(e) ==
    /\ \A i \in DOMAIN events[e] :
          /\ events[e][i] = "request" => i = 1
          /\ events[e][i] = "response" => i = 2 /\ events[e][1] = "request"
          /\ ~ capture[e] /\ answer[e] # "switched" => events[e][i] \notin {"request", "response"}
    /\ capture[e] /\ dialed[e] # "none" => Len(events[e]) >= 1 /\ events[e][1] = "request"
    /\ Unsent(e) /\ (\A c \in Conns : cur[c] # e) => ~ capture[e]

ExchangeInv == (\A c \in Conns : StageInv(c)) /\ (\A e \in Ids : EventInv(e))

-----------------------------------------------------------------------------
(* Types                                                                   *)

\* What telling the listeners appends, and to what.
LEMMA Telling ==
  ASSUME NEW e \in Ids, NEW es \in Seq(Event), events \in [Ids -> Seq(Event)], Tell(e, es)
  PROVE  /\ events' \in [Ids -> Seq(Event)]
         /\ \A d \in Ids \ {e} : events'[d] = events[d]
         /\ Len(events'[e]) = Len(events[e]) + Len(es)
         /\ \A i \in 1 .. Len(events[e]) : events'[e][i] = events[e][i]
         /\ \A i \in 1 .. Len(es) : events'[e][Len(events[e]) + i] = es[i]
<1> DEFINE s == events[e]
<1>1. s \in Seq(Event) /\ s \o es \in Seq(Event)
  OBVIOUS
<1>2. events' = [events EXCEPT ![e] = s \o es]
  BY DEF Tell
<1>3. events'[e] = s \o es
  BY <1>2
<1>4. /\ Len(s \o es) = Len(s) + Len(es)
      /\ \A i \in 1 .. Len(s) : (s \o es)[i] = s[i]
      /\ \A i \in 1 .. Len(es) : (s \o es)[Len(s) + i] = es[i]
  BY <1>1
<1> QED
  BY <1>1, <1>2, <1>3, <1>4

\* What is told, as sequences.
LEMMA Kinds ==
  /\ <<>> \in Seq(Event) /\ <<"request">> \in Seq(Event) /\ <<"response">> \in Seq(Event)
  /\ <<"error">> \in Seq(Event) /\ <<"frame">> \in Seq(Event)
  /\ <<"request", "response">> \in Seq(Event)
BY DEF Event

\* The exchange that is served is one.
LEMMA Served1 ==
  ASSUME TypeOK, ExchangeInv, NEW c \in Conns, at[c] \in Serving
  PROVE  cur[c] \in Ids /\ ConnOf[cur[c]] = c
BY DEF TypeOK, ExchangeInv, StageInv

\* Every stage and every setting is well typed.
LEMMA TypeStep == TypeOK /\ ExchangeInv /\ [Next]_vars => TypeOK'
<1> SUFFICES ASSUME TypeOK, ExchangeInv, [Next]_vars PROVE TypeOK'
  OBVIOUS
<1> USE ExchangeAssumption DEF TypeOK, Stages, Answers
<1>1. ASSUME NEW c \in Conns, NEW h \in Hosts, Connect(c, h) PROVE TypeOK'
  <2>1. \/ at' = [at EXCEPT ![c] = "tunnel"] \/ at' = [at EXCEPT ![c] = "handshake"]
        \/ at' = [at EXCEPT ![c] = "closed"]
    BY <1>1, Zenon DEF Connect, Go
  <2>2. at' \in [Conns -> Stages]
    BY <2>1
  <2>3. target' \in [Conns -> Hosts]
    BY <1>1 DEF Connect, Mapped
  <2> QED
    BY <1>1, <2>2, <2>3 DEF Connect, facts, conf
<1>2. ASSUME NEW c \in Conns, Handshake(c) PROVE TypeOK'
  BY <1>2 DEF Handshake, Fail, Go, facts, conf
<1>3. ASSUME NEW c \in Conns, Leave(c) PROVE TypeOK'
  BY <1>3 DEF Leave, Go, facts, conf
<1>4. ASSUME NEW c \in Conns, NEW e \in Ids, Read(c, e) PROVE TypeOK'
  <2>1. (IF c \in tls THEN target[c] ELSE HostOf[e]) \in Hosts
    OBVIOUS
  <2>2. \/ at' = [at EXCEPT ![c] = "upstream"] \/ at' = [at EXCEPT ![c] = "onRequest"]
        \/ at' = [at EXCEPT ![c] = "failing"]
    BY <1>4, Zenon DEF Read, Fail, Go
  <2>3. capture' \in [Ids -> BOOLEAN]
    BY <1>4 DEF Read
  <2>4. urlHost' \in [Ids -> Hosts]
    BY <1>4, <2>1 DEF Read
  <2>5. answer' \in [Ids -> Answers]
    BY <1>4 DEF Read
  <2>6. cur' = [cur EXCEPT ![c] = e] /\ UNCHANGED <<conf, tls, target, dialed, events>>
    BY <1>4, Zenon DEF Read
  <2>7. at' \in [Conns -> Stages]
    BY <2>2
  <2>8. cur' \in [Conns -> Ids \cup {NoId}]
    BY <2>6
  <2> QED
    BY <2>3, <2>4, <2>5, <2>6, <2>7, <2>8 DEF conf
<1>5. ASSUME NEW c \in Conns, NEW e \in Ids, Upgrade(c, e) PROVE TypeOK'
  <2>1. events' \in [Ids -> Seq(Event)]
    BY <1>5, Telling, Kinds DEF Upgrade
  <2>2. \/ at' = [at EXCEPT ![c] = "ws"] \/ at' = [at EXCEPT ![c] = "closed"]
        \/ at' = [at EXCEPT ![c] = "failing"]
    BY <1>5, Zenon DEF Upgrade, Fail, Go
  <2>3. /\ \/ answer' = answer \/ answer' = [answer EXCEPT ![e] = "switched"]
           \/ answer' = [answer EXCEPT ![e] = "response"]
        /\ cur' = cur \/ cur' = [cur EXCEPT ![c] = e]
    BY <1>5, Zenon DEF Upgrade
  <2>4. dialed' \in [Ids -> Hosts \cup {"none"}]
    BY <1>5 DEF Upgrade
  <2>5. at' \in [Conns -> Stages]
    BY <2>2
  <2>6. answer' \in [Ids -> Answers]
    BY <2>3
  <2>7. cur' \in [Conns -> Ids \cup {NoId}]
    <3>1. CASE cur' = cur
      BY <3>1
    <3>2. CASE cur' = [cur EXCEPT ![c] = e]
      BY <3>2
    <3> QED
      BY <2>3, <3>1, <3>2
  <2> QED
    BY <1>5, <2>1, <2>4, <2>5, <2>6, <2>7 DEF Upgrade, conf
<1>6. ASSUME NEW c \in Conns, OnRequest(c) PROVE TypeOK'
  <2>1. cur[c] \in Ids
    BY <1>6, Served1 DEF OnRequest, Serving
  <2>2. urlHost' = urlHost \/ \E h \in Hosts : urlHost' = [urlHost EXCEPT ![cur[c]] = h]
    BY <1>6, <2>1 DEF OnRequest
  <2>3. at' = [at EXCEPT ![c] = "execute"] \/ at' = [at EXCEPT ![c] = "failing"]
    BY <1>6, Zenon DEF OnRequest, Refuse, Fail, Go
  <2>4. answer' = answer \/ answer' = [answer EXCEPT ![cur[c]] = "refused"]
    BY <1>6, Zenon DEF OnRequest, Refuse
  <2>5. at' \in [Conns -> Stages]
    BY <2>3
  <2>7. answer' \in [Ids -> Answers]
    BY <2>1, <2>4
  <2>6. urlHost' \in [Ids -> Hosts]
    BY <2>1, <2>2
  <2> QED
    BY <1>6, <2>5, <2>6, <2>7 DEF OnRequest, conf
<1>7. ASSUME NEW c \in Conns, Execute(c) PROVE TypeOK'
  <2>1. cur[c] \in Ids
    BY <1>7, Served1 DEF Execute, Serving
  <2>2. events' \in [Ids -> Seq(Event)]
    BY <1>7, <2>1, Telling, Kinds DEF Execute
  <2>3. at' \in [Conns -> Stages] /\ answer' \in [Ids -> Answers]
    BY <1>7, <2>1 DEF Execute, Refuse, Served, Fail, Go
  <2> QED
    BY <1>7, <2>2, <2>3 DEF Execute, conf
<1>8. ASSUME NEW c \in Conns, Upstream(c) PROVE TypeOK'
  <2>1. cur[c] \in Ids
    BY <1>8, Served1 DEF Upstream, Serving
  <2>3. events' = events \/ Tell(cur[c], <<"response">>) \/ Tell(cur[c], <<"error">>)
    BY <1>8, Zenon DEF Upstream, Announce, Refuse
  <2>4. events' \in [Ids -> Seq(Event)]
    BY <2>1, <2>3, Telling, Kinds
  <2>5. at' \in [Conns -> Stages] /\ answer' \in [Ids -> Answers]
    BY <1>8, <2>1 DEF Upstream, Refuse, Fail, Go
  <2>6. dialed' \in [Ids -> Hosts \cup {"none"}]
    BY <1>8, <2>1 DEF Upstream
  <2> QED
    BY <1>8, <2>4, <2>5, <2>6 DEF Upstream, conf
<1>9. ASSUME NEW c \in Conns, Stream(c) \/ Relay(c) PROVE TypeOK'
  <2>1. cur[c] \in Ids
    BY <1>9, Served1 DEF Stream, Relay, Serving
  <2>2. events' \in [Ids -> Seq(Event)]
    BY <1>9, <2>1, Telling, Kinds DEF Stream, Relay
  <2>3. at' = at \/ at' = [at EXCEPT ![c] = "closed"] \/ at' = [at EXCEPT ![c] = "failing"]
    BY <1>9, Zenon DEF Stream, Relay, Fail, Go
  <2> QED
    BY <1>9, <2>2, <2>3 DEF Stream, Relay, conf
<1>10. ASSUME NEW c \in Conns, OnResponse(c) PROVE TypeOK'
  <2>1. cur[c] \in Ids
    BY <1>10, Served1 DEF OnResponse, Serving
  <2>2. events' \in [Ids -> Seq(Event)]
    BY <1>10, <2>1, Telling, Kinds DEF OnResponse
  <2>3. at' = [at EXCEPT ![c] = "reply"] \/ at' = [at EXCEPT ![c] = "failing"]
    BY <1>10, Zenon DEF OnResponse, Refuse, Fail, Go
  <2>4. answer' = answer \/ answer' = [answer EXCEPT ![cur[c]] = "refused"]
    BY <1>10, Zenon DEF OnResponse, Refuse
  <2>5. at' \in [Conns -> Stages]
    BY <2>3
  <2>6. answer' \in [Ids -> Answers]
    BY <2>1, <2>4
  <2> QED
    BY <1>10, <2>2, <2>5, <2>6 DEF OnResponse, conf
<1>11. ASSUME NEW c \in Conns, Reply(c) PROVE TypeOK'
  <2>1. cur[c] \in Ids
    BY <1>11, Served1 DEF Reply, Serving
  <2> QED
    BY <1>11, <2>1 DEF Reply, Served, Fail, Go, conf
<1>12. ASSUME NEW F \in Filters, SetFilter(F) PROVE TypeOK'
  BY <1>12 DEF SetFilter, facts
<1>13. ASSUME NEW m \in Mappings, SetHosts(m) PROVE TypeOK'
  BY <1>13 DEF SetHosts, facts
<1>14. ASSUME Stop PROVE TypeOK'
  BY <1>14 DEF Stop, facts
<1>15. ASSUME Phone PROVE TypeOK'
  BY <1>15 DEF Phone, facts
<1>16. ASSUME NEW c \in Conns, Client(c) PROVE TypeOK'
  BY <1>16 DEF Client, facts
<1>17. ASSUME NEW c \in Conns, Report(c) PROVE TypeOK'
  BY <1>17 DEF Report, Go, facts, conf
<1>18. ASSUME UNCHANGED vars PROVE TypeOK'
  BY <1>18 DEF vars
<1> QED
  BY <1>1, <1>2, <1>3, <1>4, <1>5, <1>6, <1>7, <1>8, <1>9, <1>10, <1>11, <1>12, <1>13, <1>14, <1>15, <1>16, <1>17,
     <1>18 DEF Next, Serve

-----------------------------------------------------------------------------
(* Steps of a connection                                                   *)

\* A step of connection c that concerns exchange e leaves the others alone: it
\* either goes on with the exchange it has, or takes e after it has read e.
Local(c, e) ==
    /\ ConnOf[e] = c
    /\ \A d \in Conns \ {c} : at'[d] = at[d] /\ cur'[d] = cur[d]
    /\ cur'[c] = cur[c] \/ (at[c] = "read" /\ cur'[c] = e)
    /\ \A f \in Ids \ {e} : /\ capture'[f] = capture[f] /\ dialed'[f] = dialed[f]
                            /\ answer'[f] = answer[f] /\ events'[f] = events[f]

\* After such a step the invariant has to be shown of c and e only.
LEMMA Elsewhere ==
  ASSUME TypeOK, TypeOK', ExchangeInv, NEW c \in Conns, NEW e \in Ids, Local(c, e),
         StageInv(c)', EventInv(e)'
  PROVE  ExchangeInv'
<1> USE ExchangeAssumption
<1>1. ASSUME NEW d \in Conns, d # c PROVE StageInv(d)'
  <2>1. StageInv(d) /\ at'[d] = at[d] /\ cur'[d] = cur[d]
    BY <1>1 DEF Local, ExchangeInv
  <2>2. cur[d] \in Ids \cup {NoId}
    BY DEF TypeOK
  <2>3. CASE cur[d] = NoId
    BY <2>1, <2>3 DEF StageInv, Serving
  <2>4. CASE cur[d] # NoId
    <3>1. cur[d] \in Ids \ {e}
      BY <1>1, <2>1, <2>2, <2>4 DEF StageInv, Local
    <3> QED
      BY <2>1, <3>1 DEF StageInv, Replied, Unsent, Heard, Local
  <2> QED
    BY <2>3, <2>4
<1>2. ASSUME NEW f \in Ids, f # e PROVE EventInv(f)'
  <2>1. EventInv(f) /\ StageInv(c)
    BY DEF ExchangeInv
  <2>2. /\ capture'[f] = capture[f] /\ dialed'[f] = dialed[f]
        /\ answer'[f] = answer[f] /\ events'[f] = events[f]
    BY <1>2 DEF Local
  <2>3. ASSUME Unsent(f)', \A d \in Conns : cur'[d] # f PROVE ~ capture'[f]
    <3>1. Unsent(f)
      BY <2>2, <2>3 DEF Unsent, Heard
    <3>2. ASSUME NEW d \in Conns PROVE cur[d] # f
      BY <1>2, <2>1, <2>3, <3>1 DEF Local, StageInv, Replied, Unsent, TypeOK
    <3> QED
      BY <2>1, <2>2, <3>1, <3>2 DEF EventInv
  <2> QED
    BY <2>1, <2>2, <2>3 DEF EventInv
<1> QED
  BY <1>1, <1>2 DEF ExchangeInv

\* A step that concerns no exchange: the settings, a tunnel, a connection that
\* ends.  A connection may go to a stage that serves nothing, and to reading only
\* from the handshake or where it was reading.
LEMMA Nothing ==
  ASSUME TypeOK, ExchangeInv, UNCHANGED <<cur, facts>>,
         \A c \in Conns : \/ at'[c] = at[c]
                          \/ at'[c] \in {"closed", "tunnel", "failing"}
                          \/ at[c] \in {"read", "handshake"} /\ at'[c] \in {"read", "handshake"}
  PROVE  ExchangeInv'
<1>1. ASSUME NEW c \in Conns PROVE StageInv(c)'
  <2>1. StageInv(c)
    BY DEF ExchangeInv
  <2>2. CASE at'[c] = at[c]
    BY <2>1, <2>2 DEF StageInv, Replied, Unsent, Heard, facts
  <2>3. CASE at'[c] \in {"closed", "tunnel", "failing"}
    BY <2>1, <2>3 DEF StageInv, Serving, facts
  <2>4. CASE at[c] \in {"read", "handshake"} /\ at'[c] \in {"read", "handshake"}
    BY <2>1, <2>4 DEF StageInv, Replied, Serving, facts
  <2> QED
    BY <2>2, <2>3, <2>4
<1>2. ASSUME NEW e \in Ids PROVE EventInv(e)'
  BY DEF ExchangeInv, EventInv, Unsent, Heard, facts
<1> QED
  BY <1>1, <1>2 DEF ExchangeInv

\* Where a step takes its connection, and how it answers.
LEMMA Going ==
  ASSUME TypeOK, NEW c \in Conns, NEW x, Go(c, x)
  PROVE  at'[c] = x /\ \A d \in Conns \ {c} : at'[d] = at[d]
BY DEF TypeOK, Go

LEMMA Answering ==
  ASSUME TypeOK, NEW e \in Ids, NEW a, answer' = [answer EXCEPT ![e] = a]
  PROVE  answer'[e] = a /\ \A f \in Ids \ {e} : answer'[f] = answer[f]
BY DEF TypeOK

LEMMA Dialing ==
  ASSUME TypeOK, NEW e \in Ids, NEW h, dialed' = [dialed EXCEPT ![e] = h]
  PROVE  dialed'[e] = h /\ \A f \in Ids \ {e} : dialed'[f] = dialed[f]
BY DEF TypeOK

LEMMA Refusing ==
  ASSUME TypeOK, NEW c \in Conns, NEW e \in Ids, e = cur[c], Refuse(c)
  PROVE  /\ at'[c] = "failing" /\ \A d \in Conns \ {c} : at'[d] = at[d]
         /\ answer'[e] = "refused" /\ \A f \in Ids \ {e} : answer'[f] = answer[f]
<1>1. Go(c, "failing") /\ answer' = [answer EXCEPT ![e] = "refused"]
  BY Zenon DEF Refuse, Fail
<1>2. at'[c] = "failing" /\ \A d \in Conns \ {c} : at'[d] = at[d]
  BY <1>1, Going
<1>3. answer'[e] = "refused" /\ \A f \in Ids \ {e} : answer'[f] = answer[f]
  BY <1>1, Answering
<1> QED
  BY <1>2, <1>3

\* Telling one event more.
LEMMA Telling1 ==
  ASSUME TypeOK, NEW e \in Ids, NEW x \in Event, Tell(e, <<x>>)
  PROVE  /\ \A f \in Ids \ {e} : events'[f] = events[f]
         /\ Len(events[e]) \in Nat /\ DOMAIN events[e] = 1 .. Len(events[e])
         /\ Len(events'[e]) = Len(events[e]) + 1
         /\ DOMAIN events'[e] = 1 .. (Len(events[e]) + 1)
         /\ \A i \in 1 .. Len(events[e]) : events'[e][i] = events[e][i]
         /\ events'[e][Len(events[e]) + 1] = x
<1> DEFINE s == events[e]
           n == Len(s)
           u == s \o <<x>>
<1>1. events \in [Ids -> Seq(Event)] /\ s \in Seq(Event) /\ <<x>> \in Seq(Event)
  BY DEF TypeOK
<1>2. events' = [events EXCEPT ![e] = u]
  BY DEF Tell
<1>3. events'[e] = u /\ \A f \in Ids \ {e} : events'[f] = events[f]
  BY <1>1, <1>2
<1>4. /\ n \in Nat /\ DOMAIN s = 1 .. n
      /\ Len(u) = n + 1 /\ DOMAIN u = 1 .. (n + 1)
      /\ \A i \in 1 .. n : u[i] = s[i]
      /\ u[n + 1] = x
  <2> HIDE DEF s
  <2> QED
    BY <1>1
<1> QED
  BY <1>3, <1>4

\* The first event told of an exchange, and the second.
LEMMA FirstTold ==
  ASSUME TypeOK, NEW e \in Ids, Heard(e, 0), NEW x \in Event, Tell(e, <<x>>)
  PROVE  /\ \A f \in Ids \ {e} : events'[f] = events[f]
         /\ Len(events'[e]) = 1 /\ DOMAIN events'[e] = 1 .. 1 /\ events'[e][1] = x
<1>1. Len(events[e]) = 0
  BY DEF Heard
<1>2. /\ \A f \in Ids \ {e} : events'[f] = events[f]
      /\ Len(events'[e]) = Len(events[e]) + 1 /\ DOMAIN events'[e] = 1 .. (Len(events[e]) + 1)
      /\ events'[e][Len(events[e]) + 1] = x
  BY Telling1
<1> QED
  BY <1>1, <1>2

LEMMA SecondTold ==
  ASSUME TypeOK, NEW e \in Ids, Heard(e, 1), NEW x \in Event, Tell(e, <<x>>)
  PROVE  /\ \A f \in Ids \ {e} : events'[f] = events[f]
         /\ Len(events'[e]) = 2 /\ DOMAIN events'[e] = 1 .. 2
         /\ events'[e][1] = "request" /\ events'[e][2] = x
<1>1. Len(events[e]) = 1 /\ events[e][1] = "request"
  BY DEF Heard
<1>2. /\ \A f \in Ids \ {e} : events'[f] = events[f]
      /\ Len(events'[e]) = Len(events[e]) + 1 /\ DOMAIN events'[e] = 1 .. (Len(events[e]) + 1)
      /\ \A i \in 1 .. Len(events[e]) : events'[e][i] = events[e][i]
      /\ events'[e][Len(events[e]) + 1] = x
  BY Telling1
<1>3. events'[e][1] = events[e][1]
  BY <1>1, <1>2
<1> QED
  BY <1>1, <1>2, <1>3

\* Telling a request and its response at once of an exchange nothing was told of.
LEMMA Telling2 ==
  ASSUME TypeOK, NEW e \in Ids, Heard(e, 0), Tell(e, <<"request", "response">>)
  PROVE  /\ \A f \in Ids \ {e} : events'[f] = events[f]
         /\ Len(events'[e]) = 2 /\ DOMAIN events'[e] = 1 .. 2
         /\ events'[e][1] = "request" /\ events'[e][2] = "response"
<1> DEFINE s == events[e]
           u == s \o <<"request", "response">>
<1>1. events \in [Ids -> Seq(Event)] /\ s \in Seq(Event) /\ Len(s) = 0
  BY DEF TypeOK, Heard
<1>2. events' = [events EXCEPT ![e] = u]
  BY DEF Tell
<1>3. events'[e] = u /\ \A f \in Ids \ {e} : events'[f] = events[f]
  BY <1>1, <1>2
<1>4. Len(u) = 2 /\ DOMAIN u = 1 .. 2 /\ u[1] = "request" /\ u[2] = "response"
  <2> HIDE DEF s
  <2> QED
    BY <1>1
<1> QED
  BY <1>3, <1>4

\* The chain's OnRequest goes on with an exchange of which nothing is known, or
\* refuses it.
LEMMA OnRequestInv ==
  ASSUME TypeOK, TypeOK', ExchangeInv, NEW c \in Conns, OnRequest(c)
  PROVE  ExchangeInv'
<1>1. PICK e \in Ids : e = cur[c] /\ ConnOf[e] = c /\ at[c] = "onRequest"
  BY Served1 DEF OnRequest, Serving
<1>2. StageInv(c) /\ EventInv(e)
  BY <1>1 DEF ExchangeInv
<1>3. UNCHANGED <<cur, capture, dialed, events>>
  BY Zenon DEF OnRequest
<1>4. CASE Go(c, "execute") /\ answer' = answer
  <2>1. Local(c, e)
    BY <1>1, <1>3, <1>4, Going DEF Local
  <2>2. StageInv(c)' /\ EventInv(e)'
    BY <1>1, <1>2, <1>3, <1>4, Going DEF StageInv, EventInv, Unsent, Heard, Serving
  <2> QED
    BY <1>1, <2>1, <2>2, Elsewhere
<1>5. CASE Refuse(c)
  <2>1. at'[c] = "failing" /\ answer'[e] = "refused" /\ Local(c, e)
    BY <1>1, <1>3, <1>5, Refusing DEF Local
  <2>2. StageInv(c)' /\ EventInv(e)'
    BY <1>1, <1>2, <1>3, <2>1 DEF StageInv, EventInv, Unsent, Heard, Serving
  <2> QED
    BY <1>1, <2>1, <2>2, Elsewhere
<1> QED
  BY <1>4, <1>5, Zenon DEF OnRequest

\* Execute answers the exchange itself, refuses it, or tells the listeners of the
\* request that goes on.
LEMMA ExecuteInv ==
  ASSUME TypeOK, TypeOK', ExchangeInv, NEW c \in Conns, Execute(c)
  PROVE  ExchangeInv'
<1>1. PICK e \in Ids : e = cur[c] /\ ConnOf[e] = c /\ at[c] = "execute"
  BY Served1 DEF Execute, Serving
<1>2. StageInv(c) /\ EventInv(e)
  BY <1>1 DEF ExchangeInv
<1>3. UNCHANGED <<cur, capture, dialed>>
  BY Zenon DEF Execute
<1>4. capture[e] /\ answer[e] = "none" /\ dialed[e] = "none" /\ Heard(e, 0)
  BY <1>1, <1>2 DEF StageInv, Unsent
<1>5. ASSUME NEW a \in {"mock", "lost"}, Served(c),
             Tell(e, <<"request", "response">>), answer' = [answer EXCEPT ![e] = a]
      PROVE  ExchangeInv'
  <2>1. at'[c] \in {"read", "closed"} /\ \A d \in Conns \ {c} : at'[d] = at[d]
    BY <1>5, Going DEF Served
  <2>2. answer'[e] = a /\ \A f \in Ids \ {e} : answer'[f] = answer[f]
    BY <1>5, Answering
  <2>3. Local(c, e)
    BY <1>1, <1>3, <1>4, <1>5, <2>1, <2>2, Telling2 DEF Local
  <2>4. StageInv(c)'
    <3>1. Replied(e)'
      BY <1>3, <1>4, <1>5, <2>2 DEF Replied
    <3> QED
      BY <1>1, <1>2, <1>3, <2>1, <3>1 DEF StageInv, Serving
  <2>5. EventInv(e)'
    BY <1>3, <1>4, <1>5, <2>2, Telling2 DEF EventInv, Unsent
  <2> QED
    BY <1>1, <2>3, <2>4, <2>5, Elsewhere
<1>6. CASE Refuse(c) /\ UNCHANGED events
  <2>1. at'[c] = "failing" /\ answer'[e] = "refused" /\ Local(c, e)
    BY <1>1, <1>3, <1>6, Refusing DEF Local
  <2>2. StageInv(c)' /\ EventInv(e)'
    BY <1>1, <1>2, <1>3, <1>6, <2>1 DEF StageInv, EventInv, Unsent, Heard, Serving
  <2> QED
    BY <1>1, <2>1, <2>2, Elsewhere
<1>7. CASE Tell(e, <<"request">>) /\ Go(c, "upstream") /\ UNCHANGED answer
  <2>1. at'[c] = "upstream" /\ \A d \in Conns \ {c} : at'[d] = at[d]
    BY <1>7, Going
  <2>2. "request" \in Event
    BY DEF Event
  <2>3. /\ \A f \in Ids \ {e} : events'[f] = events[f]
        /\ Len(events'[e]) = 1 /\ DOMAIN events'[e] = 1 .. 1 /\ events'[e][1] = "request"
    BY <1>4, <1>7, <2>2, FirstTold
  <2>4. Local(c, e)
    BY <1>1, <1>3, <1>7, <2>1, <2>3 DEF Local
  <2>5. StageInv(c)'
    BY <1>1, <1>2, <1>3, <1>4, <1>7, <2>1, <2>3 DEF StageInv, Serving, Heard
  <2>6. EventInv(e)'
    BY <1>3, <1>4, <1>7, <2>3 DEF EventInv, Unsent, Heard
  <2> QED
    BY <1>1, <2>4, <2>5, <2>6, Elsewhere
<1> QED
  BY <1>1, <1>5, <1>6, <1>7, Zenon DEF Execute

\* The chain's OnResponse, then one response told.
LEMMA OnResponseInv ==
  ASSUME TypeOK, TypeOK', ExchangeInv, NEW c \in Conns, OnResponse(c)
  PROVE  ExchangeInv'
<1>1. PICK e \in Ids : e = cur[c] /\ ConnOf[e] = c /\ at[c] = "onResponse"
  BY Served1 DEF OnResponse, Serving
<1>2. StageInv(c) /\ EventInv(e)
  BY <1>1 DEF ExchangeInv
<1>3. UNCHANGED <<cur, capture, dialed>>
  BY Zenon DEF OnResponse
<1>4. capture[e] /\ answer[e] = "none" /\ Heard(e, 1)
  BY <1>1, <1>2 DEF StageInv
<1>5. CASE Tell(e, <<"response">>) /\ Go(c, "reply") /\ UNCHANGED answer
  <2>1. at'[c] = "reply" /\ \A d \in Conns \ {c} : at'[d] = at[d]
    BY <1>5, Going
  <2>2. "response" \in Event
    BY DEF Event
  <2>3. /\ \A f \in Ids \ {e} : events'[f] = events[f]
        /\ Len(events'[e]) = 2 /\ DOMAIN events'[e] = 1 .. 2
        /\ events'[e][1] = "request" /\ events'[e][2] = "response"
    BY <1>4, <1>5, <2>2, SecondTold
  <2>4. Local(c, e)
    BY <1>1, <1>3, <1>5, <2>1, <2>3 DEF Local
  <2>5. StageInv(c)'
    BY <1>1, <1>2, <1>3, <1>4, <1>5, <2>1, <2>3 DEF StageInv, Serving, Heard
  <2>6. EventInv(e)'
    BY <1>3, <1>4, <1>5, <2>3 DEF EventInv, Unsent, Heard
  <2> QED
    BY <1>1, <2>4, <2>5, <2>6, Elsewhere
<1>6. CASE Refuse(c) /\ UNCHANGED events
  <2>1. at'[c] = "failing" /\ answer'[e] = "refused" /\ Local(c, e)
    BY <1>1, <1>3, <1>6, Refusing DEF Local
  <2>2. StageInv(c)' /\ EventInv(e)'
    BY <1>1, <1>2, <1>3, <1>6, <2>1 DEF StageInv, EventInv, Unsent, Heard, Serving
  <2> QED
    BY <1>1, <2>1, <2>2, Elsewhere
<1> QED
  BY <1>1, <1>5, <1>6, Zenon DEF OnResponse

\* The reply is written, or the connection closes without it.
LEMMA ReplyInv ==
  ASSUME TypeOK, TypeOK', ExchangeInv, NEW c \in Conns, Reply(c)
  PROVE  ExchangeInv'
<1>1. PICK e \in Ids : e = cur[c] /\ ConnOf[e] = c /\ at[c] = "reply"
  BY Served1 DEF Reply, Serving
<1>2. StageInv(c) /\ EventInv(e)
  BY <1>1 DEF ExchangeInv
<1>3. UNCHANGED <<cur, capture, dialed, events>>
  BY Zenon DEF Reply
<1>4. \/ answer' = [answer EXCEPT ![e] = "response"] /\ Served(c)
      \/ Go(c, "failing") /\ UNCHANGED answer
  BY <1>1, Zenon DEF Reply, Fail
<1>5. /\ at'[c] \in {"read", "closed", "failing"} /\ \A d \in Conns \ {c} : at'[d] = at[d]
      /\ at'[c] = "read" => answer'[e] = "response"
      /\ answer'[e] \in {"none", "response"} /\ \A f \in Ids \ {e} : answer'[f] = answer[f]
  <2>1. CASE answer' = [answer EXCEPT ![e] = "response"] /\ Served(c)
    <3>1. at'[c] \in {"read", "closed"} /\ \A d \in Conns \ {c} : at'[d] = at[d]
      BY <2>1, Going DEF Served
    <3>2. answer'[e] = "response" /\ \A f \in Ids \ {e} : answer'[f] = answer[f]
      BY <2>1, Answering
    <3> QED
      BY <3>1, <3>2
  <2>2. CASE Go(c, "failing") /\ UNCHANGED answer
    <3>1. at'[c] = "failing" /\ \A d \in Conns \ {c} : at'[d] = at[d]
      BY <2>2, Going
    <3>2. answer[e] = "none"
      BY <1>1, <1>2 DEF StageInv
    <3> QED
      BY <2>2, <3>1, <3>2
  <2> QED
    BY <1>4, <2>1, <2>2
<1>6. Local(c, e)
  BY <1>1, <1>3, <1>5 DEF Local
<1>7. StageInv(c)' /\ EventInv(e)'
  BY <1>1, <1>2, <1>3, <1>5 DEF StageInv, EventInv, Replied, Unsent, Heard, Serving
<1> QED
  BY <1>1, <1>6, <1>7, Elsewhere

\* A frame of a stream or of a WebSocket, of which at least two events were told.
LEMMA FrameInv ==
  ASSUME TypeOK, TypeOK', ExchangeInv, NEW c \in Conns, Stream(c) \/ Relay(c)
  PROVE  ExchangeInv'
<1>1. PICK e \in Ids : e = cur[c] /\ ConnOf[e] = c /\ at[c] \in {"stream", "ws"}
  BY Served1 DEF Stream, Relay, Serving
<1>2. StageInv(c) /\ EventInv(e)
  BY <1>1 DEF ExchangeInv
<1>3. UNCHANGED <<cur, capture, dialed, answer>>
  BY Zenon DEF Stream, Relay
<1>4. CASE Tell(e, <<"frame">>) /\ UNCHANGED at
  <2>1. "frame" \in Event
    BY DEF Event
  <2>2. /\ \A f \in Ids \ {e} : events'[f] = events[f]
        /\ Len(events[e]) \in Nat /\ DOMAIN events[e] = 1 .. Len(events[e])
        /\ Len(events'[e]) = Len(events[e]) + 1
        /\ DOMAIN events'[e] = 1 .. (Len(events[e]) + 1)
        /\ \A i \in 1 .. Len(events[e]) : events'[e][i] = events[e][i]
        /\ events'[e][Len(events[e]) + 1] = "frame"
    BY <1>4, <2>1, Telling1
  <2>3. Local(c, e)
    BY <1>1, <1>3, <1>4, <2>2 DEF Local
  <2>4. StageInv(c)'
    BY <1>1, <1>2, <1>3, <1>4, <2>2 DEF StageInv, Serving
  <2>5. ASSUME NEW i \in DOMAIN events'[e], events'[e][i] \in {"request", "response"}
        PROVE  i \in DOMAIN events[e] /\ events'[e][i] = events[e][i] /\ events'[e][1] = events[e][1]
    BY <2>2, <2>5
  <2>6. answer[e] # "none"
    BY <1>1, <1>2 DEF StageInv
  <2>7. Len(events[e]) >= 1 => events'[e][1] = events[e][1]
    BY <2>2
  <2>8. EventInv(e)'
    BY <1>2, <1>3, <2>2, <2>5, <2>6, <2>7 DEF EventInv, Unsent
  <2> QED
    BY <1>1, <2>3, <2>4, <2>8, Elsewhere
<1>5. CASE (Go(c, "closed") \/ Go(c, "failing")) /\ UNCHANGED events
  <2>1. at'[c] \in {"closed", "failing"} /\ Local(c, e)
    BY <1>1, <1>3, <1>5, Going DEF Local
  <2>2. StageInv(c)' /\ EventInv(e)'
    BY <1>1, <1>2, <1>3, <1>5, <2>1 DEF StageInv, EventInv, Unsent, Heard, Serving
  <2> QED
    BY <1>1, <2>1, <2>2, Elsewhere
<1> QED
  BY <1>1, <1>4, <1>5, Zenon DEF Stream, Relay, Fail

\* What the upstream step tells of its response: nothing, the response of a
\* captured exchange, or an error.
LEMMA UpstreamInv ==
  ASSUME TypeOK, TypeOK', ExchangeInv, NEW c \in Conns, Upstream(c)
  PROVE  ExchangeInv'
<1>1. PICK e \in Ids : e = cur[c] /\ ConnOf[e] = c /\ at[c] = "upstream"
  BY Served1 DEF Upstream, Serving
<1>2. StageInv(c) /\ EventInv(e)
  BY <1>1 DEF ExchangeInv
<1>3. UNCHANGED <<cur, capture>> /\ dialed' = [dialed EXCEPT ![e] = urlHost[e]]
  BY <1>1, Zenon DEF Upstream
<1>4. \A f \in Ids \ {e} : dialed'[f] = dialed[f]
  BY <1>3 DEF TypeOK
<1>5. answer[e] = "none" /\ Heard(e, IF capture[e] THEN 1 ELSE 0) /\ capture[e] \in BOOLEAN
  BY <1>1, <1>2 DEF StageInv, TypeOK
<1>6. ASSUME Announce(e)
      PROVE  /\ \A f \in Ids \ {e} : events'[f] = events[f]
             /\ Heard(e, IF capture[e] THEN 2 ELSE 0)'
             /\ DOMAIN events'[e] = 1 .. (IF capture[e] THEN 2 ELSE 0)
  <2>1. CASE capture[e]
    <3>1. "response" \in Event /\ Tell(e, <<"response">>) /\ Heard(e, 1)
      BY <1>5, <1>6, <2>1 DEF Event, Announce
    <3>2. /\ \A f \in Ids \ {e} : events'[f] = events[f]
          /\ Len(events'[e]) = 2 /\ DOMAIN events'[e] = 1 .. 2
          /\ events'[e][1] = "request" /\ events'[e][2] = "response"
      BY <3>1, SecondTold
    <3> QED
      BY <1>3, <2>1, <3>2 DEF Heard
  <2>2. CASE ~ capture[e]
    <3>1. events' = events /\ events[e] \in Seq(Event) /\ Len(events[e]) = 0
      BY <1>5, <1>6, <2>2 DEF Announce, Heard, TypeOK
    <3>3. events'[e] = <<>> /\ \A f \in Ids \ {e} : events'[f] = events[f]
      BY <3>1
    <3> QED
      BY <1>3, <2>2, <3>3 DEF Heard
  <2> QED
    BY <2>1, <2>2
<1>7. CASE Tell(e, <<"error">>) /\ Go(c, "failing") /\ UNCHANGED answer
  <2>1. at'[c] = "failing" /\ \A d \in Conns \ {c} : at'[d] = at[d]
    BY <1>7, Going
  <2>2. "error" \in Event
    BY DEF Event
  <2>3. Local(c, e) /\ StageInv(c)'
    BY <1>1, <1>2, <1>3, <1>4, <1>7, <2>1, <2>2, Telling1 DEF Local, StageInv, Serving
  <2>4. EventInv(e)'
    <3>1. CASE capture[e]
      <4>1. Heard(e, 1)
        BY <1>5, <3>1
      <4>2. /\ Len(events'[e]) = 2 /\ DOMAIN events'[e] = 1 .. 2
            /\ events'[e][1] = "request" /\ events'[e][2] = "error"
        BY <1>7, <2>2, <4>1, SecondTold
      <4> QED
        BY <1>3, <3>1, <4>2 DEF EventInv, Unsent, Heard
    <3>2. CASE ~ capture[e]
      <4>1. Heard(e, 0)
        BY <1>5, <3>2
      <4>2. Len(events'[e]) = 1 /\ DOMAIN events'[e] = 1 .. 1 /\ events'[e][1] = "error"
        BY <1>7, <2>2, <4>1, FirstTold
      <4> QED
        BY <1>3, <3>2, <4>2 DEF EventInv, Unsent, Heard
    <3> QED
      BY <3>1, <3>2
  <2> QED
    BY <1>1, <2>3, <2>4, Elsewhere
<1>8. CASE Announce(e) /\ answer' = [answer EXCEPT ![e] = "stream"] /\ Go(c, "stream")
  <2>1. at'[c] = "stream" /\ \A d \in Conns \ {c} : at'[d] = at[d]
    BY <1>8, Going
  <2>2. answer'[e] = "stream" /\ \A f \in Ids \ {e} : answer'[f] = answer[f]
    BY <1>8, Answering
  <2>3. Local(c, e)
    BY <1>1, <1>3, <1>4, <1>6, <1>8, <2>1, <2>2 DEF Local
  <2>4. StageInv(c)'
    BY <1>1, <1>2, <1>3, <1>6, <1>8, <2>1, <2>2 DEF StageInv, Serving, Heard
  <2>5. EventInv(e)'
    BY <1>3, <1>5, <1>6, <1>8, <2>2 DEF EventInv, Unsent, Heard
  <2> QED
    BY <1>1, <2>3, <2>4, <2>5, Elsewhere
<1>9. CASE Refuse(c) /\ UNCHANGED events
  <2>1. at'[c] = "failing" /\ answer'[e] = "refused" /\ Local(c, e)
    BY <1>1, <1>3, <1>4, <1>9, Refusing DEF Local
  <2>2. StageInv(c)'
    BY <1>1, <1>2, <1>3, <1>9, <2>1 DEF StageInv, Serving
  <2>3. EventInv(e)'
    BY <1>2, <1>3, <1>5, <1>9, <2>1 DEF EventInv, Unsent, Heard
  <2> QED
    BY <1>1, <2>1, <2>2, <2>3, Elsewhere
<1>10. CASE Announce(e) /\ Go(c, "failing") /\ UNCHANGED answer
  <2>1. at'[c] = "failing" /\ \A d \in Conns \ {c} : at'[d] = at[d]
    BY <1>10, Going
  <2>2. Local(c, e)
    BY <1>1, <1>3, <1>4, <1>6, <1>10, <2>1 DEF Local
  <2>3. StageInv(c)'
    BY <1>1, <1>2, <1>3, <2>1 DEF StageInv, Serving
  <2>4. EventInv(e)'
    BY <1>1, <1>3, <1>5, <1>6, <1>10 DEF EventInv, Unsent, Heard
  <2> QED
    BY <1>1, <2>2, <2>3, <2>4, Elsewhere
<1>11. CASE UNCHANGED <<answer, events>>
            /\ (Go(c, "failing") \/ Go(c, IF capture[e] THEN "onResponse" ELSE "reply"))
  <2>1. /\ at'[c] \in {"failing", IF capture[e] THEN "onResponse" ELSE "reply"}
        /\ \A d \in Conns \ {c} : at'[d] = at[d]
    BY <1>11, Going
  <2>2. Local(c, e)
    BY <1>1, <1>3, <1>4, <1>11, <2>1 DEF Local
  <2>3. StageInv(c)'
    BY <1>1, <1>2, <1>3, <1>5, <1>11, <2>1 DEF StageInv, Serving, Heard
  <2>4. EventInv(e)'
    BY <1>1, <1>2, <1>3, <1>5, <1>11 DEF EventInv, Unsent, Heard
  <2> QED
    BY <1>1, <2>2, <2>3, <2>4, Elsewhere
<1> QED
  BY <1>1, <1>7, <1>8, <1>9, <1>10, <1>11, Zenon DEF Upstream, Fail

\* A fresh exchange, and what is not known of it yet.
LEMMA FreshIs ==
  ASSUME TypeOK, ExchangeInv, NEW c \in Conns, NEW e \in Ids, Fresh(c, e)
  PROVE  /\ ConnOf[e] = c /\ \A d \in Conns : cur[d] # e
         /\ Unsent(e) /\ ~ capture[e] /\ events[e] = <<>> /\ DOMAIN events[e] = {}
<1>1. ConnOf[e] = c /\ (\A d \in Conns : cur[d] # e) /\ events[e] = <<>>
  BY DEF Fresh
<1>2. Unsent(e)
  BY DEF Fresh, Unsent, Heard
<1>3. DOMAIN events[e] = {}
  BY <1>1
<1>4. EventInv(e)
  BY DEF ExchangeInv
<1> QED
  BY <1>1, <1>2, <1>3, <1>4 DEF EventInv

\* Reading a request decides its capture for good.
LEMMA ReadInv ==
  ASSUME TypeOK, TypeOK', ExchangeInv, NEW c \in Conns, NEW e \in Ids, Read(c, e)
  PROVE  ExchangeInv'
<1> USE ExchangeAssumption
<1> DEFINE host == IF c \in tls THEN target[c] ELSE HostOf[e]
<1>1. at[c] = "read" /\ Fresh(c, e) /\ cur' = [cur EXCEPT ![c] = e] /\ UNCHANGED <<dialed, events>>
  BY Zenon DEF Read
<1>2. /\ ConnOf[e] = c /\ Unsent(e) /\ ~ capture[e] /\ events[e] = <<>> /\ DOMAIN events[e] = {}
  BY <1>1, FreshIs
<1>3. cur'[c] = e /\ \A d \in Conns \ {c} : cur'[d] = cur[d]
  BY <1>1 DEF TypeOK
<1>4. CASE /\ capture' = [capture EXCEPT ![e] = ~ Filtered(host)]
           /\ Go(c, IF Filtered(host) THEN "upstream" ELSE "onRequest")
           /\ UNCHANGED answer
  <2>1. /\ capture'[e] = ~ Filtered(host)
        /\ \A f \in Ids \ {e} : capture'[f] = capture[f]
    BY <1>4 DEF TypeOK
  <2>2. /\ at'[c] = (IF Filtered(host) THEN "upstream" ELSE "onRequest")
        /\ \A d \in Conns \ {c} : at'[d] = at[d]
    BY <1>4, Going
  <2>3. Local(c, e)
    BY <1>1, <1>2, <1>3, <1>4, <2>1, <2>2 DEF Local
  <2>4. StageInv(c)'
    <3>1. e # NoId /\ cur'[c] = e /\ ConnOf[e] = c /\ Unsent(e)'
      BY <1>1, <1>2, <1>3, <1>4 DEF Unsent, Heard
    <3>2. CASE Filtered(host)
      <4>1. at'[c] = "upstream" /\ ~ capture'[e]
        BY <2>1, <2>2, <3>2
      <4> QED
        BY <3>1, <4>1 DEF StageInv, Unsent, Heard
    <3>3. CASE ~ Filtered(host)
      <4>1. at'[c] = "onRequest" /\ capture'[e]
        BY <2>1, <2>2, <3>3
      <4> QED
        BY <3>1, <4>1 DEF StageInv
    <3> QED
      BY <3>2, <3>3
  <2>5. EventInv(e)'
    BY <1>1, <1>2, <1>3, <1>4, <2>1 DEF EventInv, Unsent, Heard
  <2> QED
    BY <2>3, <2>4, <2>5, Elsewhere
<1>5. CASE /\ answer' = answer \/ answer' = [answer EXCEPT ![e] = "refused"]
           /\ Go(c, "failing") /\ UNCHANGED capture
  <2>1. at'[c] = "failing" /\ \A d \in Conns \ {c} : at'[d] = at[d]
    BY <1>5, Going
  <2>2. \A f \in Ids \ {e} : answer'[f] = answer[f]
    BY <1>5, Answering
  <2>3. Local(c, e) /\ StageInv(c)'
    BY <1>1, <1>2, <1>3, <1>5, <2>1, <2>2 DEF Local, StageInv, Serving
  <2>4. EventInv(e)'
    BY <1>1, <1>2, <1>3, <1>5 DEF EventInv, Unsent, Heard
  <2> QED
    BY <2>3, <2>4, Elsewhere
<1> QED
  BY <1>4, <1>5, Zenon DEF Read, Fail

\* An upgrade is served as a WebSocket or closes, and was never to be captured.
LEMMA UpgradeInv ==
  ASSUME TypeOK, TypeOK', ExchangeInv, NEW c \in Conns, NEW e \in Ids, Upgrade(c, e)
  PROVE  ExchangeInv'
<1> USE ExchangeAssumption
<1>1. at[c] = "read" /\ Fresh(c, e) /\ UNCHANGED capture /\ dialed' = [dialed EXCEPT ![e] = HostOf[e]]
  BY Zenon DEF Upgrade
<1>2. /\ ConnOf[e] = c /\ Unsent(e) /\ ~ capture[e] /\ events[e] = <<>> /\ DOMAIN events[e] = {}
  BY <1>1, FreshIs
<1>4. \A f \in Ids \ {e} : dialed'[f] = dialed[f]
  BY <1>1 DEF TypeOK
<1>5. CASE /\ cur' = [cur EXCEPT ![c] = e] /\ Tell(e, <<"request", "response">>)
           /\ answer' = [answer EXCEPT ![e] = "switched"] /\ Go(c, "ws")
  <2>1. cur'[c] = e /\ \A d \in Conns \ {c} : cur'[d] = cur[d]
    BY <1>5 DEF TypeOK
  <2>2. at'[c] = "ws" /\ \A d \in Conns \ {c} : at'[d] = at[d]
    BY <1>5, Going
  <2>3. answer'[e] = "switched" /\ \A f \in Ids \ {e} : answer'[f] = answer[f]
    BY <1>5, Answering
  <2>4. Heard(e, 0)
    BY <1>2 DEF Unsent
  <2>5. /\ \A f \in Ids \ {e} : events'[f] = events[f]
        /\ Len(events'[e]) = 2 /\ DOMAIN events'[e] = 1 .. 2
        /\ events'[e][1] = "request" /\ events'[e][2] = "response"
    BY <1>5, <2>4, Telling2
  <2>6. Local(c, e)
    BY <1>1, <1>2, <1>4, <2>1, <2>2, <2>3, <2>5 DEF Local
  <2>7. StageInv(c)'
    <3>1. cur'[c] = e /\ at'[c] = "ws" /\ ConnOf[e] = c /\ answer'[e] = "switched"
      BY <1>2, <2>1, <2>2, <2>3
    <3>2. e # NoId /\ Len(events'[e]) >= 2
      BY <2>5
    <3> QED
      BY <3>1, <3>2 DEF StageInv
  <2>8. EventInv(e)'
    BY <1>1, <1>2, <2>3, <2>5 DEF EventInv, Unsent
  <2> QED
    BY <2>6, <2>7, <2>8, Elsewhere
<1>6. CASE /\ answer' = answer \/ answer' = [answer EXCEPT ![e] = "response"]
           /\ Go(c, "closed") \/ Go(c, "failing")
           /\ UNCHANGED <<cur, events>>
  <2>1. at'[c] \in {"closed", "failing"} /\ \A d \in Conns \ {c} : at'[d] = at[d]
    BY <1>6, Going
  <2>2. \A f \in Ids \ {e} : answer'[f] = answer[f]
    BY <1>6, Answering
  <2>3. StageInv(c)
    BY DEF ExchangeInv
  <2>4. Local(c, e) /\ StageInv(c)'
    BY <1>1, <1>2, <1>4, <1>6, <2>1, <2>2, <2>3 DEF Local, StageInv, Serving
  <2>5. EventInv(e)'
    BY <1>1, <1>2, <1>6 DEF EventInv
  <2> QED
    BY <2>4, <2>5, Elsewhere
<1> QED
  BY <1>5, <1>6, Zenon DEF Upgrade, Fail

-----------------------------------------------------------------------------
(* The specification                                                       *)

LEMMA InvInit == Init => TypeOK /\ ExchangeInv
<1> SUFFICES ASSUME Init PROVE TypeOK /\ ExchangeInv
  OBVIOUS
<1> USE ExchangeAssumption
<1>1. (CHOOSE h \in Hosts : TRUE) \in Hosts
  OBVIOUS
<1>2. target \in [Conns -> Hosts]
  BY <1>1 DEF Init
<1>3. events \in [Ids -> Seq(Event)]
  BY Kinds DEF Init
<1>4. TypeOK
  BY <1>2, <1>3 DEF Init, TypeOK, Stages, Answers
<1>5. ASSUME NEW c \in Conns PROVE StageInv(c)
  BY <1>5 DEF Init, StageInv, Serving
<1>6. ASSUME NEW e \in Ids PROVE EventInv(e)
  BY <1>6 DEF Init, EventInv
<1> QED
  BY <1>4, <1>5, <1>6 DEF ExchangeInv

LEMMA InvStep == TypeOK /\ ExchangeInv /\ [Next]_vars => TypeOK' /\ ExchangeInv'
<1> SUFFICES ASSUME TypeOK, ExchangeInv, [Next]_vars PROVE TypeOK' /\ ExchangeInv'
  OBVIOUS
<1>1. TypeOK'
  BY TypeStep
<1>2. ASSUME NEW c \in Conns, NEW h \in Hosts, Connect(c, h) PROVE ExchangeInv'
  <2>1. at[c] = "read" /\ UNCHANGED <<cur, facts>>
        /\ \/ Go(c, IF Filtered(h) \/ ~ decrypt THEN "tunnel" ELSE "handshake")
           \/ Go(c, "closed")
    BY <1>2, Zenon DEF Connect
  <2>2. at'[c] \in {"tunnel", "handshake", "closed"} /\ \A d \in Conns \ {c} : at'[d] = at[d]
    BY <2>1, Going
  <2> QED
    BY <2>1, <2>2, Nothing
<1>3. ASSUME NEW c \in Conns, Handshake(c) PROVE ExchangeInv'
  <2>1. at[c] = "handshake" /\ UNCHANGED <<cur, facts>> /\ (Go(c, "read") \/ Go(c, "failing"))
    BY <1>3, Zenon DEF Handshake, Fail
  <2>2. at'[c] \in {"read", "failing"} /\ \A d \in Conns \ {c} : at'[d] = at[d]
    BY <2>1, Going
  <2> QED
    BY <2>1, <2>2, Nothing
<1>4. ASSUME NEW c \in Conns, Leave(c) \/ Report(c) PROVE ExchangeInv'
  <2>1. UNCHANGED <<cur, facts>> /\ Go(c, "closed")
    BY <1>4, Zenon DEF Leave, Report
  <2>2. at'[c] = "closed" /\ \A d \in Conns \ {c} : at'[d] = at[d]
    BY <2>1, Going
  <2> QED
    BY <2>1, <2>2, Nothing
<1>5. ASSUME NEW c \in Conns, Serve(c) PROVE ExchangeInv'
  BY <1>1, <1>3, <1>4, <1>5, OnRequestInv, ExecuteInv, UpstreamInv, FrameInv, OnResponseInv, ReplyInv
     DEF Serve
<1>6. ASSUME NEW c \in Conns, NEW e \in Ids, Read(c, e) \/ Upgrade(c, e) PROVE ExchangeInv'
  BY <1>1, <1>6, ReadInv, UpgradeInv
<1>7. ASSUME UNCHANGED <<at, cur, facts>> PROVE ExchangeInv'
  BY <1>7, Nothing
<1>8. ASSUME NEW F \in Filters, SetFilter(F) PROVE ExchangeInv'
  BY <1>7, <1>8 DEF SetFilter
<1>9. ASSUME NEW m \in Mappings, SetHosts(m) PROVE ExchangeInv'
  BY <1>7, <1>9 DEF SetHosts
<1>10. ASSUME Stop PROVE ExchangeInv'
  BY <1>7, <1>10 DEF Stop
<1>11. ASSUME Phone \/ \E c \in Conns : Client(c) PROVE ExchangeInv'
  BY <1>7, <1>11, Zenon DEF Phone, Client
<1>12. ASSUME UNCHANGED vars PROVE ExchangeInv'
  BY <1>7, <1>12 DEF vars, facts
<1> QED
  BY <1>1, <1>2, <1>4, <1>5, <1>6, <1>8, <1>9, <1>10, <1>11, <1>12 DEF Next

\* Every state is well typed: each connection is at a stage, each target is a host,
\* and listeners are told only of requests, responses, frames and errors.
THEOREM TypeCorrect == Spec => []TypeOK
<1>1. Init => TypeOK /\ ExchangeInv
  BY InvInit
<1>2. TypeOK /\ ExchangeInv /\ [Next]_vars => TypeOK' /\ ExchangeInv'
  BY InvStep
<1> QED
  BY <1>1, <1>2, PTL DEF Spec

\* What a connection's stage knows of its exchange, and what the listeners were
\* told of every exchange, in every state.
THEOREM Invariance == Spec => []ExchangeInv
<1>1. Init => TypeOK /\ ExchangeInv
  BY InvInit
<1>2. TypeOK /\ ExchangeInv /\ [Next]_vars => TypeOK' /\ ExchangeInv'
  BY InvStep
<1> QED
  BY <1>1, <1>2, PTL DEF Spec

\* Whatever filters and mappings the user sets meanwhile, the listeners hear of a
\* whole exchange or of none: a request once and first, then its response once.
THEOREM CapturesAreWhole == Spec => []CaptureIsWhole
<1>1. TypeOK /\ ExchangeInv => CaptureIsWhole
  <2> SUFFICES ASSUME TypeOK, ExchangeInv, NEW e \in Ids
               PROVE  /\ AtMostOnce(e, "request") /\ AtMostOnce(e, "response")
                      /\ Told(e, "response") => events[e][1] = "request"
                      /\ ~ capture[e] /\ answer[e] # "switched" =>
                            ~ Told(e, "request") /\ ~ Told(e, "response")
    BY DEF CaptureIsWhole
  <2> QED
    BY DEF ExchangeInv, EventInv, AtMostOnce, Told, Places
<1> QED
  BY <1>1, TypeCorrect, Invariance, PTL

\* A captured request is told to the listeners before the transport is asked to
\* send it, so the traffic list misses nothing that left the machine.
THEOREM NothingUntold == Spec => []NothingLeavesUntold
<1>1. TypeOK /\ ExchangeInv => NothingLeavesUntold
  <2> SUFFICES ASSUME TypeOK, ExchangeInv, NEW e \in Ids, capture[e], dialed[e] # "none"
               PROVE  Told(e, "request")
    BY DEF NothingLeavesUntold
  <2>1. Len(events[e]) >= 1 /\ events[e][1] = "request" /\ events[e] \in Seq(Event)
    BY DEF ExchangeInv, EventInv, TypeOK
  <2>2. 1 \in DOMAIN events[e]
    BY <2>1
  <2> QED
    BY <2>1, <2>2 DEF Told, Places
<1> QED
  BY <1>1, TypeCorrect, Invariance, PTL

\* A keep-alive connection reads its next request only when the last got its whole
\* answer, or was answered here and its answer was lost; an exchange that was sent
\* upstream is never passed over.
THEOREM RepliesKeepOrder == Spec => []OnlyLocalRepliesAreLost
<1>1. ExchangeInv => OnlyLocalRepliesAreLost
  BY DEF ExchangeInv, StageInv, Replied, OnlyLocalRepliesAreLost
<1> QED
  BY <1>1, Invariance, PTL

\* A step answers or dials for one exchange at most, one that had no answer yet.
LEMMA OneAnswer ==
  ASSUME TypeOK, ExchangeInv, [Next]_vars
  PROVE  \/ UNCHANGED <<answer, dialed>>
         \/ \E e \in Ids : answer[e] = "none"
                           /\ \A f \in Ids \ {e} : answer'[f] = answer[f] /\ dialed'[f] = dialed[f]
<1> DEFINE P == \/ UNCHANGED <<answer, dialed>>
                \/ \E e \in Ids : answer[e] = "none"
                      /\ \A f \in Ids \ {e} : answer'[f] = answer[f] /\ dialed'[f] = dialed[f]
<1>1. ASSUME NEW e \in Ids, answer[e] = "none",
             dialed' = dialed \/ \E h : dialed' = [dialed EXCEPT ![e] = h],
             answer' = answer \/ \E a : answer' = [answer EXCEPT ![e] = a]
      PROVE  P
  <2>1. \A f \in Ids \ {e} : dialed'[f] = dialed[f]
    BY <1>1, Dialing
  <2>2. \A f \in Ids \ {e} : answer'[f] = answer[f]
    BY <1>1, Answering
  <2> QED
    BY <1>1, <2>1, <2>2
<1>2. ASSUME NEW c \in Conns, OnRequest(c) \/ Execute(c) \/ Upstream(c) \/ OnResponse(c) \/ Reply(c)
      PROVE  P
  <2>1. PICK e \in Ids : e = cur[c]
    BY <1>2, Served1 DEF OnRequest, Execute, Upstream, OnResponse, Reply, Serving
  <2>2. at[c] \in {"onRequest", "execute", "upstream", "onResponse", "reply"} /\ StageInv(c)
    BY <1>2 DEF ExchangeInv, OnRequest, Execute, Upstream, OnResponse, Reply
  <2>3. answer[e] = "none"
    BY <2>1, <2>2 DEF StageInv, Unsent
  <2>4. dialed' = dialed \/ \E h : dialed' = [dialed EXCEPT ![e] = h]
    BY <1>2, <2>1, Zenon DEF OnRequest, Execute, Upstream, OnResponse, Reply
  <2>5. answer' = answer \/ \E a : answer' = [answer EXCEPT ![e] = a]
    BY <1>2, <2>1, Zenon DEF OnRequest, Execute, Upstream, OnResponse, Reply, Refuse
  <2> QED
    BY <1>1, <2>3, <2>4, <2>5
<1>3. ASSUME NEW c \in Conns, NEW e \in Ids, Read(c, e) \/ Upgrade(c, e) PROVE P
  <2>1. answer[e] = "none"
    BY <1>3 DEF Read, Upgrade, Fresh
  <2>2. dialed' = dialed \/ \E h : dialed' = [dialed EXCEPT ![e] = h]
    BY <1>3, Zenon DEF Read, Upgrade
  <2>3. answer' = answer \/ \E a : answer' = [answer EXCEPT ![e] = a]
    <3>1. CASE Read(c, e)
      BY <3>1, Zenon DEF Read
    <3>2. CASE Upgrade(c, e)
      <4>1. \/ answer' = [answer EXCEPT ![e] = "switched"]
            \/ answer' \in {answer, [answer EXCEPT ![e] = "response"]}
        BY <3>2, Zenon DEF Upgrade
      <4> QED
        BY <4>1
    <3> QED
      BY <1>3, <3>1, <3>2
  <2> QED
    BY <1>1, <2>1, <2>2, <2>3
<1>4. ASSUME NEW c \in Conns,
             \/ Handshake(c) \/ Stream(c) \/ Relay(c) \/ Leave(c) \/ Report(c) \/ Client(c)
      PROVE P
  BY <1>4, Zenon DEF Handshake, Stream, Relay, Leave, Report, Client, facts
<1>5. ASSUME NEW c \in Conns, NEW h \in Hosts, Connect(c, h) PROVE P
  BY <1>5, Zenon DEF Connect, facts
<1>6. ASSUME NEW F \in Filters, SetFilter(F) PROVE P
  BY <1>6, Zenon DEF SetFilter, facts
<1>7. ASSUME NEW m \in Mappings, SetHosts(m) PROVE P
  BY <1>7, Zenon DEF SetHosts, facts
<1>8. ASSUME Stop \/ Phone PROVE P
  BY <1>8, Zenon DEF Stop, Phone, facts
<1>9. ASSUME UNCHANGED vars PROVE P
  BY <1>9 DEF vars
<1> HIDE DEF P
<1>10. P
  BY <1>2, <1>3, <1>4, <1>5, <1>6, <1>7, <1>8, <1>9 DEF Next, Serve
<1> QED
  BY <1>10 DEF P

\* What was answered here (mocked, blocked, refused) is not sent afterwards, and no
\* exchange is answered twice.
THEOREM AnswersAreFinal == Spec => AnsweredOnce
<1> DEFINE A == \A e \in Ids : answer[e] # "none" => answer'[e] = answer[e] /\ dialed'[e] = dialed[e]
<1>1. TypeOK /\ ExchangeInv /\ [Next]_vars => [A]_vars
  BY OneAnswer
<1> QED
  BY <1>1, TypeCorrect, Invariance, PTL DEF Spec, AnsweredOnce
=============================================================================
