------------------------------ MODULE Routing ------------------------------
(* How the app reaches the exchange: directly, or for read traffic through a   *)
(* pool of proxies (the edge worker) when the preference says so or the        *)
(* detected environment recommends it.  A proxy that fails is left alone for a *)
(* while by the requests and the clients made next.                            *)
(*                                                                             *)
(* An address is a record of its scheme, host and what follows the host,       *)
(* "bare" when nothing does: the cooldown table is keyed by address, the HTTP  *)
(* and the websocket transports write the same proxy differently, so what the  *)
(* conversions do matters.                                                     *)
EXTENDS Integers, Sequences, FiniteSets

CONSTANTS
  RouteUser,   \* wallet addresses, and "nobody", the empty one when no wallet is connected
  HashOf,      \* hashCode of each, a signed 32-bit number
  Delivered,   \* the proxy pool as the server sends it, a sequence of addresses
  CooldownLen, \* PROXY_COOLDOWN_MS
  MaxRtTime, MaxHttp, MaxWs, MaxRtTaps

ASSUME RoutingAssumption ==
  /\ HashOf \in [RouteUser -> Int] /\ "nobody" \in RouteUser
  /\ Delivered \in Seq([scheme : {"https"}, host : STRING, path : {"bare", "/"}])
  /\ CooldownLen \in Nat \ {0}
  /\ MaxRtTime \in Nat /\ MaxHttp \in Nat /\ MaxWs \in Nat /\ MaxRtTaps \in Nat

VARIABLES
  clockMs,       \* Date.now()
  mode,          \* the routing preference: "auto", "direct" or "proxy"
  user,          \* the wallet address in the session
  pool,          \* proxyPool of the runtime config
  recommended,   \* proxyRecommended
  startup,       \* "config", "probe" or "done"
  cooldownUntil, \* the cooldown table: addresses to times
  http,          \* requests in flight: the base they were sent to
  sockets,       \* websocket transports: their endpoint and their subscription
  failedAt,      \* when a request or a live subscription last failed, by proxy host
  lastSent,      \* host and time of the last request or new transport towards a proxy
  rtTaps         \* settings changed so far (bound)

routeVars == <<clockMs, mode, user, pool, recommended, startup, cooldownUntil, http, sockets,
               failedAt, lastSent, rtTaps>>
settings == <<mode, user, pool, recommended, startup>>

------------------------------------------------------------------------------
\* Addresses.

Host(scheme, host, path) == [scheme |-> scheme, host |-> host, path |-> path]
NoTrailingSlash(a) == IF a.path = "/" THEN [a EXCEPT !.path = "bare"] ELSE a

hlRestBase == Host("https", "hyperliquid", "bare")

\* resolveWsUrl's conversion of a base, https://host to wss://host/ws.
WsUrl(base) == Host("wss", base.host, "/ws")

\* Mutant: the key keeps the websocket's path.
wsToHttpBase_KeepsPath(a) == [a EXCEPT !.scheme = "https"]

\* The cooldown key of a websocket endpoint: wss to https, without /ws.
wsToHttpBase(a) == Host(IF a.scheme = "wss" THEN "https" ELSE a.scheme, a.host,
                        IF a.path = "/ws" THEN "bare" ELSE a.path)

------------------------------------------------------------------------------
\* The route.

Traffic == {"signedExchange", "readInfo", "privateWs", "publicWs"}
PROXY_ELIGIBLE(t) == t \in {"readInfo", "publicWs"}

\* The % of the source language: the remainder has the dividend's sign.
Remainder(a, n) == IF a >= 0 THEN a % n ELSE -((-a) % n)

\* The index of a user's proxy in a pool of n.
pickProxy(u, n) == Remainder(Remainder(HashOf[u], n) + n, n)

selectRoute(t) ==
  LET proxyLayer == mode = "proxy" \/ (mode = "auto" /\ recommended) IN
  IF proxyLayer /\ PROXY_ELIGIBLE(t) /\ pool # <<>>
  THEN [baseUrl |-> pool[pickProxy(user, Len(pool)) + 1], viaProxy |-> TRUE]
  ELSE [baseUrl |-> hlRestBase, viaProxy |-> FALSE]

isCoolingDown(a) == \E e \in cooldownUntil : e.key = a /\ clockMs < e.until

\* The address a class of traffic is sent to now.
routedBase(t) ==
  LET r == selectRoute(t) IN
  IF r.viaProxy /\ isCoolingDown(r.baseUrl) THEN hlRestBase ELSE r.baseUrl

\* The table once a has failed; entries that have run out are dropped when read.
markCooldown(a) ==
  {e \in cooldownUntil : e.key # a /\ clockMs < e.until}
    \cup {[key |-> a, until |-> clockMs + CooldownLen]}

\* A proxied answer that says the proxy failed: 429, a gateway error, or none.
isProxyFailure(outcome) == outcome \in {"throttled", "gateway", "none"}

------------------------------------------------------------------------------
NothingSent == [host |-> "none", at |-> 0, cooling |-> FALSE]

RoutingInit ==
  /\ clockMs = 0
  /\ mode \in {"auto", "direct", "proxy"}   \* hydrated from the device
  /\ user \in RouteUser
  /\ pool = <<>> /\ recommended = FALSE /\ startup = "config"
  /\ cooldownUntil = {}
  /\ http = {} /\ sockets = {}
  /\ failedAt = [h \in {Delivered[i].host : i \in 1..Len(Delivered)} |-> -CooldownLen]
  /\ lastSent = NothingSent
  /\ rtTaps = 0

\* The pool as loadAppConfig stores it, without trailing slashes.
loadAppConfig(p) == [i \in 1..Len(p) |-> NoTrailingSlash(p[i])]

\* The app starts: the runtime config arrives, or does not.
hydrateProxyPool ==
  /\ startup = "config"
  /\ pool' \in {<<>>, loadAppConfig(Delivered)}
  /\ startup' = "probe"
  /\ UNCHANGED <<clockMs, mode, user, recommended, cooldownUntil, http, sockets, failedAt,
                 lastSent, rtTaps>>

\* Then the environment is probed, once: the proxy is recommended in China when
\* the exchange does not answer directly.
detectRoutingEnv ==
  /\ startup = "probe"
  /\ \E isChina, directReachable \in BOOLEAN : recommended' = (isChina /\ ~directReachable)
  /\ startup' = "done"
  /\ UNCHANGED <<clockMs, mode, user, pool, cooldownUntil, http, sockets, failedAt, lastSent,
                 rtTaps>>

\* Settings, and the wallet.
setMode(m) ==
  /\ rtTaps < MaxRtTaps /\ rtTaps' = rtTaps + 1
  /\ m # mode /\ mode' = m
  /\ UNCHANGED <<clockMs, user, pool, recommended, startup, cooldownUntil, http, sockets,
                 failedAt, lastSent>>

setUser(u) ==
  /\ rtTaps < MaxRtTaps /\ rtTaps' = rtTaps + 1
  /\ u # user /\ user' = u
  /\ UNCHANGED <<clockMs, mode, pool, recommended, startup, cooldownUntil, http, sockets,
                 failedAt, lastSent>>

------------------------------------------------------------------------------
\* What is recorded of a request or a new transport that goes to an address.
Sends(a) ==
  lastSent' = IF a.host \in DOMAIN failedAt
              THEN [host |-> a.host, at |-> clockMs,
                    cooling |-> clockMs < failedAt[a.host] + CooldownLen]
              ELSE lastSent

\* RoutingHttpTransport.request: the base is resolved for every request.
request(id, t) ==
  /\ Cardinality(http) < MaxHttp /\ \A c \in http : c.id # id
  /\ t \in {"readInfo", "signedExchange"}
  /\ http' = http \cup {[id |-> id, base |-> routedBase(t)]}
  /\ Sends(routedBase(t))
  /\ UNCHANGED <<clockMs, settings, cooldownUntil, sockets, failedAt, rtTaps>>

\* Its outcome.  A proxy's failure is recorded, and the request goes out again
\* directly; anything else is the caller's answer.  "refused" is an error the
\* exchange itself gave.
outcome(c, o) ==
  /\ IF c.base # hlRestBase /\ isProxyFailure(o)
     THEN /\ cooldownUntil' = markCooldown(c.base)
          /\ failedAt' = [failedAt EXCEPT ![c.base.host] = clockMs]
          /\ http' = (http \ {c}) \cup {[c EXCEPT !.base = hlRestBase]}
     ELSE /\ http' = http \ {c}
          /\ UNCHANGED <<cooldownUntil, failedAt>>
  /\ UNCHANGED <<clockMs, settings, sockets, lastSent, rtTaps>>

\* RoutingWsTransport: the endpoint is resolved once, when the client is made, and
\* stays that of all its subscriptions.
connect(id, t) ==
  /\ \A w \in sockets : w.id # id
  /\ t \in {"publicWs", "privateWs"}
  /\ sockets' = sockets \cup {[id |-> id, wsUrl |-> WsUrl(NoTrailingSlash(routedBase(t))), sub |-> "none"]}
  /\ Sends(routedBase(t))
  /\ UNCHANGED <<clockMs, settings, cooldownUntil, http, failedAt, rtTaps>>

\* A client goes with the screen or the service it was made for.
dropClient(w) ==
  /\ sockets' = sockets \ {w}
  /\ UNCHANGED <<clockMs, settings, cooldownUntil, http, failedAt, lastSent, rtTaps>>

SubOf(w, st) == (sockets \ {w}) \cup {[w EXCEPT !.sub = st]}

\* subscribe goes to the transport's endpoint, cooling down or not; it resolves, and
\* only then is its failure signal listened to, or it throws and nothing is recorded.
wsSubscribe(w) ==
  /\ \/ w.sub = "none" /\ sockets' = SubOf(w, "asked")
     \/ w.sub = "asked" /\ \E st \in {"live", "none"} : sockets' = SubOf(w, st)
  /\ UNCHANGED <<clockMs, settings, cooldownUntil, http, failedAt, lastSent, rtTaps>>

\* A subscription's failure signal: a proxied endpoint goes into cooldown.
subscriptionFails(w) ==
  /\ w.sub = "live" /\ sockets' = SubOf(w, "none")
  /\ IF w.wsUrl # WsUrl(hlRestBase)
     THEN /\ cooldownUntil' = markCooldown(wsToHttpBase(w.wsUrl))
          /\ failedAt' = [failedAt EXCEPT ![w.wsUrl.host] = clockMs]
     ELSE UNCHANGED <<cooldownUntil, failedAt>>
  /\ UNCHANGED <<clockMs, settings, http, lastSent, rtTaps>>

tick ==
  /\ clockMs < MaxRtTime
  /\ clockMs' = clockMs + 1
  /\ UNCHANGED <<settings, cooldownUntil, http, sockets, failedAt, lastSent, rtTaps>>

RoutingNext ==
  \/ hydrateProxyPool \/ detectRoutingEnv
  \/ \E m \in {"auto", "direct", "proxy"} : setMode(m)
  \/ \E u \in RouteUser : setUser(u)
  \/ \E id \in 1..MaxHttp, t \in Traffic : request(id, t)
  \/ \E c \in http, o \in {"ok", "refused", "throttled", "gateway", "none"} : outcome(c, o)
  \/ \E id \in 1..MaxWs, t \in Traffic : connect(id, t)
  \/ \E w \in sockets : wsSubscribe(w) \/ subscriptionFails(w) \/ dropClient(w)
  \/ tick

RoutingSpec == RoutingInit /\ [][RoutingNext]_routeVars

------------------------------------------------------------------------------
\* A proxy that failed is left alone for the cooldown by every request and every
\* client made: after a failed request, or the failure of a subscription that was
\* live, none is sent towards that proxy until PROXY_COOLDOWN_MS have passed, for
\* the pool as the server delivers it ("so later requests/clients route direct",
\* routingWsTransport.ts:24-26).  Not so a client that exists: it goes on
\* subscribing at its own endpoint, and a call to subscribe that throws starts no
\* cooldown.
CooldownHonoured == ~lastSent.cooling
==============================================================================
