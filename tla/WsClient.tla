------------------------------ MODULE WsClient ------------------------------
(* packages/vais-web/packages/kit/src/ws/client.ts: createWebSocket, with    *)
(* the network and the server it talks to.  A request is answered, if at     *)
(* all, on the connection it was sent on.  An event of the socket is a step; *)
(* between the loss of a connection and its onclose the application runs.    *)
EXTENDS Naturals, FiniteSets

CONSTANTS Requests,    \* calls of send(), each made at most once
          MaxRetries,  \* options.maxRetries
          MaxConnects  \* bound: calls of connect() and disconnect()

\* Of the constants, for the proofs.
SocketAssumption == MaxRetries \in Nat /\ MaxConnects \in Nat

VARIABLE wc

States == {"idle", "connecting", "connected", "reconnecting", "closed", "error"}

\* socket: "lost" is a socket that is no longer open and will fire onclose.
WCInit == wc = [state |-> "idle", socket |-> "none", retries |-> 0, timer |-> FALSE,
                manual |-> FALSE, pending |-> {}, wire |-> {},
                req |-> [r \in Requests |-> "new"], connects |-> 0]

Settled == {"resolved", "rejected", "refused"}
RejectAll(s) == [s EXCEPT !.req = [r \in Requests |-> IF r \in s.pending THEN "rejected"
                                                      ELSE s.req[r]],
                          !.pending = {}]

\* Broken variant: nothing counts the retries.
ScheduleReconnectAlways(s) ==
  IF s.manual THEN RejectAll([s EXCEPT !.state = "closed"])
  ELSE [s EXCEPT !.state = "reconnecting", !.retries = @ + 1, !.timer = TRUE]
\* Broken variant: giving up leaves the requests waiting.
ScheduleReconnectKeeping(s) ==
  IF s.manual \/ s.retries >= MaxRetries THEN [s EXCEPT !.state = "closed"]
  ELSE [s EXCEPT !.state = "reconnecting", !.retries = @ + 1, !.timer = TRUE]
\* Broken variant: the retries never run out.
ScheduleReconnectForever(s) ==
  IF s.manual THEN RejectAll([s EXCEPT !.state = "closed"])
  ELSE [s EXCEPT !.state = "reconnecting", !.timer = TRUE,
                 !.retries = IF @ < MaxRetries THEN @ + 1 ELSE @]
ScheduleReconnect(s) ==
  IF s.manual \/ s.retries >= MaxRetries THEN RejectAll([s EXCEPT !.state = "closed"])
  ELSE [s EXCEPT !.state = "reconnecting", !.retries = @ + 1, !.timer = TRUE]

\* doConnect: the old socket loses its handlers and is closed.
DoConnect(s, constructed) ==
  IF constructed THEN [s EXCEPT !.state = "connecting", !.socket = "connecting", !.wire = {}]
  ELSE ScheduleReconnect([s EXCEPT !.state = "error", !.socket = "none", !.wire = {}])

Connect(constructed) ==
  /\ wc.connects < MaxConnects
  /\ wc' = DoConnect([wc EXCEPT !.manual = FALSE, !.timer = FALSE, !.retries = 0,
                                !.connects = @ + 1], constructed)

Disconnect ==
  /\ wc.connects < MaxConnects
  /\ wc' = RejectAll([wc EXCEPT !.manual = TRUE, !.timer = FALSE, !.state = "closed",
                                !.socket = "none", !.wire = {}, !.connects = @ + 1])

ReconnectTimerFires(constructed) ==
  wc.timer /\ wc' = DoConnect([wc EXCEPT !.timer = FALSE], constructed)

OnOpen ==
  /\ wc.socket = "connecting"
  /\ wc' = [wc EXCEPT !.socket = "open", !.state = "connected", !.retries = 0]

\* The connection fails or drops; onerror may be told before onclose.
ConnectionLost == /\ wc.socket \in {"connecting", "open"}
                  /\ wc' = [wc EXCEPT !.socket = "lost", !.wire = {}]
OnError == wc.socket = "lost" /\ wc' = [wc EXCEPT !.state = "error"]
OnClose == /\ wc.socket = "lost"
           /\ wc' = IF wc.manual THEN [wc EXCEPT !.socket = "none", !.state = "closed"]
                    ELSE ScheduleReconnect([wc EXCEPT !.socket = "none"])

\* send(): a promise that rejects at once, or waits for the response.
Send(r) ==
  /\ wc.req[r] = "new"
  /\ wc' = IF wc.socket # "open" THEN [wc EXCEPT !.req[r] = "refused"]
           ELSE [wc EXCEPT !.req[r] = "pending", !.pending = @ \cup {r}, !.wire = @ \cup {r}]

\* handleMessage of a response, found by its id.
ResponseArrives(r, outcome) ==
  /\ wc.socket = "open" /\ r \in wc.wire
  /\ wc' = [wc EXCEPT !.wire = @ \ {r}, !.pending = @ \ {r},
                      !.req[r] = IF r \in wc.pending THEN outcome ELSE @]

WCNext ==
  \/ \E b \in BOOLEAN : Connect(b) \/ ReconnectTimerFires(b)
  \/ Disconnect \/ OnOpen \/ ConnectionLost \/ OnError \/ OnClose
  \/ \E r \in Requests : Send(r) \/ \E o \in {"resolved", "rejected"} : ResponseArrives(r, o)

\* Timers fire, a connection attempt ends, and a lost socket says so.
WCFairness == /\ WF_wc(\E b \in BOOLEAN : ReconnectTimerFires(b))
              /\ WF_wc(wc.socket = "connecting" /\ (OnOpen \/ ConnectionLost))
              /\ WF_wc(OnClose)

----------------------------------------------------------------------------
WCTypeOK == /\ wc.state \in States /\ wc.retries \in 0 .. MaxRetries
            /\ wc.socket \in {"none", "connecting", "open", "lost"}
            /\ wc.pending \subseteq Requests /\ wc.wire \subseteq Requests

\* However the connection came to be closed - by the application, by the
\* last retry, in the middle of a reconnect - no promise of send() is left
\* hanging in a closed client, no timer will bring the connection back, and
\* a request is in the table exactly while its promise is open.
ClosedSettlesAll ==
  /\ wc.state = "closed" => wc.pending = {} /\ ~wc.timer
  /\ \A r \in Requests : wc.req[r] = "pending" <=> r \in wc.pending

\* Losing the connection ends in a new one or in "closed": the retries are
\* used up however errors, closes and timers interleave (client.ts:176).
ReconnectEnds == wc.socket = "lost" ~> wc.state \in {"connected", "closed"}

\* What send() is for: its promise settles.
RequestSettles == \A r \in Requests : wc.req[r] = "pending" ~> wc.req[r] \in Settled
=============================================================================
