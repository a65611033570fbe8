--------------------------- MODULE Server_proofs ----------------------------
(* The packages that serve a page: the route shown is that of the URL, the
   socket of kit leaves no request behind a closed connection, a page and its
   hot module are the newest, a login has one live refresh token, and a
   transaction of the postgres driver is applied as a whole or not at all. *)
EXTENDS ServerSuite, FiniteSetTheorems, SequenceTheorems, Induction

-----------------------------------------------------------------------------
(* WsClient: where the timer can run and where a connection can be *)

SocketState ==
  [state : States, socket : {"none", "connecting", "open", "lost"}, retries : 0 .. MaxRetries,
   timer : BOOLEAN, manual : BOOLEAN, pending : SUBSET Requests, wire : SUBSET Requests,
   req : [Requests -> {"new", "pending"} \cup Settled], connects : Nat]

\* A request is in the table while its promise is open.
TableOK(s) == s \in SocketState /\ \A r \in Requests : s.req[r] = "pending" <=> r \in s.pending

\* The timer runs between two connections, and only disconnect() forbids the next one.
TimerOK(s) ==
  /\ s.timer => s.socket = "none" /\ ~s.manual
  /\ s.socket # "none" => ~s.manual
ClosedOK(s) == s.state = "closed" => s.pending = {} /\ ~s.timer /\ s.socket = "none"

WCInv == TableOK(wc) /\ TimerOK(wc) /\ ClosedOK(wc)

LEMMA RejectAllSettles ==
  ASSUME NEW s, TableOK(s)
  PROVE  LET t == RejectAll(s)
         IN  /\ TableOK(t) /\ t.pending = {} /\ t.state = s.state /\ t.socket = s.socket
             /\ t.timer = s.timer /\ t.manual = s.manual
<1> DEFINE t == RejectAll(s)
<1>1. PICK req : req = [r \in Requests |-> IF r \in s.pending THEN "rejected" ELSE s.req[r]]
  OBVIOUS
<1>2. req \in [Requests -> {"new", "pending"} \cup Settled] /\ \A r \in Requests : req[r] # "pending"
  BY <1>1 DEF TableOK, SocketState, Settled
<1>3. t = [s EXCEPT !.req = req, !.pending = {}]
  BY <1>1 DEF RejectAll
<1> HIDE DEF t
<1>4. /\ t \in SocketState /\ t.req = req /\ t.pending = {} /\ t.state = s.state
      /\ t.socket = s.socket /\ t.timer = s.timer /\ t.manual = s.manual
  BY <1>2, <1>3 DEF TableOK, SocketState
<1>5. \A r \in Requests : t.req[r] = "pending" <=> r \in t.pending
  BY <1>2, <1>4
<1> QED
  BY <1>4, <1>5 DEF TableOK, t

\* Giving up rejects what waits; trying again starts the timer without a connection.
LEMMA ReconnectScheduled ==
  ASSUME SocketAssumption, NEW s, TableOK(s), ~s.timer, s.socket = "none"
  PROVE  LET t == ScheduleReconnect(s) IN TableOK(t) /\ TimerOK(t) /\ ClosedOK(t)
<1> DEFINE t == ScheduleReconnect(s)
<1>1. s \in SocketState
  BY DEF TableOK
<1>2. CASE s.manual \/ s.retries >= MaxRetries
  <2>1. PICK u : u = [s EXCEPT !.state = "closed"]
    OBVIOUS
  <2>2. /\ u \in SocketState /\ u.state = "closed" /\ u.req = s.req /\ u.pending = s.pending
        /\ ~u.timer /\ u.socket = "none"
    BY <1>1, <2>1 DEF SocketState, States
  <2>3. TableOK(u)
    BY <2>2 DEF TableOK
  <2>4. t = RejectAll(u)
    BY <1>2, <2>1 DEF ScheduleReconnect
  <2> HIDE DEF t
  <2>5. TableOK(t) /\ t.pending = {} /\ ~t.timer /\ t.socket = "none"
    BY <2>2, <2>3, <2>4, RejectAllSettles
  <2> QED
    BY <2>5 DEF TimerOK, ClosedOK, t
<1>3. CASE ~s.manual /\ ~(s.retries >= MaxRetries)
  <2>1. PICK n : n = s.retries + 1
    OBVIOUS
  <2>2. n \in 0 .. MaxRetries
    BY <1>1, <1>3, <2>1 DEF SocketState, SocketAssumption
  <2>3. t = [s EXCEPT !.state = "reconnecting", !.retries = n, !.timer = TRUE]
    BY <1>3, <2>1 DEF ScheduleReconnect
  <2> HIDE DEF t
  <2>4. /\ t \in SocketState /\ t.state = "reconnecting" /\ t.req = s.req /\ t.pending = s.pending
        /\ t.socket = "none" /\ ~t.manual
    BY <1>1, <1>3, <2>2, <2>3 DEF SocketState, States
  <2> QED
    BY <2>4 DEF TableOK, TimerOK, ClosedOK, t
<1> QED
  BY <1>2, <1>3

LEMMA ConnectionTried ==
  ASSUME SocketAssumption, NEW s, TableOK(s), ~s.timer, ~s.manual, NEW constructed \in BOOLEAN
  PROVE  LET t == DoConnect(s, constructed) IN TableOK(t) /\ TimerOK(t) /\ ClosedOK(t)
<1> DEFINE t == DoConnect(s, constructed)
<1>1. s \in SocketState
  BY DEF TableOK
<1>2. CASE constructed
  <2>1. t = [s EXCEPT !.state = "connecting", !.socket = "connecting", !.wire = {}]
    BY <1>2 DEF DoConnect
  <2> HIDE DEF t
  <2>2. /\ t \in SocketState /\ t.state = "connecting" /\ t.req = s.req /\ t.pending = s.pending
        /\ ~t.timer /\ ~t.manual
    BY <1>1, <2>1 DEF SocketState, States
  <2> QED
    BY <2>2 DEF TableOK, TimerOK, ClosedOK, t
<1>3. CASE ~constructed
  <2>1. PICK u : u = [s EXCEPT !.state = "error", !.socket = "none", !.wire = {}]
    OBVIOUS
  <2>2. u \in SocketState /\ u.req = s.req /\ u.pending = s.pending /\ ~u.timer /\ u.socket = "none"
    BY <1>1, <2>1 DEF SocketState, States
  <2>3. TableOK(u)
    BY <2>2 DEF TableOK
  <2>4. t = ScheduleReconnect(u)
    BY <1>3, <2>1 DEF DoConnect
  <2> QED
    BY <2>2, <2>3, <2>4, ReconnectScheduled
<1> QED
  BY <1>2, <1>3

LEMMA SocketStarts == ASSUME SocketAssumption, WCInit PROVE WCInv
<1>1. PICK req : req = [r \in Requests |-> "new"]
  OBVIOUS
<1>2. wc = [state |-> "idle", socket |-> "none", retries |-> 0, timer |-> FALSE, manual |-> FALSE,
            pending |-> {}, wire |-> {}, req |-> req, connects |-> 0]
  BY <1>1 DEF WCInit
<1>3. /\ wc \in SocketState /\ wc.req = req /\ wc.pending = {} /\ ~wc.timer /\ wc.socket = "none"
      /\ wc.state = "idle"
  BY <1>1, <1>2 DEF SocketState, States, SocketAssumption
<1> QED
  BY <1>1, <1>3 DEF WCInv, TableOK, TimerOK, ClosedOK

LEMMA SocketStep == ASSUME SocketAssumption, WCInv, [WCNext]_wc PROVE WCInv'
<1>1. wc \in SocketState /\ TableOK(wc) /\ TimerOK(wc) /\ ClosedOK(wc)
  BY DEF WCInv, TableOK
<1>2. CASE UNCHANGED wc
  BY <1>2 DEF WCInv, TableOK, TimerOK, ClosedOK
<1>3. ASSUME NEW b \in BOOLEAN, Connect(b) PROVE WCInv'
  <2>1. PICK n : n = wc.connects + 1
    OBVIOUS
  <2>2. PICK s : s = [wc EXCEPT !.manual = FALSE, !.timer = FALSE, !.retries = 0, !.connects = n]
    OBVIOUS
  <2>3. n \in Nat
    BY <1>1, <2>1 DEF SocketState
  <2>4. s \in SocketState /\ s.req = wc.req /\ s.pending = wc.pending /\ ~s.timer /\ ~s.manual
    <3>1. PICK zero \in 0 .. MaxRetries : zero = 0
      BY DEF SocketAssumption
    <3>2. s = [wc EXCEPT !.manual = FALSE, !.timer = FALSE, !.retries = zero, !.connects = n]
      BY <2>2, <3>1
    <3> QED
      BY <1>1, <2>3, <3>2 DEF SocketState
  <2>5. TableOK(s)
    BY <1>1, <2>4 DEF TableOK
  <2>6. wc' = DoConnect(s, b)
    BY <1>3, <2>1, <2>2 DEF Connect
  <2> QED
    BY <2>4, <2>5, <2>6, ConnectionTried DEF WCInv
<1>4. ASSUME NEW b \in BOOLEAN, ReconnectTimerFires(b) PROVE WCInv'
  <2>1. PICK s : s = [wc EXCEPT !.timer = FALSE]
    OBVIOUS
  <2>2. s \in SocketState /\ s.req = wc.req /\ s.pending = wc.pending /\ ~s.timer /\ ~s.manual
    BY <1>1, <1>4, <2>1 DEF ReconnectTimerFires, SocketState, TimerOK
  <2>3. TableOK(s)
    BY <1>1, <2>2 DEF TableOK
  <2>4. wc' = DoConnect(s, b)
    BY <1>4, <2>1 DEF ReconnectTimerFires
  <2> QED
    BY <2>2, <2>3, <2>4, ConnectionTried DEF WCInv
<1>5. CASE Disconnect
  <2>1. PICK n : n = wc.connects + 1
    OBVIOUS
  <2>2. PICK s : s = [wc EXCEPT !.manual = TRUE, !.timer = FALSE, !.state = "closed",
                                !.socket = "none", !.wire = {}, !.connects = n]
    OBVIOUS
  <2>3. n \in Nat
    BY <1>1, <2>1 DEF SocketState
  <2>4. /\ s \in SocketState /\ s.req = wc.req /\ s.pending = wc.pending /\ ~s.timer
        /\ s.socket = "none" /\ s.state = "closed"
    BY <1>1, <2>2, <2>3 DEF SocketState, States
  <2>5. TableOK(s)
    BY <1>1, <2>4 DEF TableOK
  <2>6. wc' = RejectAll(s)
    BY <1>5, <2>1, <2>2 DEF Disconnect
  <2>7. TableOK(wc)' /\ wc'.pending = {} /\ ~wc'.timer /\ wc'.socket = "none"
    BY <2>4, <2>5, <2>6, RejectAllSettles
  <2> QED
    BY <2>7 DEF WCInv, TimerOK, ClosedOK
<1>6. CASE OnOpen
  <2>1. /\ wc' = [wc EXCEPT !.socket = "open", !.state = "connected", !.retries = 0]
        /\ ~wc.timer /\ ~wc.manual
    BY <1>1, <1>6 DEF OnOpen, TimerOK
  <2>2. /\ wc' \in SocketState /\ wc'.req = wc.req /\ wc'.pending = wc.pending /\ ~wc'.timer
        /\ ~wc'.manual /\ wc'.state = "connected"
    <3>1. PICK zero \in 0 .. MaxRetries : zero = 0
      BY DEF SocketAssumption
    <3>2. wc' = [wc EXCEPT !.socket = "open", !.state = "connected", !.retries = zero]
      BY <2>1, <3>1
    <3> QED
      BY <1>1, <2>1, <3>2 DEF SocketState, States
  <2> QED
    BY <1>1, <2>2 DEF WCInv, TableOK, TimerOK, ClosedOK
<1>7. CASE ConnectionLost
  <2>1. /\ wc' = [wc EXCEPT !.socket = "lost", !.wire = {}]
        /\ ~wc.timer /\ ~wc.manual /\ wc.state # "closed"
    BY <1>1, <1>7 DEF ConnectionLost, TimerOK, ClosedOK
  <2>2. /\ wc' \in SocketState /\ wc'.req = wc.req /\ wc'.pending = wc.pending /\ ~wc'.timer
        /\ ~wc'.manual /\ wc'.state # "closed"
    BY <1>1, <2>1 DEF SocketState
  <2> QED
    BY <1>1, <2>2 DEF WCInv, TableOK, TimerOK, ClosedOK
<1>8. CASE OnError
  <2>1. wc' = [wc EXCEPT !.state = "error"] /\ ~wc.timer /\ ~wc.manual
    BY <1>1, <1>8 DEF OnError, TimerOK
  <2>2. /\ wc' \in SocketState /\ wc'.req = wc.req /\ wc'.pending = wc.pending /\ ~wc'.timer
        /\ ~wc'.manual /\ wc'.state = "error"
    BY <1>1, <2>1 DEF SocketState, States
  <2> QED
    BY <1>1, <2>2 DEF WCInv, TableOK, TimerOK, ClosedOK
<1>9. CASE OnClose
  <2>1. wc.socket = "lost" /\ ~wc.timer /\ ~wc.manual
    BY <1>1, <1>9 DEF OnClose, TimerOK
  <2>2. PICK s : s = [wc EXCEPT !.socket = "none"]
    OBVIOUS
  <2>3. s \in SocketState /\ s.req = wc.req /\ s.pending = wc.pending /\ ~s.timer /\ s.socket = "none"
    BY <1>1, <2>1, <2>2 DEF SocketState
  <2>4. TableOK(s)
    BY <1>1, <2>3 DEF TableOK
  <2>5. wc' = ScheduleReconnect(s)
    BY <1>9, <2>1, <2>2 DEF OnClose
  <2> QED
    BY <2>3, <2>4, <2>5, ReconnectScheduled DEF WCInv
<1>10. ASSUME NEW r \in Requests, Send(r) PROVE WCInv'
  <2>1. CASE wc.socket # "open"
    <3>1. PICK req : req = [wc.req EXCEPT ![r] = "refused"]
      OBVIOUS
    <3>2. /\ req \in [Requests -> {"new", "pending"} \cup Settled]
          /\ \A q \in Requests : req[q] = "pending" <=> wc.req[q] = "pending"
      BY <1>1, <1>10, <3>1 DEF SocketState, Settled, Send
    <3>3. wc' = [wc EXCEPT !.req = req]
      BY <1>10, <2>1, <3>1 DEF Send
    <3>4. /\ wc' \in SocketState /\ wc'.req = req /\ wc'.pending = wc.pending /\ wc'.timer = wc.timer
          /\ wc'.manual = wc.manual /\ wc'.state = wc.state /\ wc'.socket = wc.socket
      BY <1>1, <3>2, <3>3 DEF SocketState
    <3> QED
      BY <1>1, <3>2, <3>4 DEF WCInv, TableOK, TimerOK, ClosedOK
  <2>2. CASE wc.socket = "open"
    <3>1. PICK req, pending, wire : /\ req = [wc.req EXCEPT ![r] = "pending"]
                                    /\ pending = wc.pending \cup {r} /\ wire = wc.wire \cup {r}
      OBVIOUS
    <3>2. /\ req \in [Requests -> {"new", "pending"} \cup Settled]
          /\ pending \subseteq Requests /\ wire \subseteq Requests
          /\ \A q \in Requests : req[q] = "pending" <=> q \in pending
      BY <1>1, <3>1 DEF SocketState, TableOK
    <3>3. wc' = [wc EXCEPT !.req = req, !.pending = pending, !.wire = wire]
      BY <1>10, <2>2, <3>1 DEF Send
    <3>4. /\ wc' \in SocketState /\ wc'.req = req /\ wc'.pending = pending /\ wc'.timer = wc.timer
          /\ wc'.manual = wc.manual /\ wc'.state = wc.state /\ wc'.socket = wc.socket
      BY <1>1, <3>2, <3>3 DEF SocketState
    <3> QED
      BY <1>1, <2>2, <3>2, <3>4 DEF WCInv, TableOK, TimerOK, ClosedOK
  <2> QED
    BY <2>1, <2>2
<1>11. ASSUME NEW r \in Requests, NEW o \in {"resolved", "rejected"}, ResponseArrives(r, o) PROVE WCInv'
  <2>1. PICK req, pending, wire :
          /\ req = [wc.req EXCEPT ![r] = IF r \in wc.pending THEN o ELSE wc.req[r]]
          /\ pending = wc.pending \ {r} /\ wire = wc.wire \ {r}
    OBVIOUS
  <2>2. /\ req \in [Requests -> {"new", "pending"} \cup Settled]
        /\ pending \subseteq Requests /\ wire \subseteq Requests
        /\ \A q \in Requests : req[q] = "pending" <=> q \in pending
    BY <1>1, <2>1 DEF SocketState, TableOK, Settled
  <2>3. wc' = [wc EXCEPT !.wire = wire, !.pending = pending, !.req = req]
    BY <1>11, <2>1 DEF ResponseArrives
  <2>4. /\ wc' \in SocketState /\ wc'.req = req /\ wc'.pending = pending /\ wc'.timer = wc.timer
        /\ wc'.manual = wc.manual /\ wc'.state = wc.state /\ wc'.socket = wc.socket
    BY <1>1, <2>2, <2>3 DEF SocketState
  <2>5. wc.socket = "open"
    BY <1>11 DEF ResponseArrives
  <2> QED
    BY <1>1, <2>2, <2>4, <2>5 DEF WCInv, TableOK, TimerOK, ClosedOK
<1> QED
  BY <1>2, <1>3, <1>4, <1>5, <1>6, <1>7, <1>8, <1>9, <1>10, <1>11 DEF WCNext

\* However a connection came to be closed, no promise of send() is left open, and no
\* timer brings the connection back, for any number of requests and retries (client.ts).
THEOREM ClosedSettles ==
  ASSUME SocketAssumption
  PROVE  WCInit /\ [][WCNext]_wc => [](WCTypeOK /\ ClosedSettlesAll)
<1>1. WCInit => WCInv
  BY SocketStarts
<1>2. WCInv /\ [WCNext]_wc => WCInv'
  BY SocketStep
<1>3. WCInv => WCTypeOK /\ ClosedSettlesAll
  BY DEF WCInv, TableOK, ClosedOK, SocketState, WCTypeOK, ClosedSettlesAll
<1> QED
  BY <1>1, <1>2, <1>3, PTL

-----------------------------------------------------------------------------
(* DevServer: the page, told of each version that was compiled *)

PageState ==
  [disk : 1 .. MaxVersion, out : 1 .. MaxVersion, dirty : BOOLEAN, compiling : 0 .. MaxVersion, up : BOOLEAN,
   page : {"loaded", "open", "waiting", "dead"}, shows : 1 .. MaxVersion, inbox : Nat, drops : Nat, unseen : BOOLEAN,
   missed : BOOLEAN]

\* Saves that are on their way: each is compiled once and told once.
OnTheWay(s) == s.inbox + (IF s.compiling = 0 THEN 0 ELSE 1) + (IF s.dirty THEN 1 ELSE 0)

\* Until a message is in its inbox, or was sent before it was connected, a page shows the
\* output; what is compiled is what is on the disk, unless it is dirty again or was saved
\* with nobody to see it.
InTouch(s) == s.page \in {"loaded", "open"} /\ s.inbox = 0 /\ ~s.missed
ServedOK(s) ==
  /\ s \in PageState
  /\ OnTheWay(s) <= s.disk - 1
  /\ InTouch(s) => s.shows = s.out
  /\ ~s.unseen /\ ~s.dirty => IF s.compiling = 0 THEN s.out = s.disk \/ s.disk \in Bad ELSE s.compiling = s.disk

LEMMA ServedStarts == ASSUME DevAssumption, DVInit PROVE ServedOK(dv)
  BY DEF DevAssumption, DVInit, ServedOK, PageState, OnTheWay, InTouch

\* A page that changed: its fields are given one by one.
LEMMA ServedBy ==
  ASSUME NEW s, NEW t, ServedOK(s), t \in PageState,
         OnTheWay(t) - t.disk <= OnTheWay(s) - s.disk,
         InTouch(t) => t.shows = t.out \/ (InTouch(s) /\ t.shows = s.shows /\ t.out = s.out),
         ~t.unseen /\ ~t.dirty => IF t.compiling = 0 THEN t.out = t.disk \/ t.disk \in Bad ELSE t.compiling = t.disk
  PROVE  ServedOK(t)
<1>1. s \in PageState /\ OnTheWay(s) <= s.disk - 1
  BY DEF ServedOK
<1>2. PICK a, b \in Int : a = OnTheWay(s) /\ b = OnTheWay(t)
  BY <1>1 DEF OnTheWay, PageState
<1>3. s.disk \in Int /\ t.disk \in Int
  BY <1>1 DEF PageState
<1>4. OnTheWay(t) <= t.disk - 1
  BY <1>1, <1>2, <1>3
<1> QED
  BY <1>4 DEF ServedOK

LEMMA ServedStep == ASSUME DevAssumption, ServedOK(dv), [DVNext]_dv PROVE ServedOK(dv')
<1>0. /\ dv \in PageState /\ MaxVersion \in Nat
      /\ InTouch(dv) => dv.shows = dv.out
      /\ ~dv.unseen /\ ~dv.dirty => IF dv.compiling = 0 THEN dv.out = dv.disk \/ dv.disk \in Bad ELSE dv.compiling = dv.disk
  BY DEF ServedOK, DevAssumption
<1>1. CASE UNCHANGED dv
  BY <1>1
<1>2. CASE FileSaved
  <2>1. PICK disk, dirty, unseen : disk = dv.disk + 1 /\ dirty = dv.up /\ unseen = ~dv.up
    OBVIOUS
  <2>a. dv.up \in BOOLEAN
    BY <1>0 DEF PageState
  <2>b. dirty \in BOOLEAN /\ unseen \in BOOLEAN /\ (dirty \/ unseen)
    BY <2>1, <2>a, Zenon
  <2>2. dv' = [dv EXCEPT !.disk = disk, !.dirty = dirty, !.unseen = unseen]
    BY <1>0, <1>2, <2>1 DEF FileSaved, PageState
  <2>3. disk \in 1 .. MaxVersion /\ dirty \in BOOLEAN /\ unseen \in BOOLEAN /\ (dirty \/ unseen)
    BY <1>0, <1>2, <2>1, <2>b DEF FileSaved, PageState
  <2>4. /\ dv' \in PageState /\ dv'.disk = disk /\ dv'.dirty = dirty /\ dv'.unseen = unseen /\ dv'.inbox = dv.inbox
        /\ dv'.compiling = dv.compiling /\ dv'.page = dv.page /\ dv'.shows = dv.shows /\ dv'.out = dv.out
        /\ dv'.missed = dv.missed
    BY <1>0, <2>2, <2>3 DEF PageState
  <2>5. OnTheWay(dv') - dv'.disk <= OnTheWay(dv) - dv.disk
    BY <1>0, <2>1, <2>4 DEF OnTheWay, PageState
  <2>6. InTouch(dv') => InTouch(dv) /\ dv'.shows = dv.shows /\ dv'.out = dv.out
    BY <2>4 DEF InTouch
  <2>7. dv'.unseen \/ dv'.dirty
    BY <2>3, <2>4
  <2> QED
    BY <2>4, <2>5, <2>6, <2>7, ServedBy
<1>3. CASE WatcherChange
  <2>1. PICK disk \in 1 .. MaxVersion : disk = dv.disk
    BY <1>0 DEF PageState
  <2>2. dv' = [dv EXCEPT !.dirty = FALSE, !.compiling = disk]
    BY <1>3, <2>1 DEF WatcherChange
  <2>a. disk \in 0 .. MaxVersion
    BY <1>0
  <2>b. dv' \in PageState
    BY <1>0, <2>a, <2>2 DEF PageState
  <2>3. /\ dv' \in PageState /\ dv'.disk = disk /\ dv'.dirty = FALSE /\ dv'.inbox = dv.inbox
        /\ dv'.compiling = disk /\ dv'.page = dv.page /\ dv'.shows = dv.shows /\ dv'.out = dv.out
        /\ dv'.missed = dv.missed
    BY <1>0, <2>1, <2>2, <2>b DEF PageState
  <2>4. dv.dirty /\ dv.compiling = 0 /\ disk # 0
    BY <1>3, <2>1 DEF WatcherChange
  <2>5. OnTheWay(dv') - dv'.disk <= OnTheWay(dv) - dv.disk
    BY <1>0, <2>1, <2>3, <2>4 DEF OnTheWay, PageState
  <2>6. InTouch(dv') => InTouch(dv) /\ dv'.shows = dv.shows /\ dv'.out = dv.out
    BY <2>3 DEF InTouch
  <2>7. IF dv'.compiling = 0 THEN dv'.out = dv'.disk \/ dv'.disk \in Bad ELSE dv'.compiling = dv'.disk
    BY <2>3, <2>4
  <2>8. dv' \in PageState
    BY <2>3
  <2> QED
    BY <2>5, <2>6, <2>7, <2>8, ServedBy
<1>4. CASE CompileAndCache
  <2>1. dv.compiling # 0 /\ dv.compiling \in 1 .. MaxVersion
    BY <1>0, <1>4 DEF CompileAndCache, PageState
  <2>2. CASE dv.compiling \in Bad
    <3>1. dv' = [dv EXCEPT !.compiling = 0]
      BY <1>4, <2>2 DEF CompileAndCache
    <3>2. /\ dv' \in PageState /\ dv'.disk = dv.disk /\ dv'.dirty = dv.dirty /\ dv'.unseen = dv.unseen /\ dv'.inbox = dv.inbox
          /\ dv'.compiling = 0 /\ dv'.page = dv.page /\ dv'.shows = dv.shows /\ dv'.out = dv.out
          /\ dv'.missed = dv.missed
      BY <1>0, <3>1 DEF PageState
    <3>3. OnTheWay(dv') - dv'.disk <= OnTheWay(dv) - dv.disk
      BY <1>0, <2>1, <3>2 DEF OnTheWay, PageState
    <3> QED
      BY <1>0, <2>1, <2>2, <3>2, <3>3, ServedBy DEF InTouch
  <2>3. CASE dv.compiling \notin Bad
    <3>1. PICK inbox \in Nat : inbox = IF dv.page = "open" THEN dv.inbox + 1 ELSE dv.inbox
      BY <1>0 DEF PageState
    <3>2. PICK out \in 1 .. MaxVersion, missed \in BOOLEAN :
            out = dv.compiling /\ missed = (dv.missed \/ dv.page = "loaded")
      BY <2>1
    <3>3. dv' = [dv EXCEPT !.compiling = 0, !.out = out, !.inbox = inbox, !.missed = missed]
      BY <1>0, <1>4, <2>3, <3>1, <3>2 DEF CompileAndCache, PageState
    <3>a. 0 \in 0 .. MaxVersion
      BY <1>0
    <3>b. dv' \in PageState
      BY <1>0, <3>3, <3>a DEF PageState
    <3>4. /\ dv' \in PageState /\ dv'.disk = dv.disk /\ dv'.dirty = dv.dirty /\ dv'.unseen = dv.unseen /\ dv'.inbox = inbox
          /\ dv'.compiling = 0 /\ dv'.page = dv.page /\ dv'.shows = dv.shows /\ dv'.out = out /\ dv'.missed = missed
      BY <1>0, <3>3, <3>b DEF PageState
    <3>5. OnTheWay(dv') - dv'.disk <= OnTheWay(dv) - dv.disk
      BY <1>0, <2>1, <3>1, <3>4 DEF OnTheWay, PageState
    <3>6. ~InTouch(dv')
      <4>1. dv.inbox \in Nat
        BY <1>0 DEF PageState
      <4>2. dv.page = "open" => dv'.inbox # 0
        BY <3>1, <3>4, <4>1
      <4>3. dv.page = "loaded" => missed
        BY <3>2, Zenon
      <4>4. dv'.page = dv.page /\ dv'.missed = missed
        BY <3>4
      <4> QED
        BY <4>2, <4>3, <4>4 DEF InTouch
    <3>7. ~dv'.unseen /\ ~dv'.dirty =>
            IF dv'.compiling = 0 THEN dv'.out = dv'.disk \/ dv'.disk \in Bad ELSE dv'.compiling = dv'.disk
      BY <1>0, <2>1, <3>2, <3>4
    <3>8. dv' \in PageState
      BY <3>4
    <3> QED
      BY <3>5, <3>6, <3>7, <3>8, ServedBy
  <2> QED
    BY <2>2, <2>3
<1>5. CASE dv' = Served(dv)
  <2>1. PICK out \in 1 .. MaxVersion : out = dv.out
    BY <1>0 DEF PageState
  <2>2. dv' = [dv EXCEPT !.page = "loaded", !.shows = out, !.inbox = 0, !.missed = FALSE]
    BY <1>5, <2>1 DEF Served
  <2>3. /\ dv' \in PageState /\ dv'.disk = dv.disk /\ dv'.dirty = dv.dirty /\ dv'.unseen = dv.unseen /\ dv'.inbox = 0
        /\ dv'.compiling = dv.compiling /\ dv'.shows = out /\ dv'.out = out
    BY <1>0, <2>1, <2>2 DEF PageState
  <2>4. OnTheWay(dv') - dv'.disk <= OnTheWay(dv) - dv.disk
    BY <1>0, <2>3 DEF OnTheWay, PageState
  <2> QED
    BY <1>0, <2>1, <2>3, <2>4, ServedBy
<1>6. CASE PageDisconnected
  <2>1. PICK drops \in Nat : drops = dv.drops + 1
    BY <1>0 DEF PageState
  <2>2. dv' = [dv EXCEPT !.page = "waiting", !.inbox = 0, !.drops = drops]
    BY <1>0, <1>6, <2>1 DEF PageDisconnected, PageState
  <2>3. /\ dv' \in PageState /\ dv'.disk = dv.disk /\ dv'.dirty = dv.dirty /\ dv'.unseen = dv.unseen /\ dv'.inbox = 0
        /\ dv'.compiling = dv.compiling /\ dv'.page = "waiting" /\ dv'.out = dv.out
    BY <1>0, <2>2 DEF PageState
  <2>4. OnTheWay(dv') - dv'.disk <= OnTheWay(dv) - dv.disk
    BY <1>0, <2>3 DEF OnTheWay, PageState
  <2> QED
    BY <1>0, <2>3, <2>4, ServedBy DEF InTouch
<1>7. CASE PageConnects \/ dv' = [dv EXCEPT !.page = "dead"]
  <2>1. PICK page \in {"open", "dead"} : dv' = [dv EXCEPT !.page = page] /\ (page = "open" => dv.page = "loaded")
    BY <1>7 DEF PageConnects
  <2>2. /\ dv' \in PageState /\ dv'.disk = dv.disk /\ dv'.dirty = dv.dirty /\ dv'.unseen = dv.unseen /\ dv'.inbox = dv.inbox
        /\ dv'.compiling = dv.compiling /\ dv'.page = page /\ dv'.shows = dv.shows /\ dv'.out = dv.out
        /\ dv'.missed = dv.missed
    BY <1>0, <2>1 DEF PageState
  <2>3. OnTheWay(dv') - dv'.disk <= OnTheWay(dv) - dv.disk
    BY <1>0, <2>2 DEF OnTheWay, PageState
  <2>4. InTouch(dv') => InTouch(dv)
    BY <2>1, <2>2 DEF InTouch
  <2> QED
    BY <1>0, <2>2, <2>3, <2>4, ServedBy
<1>8. CASE ServerCloses
  <2>1. PICK drops \in Nat : drops = dv.drops + 1
    BY <1>0 DEF PageState
  <2>2. PICK unseen \in BOOLEAN : unseen <=> dv.unseen \/ dv.dirty \/ dv.compiling # 0
    OBVIOUS
  <2>3. PICK page \in {"waiting", "dead"} : page = IF dv.page \in {"loaded", "open"} THEN "waiting" ELSE dv.page
    BY <1>0 DEF PageState
  <2>4. unseen = (dv.unseen \/ dv.dirty \/ dv.compiling # 0)
    BY <2>2, Zenon
  <2>5. dv' = [dv EXCEPT !.up = FALSE, !.drops = drops, !.inbox = 0, !.unseen = unseen, !.dirty = FALSE,
                         !.compiling = 0, !.page = page]
    BY <1>0, <1>8, <2>1, <2>3, <2>4 DEF ServerCloses, PageState
  <2>a. 0 \in 0 .. MaxVersion
    BY <1>0
  <2>b. dv' \in PageState
    BY <1>0, <2>5, <2>a DEF PageState
  <2>6. /\ dv' \in PageState /\ dv'.disk = dv.disk /\ dv'.dirty = FALSE /\ dv'.unseen = unseen /\ dv'.inbox = 0
        /\ dv'.compiling = 0 /\ dv'.page = page /\ dv'.shows = dv.shows /\ dv'.out = dv.out
    BY <1>0, <2>5, <2>b DEF PageState
  <2>7. OnTheWay(dv') - dv'.disk <= OnTheWay(dv) - dv.disk
    BY <1>0, <2>6 DEF OnTheWay, PageState
  <2>8. ~dv'.unseen /\ ~dv'.dirty =>
          IF dv'.compiling = 0 THEN dv'.out = dv'.disk \/ dv'.disk \in Bad ELSE dv'.compiling = dv'.disk
    BY <1>0, <2>2, <2>6
  <2>9. dv' \in PageState /\ ~InTouch(dv')
    BY <2>3, <2>6 DEF InTouch
  <2> QED
    BY <2>7, <2>8, <2>9, ServedBy
<1>9. CASE ServerStarts
  <2>1. dv' = [dv EXCEPT !.up = TRUE]
    BY <1>9 DEF ServerStarts
  <2>2. /\ dv' \in PageState /\ dv'.disk = dv.disk /\ dv'.dirty = dv.dirty /\ dv'.unseen = dv.unseen /\ dv'.inbox = dv.inbox
        /\ dv'.compiling = dv.compiling /\ dv'.page = dv.page /\ dv'.shows = dv.shows /\ dv'.out = dv.out
        /\ dv'.missed = dv.missed
    BY <1>0, <2>1 DEF PageState
  <2>3. OnTheWay(dv') - dv'.disk <= OnTheWay(dv) - dv.disk
    BY <1>0, <2>2 DEF OnTheWay, PageState
  <2> QED
    BY <1>0, <2>2, <2>3, ServedBy DEF InTouch
<1> QED
  BY <1>1, <1>2, <1>3, <1>4, <1>5, <1>6, <1>7, <1>8, <1>9 DEF DVNext, PageUpdated, PageReloads, UserOpensPage

LEMMA ServedFromInv == ServedOK(dv) => PageUpToDate
  BY DEF ServedOK, PageUpToDate, InTouch

-----------------------------------------------------------------------------
(* DevServer: the hot module *)

Told == 1 .. MaxVersion
HotState ==
  [version : Told, inbox : Seq(Told), link : {"connecting", "up", "down", "gone"}, retries : 0 .. HmrRetries,
   accepted : BOOLEAN, declined : BOOLEAN, shows : Told, importing : Seq(Told), disposed : Nat,
   under : SUBSET Told, missed : BOOLEAN]

\* The newest version, or one whose import was under way when the newest was told.
Newest(s) == {s.version} \cup s.under
\* While no update was missed the last one told is in the inbox; when none is, what is
\* imported or shown is the newest or was under way when it was told.
HotOK(s) ==
  /\ s \in HotState
  /\ ~s.missed /\ s.inbox # <<>> => s.inbox[Len(s.inbox)] = s.version
  /\ ~s.missed /\ s.inbox = <<>> =>
       /\ \A k \in 1 .. Len(s.importing) : s.importing[k] \in Newest(s)
       /\ s.importing = <<>> => s.shows \in Newest(s)

\* A sequence with one entry less.
LEMMA OneLess ==
  ASSUME NEW S, NEW s \in Seq(S), NEW i \in 1 .. Len(s)
  PROVE  /\ RemoveAt(s, i) \in Seq(S)
         /\ \A k \in 1 .. Len(RemoveAt(s, i)) : \E j \in 1 .. Len(s) : RemoveAt(s, i)[k] = s[j]
<1> DEFINE front == SubSeq(s, 1, i - 1)
           back == SubSeq(s, i + 1, Len(s))
<1>1. Len(s) \in Nat /\ \A k \in 1 .. Len(s) : s[k] \in S
  BY LenProperties, ElementOfSeq
<1>2. front \in Seq(S) /\ Len(front) = i - 1 /\ \A k \in 1 .. i - 1 : front[k] = s[k]
  <2>1. 1 \in Int /\ i - 1 \in Int /\ \A k \in 1 .. i - 1 : s[k] \in S
    BY <1>1
  <2>2. /\ front \in Seq(S) /\ Len(front) = IF 1 <= i - 1 THEN (i - 1) - 1 + 1 ELSE 0
        /\ \A k \in 1 .. (i - 1) - 1 + 1 : front[k] = s[1 + k - 1]
    BY <2>1, SubSeqProperties
  <2> HIDE DEF front
  <2> QED
    BY <1>1, <2>2
<1>3. back \in Seq(S) /\ Len(back) = Len(s) - i /\ \A k \in 1 .. Len(s) - i : back[k] = s[i + k]
  <2>1. i + 1 \in Int /\ Len(s) \in Int /\ \A k \in i + 1 .. Len(s) : s[k] \in S
    BY <1>1
  <2>2. /\ back \in Seq(S) /\ Len(back) = IF i + 1 <= Len(s) THEN Len(s) - (i + 1) + 1 ELSE 0
        /\ \A k \in 1 .. Len(s) - (i + 1) + 1 : back[k] = s[i + 1 + k - 1]
    BY <2>1, SubSeqProperties
  <2> HIDE DEF back
  <2> QED
    BY <1>1, <2>2
<1>4. RemoveAt(s, i) = front \o back
  BY DEF RemoveAt
<1> HIDE DEF front, back
<1>5. /\ front \o back \in Seq(S) /\ Len(front \o back) = Len(front) + Len(back)
      /\ \A k \in 1 .. Len(front) + Len(back) :
           (front \o back)[k] = IF k <= Len(front) THEN front[k] ELSE back[k - Len(front)]
  BY <1>2, <1>3, ConcatProperties
<1>6. ASSUME NEW k \in 1 .. Len(front \o back)
      PROVE  (front \o back)[k] = s[IF k < i THEN k ELSE k + 1] /\ (IF k < i THEN k ELSE k + 1) \in 1 .. Len(s)
  <2>1. k \in 1 .. Len(s) - 1
    BY <1>1, <1>2, <1>3, <1>5
  <2>2. CASE k < i
    BY <1>1, <1>2, <1>3, <1>5, <2>1, <2>2
  <2>3. CASE ~(k < i)
    <3>1. k - (i - 1) \in 1 .. Len(s) - i /\ i + (k - (i - 1)) = k + 1
      BY <1>1, <2>1, <2>3
    <3> QED
      BY <1>1, <1>2, <1>3, <1>5, <2>1, <2>3, <3>1
  <2> QED
    BY <2>2, <2>3
<1> QED
  BY <1>4, <1>5, <1>6

LEMMA HotStarts == ASSUME DevAssumption, HMInit PROVE HotOK(hm)
<1>1. <<>> \in Seq(Told) /\ Len(<<>>) = 0 /\ 1 \in Told /\ 0 \in 0 .. HmrRetries
  BY DEF DevAssumption, Told
<1> QED
  BY <1>1 DEF HMInit, HotOK, HotState, Newest

\* What is kept when only the link, the retries, the callbacks or their count change.
LEMMA HotKept ==
  ASSUME NEW s, NEW t, HotOK(s), t \in HotState, t.version = s.version, t.inbox = s.inbox,
         t.importing = s.importing, t.shows = s.shows, t.under = s.under, ~t.missed => ~s.missed
  PROVE  HotOK(t)
  BY DEF HotOK, Newest

\* A page that reloads shows the newest version and waits for nothing.
LEMMA HotReloaded ==
  ASSUME DevAssumption, NEW s \in HotState
  PROVE  HotOK(Reload(s))
<1>1. <<>> \in Seq(Told) /\ Len(<<>>) = 0 /\ 0 \in 0 .. HmrRetries
  BY DEF DevAssumption
<1>2. PICK version \in Told : version = s.version
  BY DEF HotState
<1>3. Reload(s) = [s EXCEPT !.shows = version, !.importing = <<>>, !.inbox = <<>>,
                       !.accepted = FALSE, !.declined = FALSE, !.disposed = 0,
                       !.under = {}, !.missed = FALSE, !.link = "connecting", !.retries = 0]
  BY <1>2 DEF Reload
<1>4. Reload(s) \in HotState
  <2>1. PICK a : a = [s EXCEPT !.shows = version, !.importing = <<>>, !.inbox = <<>>, !.accepted = FALSE, !.declined = FALSE]
    OBVIOUS
  <2>2. a \in HotState
    BY <1>1, <2>1 DEF HotState
  <2>3. Reload(s) = [a EXCEPT !.disposed = 0, !.under = {}, !.missed = FALSE, !.link = "connecting", !.retries = 0]
    BY <1>3, <2>1
  <2>4. PICK b : b = [a EXCEPT !.disposed = 0, !.under = {}, !.missed = FALSE]
    OBVIOUS
  <2>5. b \in HotState
    BY <2>2, <2>4 DEF HotState
  <2>6. Reload(s) = [b EXCEPT !.link = "connecting", !.retries = 0]
    BY <2>3, <2>4
  <2> QED
    BY <1>1, <2>5, <2>6 DEF HotState
<1>5. Reload(s).shows = version /\ Reload(s).version = version /\ Reload(s).importing = <<>> /\ Reload(s).inbox = <<>>
  BY <1>2, <1>3 DEF HotState
<1> QED
  BY <1>1, <1>4, <1>5 DEF HotOK, Newest

LEMMA HotStep == ASSUME DevAssumption, HotOK(hm), [HMNext]_hm PROVE HotOK(hm')
<1>0. /\ hm \in HotState /\ MaxVersion \in Nat /\ HmrRetries \in Nat
      /\ ~hm.missed /\ hm.inbox # <<>> => hm.inbox[Len(hm.inbox)] = hm.version
      /\ ~hm.missed /\ hm.inbox = <<>> =>
           /\ \A k \in 1 .. Len(hm.importing) : hm.importing[k] \in Newest(hm)
           /\ hm.importing = <<>> => hm.shows \in Newest(hm)
  BY DEF HotOK, DevAssumption
<1>a. hm.inbox \in Seq(Told) /\ hm.importing \in Seq(Told) /\ hm.version \in Told /\ hm.shows \in Told
      /\ hm.missed \in BOOLEAN /\ hm.under \in SUBSET Told /\ hm.disposed \in Nat /\ hm.retries \in 0 .. HmrRetries
  BY <1>0 DEF HotState
<1>1. CASE UNCHANGED hm
  BY <1>1
<1>2. CASE NotifyUpdate
  <2>1. PICK version \in Told : version = hm.version + 1
    BY <1>a, <1>0, <1>2 DEF NotifyUpdate, Told
  <2>2. PICK missed \in BOOLEAN : missed = (hm.missed \/ hm.link # "up")
    OBVIOUS
  <2>3. PICK inbox \in Seq(Told) : inbox = IF hm.link = "up" THEN Append(hm.inbox, version) ELSE hm.inbox
    <3>1. Append(hm.inbox, version) \in Seq(Told)
      BY <1>a, AppendProperties
    <3> QED
      BY <1>a, <3>1
  <2>4. hm' = [hm EXCEPT !.version = version, !.inbox = inbox, !.missed = missed]
    BY <1>0, <1>2, <2>1, <2>2, <2>3 DEF NotifyUpdate, HotState
  <2>5. hm' \in HotState
    BY <1>0, <2>4 DEF HotState
  <2>6. hm'.version = version /\ hm'.inbox = inbox /\ hm'.missed = missed
    BY <1>0, <2>4 DEF HotState
  <2>7. ~missed => inbox # <<>> /\ inbox[Len(inbox)] = version
    <3>1. SUFFICES ASSUME hm.link = "up" PROVE inbox # <<>> /\ inbox[Len(inbox)] = version
      BY <2>2, Zenon
    <3>2. inbox = Append(hm.inbox, version)
      BY <2>3, <3>1
    <3>3. /\ Append(hm.inbox, version) # <<>> /\ Len(Append(hm.inbox, version)) = Len(hm.inbox) + 1
          /\ Append(hm.inbox, version)[Len(hm.inbox) + 1] = version
      BY <1>a, AppendProperties
    <3> QED
      BY <3>2, <3>3
  <2> QED
    BY <1>0, <2>5, <2>6, <2>7 DEF HotOK
<1>3. CASE Accept \/ Decline
  <2>1. PICK accepted \in BOOLEAN, declined \in BOOLEAN : hm' = [hm EXCEPT !.accepted = accepted, !.declined = declined]
    <3>1. CASE Accept
      <4>1. hm' = [hm EXCEPT !.accepted = TRUE, !.declined = hm.declined] /\ hm.declined \in BOOLEAN
        BY <1>0, <3>1 DEF Accept, HotState
      <4> QED
        BY <4>1
    <3>2. CASE Decline
      <4>1. hm' = [hm EXCEPT !.accepted = hm.accepted, !.declined = TRUE] /\ hm.accepted \in BOOLEAN
        BY <1>0, <3>2 DEF Decline, HotState
      <4> QED
        BY <4>1
    <3> QED
      BY <1>3, <3>1, <3>2
  <2>2. hm' \in HotState
    BY <1>0, <2>1 DEF HotState
  <2>3. hm'.version = hm.version /\ hm'.inbox = hm.inbox /\ hm'.importing = hm.importing /\ hm'.shows = hm.shows
        /\ hm'.under = hm.under /\ hm'.missed = hm.missed
    BY <1>0, <2>1 DEF HotState
  <2> QED
    BY <2>2, <2>3, HotKept
<1>4. CASE HandleComponentUpdate
  <2>1. /\ hm.inbox # <<>> /\ Head(hm.inbox) \in Told /\ Tail(hm.inbox) \in Seq(Told) /\ Head(hm.inbox) = hm.inbox[1]
        /\ Len(hm.inbox) \in Nat /\ (Tail(hm.inbox) = <<>> => Len(hm.inbox) = 1)
        /\ Len(Tail(hm.inbox)) = Len(hm.inbox) - 1
        /\ \A k \in 1 .. Len(Tail(hm.inbox)) : Tail(hm.inbox)[k] = hm.inbox[k + 1]
    <3>1. hm.inbox # <<>>
      BY <1>4 DEF HandleComponentUpdate
    <3>2. Len(hm.inbox) \in Nat /\ Len(<<>>) = 0
      BY <1>a, LenProperties, EmptySeq
    <3>3. /\ Head(hm.inbox) \in Told /\ Tail(hm.inbox) \in Seq(Told) /\ Len(Tail(hm.inbox)) = Len(hm.inbox) - 1
          /\ \A k \in 1 .. Len(Tail(hm.inbox)) : Tail(hm.inbox)[k] = hm.inbox[k + 1]
      BY <1>a, <3>1, HeadTailProperties
    <3>4. Head(hm.inbox) = hm.inbox[1]
      BY <3>1
    <3>5. Tail(hm.inbox) = <<>> => Len(hm.inbox) = 1
      <4>1. PICK n : n = Len(hm.inbox)
        OBVIOUS
      <4>2. Len(Tail(hm.inbox)) = n - 1 /\ n \in Nat
        BY <3>2, <3>3, <4>1
      <4>3. Tail(hm.inbox) = <<>> => n - 1 = 0
        BY <3>2, <4>2
      <4> QED
        BY <4>1, <4>2, <4>3
    <3> QED
      BY <3>1, <3>2, <3>3, <3>4, <3>5, Zenon
  <2>2. PICK inbox \in Seq(Told) : inbox = Tail(hm.inbox)
    BY <2>1
  <2>3. [hm EXCEPT !.inbox = inbox] \in HotState
    BY <1>0 DEF HotState
  <2>4. CASE hm.declined \/ ~hm.accepted
    <3>1. hm' = Reload([hm EXCEPT !.inbox = inbox])
      BY <1>4, <2>2, <2>4 DEF HandleComponentUpdate
    <3> QED
      BY <2>3, <3>1, HotReloaded
  <2>5. CASE ~(hm.declined \/ ~hm.accepted)
    <3>1. PICK importing \in Seq(Told) : importing = Append(hm.importing, Head(hm.inbox))
      BY <1>a, <2>1, AppendProperties
    <3>2. PICK disposed \in Nat : disposed = IF hm.disposed < 2 THEN hm.disposed + 1 ELSE hm.disposed
      BY <1>a
    <3>3. PICK under \in SUBSET Told : under = ToSet(hm.importing)
      <4>1. ToSet(hm.importing) \in SUBSET Told
        BY <1>a, ElementOfSeq DEF ToSet
      <4> QED
        BY <4>1
    <3>4. hm' = [hm EXCEPT !.inbox = inbox, !.importing = importing, !.disposed = disposed, !.under = under]
      BY <1>0, <1>4, <2>2, <2>5, <3>1, <3>2, <3>3 DEF HandleComponentUpdate, HotState
    <3>5. hm' \in HotState
      BY <1>0, <3>4 DEF HotState
    <3>6. hm'.version = hm.version /\ hm'.inbox = inbox /\ hm'.importing = importing /\ hm'.under = under
          /\ hm'.missed = hm.missed
      BY <1>0, <3>4 DEF HotState
    <3>7. importing # <<>> /\ \A k \in 1 .. Len(importing) : importing[k] \in {Head(hm.inbox)} \cup under
      <4>1. /\ Len(importing) = Len(hm.importing) + 1 /\ Len(hm.importing) \in Nat
            /\ \A k \in 1 .. Len(hm.importing) : importing[k] = hm.importing[k]
            /\ importing[Len(hm.importing) + 1] = Head(hm.inbox)
        BY <1>a, <2>1, <3>1, AppendProperties, LenProperties
      <4>2. \A k \in 1 .. Len(hm.importing) : hm.importing[k] \in under
        BY <1>a, <3>3, LenProperties DEF ToSet
      <4>3. importing # <<>>
        BY <4>1, EmptySeq
      <4> QED
        BY <4>1, <4>2, <4>3
    <3>8. ~hm.missed /\ inbox = <<>> => Head(hm.inbox) = hm.version
      BY <1>0, <2>1, <2>2
    <3>9. ~hm.missed /\ inbox # <<>> => inbox[Len(inbox)] = hm.version
      <4>1. ASSUME inbox # <<>> PROVE inbox[Len(inbox)] = hm.inbox[Len(hm.inbox)]
        <5>1. Len(inbox) \in Nat \ {0} /\ Len(inbox) = Len(hm.inbox) - 1
          BY <2>1, <2>2, <4>1, EmptySeq
        <5> QED
          BY <2>1, <2>2, <5>1
      <4> QED
        BY <1>0, <2>1, <4>1
    <3>a. ~hm'.missed /\ hm'.inbox # <<>> => hm'.inbox[Len(hm'.inbox)] = hm'.version
      <4>1. hm'.missed = hm.missed /\ hm'.inbox = inbox /\ hm'.version = hm.version
        BY <3>6
      <4> QED
        BY <3>9, <4>1
    <3>b. ~hm'.missed /\ hm'.inbox = <<>> => hm'.importing # <<>> /\ \A k \in 1 .. Len(hm'.importing) : hm'.importing[k] \in Newest(hm')
      BY <3>6, <3>7, <3>8 DEF Newest
    <3> QED
      BY <3>5, <3>a, <3>b DEF HotOK
  <2> QED
    BY <2>4, <2>5
<1>5. CASE LinkDrops
  <2>1. PICK missed \in BOOLEAN : missed = (hm.missed \/ hm.inbox # <<>>)
    OBVIOUS
  <2>2. hm' = [hm EXCEPT !.link = "down", !.missed = missed, !.inbox = <<>>]
    BY <1>0, <1>5, <2>1 DEF LinkDrops, HotState
  <2>3. <<>> \in Seq(Told)
    OBVIOUS
  <2>4. hm' \in HotState
    BY <1>0, <2>2, <2>3 DEF HotState
  <2>5. hm'.version = hm.version /\ hm'.inbox = <<>> /\ hm'.importing = hm.importing /\ hm'.shows = hm.shows
        /\ hm'.under = hm.under /\ hm'.missed = missed
    BY <1>0, <2>2 DEF HotState
  <2>6. ~missed => ~hm.missed /\ hm.inbox = <<>>
    BY <2>1, Zenon
  <2> QED
    BY <1>0, <2>4, <2>5, <2>6 DEF HotOK, Newest
<1>6. CASE \E b \in BOOLEAN : ConnectHmr(b) \/ RetryConnect(b)
  <2>1. PICK link \in {"up", "down", "gone"}, retries \in 0 .. HmrRetries : hm' = [hm EXCEPT !.link = link, !.retries = retries]
    <3>1. CASE hm' = [hm EXCEPT !.link = "gone"]
      <4>1. hm' = [hm EXCEPT !.link = "gone", !.retries = hm.retries]
        BY <1>0, <3>1 DEF HotState
      <4> QED
        BY <1>a, <4>1
    <3>2. CASE hm' = [hm EXCEPT !.link = "up", !.retries = 0]
      <4>1. 0 \in 0 .. HmrRetries
        BY <1>0
      <4> QED
        BY <3>2, <4>1
    <3>3. CASE hm.link = "down" /\ hm.retries # HmrRetries /\ hm' = [hm EXCEPT !.retries = @ + 1]
      <4>1. hm.retries + 1 \in 0 .. HmrRetries
        BY <1>0, <1>a, <3>3
      <4>2. hm' = [hm EXCEPT !.link = "down", !.retries = hm.retries + 1]
        BY <1>0, <3>3 DEF HotState
      <4> QED
        BY <4>1, <4>2
    <3>4. ASSUME NEW b \in BOOLEAN, ConnectHmr(b)
          PROVE  \E link \in {"up", "down"} : hm' = [hm EXCEPT !.link = link, !.retries = hm.retries]
      <4>1. PICK link \in {"up", "down"} : link = IF b THEN "up" ELSE "down"
        OBVIOUS
      <4>2. hm' = [hm EXCEPT !.link = link]
        BY <3>4, <4>1 DEF ConnectHmr
      <4>3. hm' = [hm EXCEPT !.link = link, !.retries = hm.retries]
        BY <1>0, <4>2 DEF HotState
      <4> QED
        BY <4>3
    <3> QED
      BY <1>6, <1>a, <3>1, <3>2, <3>3, <3>4 DEF RetryConnect
  <2>2. hm' \in HotState
    BY <1>0, <2>1 DEF HotState
  <2>3. hm'.version = hm.version /\ hm'.inbox = hm.inbox /\ hm'.importing = hm.importing /\ hm'.shows = hm.shows
        /\ hm'.under = hm.under /\ hm'.missed = hm.missed
    BY <1>0, <2>1 DEF HotState
  <2> QED
    BY <2>2, <2>3, HotKept
<1>7. CASE \E k \in 1 .. Len(hm.importing) : ImportResolves(k) \/ ImportFails(k)
  <2>1. PICK k \in 1 .. Len(hm.importing) : ImportResolves(k) \/ ImportFails(k)
    BY <1>7
  <2>2. PICK shows \in Told : shows = hm.importing[k]
    BY <1>a
  <2>3. PICK importing : importing = RemoveAt(hm.importing, k)
    OBVIOUS
  <2>4. importing \in Seq(Told) /\ \A i \in 1 .. Len(importing) : \E j \in 1 .. Len(hm.importing) : importing[i] = hm.importing[j]
    BY <1>a, <2>3, OneLess
  <2>5. CASE ImportResolves(k)
    <3>1. hm' = [hm EXCEPT !.importing = importing, !.shows = shows, !.disposed = 0]
      BY <2>2, <2>3, <2>5 DEF ImportResolves
    <3>2. hm' \in HotState
      BY <1>0, <2>4, <3>1 DEF HotState
    <3>3. hm'.version = hm.version /\ hm'.inbox = hm.inbox /\ hm'.importing = importing /\ hm'.shows = shows
          /\ hm'.under = hm.under /\ hm'.missed = hm.missed
      BY <1>0, <3>1 DEF HotState
    <3>4. Newest(hm') = Newest(hm)
      BY <3>3 DEF Newest
    <3>5. ~hm.missed /\ hm.inbox = <<>> =>
            shows \in Newest(hm) /\ \A i \in 1 .. Len(importing) : importing[i] \in Newest(hm)
      BY <1>0, <2>1, <2>2, <2>4
    <3> QED
      BY <1>0, <3>2, <3>3, <3>4, <3>5 DEF HotOK
  <2>6. CASE ImportFails(k)
    <3>1. [hm EXCEPT !.importing = importing] \in HotState
      BY <1>0, <2>4 DEF HotState
    <3> QED
      BY <2>3, <2>6, <3>1, HotReloaded DEF ImportFails
  <2> QED
    BY <2>1, <2>5, <2>6
<1> QED
  BY <1>1, <1>2, <1>3, <1>4, <1>5, <1>6, <1>7 DEF HMNext

LEMMA HotFromInv == HotOK(hm) => HotModuleNewest
  BY DEF HotOK, HotModuleNewest, Newest

-----------------------------------------------------------------------------
(* DevServer: the frames of a stream, however it is cut *)

LEMMA FrameSizeIs == ASSUME NEW n \in Nat PROVE FrameSize(n) \in Nat /\ FrameSize(n) >= HeaderSize(n) /\ HeaderSize(n) \in Nat /\ HeaderSize(n) >= 2
  BY DEF FrameSize, HeaderSize

\* The sums that BytesOf makes, up to the m-th.
Sums(f, frames, m) == f = [k \in 0 .. m |-> IF k = 0 THEN 0 ELSE f[k - 1] + FrameSize(frames[k])]

LEMMA SumsExist ==
  ASSUME NEW frames, NEW n \in Nat
  PROVE  \E f : Sums(f, frames, n)
<1> DEFINE Without == {m \in Nat : ~\E f : Sums(f, frames, m)}
<1>1. SUFFICES ASSUME Without # {} PROVE FALSE
  OBVIOUS
<1>2. PICK m \in Without : \A l \in Without : m <= l
  BY <1>1, LeastNat
<1>3. CASE m = 0
  <2>1. PICK f : f = [k \in 0 .. 0 |-> 0]
    OBVIOUS
  <2>2. f = [k \in 0 .. 0 |-> IF k = 0 THEN 0 ELSE f[k - 1] + FrameSize(frames[k])]
    BY <2>1
  <2> QED
    BY <1>3, <2>2 DEF Sums
<1>4. CASE m # 0
  <2>1. m - 1 \in Nat /\ m - 1 \notin Without
    BY <1>2, <1>4
  <2>2. PICK f : Sums(f, frames, m - 1)
    BY <2>1
  <2>3. \A k \in 0 .. m - 1 : f[k] = IF k = 0 THEN 0 ELSE f[k - 1] + FrameSize(frames[k])
    BY <2>2 DEF Sums
  <2>4. PICK g : g = [k \in 0 .. m |-> IF k = m THEN f[m - 1] + FrameSize(frames[m]) ELSE f[k]]
    OBVIOUS
  <2>5. ASSUME NEW k \in 0 .. m
        PROVE  g[k] = IF k = 0 THEN 0 ELSE g[k - 1] + FrameSize(frames[k])
    <3>1. CASE k = m
      <4>1. g[m] = f[m - 1] + FrameSize(frames[m]) /\ g[m - 1] = f[m - 1]
        BY <1>2, <1>4, <2>1, <2>4
      <4> QED
        BY <1>4, <3>1, <4>1
    <3>2. CASE k # m
      <4>1. k \in 0 .. m - 1 /\ g[k] = f[k] /\ (k # 0 => g[k - 1] = f[k - 1])
        BY <1>2, <1>4, <2>4, <3>2
      <4> QED
        BY <2>3, <4>1
    <3> QED
      BY <3>1, <3>2
  <2>6. g = [k \in 0 .. m |-> IF k = 0 THEN 0 ELSE g[k - 1] + FrameSize(frames[k])]
    BY <2>4, <2>5
  <2> QED
    BY <1>2, <2>6 DEF Sums
<1> QED
  BY <1>3, <1>4

LEMMA BytesAre ==
  ASSUME NEW frames \in Seq(Nat)
  PROVE  \E f : Sums(f, frames, Len(frames)) /\ BytesOf(frames) = f[Len(frames)]
<1> DEFINE f == CHOOSE f : Sums(f, frames, Len(frames))
<1>1. BytesOf(frames) = f[Len(frames)]
  BY DEF BytesOf, Sums
<1>2. Sums(f, frames, Len(frames))
  <2>1. Len(frames) \in Nat
    BY LenProperties
  <2> QED
    BY <2>1, SumsExist
<1> QED
  BY <1>1, <1>2

Alike(s, t, m) == \A i \in 1 .. m : s[i] = t[i]

\* Two sequences that agree up to a point have the same sums up to it.
LEMMA SumsAgree ==
  ASSUME NEW s, NEW t, NEW m \in Nat, NEW n \in Nat, m <= n, Alike(s, t, m),
         NEW f, NEW g, Sums(f, s, m), Sums(g, t, n)
  PROVE  f[m] = g[m]
<1> DEFINE Apart == {k \in 0 .. m : f[k] # g[k]}
<1>1. SUFFICES ASSUME Apart # {} PROVE FALSE
  BY DEF Apart
<1>2. Apart \subseteq Nat
  OBVIOUS
<1>3. PICK k \in Apart : \A l \in Apart : k <= l
  BY <1>1, <1>2, LeastNat
<1>4. k \in 0 .. m /\ f[k] # g[k]
  OBVIOUS
<1>5. f[k] = (IF k = 0 THEN 0 ELSE f[k - 1] + FrameSize(s[k])) /\ g[k] = (IF k = 0 THEN 0 ELSE g[k - 1] + FrameSize(t[k]))
  <2>1. k \in 0 .. n
    BY <1>4
  <2> QED
    BY <1>4, <2>1 DEF Sums
<1>6. k # 0
  BY <1>4, <1>5
<1>7. k - 1 \in 0 .. m /\ k \in 1 .. m /\ k - 1 \notin Apart
  BY <1>3, <1>4, <1>6
<1>8. f[k - 1] = g[k - 1] /\ s[k] = t[k]
  BY <1>7 DEF Alike
<1> QED
  BY <1>4, <1>5, <1>6, <1>8

LEMMA NoBytes == BytesOf(<<>>) = 0
<1>1. <<>> \in Seq(Nat) /\ Len(<<>>) = 0
  BY EmptySeq
<1>2. PICK f : Sums(f, <<>>, 0) /\ BytesOf(<<>>) = f[0]
  BY <1>1, BytesAre
<1> QED
  BY <1>2 DEF Sums

LEMMA OneFrameMore ==
  ASSUME NEW frames \in Seq(Nat), NEW n \in Nat
  PROVE  BytesOf(Append(frames, n)) = BytesOf(frames) + FrameSize(n)
<1>1. PICK m \in Nat : m = Len(frames)
  BY LenProperties
<1>2. PICK more \in Seq(Nat) : more = Append(frames, n)
  BY AppendProperties
<1>3. Len(more) = m + 1 /\ more[m + 1] = n /\ \A i \in 1 .. m : more[i] = frames[i]
  BY <1>1, <1>2, AppendProperties
<1>4. PICK f : Sums(f, frames, m) /\ BytesOf(frames) = f[m]
  BY <1>1, BytesAre
<1>5. PICK g : Sums(g, more, m + 1) /\ BytesOf(more) = g[m + 1]
  BY <1>3, BytesAre
<1>6. f[m] = g[m]
  <2>1. m + 1 \in Nat /\ m <= m + 1 /\ Alike(frames, more, m)
    BY <1>3 DEF Alike
  <2> QED
    BY <1>4, <1>5, <2>1, SumsAgree
<1>7. g[m + 1] = g[m] + FrameSize(n)
  <2>1. m + 1 \in 0 .. m + 1 /\ m + 1 # 0 /\ (m + 1) - 1 = m
    OBVIOUS
  <2>2. g[m + 1] = g[(m + 1) - 1] + FrameSize(more[m + 1])
    BY <1>5, <2>1 DEF Sums
  <2> QED
    BY <1>3, <2>1, <2>2
<1> QED
  BY <1>2, <1>4, <1>5, <1>6, <1>7

\* Of received bytes, those of the frames that came out and those still in the buffer.
Whole(r, received) ==
  /\ r.buffer \in Nat /\ r.parsed \in Seq(Nat) /\ Len(r.parsed) <= Len(Frames)
  /\ \A i \in 1 .. Len(r.parsed) : r.parsed[i] = Frames[i]
  /\ BytesOf(r.parsed) \in Nat /\ r.buffer + BytesOf(r.parsed) = received

\* The loop has nothing more to take out.
Rests(r) == Len(r.parsed) < Len(Frames) => r.buffer < FrameSize(Frames[Len(r.parsed) + 1])

LEMMA TurnWhole ==
  ASSUME DevAssumption, NEW r, NEW n, Whole(r, n)
  PROVE  /\ Whole(ParseNext(r), n)
         /\ Rests(r) => ParseNext(r) = r
         /\ ~Rests(r) => Len(ParseNext(r).parsed) = Len(r.parsed) + 1
<1> DEFINE next == Frames[Len(r.parsed) + 1]
<1>1. PICK m \in Nat, l \in Nat : m = Len(r.parsed) /\ l = Len(Frames) /\ m <= l
  BY LenProperties DEF Whole, DevAssumption
<1>2. CASE m = l
  BY <1>1, <1>2 DEF ParseNext, Rests
<1>3. CASE m # l
  <2>1. m < l /\ m + 1 \in 1 .. Len(Frames)
    BY <1>1, <1>3
  <2>2. PICK k \in Nat : k = next
    BY <1>1, <2>1, ElementOfSeq DEF DevAssumption
  <2>3. FrameSize(k) \in Nat /\ FrameSize(k) >= HeaderSize(k) /\ HeaderSize(k) >= 2 /\ HeaderSize(k) \in Nat
    BY FrameSizeIs
  <2>4. r.buffer \in Nat
    BY DEF Whole
  <2>5. FrameComplete(r.buffer, k) <=> ~(r.buffer < FrameSize(k))
    BY <2>3, <2>4 DEF FrameComplete
  <2>6. Rests(r) <=> r.buffer < FrameSize(k)
    BY <1>1, <2>1, <2>2 DEF Rests
  <2>7. CASE Rests(r)
    <3>1. ParseNext(r) = r
      BY <2>2, <2>5, <2>6, <2>7 DEF ParseNext
    <3> QED
      BY <2>7, <3>1
  <2>8. CASE ~Rests(r)
    <3>1. ParseNext(r) = [buffer |-> r.buffer - FrameSize(k), parsed |-> Append(r.parsed, k)]
      BY <1>1, <1>3, <2>2, <2>5, <2>6, <2>8 DEF ParseNext
    <3>2. PICK buffer, parsed : buffer = r.buffer - FrameSize(k) /\ parsed = Append(r.parsed, k)
      OBVIOUS
    <3>3. ParseNext(r).buffer = buffer /\ ParseNext(r).parsed = parsed
      BY <3>1, <3>2
    <3>4. r.parsed \in Seq(Nat)
      BY DEF Whole
    <3>5. parsed \in Seq(Nat) /\ Len(parsed) = m + 1 /\ parsed[m + 1] = k /\ \A i \in 1 .. m : parsed[i] = r.parsed[i]
      BY <1>1, <3>2, <3>4, AppendProperties
    <3>6. BytesOf(parsed) = BytesOf(r.parsed) + FrameSize(k)
      BY <3>2, <3>4, OneFrameMore
    <3>7. PICK sum \in Nat : sum = BytesOf(r.parsed) /\ r.buffer + sum = n
      BY DEF Whole
    <3>8. buffer \in Nat /\ sum + FrameSize(k) \in Nat /\ buffer + (sum + FrameSize(k)) = n
      BY <2>3, <2>4, <2>6, <2>8, <3>2, <3>7
    <3>9. \A i \in 1 .. Len(parsed) : parsed[i] = Frames[i]
      <4>1. \A i \in 1 .. m : r.parsed[i] = Frames[i]
        BY <1>1 DEF Whole
      <4>2. \A i \in 1 .. m + 1 : i \in 1 .. m \/ i = m + 1
        OBVIOUS
      <4> QED
        BY <1>1, <2>2, <3>5, <4>1, <4>2
    <3>10. Len(parsed) <= Len(Frames)
      BY <1>1, <2>1, <3>5
    <3> QED
      BY <1>1, <2>8, <3>3, <3>5, <3>6, <3>7, <3>8, <3>9, <3>10 DEF Whole
  <2> QED
    BY <2>7, <2>8
<1> QED
  BY <1>2, <1>3

\* The turns that ParseAll takes, up to the m-th.
Turns(f, r, m) == f = [k \in 0 .. m |-> IF k = 0 THEN r ELSE ParseNext(f[k - 1])]

LEMMA TurnsExist ==
  ASSUME NEW r, NEW n \in Nat
  PROVE  \E f : Turns(f, r, n)
<1> DEFINE Without == {m \in Nat : ~\E f : Turns(f, r, m)}
<1>1. SUFFICES ASSUME Without # {} PROVE FALSE
  OBVIOUS
<1>2. PICK m \in Without : \A l \in Without : m <= l
  BY <1>1, LeastNat
<1>3. CASE m = 0
  <2>1. PICK f : f = [k \in 0 .. 0 |-> r]
    OBVIOUS
  <2>2. f = [k \in 0 .. 0 |-> IF k = 0 THEN r ELSE ParseNext(f[k - 1])]
    BY <2>1
  <2> QED
    BY <1>3, <2>2 DEF Turns
<1>4. CASE m # 0
  <2>1. m - 1 \in Nat /\ m - 1 \notin Without
    BY <1>2, <1>4
  <2>2. PICK f : Turns(f, r, m - 1)
    BY <2>1
  <2>3. \A k \in 0 .. m - 1 : f[k] = IF k = 0 THEN r ELSE ParseNext(f[k - 1])
    BY <2>2 DEF Turns
  <2>4. PICK g : g = [k \in 0 .. m |-> IF k = m THEN ParseNext(f[m - 1]) ELSE f[k]]
    OBVIOUS
  <2>5. ASSUME NEW k \in 0 .. m
        PROVE  g[k] = IF k = 0 THEN r ELSE ParseNext(g[k - 1])
    <3>1. CASE k = m
      <4>1. g[m] = ParseNext(f[m - 1]) /\ g[m - 1] = f[m - 1]
        BY <1>2, <1>4, <2>1, <2>4
      <4> QED
        BY <1>4, <3>1, <4>1
    <3>2. CASE k # m
      <4>1. k \in 0 .. m - 1 /\ g[k] = f[k] /\ (k # 0 => g[k - 1] = f[k - 1])
        BY <1>2, <1>4, <2>4, <3>2
      <4> QED
        BY <2>3, <4>1
    <3> QED
      BY <3>1, <3>2
  <2>6. g = [k \in 0 .. m |-> IF k = 0 THEN r ELSE ParseNext(g[k - 1])]
    BY <2>4, <2>5
  <2> QED
    BY <1>2, <2>6 DEF Turns
<1> QED
  BY <1>3, <1>4

\* After k turns k frames are out, or the loop rests.
LEMMA ParsedWhole ==
  ASSUME DevAssumption, NEW buffer, NEW parsed, NEW n, Whole([buffer |-> buffer, parsed |-> parsed], n)
  PROVE  Whole(ParseAll(buffer, parsed), n) /\ Rests(ParseAll(buffer, parsed))
<1>1. PICK r : r = [buffer |-> buffer, parsed |-> parsed]
  OBVIOUS
<1>2. PICK l \in Nat : l = Len(Frames)
  BY LenProperties DEF DevAssumption
<1>3. PICK f : Turns(f, r, l) /\ ParseAll(buffer, parsed) = f[l]
  <2> DEFINE g == CHOOSE f : Turns(f, r, l)
  <2>1. ParseAll(buffer, parsed) = g[l]
    BY <1>1, <1>2 DEF ParseAll, Turns
  <2>2. Turns(g, r, l)
    BY TurnsExist
  <2> QED
    BY <2>1, <2>2
<1>4. \A k \in 0 .. l : f[k] = IF k = 0 THEN r ELSE ParseNext(f[k - 1])
  BY <1>3 DEF Turns
<1> DEFINE Fine(k) == Whole(f[k], n) /\ (Rests(f[k]) \/ Len(f[k].parsed) >= k)
           Wrong == {k \in 0 .. l : ~Fine(k)}
<1>5. ASSUME Wrong # {} PROVE FALSE
  <2>1. Wrong \subseteq Nat
    OBVIOUS
  <2>2. PICK k \in Wrong : \A j \in Wrong : k <= j
    BY <1>5, <2>1, LeastNat
  <2>3. k \in 0 .. l /\ ~Fine(k)
    OBVIOUS
  <2>4. k # 0
    <3>1. Whole(r, n)
      BY <1>1
    <3>2. Len(r.parsed) >= 0
      BY <3>1, LenProperties DEF Whole
    <3>3. 0 \in 0 .. l
      OBVIOUS
    <3>4. f[0] = r
      BY <1>4, <3>3
    <3>5. Fine(0)
      BY <3>1, <3>2, <3>4
    <3> QED
      BY <2>3, <3>5
  <2>5. k - 1 \in 0 .. l /\ k - 1 \notin Wrong
    BY <2>2, <2>3, <2>4
  <2>6. Whole(f[k - 1], n) /\ (Rests(f[k - 1]) \/ Len(f[k - 1].parsed) >= k - 1)
    BY <2>5
  <2>7. f[k] = ParseNext(f[k - 1])
    BY <1>4, <2>3, <2>4
  <2>8. PICK m \in Nat : m = Len(f[k - 1].parsed)
    BY <2>6, LenProperties DEF Whole
  <2>9. CASE Rests(f[k - 1])
    <3>1. f[k] = f[k - 1]
      BY <2>6, <2>7, <2>9, TurnWhole
    <3> QED
      BY <2>3, <2>6, <2>9, <3>1
  <2>10. CASE ~Rests(f[k - 1])
    <3>1. Whole(f[k], n) /\ Len(f[k].parsed) = m + 1
      BY <2>6, <2>7, <2>8, <2>10, TurnWhole
    <3>2. Len(f[k].parsed) >= k
      BY <2>3, <2>6, <2>8, <2>10, <3>1
    <3> QED
      BY <2>3, <3>1, <3>2
  <2> QED
    BY <2>9, <2>10
<1>6. Fine(l)
  BY <1>5
<1>7. Len(f[l].parsed) >= l => Rests(f[l])
  <2>1. PICK m \in Nat : m = Len(f[l].parsed)
    BY <1>6, LenProperties DEF Whole
  <2> QED
    BY <1>2, <2>1 DEF Rests
<1> QED
  BY <1>3, <1>6, <1>7

WFOK(s) == s.received \in Nat /\ Whole(s, s.received) /\ Rests(s)

\* A stream is told by its three fields.
LEMMA StreamIs ==
  ASSUME NEW s, NEW r, NEW n \in Nat, s.received = n, s.buffer = r.buffer, s.parsed = r.parsed, Whole(r, n), Rests(r)
  PROVE  WFOK(s)
  BY DEF WFOK, Whole, Rests

LEMMA StreamStarts == ASSUME DevAssumption, WFInit PROVE WFOK(wf)
<1>1. <<>> \in Seq(Nat) /\ Len(<<>>) = 0
  BY EmptySeq
<1>2. PICK l \in Nat : l = Len(Frames)
  BY LenProperties DEF DevAssumption
<1>3. wf.received = 0 /\ wf.buffer = 0 /\ wf.parsed = <<>>
  BY DEF WFInit
<1>4. Whole(wf, 0)
  BY <1>1, <1>2, <1>3, NoBytes DEF Whole
<1>5. Rests(wf)
  <2>1. l > 0 => Frames[1] \in Nat
    BY <1>2, ElementOfSeq DEF DevAssumption
  <2>2. l > 0 => 0 < FrameSize(Frames[1])
    BY <2>1, FrameSizeIs
  <2> QED
    BY <1>1, <1>2, <1>3, <2>2 DEF Rests
<1> QED
  BY <1>3, <1>4, <1>5 DEF WFOK

LEMMA StreamStep == ASSUME DevAssumption, WFOK(wf), [WFNext]_wf PROVE WFOK(wf')
<1>1. CASE UNCHANGED wf
  BY <1>1
<1>2. CASE WFNext
  <2>1. PICK n \in 1 .. 4 \cup {FrameSize(m) - k : m \in ToSet(Frames), k \in 0 .. 1} : DataArrives(n)
    BY <1>2 DEF WFNext
  <2>2. n \in Nat
    <3>1. ASSUME NEW m \in ToSet(Frames), NEW k \in 0 .. 1 PROVE FrameSize(m) - k \in Nat
      <4>1. m \in Nat
        BY LenProperties, ElementOfSeq DEF ToSet, DevAssumption
      <4>2. FrameSize(m) \in Nat /\ FrameSize(m) >= 2
        BY <4>1, FrameSizeIs
      <4> QED
        BY <4>2
    <3> QED
      BY <2>1, <3>1
  <2>3. PICK b \in Nat, received \in Nat : b = wf.buffer + n /\ received = wf.received + n
    BY <2>2 DEF WFOK, Whole
  <2>a. PICK parsed : parsed = wf.parsed
    OBVIOUS
  <2>4. Whole([buffer |-> b, parsed |-> parsed], received)
    <3> DEFINE r == [buffer |-> b, parsed |-> parsed]
    <3>b. r.buffer = b /\ r.parsed = parsed
      OBVIOUS
    <3> HIDE DEF r
    <3>1. r.buffer = b /\ r.parsed = wf.parsed
      BY <2>a, <3>b
    <3>2. PICK sum \in Nat : sum = BytesOf(wf.parsed) /\ wf.buffer + sum = wf.received /\ wf.buffer \in Nat
      BY DEF WFOK, Whole
    <3>3. b + sum = received
      BY <2>2, <2>3, <3>2
    <3>4. Whole(r, received)
      BY <3>1, <3>2, <3>3 DEF WFOK, Whole
    <3> QED
      BY <3>4 DEF r
  <2>5. PICK r : r = ParseAll(b, parsed)
    OBVIOUS
  <2>6. Whole(r, received) /\ Rests(r)
    BY <2>4, <2>5, ParsedWhole
  <2>7. wf' = [received |-> received, buffer |-> r.buffer, parsed |-> r.parsed]
    BY <2>1, <2>3, <2>a, <2>5 DEF DataArrives
  <2>8. wf'.received = received /\ wf'.buffer = r.buffer /\ wf'.parsed = r.parsed
    BY <2>7
  <2> QED
    BY <2>6, <2>8, StreamIs
<1> QED
  BY <1>1, <1>2

LEMMA StreamFromInv == ASSUME DevAssumption, WFOK(wf) PROVE FramesWhole
<1>1. PICK m \in Nat, l \in Nat : m = Len(wf.parsed) /\ l = Len(Frames) /\ m <= l
  BY LenProperties DEF WFOK, Whole, DevAssumption
<1>2. IsPrefix(wf.parsed, Frames)
  <2>1. wf.parsed \in Seq(Nat) /\ Frames \in Seq(Nat) /\ \A i \in 1 .. m : wf.parsed[i] = Frames[i]
    BY <1>1 DEF WFOK, Whole, DevAssumption
  <2>2. \A i \in 1 .. l : Frames[i] \in Nat
    BY <1>1, <2>1, ElementOfSeq
  <2>3. SubSeq(wf.parsed, 1, m) = wf.parsed
    BY <1>1, <2>1, SubSeqFull
  <2>4. SubSeq(Frames, 1, m) = wf.parsed
    <3>1. PICK t : t = SubSeq(Frames, 1, m)
      OBVIOUS
    <3>2. 1 \in Int /\ m \in Int /\ \A i \in 1 .. m : Frames[i] \in Nat
      BY <1>1, <2>2
    <3>3. t \in Seq(Nat) /\ Len(t) = (IF 1 <= m THEN m - 1 + 1 ELSE 0) /\ \A i \in 1 .. m - 1 + 1 : t[i] = Frames[1 + i - 1]
      BY <3>1, <3>2, SubSeqProperties
    <3>4. Len(t) = m
      BY <3>3
    <3>5. ASSUME NEW i \in 1 .. m PROVE t[i] = wf.parsed[i]
      <4>1. i \in 1 .. m - 1 + 1 /\ 1 + i - 1 = i
        OBVIOUS
      <4> QED
        BY <2>1, <3>3, <4>1
    <3>6. t = wf.parsed
      BY <1>1, <2>1, <3>3, <3>4, <3>5, SeqEqual
    <3> QED
      BY <3>1, <3>6
  <2> QED
    BY <1>1, <2>3, <2>4 DEF IsPrefix
<1> QED
  BY <1>2 DEF WFOK, Whole, Rests, FramesWhole

LEMMA BytesCounted == ASSUME NEW frames \in Seq(Nat) PROVE BytesOf(frames) \in Nat
<1>1. PICK n \in Nat : n = Len(frames) /\ \A i \in 1 .. n : frames[i] \in Nat
  BY LenProperties, ElementOfSeq
<1>2. PICK f : Sums(f, frames, n) /\ BytesOf(frames) = f[n]
  BY <1>1, BytesAre
<1> DEFINE Wrong == {k \in 0 .. n : f[k] \notin Nat}
<1>3. SUFFICES ASSUME Wrong # {} PROVE FALSE
  BY <1>1, <1>2
<1>4. PICK k \in Wrong : \A l \in Wrong : k <= l
  <2>1. Wrong \subseteq Nat
    OBVIOUS
  <2> QED
    BY <1>3, <2>1, LeastNat
<1>5. k \in 0 .. n /\ f[k] \notin Nat
  OBVIOUS
<1>6. f[k] = IF k = 0 THEN 0 ELSE f[k - 1] + FrameSize(frames[k])
  BY <1>2, <1>5 DEF Sums
<1>7. k # 0
  BY <1>5, <1>6
<1>8. k - 1 \in 0 .. n /\ k \in 1 .. n /\ k - 1 \notin Wrong
  BY <1>4, <1>5, <1>7
<1>9. f[k - 1] \in Nat /\ FrameSize(frames[k]) \in Nat
  BY <1>1, <1>8, FrameSizeIs
<1> QED
  BY <1>5, <1>6, <1>7, <1>9

\* No more is received than was sent.
LEMMA StreamEnds ==
  ASSUME DevAssumption
  PROVE  /\ WFInit => wf.received <= TotalSize
         /\ wf.received <= TotalSize /\ [WFNext]_wf => wf'.received <= TotalSize
<1>1. TotalSize \in Nat
  BY BytesCounted DEF DevAssumption, TotalSize
<1>2. WFInit => wf.received <= TotalSize
  BY <1>1 DEF WFInit
<1>3. ASSUME NEW n, DataArrives(n) PROVE wf'.received <= TotalSize
  <2>1. PICK r, received : received = wf.received + n /\ received <= TotalSize /\
             wf' = [received |-> received, buffer |-> r.buffer, parsed |-> r.parsed]
    BY <1>3 DEF DataArrives
  <2> QED
    BY <2>1
<1> QED
  BY <1>2, <1>3 DEF WFNext

LEMMA BufferBound ==
  ASSUME DevAssumption, WFOK(wf), wf.received <= TotalSize PROVE wf.buffer \in 0 .. TotalSize
<1>1. PICK n, b \in Nat : n = TotalSize /\ b = BytesOf(wf.parsed)
  BY BytesCounted DEF DevAssumption, TotalSize, WFOK, Whole
<1>2. wf.buffer \in Nat /\ wf.buffer + b = wf.received /\ wf.received <= n
  BY <1>1 DEF WFOK, Whole
<1> QED
  BY <1>1, <1>2

-----------------------------------------------------------------------------
(* Kit: the route shown and the URL in the address bar *)

Routes == Urls \cup Routed \cup {"null"}
Renderings == [url : Routes, scrolls : BOOLEAN]
RouterState ==
  [entries : Seq(Urls), at : Nat, traversing : Nat, handlers : 0 .. 2, held : BOOLEAN,
   currentRoute : Routes, rendering : Seq(Renderings), prefetched : SUBSET Urls, links : Seq(Urls),
   by : {"path", "href"}]

\* The path whose route is shown.
PathShown(s) == IF s.by = "path" THEN Location(s) ELSE Unresolved
\* A handler that can be taken off is there; while one is, the route is that of the path.
NavigatorOK(s) ==
  /\ s \in RouterState /\ s.at \in 1 .. Len(s.entries)
  /\ s.held => s.handlers > 0
  /\ s.handlers > 0 => s.currentRoute = ResolveRoute(PathShown(s))
  /\ IsInjective(s.links) /\ \A i \in 1 .. Len(s.links) : s.links[i] \in s.prefetched

LEMMA RouterParts ==
  ASSUME NEW s \in RouterState
  PROVE  /\ s.entries \in Seq(Urls) /\ s.at \in Nat /\ s.traversing \in Nat
         /\ s.handlers \in 0 .. 2 /\ s.held \in BOOLEAN /\ s.currentRoute \in Routes
         /\ s.rendering \in Seq(Renderings) /\ s.prefetched \subseteq Urls /\ s.links \in Seq(Urls)
  BY DEF RouterState

\* Where a state is in its history, which only moving in it changes.
InHistory(s) == s \in RouterState /\ s.at \in 1 .. Len(s.entries)
SameLinks(s, t) == t.prefetched = s.prefetched /\ t.links = s.links

\* The route of the URL is set, and its page begins to render.
LEMMA NavigationHandled ==
  ASSUME NEW s, InHistory(s), NEW url \in Routes, NEW scrolls \in BOOLEAN,
         NEW t, t = HandleNavigation(s, url, scrolls)
  PROVE  /\ InHistory(t) /\ t.currentRoute = ResolveRoute(url) /\ Location(t) = Location(s)
         /\ t.handlers = s.handlers /\ t.held = s.held /\ t.by = s.by /\ SameLinks(s, t)
<1>1. s \in RouterState /\ s.rendering \in Seq(Renderings)
  BY RouterParts DEF InHistory
<1>2. PICK route : route = ResolveRoute(url)
  OBVIOUS
<1>3. route \in Routes
  BY <1>2 DEF ResolveRoute, Routes
<1>4. PICK rendering : rendering = IF url \in Routed THEN Append(s.rendering, [url |-> url, scrolls |-> scrolls])
                                   ELSE s.rendering
  OBVIOUS
<1>5. [url |-> url, scrolls |-> scrolls] \in Renderings
  BY DEF Renderings
<1>6. rendering \in Seq(Renderings)
  <2>1. Append(s.rendering, [url |-> url, scrolls |-> scrolls]) \in Seq(Renderings)
    BY <1>1, <1>5, AppendProperties
  <2> QED
    BY <1>1, <1>4, <2>1
<1>7. t = [s EXCEPT !.currentRoute = route, !.rendering = rendering]
  BY <1>1, <1>2, <1>4 DEF HandleNavigation, RouterState
<1>8. /\ t \in RouterState /\ t.currentRoute = route /\ t.entries = s.entries /\ t.at = s.at
      /\ t.handlers = s.handlers /\ t.held = s.held /\ t.prefetched = s.prefetched
      /\ t.links = s.links /\ t.by = s.by
  BY <1>1, <1>3, <1>6, <1>7 DEF RouterState
<1> QED
  BY <1>2, <1>8 DEF InHistory, Location, SameLinks

\* What is pushed or replaces the entry is where the history then is.
LEMMA HistoryWith ==
  ASSUME NEW entries \in Seq(Urls), NEW at \in 1 .. Len(entries) + 1, NEW url \in Urls,
         NEW rest \in Seq(Urls)
  PROVE  LET with == Append(SubSeq(entries, 1, at - 1), url) \o rest
         IN  with \in Seq(Urls) /\ at \in 1 .. Len(with) /\ with[at] = url
<1> DEFINE front == SubSeq(entries, 1, at - 1)
           more == Append(front, url)
           with == more \o rest
<1>1. Len(entries) \in Nat /\ at \in Nat /\ \A i \in 1 .. Len(entries) : entries[i] \in Urls
  BY LenProperties, ElementOfSeq
<1>2. front \in Seq(Urls) /\ Len(front) = at - 1
  <2>1. 1 \in Int /\ at - 1 \in Int /\ \A i \in 1 .. at - 1 : entries[i] \in Urls
    BY <1>1
  <2>2. front \in Seq(Urls) /\ Len(front) = IF 1 <= at - 1 THEN (at - 1) - 1 + 1 ELSE 0
    BY <2>1, SubSeqProperties
  <2> HIDE DEF front
  <2> QED
    BY <1>1, <2>2
<1> HIDE DEF front
<1>3. more \in Seq(Urls) /\ Len(more) = Len(front) + 1 /\ more[Len(front) + 1] = url
  BY <1>2, AppendProperties
<1> HIDE DEF more
<1>4. Len(rest) \in Nat
  BY LenProperties
<1>5. /\ with \in Seq(Urls) /\ Len(with) = Len(more) + Len(rest)
      /\ \A i \in 1 .. Len(more) + Len(rest) : with[i] = IF i <= Len(more) THEN more[i] ELSE rest[i - Len(more)]
  BY <1>3, ConcatProperties
<1> HIDE DEF with
<1>6. Len(more) = at /\ more[at] = url /\ at \in 1 .. Len(with) /\ at \in 1 .. Len(more) + Len(rest)
  BY <1>1, <1>2, <1>3, <1>4, <1>5
<1>7. with[at] = url
  BY <1>5, <1>6
<1> QED
  BY <1>5, <1>6, <1>7 DEF with, more, front

LEMMA StatePushed ==
  ASSUME NEW s, InHistory(s), NEW url \in Urls, NEW replace \in BOOLEAN,
         NEW t, t = PushState(s, url, replace)
  PROVE  InHistory(t) /\ Location(t) = url /\ t.handlers = s.handlers /\ t.held = s.held /\ t.by = s.by
         /\ SameLinks(s, t)
<1>1. /\ s \in RouterState /\ s.entries \in Seq(Urls) /\ s.at \in 1 .. Len(s.entries)
      /\ Len(s.entries) \in Nat /\ \A i \in 1 .. Len(s.entries) : s.entries[i] \in Urls
      /\ s.traversing \in Nat
  BY RouterParts, LenProperties, ElementOfSeq DEF InHistory
<1>2. PICK at, rest, traversing :
        /\ at = IF replace THEN s.at ELSE s.at + 1
        /\ rest = IF replace THEN SubSeq(s.entries, at + 1, Len(s.entries)) ELSE <<>>
        /\ traversing = IF replace THEN s.traversing ELSE 0
  OBVIOUS
<1>3. at \in 1 .. Len(s.entries) + 1 /\ traversing \in Nat
  BY <1>1, <1>2
<1>4. rest \in Seq(Urls)
  <2>1. <<>> \in Seq(Urls)
    BY EmptySeq
  <2>2. at + 1 \in Int /\ Len(s.entries) \in Int /\ \A i \in at + 1 .. Len(s.entries) : s.entries[i] \in Urls
    BY <1>1, <1>3
  <2>3. SubSeq(s.entries, at + 1, Len(s.entries)) \in Seq(Urls)
    BY <2>2, SubSeqProperties
  <2> QED
    BY <1>2, <2>1, <2>3
<1>5. PICK entries : entries = Append(SubSeq(s.entries, 1, at - 1), url) \o rest
  OBVIOUS
<1>6. entries \in Seq(Urls) /\ at \in 1 .. Len(entries) /\ entries[at] = url
  BY <1>1, <1>3, <1>4, <1>5, HistoryWith
<1>7. t = [s EXCEPT !.entries = entries, !.at = at, !.traversing = traversing]
  BY <1>1, <1>2, <1>5 DEF PushState, RouterState
<1>8. at \in Nat
  BY <1>1, <1>3
<1>9. /\ t \in RouterState /\ t.entries = entries /\ t.at = at /\ t.handlers = s.handlers
      /\ t.held = s.held /\ t.prefetched = s.prefetched /\ t.links = s.links /\ t.by = s.by
  BY <1>1, <1>3, <1>6, <1>7, <1>8 DEF RouterState
<1> QED
  BY <1>6, <1>9 DEF InHistory, Location, SameLinks

\* A state whose route is that of its path, with the links of the state before.
LEMMA RouteIsShown ==
  ASSUME NEW s, NavigatorOK(s), NEW t, InHistory(t), SameLinks(s, t),
         t.currentRoute = ResolveRoute(PathShown(t)), t.held => t.handlers > 0
  PROVE  NavigatorOK(t)
  BY DEF NavigatorOK, InHistory, SameLinks

LEMMA LocationIs == ASSUME NEW s, InHistory(s) PROVE Location(s) \in Urls
  BY RouterParts, ElementOfSeq DEF InHistory, Location

LEMMA NavigatorStarts == ASSUME KitAssumption, KNInit PROVE NavigatorOK(kn)
<1>1. PICK url \in Urls : url = CHOOSE u \in Urls : TRUE
  BY DEF KitAssumption
<1>2. PICK entries : entries = <<url>>
  OBVIOUS
<1>3. entries \in Seq(Urls) /\ Len(entries) = 1 /\ 1 \in 1 .. Len(entries) /\ entries[1] = url
  BY <1>2
<1>4. /\ <<>> \in Seq(Renderings) /\ <<>> \in Seq(Urls) /\ Len(<<>>) = 0
      /\ 0 \in 0 .. 2 /\ "null" \in Routes /\ DOMAIN <<>> = {}
  BY EmptySeq DEF Routes
<1>5. kn = [entries |-> entries, at |-> 1, traversing |-> 0, handlers |-> 0, held |-> FALSE,
            currentRoute |-> "null", rendering |-> <<>>, prefetched |-> {}, links |-> <<>>,
            by |-> "path"]
  BY <1>1, <1>2 DEF KNInit
<1>6. /\ kn \in RouterState /\ kn.at = 1 /\ kn.entries = entries /\ kn.handlers = 0 /\ ~kn.held
      /\ kn.links = <<>>
  BY <1>3, <1>4, <1>5 DEF RouterState
<1>7. IsInjective(kn.links) /\ 1 .. Len(kn.links) = {}
  BY <1>4, <1>6 DEF IsInjective
<1>8. kn.at \in 1 .. Len(kn.entries) /\ ~(kn.handlers > 0)
  BY <1>3, <1>6
<1> QED
  BY <1>6, <1>7, <1>8 DEF NavigatorOK

LEMMA HistoryIs == ASSUME NEW s, NavigatorOK(s) PROVE InHistory(s)
  BY DEF NavigatorOK, InHistory

\* Who is matched next is another path: nothing else changes.
LEMMA MatchedBy ==
  ASSUME NEW s, InHistory(s), NEW form \in {"path", "href"}, NEW t, t = [s EXCEPT !.by = form]
  PROVE  InHistory(t) /\ t.handlers = s.handlers /\ t.held = s.held /\ t.by = form /\ SameLinks(s, t)
         /\ Location(t) = Location(s)
  BY DEF InHistory, RouterState, SameLinks, Location

LEMMA UrlNavigated ==
  ASSUME KitAssumption, NavigatorOK(kn), NEW url \in Urls, NEW form \in {"path", "href"}, NEW replace \in BOOLEAN,
         Navigate(url, form, replace)
  PROVE  NavigatorOK(kn')
<1>1. InHistory(kn) /\ (kn.held => kn.handlers > 0)
  BY HistoryIs DEF NavigatorOK
<1>2. PICK r : r = [kn EXCEPT !.by = form]
  OBVIOUS
<1>a. PICK s : s = PushState(r, url, replace)
  OBVIOUS
<1>3. InHistory(r) /\ r.handlers = kn.handlers /\ r.held = kn.held /\ r.by = form /\ SameLinks(kn, r)
  BY <1>1, <1>2, MatchedBy
<1>4. InHistory(s) /\ Location(s) = url /\ s.handlers = r.handlers /\ s.held = r.held /\ s.by = r.by /\ SameLinks(r, s)
  BY <1>3, <1>a, StatePushed
<1>5. PICK t, path : t = kn' /\ path = IF form = "path" THEN url ELSE Unresolved
  OBVIOUS
<1>6. path \in Routes
  BY <1>5 DEF KitAssumption, Routes
<1>7. PICK scrolls \in BOOLEAN : t = HandleNavigation(s, path, scrolls)
  <2>1. t = HandleNavigation(s, path, TRUE)
    BY <1>2, <1>5, <1>a DEF Navigate
  <2> QED
    BY <2>1
<1>8. /\ InHistory(t) /\ t.currentRoute = ResolveRoute(path) /\ Location(t) = Location(s)
      /\ t.handlers = s.handlers /\ t.held = s.held /\ t.by = s.by /\ SameLinks(s, t)
  BY <1>4, <1>6, <1>7, NavigationHandled
<1>9. SameLinks(kn, t) /\ PathShown(t) = path
  BY <1>3, <1>4, <1>5, <1>8 DEF SameLinks, PathShown
<1> QED
  BY <1>1, <1>3, <1>4, <1>5, <1>8, <1>9, RouteIsShown

LEMMA RouterStarted == ASSUME NavigatorOK(kn), Start PROVE NavigatorOK(kn')
<1>1. InHistory(kn) /\ kn \in RouterState /\ kn.handlers \in 0 .. 2 /\ kn.handlers < 2
  BY HistoryIs, RouterParts DEF Start, InHistory
<1>2. PICK handlers, s : handlers = kn.handlers + 1 /\ s = [kn EXCEPT !.handlers = handlers, !.held = TRUE, !.by = "path"]
  OBVIOUS
<1>3. handlers \in 0 .. 2 /\ handlers > 0
  BY <1>1, <1>2
<1>4. /\ s \in RouterState /\ s.handlers = handlers /\ s.entries = kn.entries /\ s.at = kn.at
      /\ s.prefetched = kn.prefetched /\ s.links = kn.links /\ s.by = "path"
  BY <1>1, <1>2, <1>3 DEF RouterState
<1>5. InHistory(s) /\ Location(s) = Location(kn) /\ SameLinks(kn, s)
  BY <1>1, <1>4 DEF InHistory, Location, SameLinks
<1>6. PICK t, url : t = kn' /\ url = Location(s)
  OBVIOUS
<1>7. url \in Routes /\ FALSE \in BOOLEAN
  BY <1>5, <1>6, LocationIs DEF Routes
<1>8. t = HandleNavigation(s, url, FALSE)
  BY <1>2, <1>6 DEF Start
<1>9. /\ InHistory(t) /\ t.currentRoute = ResolveRoute(url) /\ Location(t) = Location(s)
      /\ t.handlers = s.handlers /\ t.by = s.by /\ SameLinks(s, t)
  BY <1>5, <1>7, <1>8, NavigationHandled
<1>10. SameLinks(kn, t) /\ t.handlers > 0 /\ PathShown(t) = url
  BY <1>3, <1>4, <1>5, <1>6, <1>9 DEF SameLinks, PathShown
<1> QED
  BY <1>5, <1>6, <1>9, <1>10, RouteIsShown

LEMMA Traversing ==
  ASSUME KitAssumption, NavigatorOK(kn), NEW to \in 1 .. MaxHistory, Traverse(to) PROVE NavigatorOK(kn')
<1>1. kn \in RouterState /\ to \in Nat /\ kn' = [kn EXCEPT !.traversing = to]
  BY DEF NavigatorOK, Traverse, KitAssumption
<1>2. /\ kn' \in RouterState /\ kn'.entries = kn.entries /\ kn'.at = kn.at /\ kn'.held = kn.held
      /\ kn'.handlers = kn.handlers /\ kn'.currentRoute = kn.currentRoute /\ kn'.links = kn.links
      /\ kn'.prefetched = kn.prefetched /\ kn'.by = kn.by
  BY <1>1 DEF RouterState
<1> QED
  BY <1>2 DEF NavigatorOK, Location, PathShown

\* popstate without a handler moves in the history only.
LEMMA Popped == ASSUME NavigatorOK(kn), PopState PROVE NavigatorOK(kn')
<1>1. InHistory(kn) /\ kn \in RouterState /\ (kn.held => kn.handlers > 0)
  BY HistoryIs DEF InHistory, NavigatorOK
<1>2. PICK s : s = [kn EXCEPT !.at = kn.traversing, !.traversing = 0]
  OBVIOUS
<1>3. kn.traversing \in 1 .. Len(kn.entries) /\ kn.traversing \in Nat /\ kn.handlers \in 0 .. 2
  BY <1>1, RouterParts, LenProperties DEF PopState
<1>4. /\ s \in RouterState /\ s.at = kn.traversing /\ s.entries = kn.entries /\ s.held = kn.held
      /\ s.handlers = kn.handlers /\ s.links = kn.links /\ s.prefetched = kn.prefetched
  BY <1>1, <1>2, <1>3 DEF RouterState
<1>5. InHistory(s) /\ SameLinks(kn, s)
  BY <1>3, <1>4 DEF InHistory, SameLinks
<1>6. CASE kn.handlers = 0
  <2>1. kn' = s
    BY <1>2, <1>6 DEF PopState
  <2>2. ~(kn.handlers > 0)
    BY <1>6
  <2> QED
    BY <1>1, <1>4, <1>5, <2>1, <2>2 DEF NavigatorOK, InHistory
<1>7. CASE kn.handlers # 0
  <2>1. PICK t, url : t = kn' /\ url = Location(s)
    OBVIOUS
  <2>a. PICK r : r = [s EXCEPT !.by = "path"]
    OBVIOUS
  <2>2. PICK scrolls \in BOOLEAN : t = HandleNavigation(r, url, scrolls)
    <3>1. t = HandleNavigation(r, url, FALSE)
      BY <1>2, <1>7, <2>1, <2>a DEF PopState
    <3> QED
      BY <3>1
  <2>3. url \in Routes
    BY <1>5, <2>1, LocationIs DEF Routes
  <2>b. InHistory(r)
    BY <1>5, <2>a, MatchedBy
  <2>4. r.handlers = s.handlers /\ r.held = s.held /\ r.by = "path" /\ SameLinks(s, r) /\ Location(r) = url
    BY <1>5, <2>1, <2>a, MatchedBy
  <2>5. /\ InHistory(t) /\ t.currentRoute = ResolveRoute(url) /\ Location(t) = Location(r)
        /\ t.handlers = r.handlers /\ t.held = r.held /\ t.by = r.by /\ SameLinks(r, t)
    BY <2>2, <2>3, <2>b, NavigationHandled
  <2>6. SameLinks(kn, t) /\ (t.held => t.handlers > 0) /\ PathShown(t) = url
    BY <1>1, <1>4, <1>5, <2>4, <2>5 DEF SameLinks, PathShown
  <2> QED
    BY <2>1, <2>5, <2>6, RouteIsShown
<1> QED
  BY <1>6, <1>7

LEMMA RenderingEnds == ASSUME NavigatorOK(kn), NEW i, Navigated(i) PROVE NavigatorOK(kn')
<1>1. kn \in RouterState /\ kn.rendering \in Seq(Renderings)
  BY RouterParts DEF NavigatorOK
<1>2. PICK rendering : rendering = RemoveAt(kn.rendering, i)
  OBVIOUS
<1>3. rendering \in Seq(Renderings)
  <2>1. i \in 1 .. Len(kn.rendering)
    BY <1>1, LenProperties DEF Navigated
  <2> QED
    BY <1>1, <1>2, <2>1, OneLess
<1>4. kn' = [kn EXCEPT !.rendering = rendering]
  BY <1>1, <1>2 DEF Navigated, RouterState
<1>5. /\ kn' \in RouterState /\ kn'.entries = kn.entries /\ kn'.at = kn.at /\ kn'.held = kn.held
      /\ kn'.handlers = kn.handlers /\ kn'.currentRoute = kn.currentRoute /\ kn'.links = kn.links
      /\ kn'.prefetched = kn.prefetched /\ kn'.by = kn.by
  BY <1>1, <1>3, <1>4 DEF RouterState
<1> QED
  BY <1>5 DEF NavigatorOK, Location, PathShown

LEMMA RouterDestroyed == ASSUME NavigatorOK(kn), Destroy PROVE NavigatorOK(kn')
<1>1. kn \in RouterState /\ kn.held /\ kn.handlers > 0 /\ kn.handlers \in 0 .. 2
  BY RouterParts DEF NavigatorOK, Destroy
<1>2. PICK handlers : handlers = kn.handlers - 1
  OBVIOUS
<1>3. handlers \in 0 .. 2 /\ kn' = [kn EXCEPT !.held = FALSE, !.handlers = handlers]
  BY <1>1, <1>2 DEF Destroy
<1>4. /\ kn' \in RouterState /\ kn'.entries = kn.entries /\ kn'.at = kn.at /\ ~kn'.held
      /\ kn'.currentRoute = kn.currentRoute /\ kn'.links = kn.links
      /\ kn'.prefetched = kn.prefetched /\ kn'.by = kn.by
  BY <1>1, <1>3 DEF RouterState
<1> QED
  BY <1>1, <1>4 DEF NavigatorOK, Location, PathShown

\* A URL is only added to the links when it is not among the prefetched ones.
LEMMA RoutePrefetched ==
  ASSUME NavigatorOK(kn), NEW url \in Urls, PrefetchRoute(url) PROVE NavigatorOK(kn')
<1>1. /\ kn \in RouterState /\ kn.links \in Seq(Urls) /\ kn.prefetched \subseteq Urls
      /\ Len(kn.links) \in Nat /\ DOMAIN kn.links = 1 .. Len(kn.links)
  BY RouterParts, LenProperties DEF NavigatorOK
<1>2. PICK prefetched, links : /\ prefetched = kn.prefetched \cup {url}
                               /\ links = Append(kn.links, url)
  OBVIOUS
<1>3. /\ links \in Seq(Urls) /\ Len(links) = Len(kn.links) + 1 /\ links[Len(kn.links) + 1] = url
      /\ \A i \in 1 .. Len(kn.links) : links[i] = kn.links[i]
  BY <1>1, <1>2, AppendProperties
<1>4. DOMAIN links = 1 .. Len(kn.links) + 1 /\ prefetched \subseteq Urls
  BY <1>1, <1>2, <1>3, LenProperties
<1>5. kn' = [kn EXCEPT !.prefetched = prefetched, !.links = links] /\ url \notin kn.prefetched
  BY <1>1, <1>2 DEF PrefetchRoute, RouterState
<1>6. /\ kn' \in RouterState /\ kn'.entries = kn.entries /\ kn'.at = kn.at /\ kn'.held = kn.held
      /\ kn'.handlers = kn.handlers /\ kn'.currentRoute = kn.currentRoute /\ kn'.links = links
      /\ kn'.prefetched = prefetched /\ kn'.by = kn.by
  BY <1>1, <1>3, <1>4, <1>5 DEF RouterState
<1>7. /\ \A i, j \in 1 .. Len(kn.links) : kn.links[i] = kn.links[j] => i = j
      /\ \A i \in 1 .. Len(kn.links) : kn.links[i] \in kn.prefetched
  BY <1>1 DEF NavigatorOK, IsInjective
<1>8. \A i \in 1 .. Len(kn.links) + 1 : i \in 1 .. Len(kn.links) \/ i = Len(kn.links) + 1
  BY <1>1
<1>9. \A i, j \in 1 .. Len(kn.links) + 1 : links[i] = links[j] => i = j
  BY <1>3, <1>5, <1>7, <1>8
<1>10. IsInjective(links) /\ \A i \in 1 .. Len(links) : links[i] \in prefetched
  BY <1>2, <1>3, <1>4, <1>7, <1>8, <1>9 DEF IsInjective
<1> QED
  BY <1>6, <1>10 DEF NavigatorOK, Location, PathShown

LEMMA NavigatorStep == ASSUME KitAssumption, NavigatorOK(kn), [KNNext]_kn PROVE NavigatorOK(kn')
<1>1. CASE UNCHANGED kn
  BY <1>1
<1>2. ASSUME NEW url \in Urls, PrefetchRoute(url) \/ \E f \in {"path", "href"}, r \in BOOLEAN : Navigate(url, f, r)
      PROVE  NavigatorOK(kn')
  BY <1>2, RoutePrefetched, UrlNavigated
<1>3. ASSUME NEW i \in 1 .. MaxHistory, Traverse(i) \/ Navigated(i) PROVE NavigatorOK(kn')
  BY <1>3, Traversing, RenderingEnds
<1> QED
  BY <1>1, <1>2, <1>3, RouterStarted, Popped, RouterDestroyed DEF KNNext

LEMMA NavigatorFromInv == NavigatorOK(kn) => RouteIsUrl
  BY DEF NavigatorOK, RouteIsUrl, PathShown

-----------------------------------------------------------------------------
(* Kit: the events of an element that is not hydrated yet *)

PageHydration ==
  [marked : SUBSET Elements, queue : [Elements -> Seq(Nat)], next : Nat,
   importing : [Hydrations -> Elements \cup {0}], mounts : [Elements -> Nat],
   delivered : [Elements -> Seq(Nat)]]

\* Events in the order of their capture, which is counted by next.
Rising(s) == \A i, j \in 1 .. Len(s) : i < j => s[i] < s[j]
Captured(s, next) == s \in Seq(Nat) /\ Rising(s) /\ \A i \in 1 .. Len(s) : s[i] < next

Hydrating(s, e) == {h \in Hydrations : s.importing[h] = e}

\* An element waits with its events, or has been mounted and given all of them; it was
\* mounted by as many of the hydrations as no longer import for it, at the most.
ElementOK(s, e) ==
  /\ Captured(s.queue[e], s.next) /\ Captured(s.delivered[e], s.next)
  /\ e \in s.marked => s.delivered[e] = <<>> /\ s.mounts[e] = 0
  /\ e \notin s.marked => s.queue[e] = <<>> /\ s.mounts[e] > 0
  /\ s.mounts[e] + Cardinality(Hydrating(s, e)) <= Cardinality(Hydrations)
HydrationOK(s) == s \in PageHydration /\ \A e \in Elements : ElementOK(s, e)

LEMMA HydrationParts ==
  ASSUME NEW s \in PageHydration
  PROVE  /\ s.marked \subseteq Elements /\ s.queue \in [Elements -> Seq(Nat)] /\ s.next \in Nat
         /\ s.importing \in [Hydrations -> Elements \cup {0}] /\ s.mounts \in [Elements -> Nat]
         /\ s.delivered \in [Elements -> Seq(Nat)]
  BY DEF PageHydration

LEMMA HydratingCount ==
  ASSUME KitAssumption, NEW s, NEW e
  PROVE  /\ Cardinality(Hydrating(s, e)) \in Nat /\ Cardinality(Hydrations) \in Nat
         /\ IsFiniteSet(Hydrating(s, e))
         /\ Cardinality(Hydrating(s, e)) <= Cardinality(Hydrations)
<1>1. Hydrating(s, e) \subseteq Hydrations /\ IsFiniteSet(Hydrations)
  BY DEF Hydrating, KitAssumption
<1> QED
  BY <1>1, FS_Subset, FS_CardinalityType

LEMMA NothingCaptured == ASSUME NEW n \in Nat PROVE Captured(<<>>, n)
<1>1. <<>> \in Seq(Nat) /\ Len(<<>>) = 0
  BY EmptySeq
<1> QED
  BY <1>1 DEF Captured, Rising

LEMMA OneCaptured ==
  ASSUME NEW n \in Nat, NEW s, Captured(s, n)
  PROVE  Captured(Append(s, n), n + 1)
<1> DEFINE t == Append(s, n)
<1>1. /\ s \in Seq(Nat) /\ Len(s) \in Nat /\ \A i \in 1 .. Len(s) : s[i] \in Nat /\ s[i] < n
      /\ \A i, j \in 1 .. Len(s) : i < j => s[i] < s[j]
  BY LenProperties, ElementOfSeq DEF Captured, Rising
<1>2. /\ t \in Seq(Nat) /\ Len(t) = Len(s) + 1 /\ t[Len(s) + 1] = n
      /\ \A i \in 1 .. Len(s) : t[i] = s[i]
  BY <1>1, AppendProperties
<1> HIDE DEF t
<1>3. \A i \in 1 .. Len(t) : i \in 1 .. Len(s) \/ i = Len(s) + 1
  BY <1>1, <1>2
<1>4. \A i \in 1 .. Len(t) : t[i] < n + 1
  BY <1>1, <1>2, <1>3
<1>5. ASSUME NEW i \in 1 .. Len(t), NEW j \in 1 .. Len(t), i < j PROVE t[i] < t[j]
  <2>1. i \in 1 .. Len(s)
    BY <1>1, <1>2, <1>5
  <2> QED
    BY <1>1, <1>2, <1>3, <1>5, <2>1
<1>6. Captured(t, n + 1)
  BY <1>2, <1>4, <1>5 DEF Captured, Rising
<1> QED
  BY <1>6 DEF t

LEMMA StillCaptured ==
  ASSUME NEW n \in Nat, NEW s, Captured(s, n) PROVE Captured(s, n + 1)
<1>1. \A i \in 1 .. Len(s) : s[i] \in Nat /\ s[i] < n
  BY ElementOfSeq DEF Captured
<1> QED
  BY <1>1 DEF Captured

LEMMA HydrationStarts == ASSUME KitAssumption, KYInit PROVE HydrationOK(ky)
<1>1. PICK queue, importing, mounts :
        /\ queue = [e \in Elements |-> <<>>] /\ importing = [h \in Hydrations |-> 0]
        /\ mounts = [e \in Elements |-> 0]
  OBVIOUS
<1>2. <<>> \in Seq(Nat)
  BY EmptySeq
<1>3. /\ queue \in [Elements -> Seq(Nat)] /\ importing \in [Hydrations -> Elements \cup {0}]
      /\ mounts \in [Elements -> Nat]
  BY <1>1, <1>2
<1>4. ky = [marked |-> Elements, queue |-> queue, next |-> 1, importing |-> importing,
            mounts |-> mounts, delivered |-> queue]
  BY <1>1 DEF KYInit
<1>5. /\ ky \in PageHydration /\ ky.marked = Elements /\ ky.queue = queue /\ ky.next = 1
      /\ ky.importing = importing /\ ky.mounts = mounts /\ ky.delivered = queue
  BY <1>3, <1>4 DEF PageHydration
<1>6. ASSUME NEW e \in Elements PROVE ElementOK(ky, e)
  <2>1. Captured(<<>>, 1)
    BY NothingCaptured
  <2>2. queue[e] = <<>> /\ mounts[e] = 0
    BY <1>1
  <2>3. Cardinality(Hydrating(ky, e)) \in Nat
        /\ Cardinality(Hydrating(ky, e)) <= Cardinality(Hydrations)
    BY HydratingCount
  <2>4. 0 + Cardinality(Hydrating(ky, e)) <= Cardinality(Hydrations)
    BY <2>3
  <2> QED
    BY <1>5, <2>1, <2>2, <2>4 DEF ElementOK
<1> QED
  BY <1>5, <1>6 DEF HydrationOK

LEMMA EventCaptured ==
  ASSUME KitAssumption, HydrationOK(ky), NEW e \in Elements, Capture(e) PROVE HydrationOK(ky')
<1>1. ky \in PageHydration /\ \A d \in Elements : ElementOK(ky, d)
  BY DEF HydrationOK
<1>2. /\ ky.queue \in [Elements -> Seq(Nat)] /\ ky.next \in Nat
      /\ ky.delivered \in [Elements -> Seq(Nat)]
  BY <1>1, HydrationParts
<1>3. ASSUME NEW queue \in [Elements -> Seq(Nat)], NEW delivered \in [Elements -> Seq(Nat)],
             NEW next, next = ky.next + 1,
             ky' = [ky EXCEPT !.queue = queue, !.delivered = delivered, !.next = next],
             \A d \in Elements : /\ Captured(queue[d], next) /\ Captured(delivered[d], next)
                                 /\ d \in ky.marked => delivered[d] = ky.delivered[d]
                                 /\ d \notin ky.marked => queue[d] = ky.queue[d]
      PROVE  HydrationOK(ky')
  <2>1. next \in Nat
    BY <1>2, <1>3
  <2>2. /\ ky' \in PageHydration /\ ky'.queue = queue /\ ky'.delivered = delivered
        /\ ky'.next = next /\ ky'.marked = ky.marked /\ ky'.importing = ky.importing
        /\ ky'.mounts = ky.mounts
    BY <1>1, <1>3, <2>1 DEF PageHydration
  <2>3. \A d \in Elements : Hydrating(ky', d) = Hydrating(ky, d)
    BY <2>2 DEF Hydrating
  <2> QED
    BY <1>1, <1>3, <2>2, <2>3 DEF HydrationOK, ElementOK
<1>4. PICK next : next = ky.next + 1
  OBVIOUS
<1>5. \A d \in Elements : /\ Captured(ky.queue[d], ky.next) /\ Captured(ky.delivered[d], ky.next)
                          /\ Captured(ky.queue[d], next) /\ Captured(ky.delivered[d], next)
  BY <1>1, <1>2, <1>4, StillCaptured DEF ElementOK
<1>6. CASE e \in ky.marked
  <2>1. PICK queue : queue = [ky.queue EXCEPT ![e] = Append(@, ky.next)]
    OBVIOUS
  <2>2. /\ Captured(Append(ky.queue[e], ky.next), next) /\ Append(ky.queue[e], ky.next) \in Seq(Nat)
    BY <1>2, <1>4, <1>5, OneCaptured DEF Captured
  <2>3. /\ queue \in [Elements -> Seq(Nat)] /\ queue[e] = Append(ky.queue[e], ky.next)
        /\ \A d \in Elements : d # e => queue[d] = ky.queue[d]
    BY <1>2, <2>1, <2>2
  <2>4. ky' = [ky EXCEPT !.queue = queue, !.delivered = ky.delivered, !.next = next]
    BY <1>1, <1>4, <1>6, <2>1 DEF Capture, PageHydration
  <2>5. \A d \in Elements : Captured(queue[d], next)
    BY <1>5, <2>2, <2>3
  <2>6. \A d \in Elements : d \notin ky.marked => queue[d] = ky.queue[d]
    BY <1>6, <2>3
  <2>7. PICK delivered \in [Elements -> Seq(Nat)] : delivered = ky.delivered
    BY <1>2
  <2>8. \A d \in Elements : /\ Captured(queue[d], next) /\ Captured(delivered[d], next)
                            /\ d \in ky.marked => delivered[d] = ky.delivered[d]
                            /\ d \notin ky.marked => queue[d] = ky.queue[d]
    BY <1>5, <2>5, <2>6, <2>7
  <2>9. ky' = [ky EXCEPT !.queue = queue, !.delivered = delivered, !.next = next]
    BY <2>4, <2>7
  <2> QED
    BY <1>3, <1>4, <2>3, <2>8, <2>9
<1>7. CASE e \notin ky.marked
  <2>1. PICK delivered : delivered = [ky.delivered EXCEPT ![e] = Append(@, ky.next)]
    OBVIOUS
  <2>2. /\ Captured(Append(ky.delivered[e], ky.next), next)
        /\ Append(ky.delivered[e], ky.next) \in Seq(Nat)
    BY <1>2, <1>4, <1>5, OneCaptured DEF Captured
  <2>3. /\ delivered \in [Elements -> Seq(Nat)] /\ delivered[e] = Append(ky.delivered[e], ky.next)
        /\ \A d \in Elements : d # e => delivered[d] = ky.delivered[d]
    BY <1>2, <2>1, <2>2
  <2>4. ky' = [ky EXCEPT !.queue = ky.queue, !.delivered = delivered, !.next = next]
    BY <1>1, <1>4, <1>7, <2>1 DEF Capture, PageHydration
  <2>5. \A d \in Elements : Captured(delivered[d], next)
    BY <1>5, <2>2, <2>3
  <2>6. \A d \in Elements : d \in ky.marked => delivered[d] = ky.delivered[d]
    BY <1>7, <2>3
  <2> QED
    BY <1>2, <1>3, <1>4, <1>5, <2>3, <2>4, <2>5, <2>6
<1> QED
  BY <1>6, <1>7

LEMMA HydrationAsked ==
  ASSUME KitAssumption, HydrationOK(ky), NEW h \in Hydrations, Hydrate(h) PROVE HydrationOK(ky')
<1>1. ky \in PageHydration /\ \A d \in Elements : ElementOK(ky, d)
  BY DEF HydrationOK
<1>2. ky.marked \subseteq Nat /\ ky.marked \subseteq Elements /\ ky.marked # {}
  BY <1>1, HydrationParts DEF Hydrate, KitAssumption
<1>3. PICK e : e = FindHydrationTarget
  OBVIOUS
<1>4. e \in ky.marked
  <2>1. \E n \in ky.marked : \A m \in ky.marked : n <= m
    BY <1>2, LeastNat
  <2> QED
    BY <1>3, <2>1 DEF FindHydrationTarget
<1>5. PICK importing : importing = [ky.importing EXCEPT ![h] = e]
  OBVIOUS
<1>6. /\ importing \in [Hydrations -> Elements \cup {0}]
      /\ \A g \in Hydrations : g # h => importing[g] = ky.importing[g]
      /\ importing[h] = e /\ ky.importing[h] = 0
  BY <1>1, <1>2, <1>4, <1>5, HydrationParts DEF Hydrate
<1>7. ky' = [ky EXCEPT !.importing = importing]
  BY <1>1, <1>3, <1>5 DEF Hydrate, PageHydration
<1>8. /\ ky' \in PageHydration /\ ky'.importing = importing /\ ky'.queue = ky.queue
      /\ ky'.delivered = ky.delivered /\ ky'.next = ky.next /\ ky'.marked = ky.marked
      /\ ky'.mounts = ky.mounts
  BY <1>1, <1>6, <1>7 DEF PageHydration
<1>9. ASSUME NEW d \in Elements PROVE ElementOK(ky', d)
  <2>1. CASE d = e
    <3>1. ky.mounts[d] = 0
      BY <1>1, <1>4, <1>9, <2>1 DEF ElementOK
    <3>2. /\ Cardinality(Hydrating(ky', d)) \in Nat
          /\ Cardinality(Hydrating(ky', d)) <= Cardinality(Hydrations)
      BY HydratingCount
    <3>3. 0 + Cardinality(Hydrating(ky', d)) <= Cardinality(Hydrations)
      BY <3>2
    <3> QED
      BY <1>1, <1>8, <3>1, <3>3 DEF ElementOK
  <2>2. CASE d # e
    <3>1. d # 0
      BY DEF KitAssumption
    <3>2. Hydrating(ky', d) = Hydrating(ky, d)
      BY <1>6, <1>8, <2>2, <3>1 DEF Hydrating
    <3> QED
      BY <1>1, <1>8, <3>2 DEF ElementOK
  <2> QED
    BY <2>1, <2>2
<1> QED
  BY <1>8, <1>9 DEF HydrationOK

\* A hydration that ends no longer imports for its element.
LEMMA HydrationEnds ==
  ASSUME KitAssumption, NEW s \in PageHydration, NEW h \in Hydrations, s.importing[h] \in Elements,
         NEW t, t.importing = [s.importing EXCEPT ![h] = 0], NEW d \in Elements
  PROVE  /\ d # s.importing[h] => Hydrating(t, d) = Hydrating(s, d)
         /\ d = s.importing[h] =>
              Cardinality(Hydrating(t, d)) + 1 = Cardinality(Hydrating(s, d))
<1>1. /\ s.importing \in [Hydrations -> Elements \cup {0}] /\ d # 0
  BY HydrationParts DEF KitAssumption
<1>2. t.importing[h] = 0 /\ \A g \in Hydrations : g # h => t.importing[g] = s.importing[g]
  BY <1>1
<1>3. CASE d # s.importing[h]
  <2>1. Hydrating(t, d) = Hydrating(s, d)
    BY <1>1, <1>2, <1>3 DEF Hydrating
  <2> QED
    BY <1>3, <2>1
<1>4. CASE d = s.importing[h]
  <2>1. h \in Hydrating(s, d) /\ Hydrating(t, d) = Hydrating(s, d) \ {h}
    BY <1>1, <1>2, <1>4 DEF Hydrating
  <2>2. IsFiniteSet(Hydrating(s, d)) /\ Cardinality(Hydrating(s, d)) \in Nat
    BY HydratingCount
  <2>3. Cardinality(Hydrating(s, d) \ {h}) = Cardinality(Hydrating(s, d)) - 1
    BY <2>1, <2>2, FS_RemoveElement
  <2> QED
    BY <1>4, <2>1, <2>2, <2>3
<1> QED
  BY <1>3, <1>4

LEMMA Hydrated ==
  ASSUME KitAssumption, HydrationOK(ky), NEW h \in Hydrations, HydrateTarget(h)
  PROVE  HydrationOK(ky')
<1>1. ky \in PageHydration /\ \A d \in Elements : ElementOK(ky, d)
  BY DEF HydrationOK
<1>2. /\ ky.marked \subseteq Elements /\ ky.queue \in [Elements -> Seq(Nat)] /\ ky.next \in Nat
      /\ ky.importing \in [Hydrations -> Elements \cup {0}] /\ ky.mounts \in [Elements -> Nat]
      /\ ky.delivered \in [Elements -> Seq(Nat)]
  BY <1>1, HydrationParts
<1>3. PICK e \in Elements : e = ky.importing[h]
  BY DEF HydrateTarget
<1>4. PICK mounts, delivered, queue, marked, importing :
        /\ mounts = [ky.mounts EXCEPT ![e] = @ + 1]
        /\ delivered = [ky.delivered EXCEPT ![e] = @ \o ky.queue[e]]
        /\ queue = [ky.queue EXCEPT ![e] = <<>>]
        /\ marked = ky.marked \ {e} /\ importing = [ky.importing EXCEPT ![h] = 0]
  OBVIOUS
<1>5. PICK u : u = [ky EXCEPT !.mounts = mounts]
  OBVIOUS
<1>6. /\ u \in [marked : SUBSET Elements, queue : [Elements -> Seq(Nat)], next : Nat,
                importing : [Hydrations -> Elements \cup {0}], mounts : {mounts},
                delivered : [Elements -> Seq(Nat)]]
      /\ u = [ky EXCEPT !.mounts[e] = @ + 1]
      /\ u.marked = ky.marked /\ u.queue = ky.queue /\ u.next = ky.next
      /\ u.importing = ky.importing /\ u.delivered = ky.delivered
  BY <1>1, <1>4, <1>5 DEF PageHydration
<1>7. PICK v : v = Replay(u, e)
  OBVIOUS
<1>8. v = [u EXCEPT !.delivered = delivered, !.queue = queue]
  BY <1>4, <1>6, <1>7 DEF Replay
<1>9. /\ v \in [marked : SUBSET Elements, queue : {queue}, next : Nat,
                importing : [Hydrations -> Elements \cup {0}], mounts : {mounts},
                delivered : {delivered}]
      /\ v.marked = ky.marked /\ v.importing = ky.importing /\ v.next = ky.next
  BY <1>6, <1>8
<1>10. ky' = [v EXCEPT !.marked = marked, !.importing = importing]
  BY <1>3, <1>4, <1>6, <1>7, <1>9 DEF HydrateTarget
<1>11. /\ Captured(ky.queue[e], ky.next) /\ Captured(ky.delivered[e], ky.next)
       /\ ky.delivered[e] = <<>> \/ ky.queue[e] = <<>>
  BY <1>1 DEF ElementOK
<1>12. /\ ky.delivered[e] \o ky.queue[e] \in Seq(Nat)
       /\ Captured(ky.delivered[e] \o ky.queue[e], ky.next)
  <2>1. ky.delivered[e] \in Seq(Nat) /\ ky.queue[e] \in Seq(Nat)
    BY <1>2
  <2>2. <<>> \o ky.queue[e] = ky.queue[e] /\ ky.delivered[e] \o <<>> = ky.delivered[e]
    BY <2>1, ConcatEmptySeq
  <2> QED
    BY <1>11, <2>1, <2>2
<1>13. /\ mounts \in [Elements -> Nat] /\ mounts[e] = ky.mounts[e] + 1
       /\ \A d \in Elements : d # e => mounts[d] = ky.mounts[d]
  BY <1>2, <1>4
<1>14. /\ delivered \in [Elements -> Seq(Nat)] /\ delivered[e] = ky.delivered[e] \o ky.queue[e]
       /\ \A d \in Elements : d # e => delivered[d] = ky.delivered[d]
  BY <1>2, <1>4, <1>12
<1>15. <<>> \in Seq(Nat)
  BY EmptySeq
<1>16. /\ queue \in [Elements -> Seq(Nat)] /\ queue[e] = <<>>
       /\ \A d \in Elements : d # e => queue[d] = ky.queue[d]
  BY <1>2, <1>4, <1>15
<1>17. importing \in [Hydrations -> Elements \cup {0}] /\ marked \subseteq Elements
  BY <1>2, <1>4
<1>18. /\ ky' \in PageHydration /\ ky'.importing = importing /\ ky'.queue = queue
       /\ ky'.delivered = delivered /\ ky'.next = ky.next /\ ky'.marked = marked
       /\ ky'.mounts = mounts
  <2>1. v.mounts = mounts /\ v.queue = queue /\ v.delivered = delivered
    BY <1>9
  <2> QED
    BY <1>2, <1>9, <1>10, <1>13, <1>14, <1>16, <1>17, <2>1 DEF PageHydration
<1>19. PICK t : t = ky'
  OBVIOUS
<1>20. t.importing = [ky.importing EXCEPT ![h] = 0] /\ ky.importing[h] \in Elements
  BY <1>3, <1>4, <1>18, <1>19
<1>21. ASSUME NEW d \in Elements PROVE ElementOK(t, d)
  <2>1. CASE d # e
    <3>1. Hydrating(t, d) = Hydrating(ky, d)
      BY <1>1, <1>3, <1>20, <2>1, HydrationEnds
    <3>2. d \in marked <=> d \in ky.marked
      BY <1>4, <2>1
    <3> QED
      BY <1>1, <1>13, <1>14, <1>16, <1>18, <1>19, <2>1, <3>1, <3>2 DEF ElementOK
  <2>2. CASE d = e
    <3>1. Cardinality(Hydrating(t, d)) + 1 = Cardinality(Hydrating(ky, d))
      BY <1>1, <1>3, <1>20, <2>2, HydrationEnds
    <3>2. /\ Cardinality(Hydrating(t, d)) \in Nat /\ Cardinality(Hydrations) \in Nat
          /\ Cardinality(Hydrating(ky, d)) \in Nat /\ ky.mounts[d] \in Nat
      BY <1>2, HydratingCount
    <3>3. ky.mounts[d] + Cardinality(Hydrating(ky, d)) <= Cardinality(Hydrations)
      BY <1>1 DEF ElementOK
    <3>4. mounts[d] + Cardinality(Hydrating(t, d)) <= Cardinality(Hydrations) /\ mounts[d] > 0
      BY <1>13, <2>2, <3>1, <3>2, <3>3
    <3>5. Captured(queue[d], ky.next) /\ Captured(delivered[d], ky.next) /\ d \notin marked
      BY <1>2, <1>4, <1>12, <1>14, <1>16, <2>2, NothingCaptured
    <3> QED
      BY <1>16, <1>18, <1>19, <2>2, <3>4, <3>5 DEF ElementOK
  <2> QED
    BY <2>1, <2>2
<1> QED
  BY <1>18, <1>19, <1>21 DEF HydrationOK

LEMMA HydrationFails ==
  ASSUME KitAssumption, HydrationOK(ky), NEW h \in Hydrations, ComponentFails(h)
  PROVE  HydrationOK(ky')
<1>1. ky \in PageHydration /\ \A d \in Elements : ElementOK(ky, d)
  BY DEF HydrationOK
<1>2. PICK importing : importing = [ky.importing EXCEPT ![h] = 0]
  OBVIOUS
<1>3. importing \in [Hydrations -> Elements \cup {0}]
  BY <1>1, <1>2, HydrationParts
<1>4. ky' = [ky EXCEPT !.importing = importing]
  BY <1>1, <1>2 DEF ComponentFails, PageHydration
<1>5. /\ ky' \in PageHydration /\ ky'.importing = importing /\ ky'.queue = ky.queue
      /\ ky'.delivered = ky.delivered /\ ky'.next = ky.next /\ ky'.marked = ky.marked
      /\ ky'.mounts = ky.mounts
  BY <1>1, <1>3, <1>4 DEF PageHydration
<1>6. PICK t : t = ky'
  OBVIOUS
<1>7. t.importing = [ky.importing EXCEPT ![h] = 0] /\ ky.importing[h] \in Elements
  BY <1>2, <1>5, <1>6 DEF ComponentFails
<1>8. ASSUME NEW d \in Elements PROVE ElementOK(t, d)
  <2>1. /\ Cardinality(Hydrating(t, d)) \in Nat /\ Cardinality(Hydrations) \in Nat
        /\ Cardinality(Hydrating(ky, d)) \in Nat /\ ky.mounts[d] \in Nat
    BY <1>1, HydrationParts, HydratingCount
  <2>2. ky.mounts[d] + Cardinality(Hydrating(ky, d)) <= Cardinality(Hydrations)
    BY <1>1 DEF ElementOK
  <2>3. \/ Hydrating(t, d) = Hydrating(ky, d)
        \/ Cardinality(Hydrating(t, d)) + 1 = Cardinality(Hydrating(ky, d))
    BY <1>1, <1>7, HydrationEnds
  <2>4. ky.mounts[d] + Cardinality(Hydrating(t, d)) <= Cardinality(Hydrations)
    BY <2>1, <2>2, <2>3
  <2> QED
    BY <1>1, <1>5, <1>6, <2>4 DEF ElementOK
<1> QED
  BY <1>5, <1>6, <1>8 DEF HydrationOK

LEMMA HydrationStep == ASSUME KitAssumption, HydrationOK(ky), [KYNext]_ky PROVE HydrationOK(ky')
  BY EventCaptured, HydrationAsked, Hydrated, HydrationFails DEF KYNext

LEMMA KitTypesFromInv ==
  ASSUME KitAssumption, NavigatorOK(kn), HydrationOK(ky) PROVE KitTypes
<1>1. /\ kn.entries \in Seq(Urls) /\ kn.at \in 1 .. Len(kn.entries) /\ kn.handlers \in 0 .. 2
  BY RouterParts DEF NavigatorOK
<1>2. /\ DOMAIN kn.entries = 1 .. Len(kn.entries) /\ \A i \in 1 .. Len(kn.entries) : kn.entries[i] \in Urls
  BY <1>1, LenProperties, ElementOfSeq
<1>3. Range(kn.entries) \subseteq Urls
  BY <1>2 DEF Range
<1>4. ASSUME NEW e \in Elements PROVE ky.mounts[e] <= Cardinality(Hydrations)
  <2>1. ky.mounts[e] \in Nat /\ ky.mounts[e] + Cardinality(Hydrating(ky, e)) <= Cardinality(Hydrations)
    BY HydrationParts DEF HydrationOK, ElementOK
  <2>2. Cardinality(Hydrating(ky, e)) \in Nat /\ Cardinality(Hydrations) \in Nat
    BY HydratingCount
  <2> QED
    BY <2>1, <2>2
<1>5. ky.marked \subseteq Elements
  BY HydrationParts DEF HydrationOK
<1> QED
  BY <1>1, <1>2, <1>3, <1>4, <1>5 DEF KitTypes

LEMMA HydrationFromInv == ASSUME HydrationOK(ky) PROVE EventsReplayed
<1>1. \A e \in Elements : Captured(ky.delivered[e], ky.next) /\ ElementOK(ky, e)
  BY DEF HydrationOK, ElementOK
<1>2. \A e \in Elements : DOMAIN ky.delivered[e] = 1 .. Len(ky.delivered[e])
  BY <1>1, LenProperties DEF Captured
<1> QED
  BY <1>1, <1>2 DEF EventsReplayed, ElementOK, Captured, Rising

-----------------------------------------------------------------------------
(* SessionManager: what the tokens of one login have in common *)

ManagerState ==
  [refreshTokenStore : [Tokens -> RefreshRecord], next : 1 .. MaxTokens + 1, now : 0 .. MaxTime,
   lines : Nat, signing : [Refreshes -> RefreshRecord],
   old : [Refreshes -> 0 .. MaxTokens]]

Alive(store, t) == store[t].chain # 0 /\ ~store[t].revoked

\* Numbers are given in order, and the record of a login bears the number of its first token.
Issued(store, signing, next) ==
  /\ \A t \in Tokens : t >= next => store[t].chain = 0
  /\ \A t \in Tokens : store[t].chain < next
  /\ \A r \in Refreshes : signing[r].chain < next

\* The records of a login expire together, those being signed included.
Together(store, signing) ==
  /\ \A t, u \in Tokens : store[t].chain = store[u].chain /\ store[t].chain # 0
                            => store[t].expiresAt = store[u].expiresAt
  /\ \A t \in Tokens, r \in Refreshes : store[t].chain = signing[r].chain /\ store[t].chain # 0
                            => store[t].expiresAt = signing[r].expiresAt
  /\ \A q, r \in Refreshes : signing[q].chain = signing[r].chain /\ signing[q].chain # 0
                            => signing[q].expiresAt = signing[r].expiresAt

\* A line has one live token or refresh under way, or that refresh and the token it is of.
OneEach(store, signing, old) ==
  /\ \A t, u \in Tokens : Alive(store, t) /\ Alive(store, u) /\ store[t].line = store[u].line => t = u
  /\ \A r \in Refreshes : old[r] # 0 => \A t \in Tokens : Alive(store, t) /\ store[t].line = signing[r].line => t = old[r]
  /\ \A q, r \in Refreshes : old[q] # 0 /\ old[r] # 0 /\ signing[q].line = signing[r].line => q = r
Numbered(store, signing, lines) == /\ \A t \in Tokens : store[t].line <= lines
                                  /\ \A r \in Refreshes : signing[r].line <= lines

ManagerOK(s) ==
  /\ s \in ManagerState
  /\ Issued(s.refreshTokenStore, s.signing, s.next)
  /\ Together(s.refreshTokenStore, s.signing)
  /\ \A r \in Refreshes : s.old[r] # 0 => s.signing[r].chain # 0
  /\ OneEach(s.refreshTokenStore, s.signing, s.old)
  /\ Numbered(s.refreshTokenStore, s.signing, s.lines)

LEMMA ManagerStarts == ASSUME AuthAssumption, SMInit PROVE ManagerOK(sm)
<1>1. PICK store, signing, old : /\ store = [t \in Tokens |-> Gone]
                                 /\ signing = [r \in Refreshes |-> Gone]
                                 /\ old = [r \in Refreshes |-> 0]
  OBVIOUS
<1>2. Gone \in RefreshRecord /\ Gone.chain = 0
  BY DEF Gone, RefreshRecord, AuthAssumption
<1>3. /\ store \in [Tokens -> RefreshRecord] /\ signing \in [Refreshes -> RefreshRecord]
      /\ \A t \in Tokens : store[t].chain = 0 /\ store[t].line <= 0
      /\ \A r \in Refreshes : signing[r].chain = 0 /\ signing[r].line <= 0
  BY <1>1, <1>2 DEF Gone
<1>4. old \in [Refreshes -> 0 .. MaxTokens] /\ \A r \in Refreshes : old[r] = 0
  BY <1>1 DEF AuthAssumption
<1>5. 1 \in 1 .. MaxTokens + 1 /\ 0 \in 0 .. MaxTime
  BY DEF AuthAssumption
<1>6. sm = [refreshTokenStore |-> store, next |-> 1, now |-> 0, lines |-> 0,
            signing |-> signing, old |-> old]
  BY <1>1 DEF SMInit
<1>7. /\ sm \in ManagerState /\ sm.refreshTokenStore = store /\ sm.signing = signing
      /\ sm.old = old /\ sm.next = 1 /\ sm.lines = 0
  BY <1>3, <1>4, <1>5, <1>6 DEF ManagerState
<1> QED
  BY <1>3, <1>4, <1>7 DEF ManagerOK, Issued, Together, OneEach, Alive, Numbered

\* The parts of the manager's state, by themselves.
LEMMA ManagerParts ==
  ASSUME NEW s \in ManagerState
  PROVE  /\ s.refreshTokenStore \in [Tokens -> RefreshRecord] /\ s.next \in 1 .. MaxTokens + 1
         /\ s.now \in 0 .. MaxTime /\ s.lines \in Nat
         /\ s.signing \in [Refreshes -> RefreshRecord] /\ s.old \in [Refreshes -> 0 .. MaxTokens]
  BY DEF ManagerState

\* A login starts a chain of its own.
LEMMA SessionCreated == ASSUME AuthAssumption, ManagerOK(sm), NewSession PROVE ManagerOK(sm')
<1>1. sm \in ManagerState
  BY DEF ManagerOK
<1>2. PICK store, signing, old, next :
        /\ store = sm.refreshTokenStore /\ signing = sm.signing /\ old = sm.old /\ next = sm.next
  OBVIOUS
<1>3. /\ store \in [Tokens -> RefreshRecord] /\ signing \in [Refreshes -> RefreshRecord]
      /\ old \in [Refreshes -> 0 .. MaxTokens] /\ next \in Nat /\ next <= MaxTokens
      /\ sm.now \in 0 .. MaxTime /\ next \in Tokens /\ sm.lines \in Nat
  BY <1>1, <1>2, ManagerParts DEF NewSession, Tokens, AuthAssumption
<1>a. PICK line \in Nat : line = sm.lines + 1
  BY <1>3
<1>4. PICK record : record = [chain |-> next, line |-> line, expiresAt |-> sm.now + MaxAge, revoked |-> FALSE]
  OBVIOUS
<1>5. record \in RefreshRecord /\ record.chain = next /\ record.line = line
  BY <1>3, <1>4 DEF RefreshRecord, MaxAge, Tokens, AuthAssumption
<1>6. PICK new, n : new = [store EXCEPT ![next] = record] /\ n = next + 1
  OBVIOUS
<1>7. /\ new \in [Tokens -> RefreshRecord] /\ new[next] = record
      /\ \A t \in Tokens : t # next => new[t] = store[t]
      /\ n \in 1 .. MaxTokens + 1 /\ next < n
  BY <1>3, <1>5, <1>6 DEF AuthAssumption
<1>8. sm' = [sm EXCEPT !.next = n, !.lines = line, !.refreshTokenStore = new]
  BY <1>2, <1>4, <1>6, <1>a DEF NewSession
<1>9. /\ sm' \in ManagerState /\ sm'.refreshTokenStore = new /\ sm'.signing = signing
      /\ sm'.old = old /\ sm'.lines = line /\ sm'.next = n
  BY <1>1, <1>2, <1>7, <1>8 DEF ManagerState
<1>10. /\ Issued(store, signing, next) /\ Together(store, signing)
       /\ \A r \in Refreshes : old[r] # 0 => signing[r].chain # 0
       /\ OneEach(store, signing, old) /\ Numbered(store, signing, sm.lines)
  BY <1>2 DEF ManagerOK
<1>11. /\ \A t \in Tokens : store[t].chain \in Nat /\ (t >= next => store[t].chain = 0)
       /\ \A t \in Tokens : t # next => store[t].chain < next
       /\ \A r \in Refreshes : signing[r].chain \in Nat /\ signing[r].chain < next
  BY <1>3, <1>10 DEF Issued, RefreshRecord
<1>12. Issued(new, signing, n)
  <2>1. \A t \in Tokens : t >= n => new[t].chain = 0
    BY <1>3, <1>6, <1>7, <1>11 DEF Tokens
  <2>2. \A t \in Tokens : new[t].chain < n
    BY <1>3, <1>5, <1>6, <1>7, <1>11
  <2>3. \A r \in Refreshes : signing[r].chain < n
    BY <1>3, <1>6, <1>11
  <2> QED
    BY <2>1, <2>2, <2>3 DEF Issued
<1>13. /\ \A t \in Tokens : t # next => new[t].chain # next
       /\ \A r \in Refreshes : signing[r].chain # next
  BY <1>3, <1>7, <1>11
<1>14. Together(new, signing)
  BY <1>5, <1>7, <1>10, <1>13 DEF Together
<1>15. /\ \A u \in Tokens : store[u].line \in Nat /\ store[u].line <= sm.lines
       /\ \A r \in Refreshes : signing[r].line \in Nat /\ signing[r].line <= sm.lines
  BY <1>3, <1>10 DEF Numbered, RefreshRecord
<1>16. /\ \A u \in Tokens : u # next => new[u].line # line /\ new[u].line <= line
       /\ \A r \in Refreshes : signing[r].line # line /\ signing[r].line <= line
  BY <1>3, <1>7, <1>15, <1>a
<1>17. OneEach(new, signing, old)
  BY <1>5, <1>7, <1>10, <1>16 DEF OneEach, Alive
<1>18. Numbered(new, signing, line)
  BY <1>5, <1>7, <1>16 DEF Numbered
<1> QED
  BY <1>9, <1>10, <1>12, <1>14, <1>17, <1>18 DEF ManagerOK

\* A refresh that passes the check holds the record of the token it was given.
LEMMA RefreshAsked ==
  ASSUME AuthAssumption, ManagerOK(sm), NEW r \in Refreshes, NEW t \in Tokens, RefreshSession(r, t)
  PROVE  ManagerOK(sm')
<1>1. sm \in ManagerState
  BY DEF ManagerOK
<1>2. PICK store, signing, old : store = sm.refreshTokenStore /\ signing = sm.signing /\ old = sm.old
  OBVIOUS
<1>3. /\ store \in [Tokens -> RefreshRecord] /\ signing \in [Refreshes -> RefreshRecord]
      /\ old \in [Refreshes -> 0 .. MaxTokens] /\ t \in 1 .. MaxTokens
      /\ sm.lines \in Nat /\ t \in Tokens
  BY <1>1, <1>2, ManagerParts DEF Tokens
<1>4. t \in 0 .. MaxTokens /\ t # 0
  BY <1>3 DEF AuthAssumption
<1>a. PICK shared \in BOOLEAN : shared = (\E o \in Refreshes : old[o] = t)
  OBVIOUS
<1>b. PICK lines \in Nat : lines = IF shared THEN sm.lines + 1 ELSE sm.lines
  BY <1>3
<1>c. PICK record \in RefreshRecord :
        /\ record = IF shared THEN [store[t] EXCEPT !.line = lines] ELSE store[t]
        /\ record.chain = store[t].chain /\ record.expiresAt = store[t].expiresAt
        /\ record.line = IF shared THEN lines ELSE store[t].line
  <2>1. PICK was \in RefreshRecord : was = store[t]
    BY <1>3
  <2>2. /\ [was EXCEPT !.line = lines] \in RefreshRecord /\ [was EXCEPT !.line = lines].line = lines
        /\ [was EXCEPT !.line = lines].chain = was.chain /\ [was EXCEPT !.line = lines].expiresAt = was.expiresAt
    BY <1>b DEF RefreshRecord
  <2> QED
    BY <2>1, <2>2
<1>5. PICK sg, od : sg = [signing EXCEPT ![r] = record] /\ od = [old EXCEPT ![r] = t]
  OBVIOUS
<1>6. sm' = [sm EXCEPT !.signing = sg, !.old = od, !.lines = lines]
  <2>1. CASE shared
    <3>1. \E o \in Refreshes : sm.old[o] = t
      BY <1>2, <1>a, <2>1
    <3>2. lines = sm.lines + 1 /\ record = [store[t] EXCEPT !.line = lines]
      BY <1>b, <1>c, <2>1
    <3> QED
      BY <1>2, <1>5, <3>1, <3>2 DEF RefreshSession
  <2>2. CASE ~shared
    <3>1. ~\E o \in Refreshes : sm.old[o] = t
      BY <1>2, <1>a, <2>2
    <3>2. sm' = [sm EXCEPT !.signing = sg, !.old = od]
      BY <1>2, <1>5, <1>c, <2>2, <3>1 DEF RefreshSession
    <3> QED
      BY <1>1, <1>b, <2>2, <3>2 DEF ManagerState
  <2> QED
    BY <2>1, <2>2
<1>7. /\ sg \in [Refreshes -> RefreshRecord] /\ sg[r] = record
      /\ \A q \in Refreshes : q # r => sg[q] = signing[q]
      /\ od \in [Refreshes -> 0 .. MaxTokens] /\ od[r] = t
      /\ \A q \in Refreshes : q # r => od[q] = old[q]
  BY <1>3, <1>4, <1>5
<1>8. /\ sm' \in ManagerState /\ sm'.refreshTokenStore = store /\ sm'.signing = sg
      /\ sm'.old = od /\ sm'.lines = lines /\ sm'.next = sm.next
  BY <1>1, <1>2, <1>6, <1>7, <1>b DEF ManagerState
<1>9. /\ Issued(store, signing, sm.next) /\ Together(store, signing)
      /\ \A q \in Refreshes : old[q] # 0 => signing[q].chain # 0
      /\ OneEach(store, signing, old) /\ Numbered(store, signing, sm.lines)
  BY <1>2 DEF ManagerOK
<1>10. Issued(store, sg, sm.next)
  BY <1>3, <1>7, <1>9, <1>c DEF Issued
<1>11. Together(store, sg)
  <2>1. \A q \in Refreshes : \/ sg[q].chain = signing[q].chain /\ sg[q].expiresAt = signing[q].expiresAt
                             \/ sg[q].chain = store[t].chain /\ sg[q].expiresAt = store[t].expiresAt
    BY <1>7, <1>c
  <2>2. ASSUME NEW u \in Tokens, NEW q \in Refreshes, store[u].chain = sg[q].chain, store[u].chain # 0
        PROVE  store[u].expiresAt = sg[q].expiresAt
    BY <1>3, <1>9, <2>1, <2>2 DEF Together
  <2>3. ASSUME NEW p \in Refreshes, NEW q \in Refreshes, sg[p].chain = sg[q].chain, sg[p].chain # 0
        PROVE  sg[p].expiresAt = sg[q].expiresAt
    <3>1. CASE sg[p].chain = signing[p].chain /\ sg[p].expiresAt = signing[p].expiresAt
      BY <1>3, <1>9, <2>1, <2>3, <3>1 DEF Together
    <3>2. CASE sg[p].chain = store[t].chain /\ sg[p].expiresAt = store[t].expiresAt
      BY <1>3, <2>2, <2>3, <3>2
    <3> QED
      BY <2>1, <3>1, <3>2
  <2> QED
    BY <1>9, <2>2, <2>3 DEF Together
<1>12. Alive(store, t)
  BY <1>2 DEF RefreshSession, Live, Alive
<1>13. \A q \in Refreshes : od[q] # 0 => sg[q].chain # 0
  BY <1>7, <1>9, <1>12, <1>c DEF Alive
<1>14. /\ \A u \in Tokens : store[u].line \in Nat /\ store[u].line <= sm.lines
       /\ \A q \in Refreshes : signing[q].line \in Nat /\ signing[q].line <= sm.lines
  BY <1>3, <1>9 DEF Numbered, RefreshRecord
<1>15. Numbered(store, sg, lines)
  <2>1. \A n \in Nat : n <= sm.lines => n <= lines
    BY <1>3, <1>b
  <2>2. record.line <= lines
    BY <1>3, <1>14, <1>b, <1>c, <2>1
  <2> QED
    BY <1>7, <1>14, <2>1, <2>2 DEF Numbered
<1>16. /\ \A u \in Tokens : Alive(store, u) /\ store[u].line = record.line => u = t
       /\ \A q \in Refreshes : q # r /\ old[q] # 0 => signing[q].line # record.line
  <2>1. CASE shared
    <3>1. record.line = sm.lines + 1
      BY <1>b, <1>c, <2>1
    <3> QED
      BY <1>3, <1>14, <3>1
  <2>2. CASE ~shared
    <3>1. record.line = store[t].line /\ \A q \in Refreshes : old[q] # t
      BY <1>a, <1>c, <2>2
    <3> QED
      BY <1>3, <1>9, <1>12, <3>1 DEF OneEach
  <2> QED
    BY <2>1, <2>2
<1>17. OneEach(store, sg, od)
  BY <1>7, <1>9, <1>16 DEF OneEach
<1> QED
  BY <1>8, <1>10, <1>11, <1>13, <1>15, <1>17 DEF ManagerOK

\* The new token takes the place of the old one, and expires with it.
LEMMA RefreshSigned ==
  ASSUME AuthAssumption, ManagerOK(sm), NEW r \in Refreshes, Signed(r)
  PROVE  ManagerOK(sm')
<1>1. sm \in ManagerState
  BY DEF ManagerOK
<1>2. PICK store, signing, old, next :
        /\ store = sm.refreshTokenStore /\ signing = sm.signing /\ old = sm.old /\ next = sm.next
  OBVIOUS
<1>3. /\ store \in [Tokens -> RefreshRecord] /\ signing \in [Refreshes -> RefreshRecord]
      /\ old \in [Refreshes -> 0 .. MaxTokens] /\ next \in Nat /\ next <= MaxTokens
      /\ next \in Tokens /\ old[r] # 0 /\ old[r] \in Tokens
  BY <1>1, <1>2, ManagerParts DEF Signed, Tokens, AuthAssumption
<1>4. PICK record, used :
        /\ record = [signing[r] EXCEPT !.revoked = FALSE]
        /\ used = [store[old[r]] EXCEPT !.revoked = TRUE]
  OBVIOUS
<1>5. /\ record \in RefreshRecord /\ record.chain = signing[r].chain
      /\ record.expiresAt = signing[r].expiresAt /\ record.line = signing[r].line
  <2>1. PICK was \in RefreshRecord : was = signing[r]
    BY <1>3
  <2> QED
    BY <1>4, <2>1 DEF RefreshRecord
<1>6. /\ used \in RefreshRecord /\ used.chain = store[old[r]].chain /\ used.revoked
      /\ used.expiresAt = store[old[r]].expiresAt /\ used.line = store[old[r]].line
  <2>1. PICK was \in RefreshRecord : was = store[old[r]]
    BY <1>3
  <2> QED
    BY <1>4, <2>1 DEF RefreshRecord
<1>7. PICK new, sg, od, n :
        /\ new = [t \in Tokens |-> CASE t = sm.next -> [sm.signing[r] EXCEPT !.revoked = FALSE]
                                     [] t = sm.old[r] /\ t # sm.next ->
                                          [sm.refreshTokenStore[t] EXCEPT !.revoked = TRUE]
                                     [] OTHER -> sm.refreshTokenStore[t]]
        /\ sg = [signing EXCEPT ![r] = Gone] /\ od = [old EXCEPT ![r] = 0] /\ n = next + 1
  OBVIOUS
<1>8. \A t \in Tokens : new[t] = IF t = next THEN record ELSE IF t = old[r] THEN used ELSE store[t]
  BY <1>2, <1>4, <1>7
<1>9. new \in [Tokens -> RefreshRecord]
  <2>1. \A t \in Tokens : new[t] \in RefreshRecord
    BY <1>3, <1>5, <1>6, <1>8
  <2> QED
    BY <1>7, <2>1
<1>10. Gone \in RefreshRecord /\ Gone.chain = 0 /\ Gone.line = 0 /\ 0 \in 0 .. MaxTokens /\ n \in 1 .. MaxTokens + 1
       /\ next < n
  BY <1>3, <1>7 DEF Gone, RefreshRecord, AuthAssumption
<1>11. /\ sg \in [Refreshes -> RefreshRecord] /\ sg[r].chain = 0 /\ sg[r].line = 0
       /\ \A q \in Refreshes : q # r => sg[q] = signing[q]
       /\ od \in [Refreshes -> 0 .. MaxTokens] /\ od[r] = 0
       /\ \A q \in Refreshes : q # r => od[q] = old[q]
  BY <1>3, <1>7, <1>10
<1>12. sm' = [sm EXCEPT !.refreshTokenStore = new, !.next = n, !.signing = sg, !.old = od]
  BY <1>2, <1>7 DEF Signed
<1>13. /\ sm' \in ManagerState /\ sm'.refreshTokenStore = new /\ sm'.signing = sg
       /\ sm'.old = od /\ sm'.lines = sm.lines /\ sm'.next = n
  BY <1>1, <1>9, <1>10, <1>11, <1>12 DEF ManagerState
<1>14. /\ Issued(store, signing, next) /\ Together(store, signing)
       /\ \A q \in Refreshes : old[q] # 0 => signing[q].chain # 0
       /\ OneEach(store, signing, old) /\ Numbered(store, signing, sm.lines)
  BY <1>2 DEF ManagerOK
<1>15. /\ \A t \in Tokens : store[t].chain \in Nat /\ (t >= next => store[t].chain = 0)
       /\ \A t \in Tokens : store[t].chain < next
       /\ \A q \in Refreshes : signing[q].chain \in Nat /\ signing[q].chain < next
  BY <1>3, <1>14 DEF Issued, RefreshRecord
<1>16. Issued(new, sg, n)
  <2>1. /\ \A t \in Tokens : t # next => new[t].chain = store[t].chain
        /\ new[next].chain = signing[r].chain
    BY <1>3, <1>5, <1>6, <1>8
  <2>2. n = next + 1
    BY <1>7
  <2>3. \A t \in Tokens : t >= n => t >= next /\ t # next
    BY <1>3, <2>2 DEF Tokens
  <2>4. \A c \in Nat : c < next => c < n
    BY <1>3, <2>2
  <2>5. \A t \in Tokens : new[t].chain < n
    BY <1>15, <2>1, <2>4
  <2>6. \A q \in Refreshes : sg[q].chain < n
    BY <1>3, <1>11, <1>15, <2>2, <2>4
  <2> QED
    BY <1>15, <2>1, <2>3, <2>5, <2>6 DEF Issued
<1>17. Together(new, sg)
  <2>1. \A t \in Tokens : t # next => new[t].chain = store[t].chain /\ new[t].expiresAt = store[t].expiresAt
    BY <1>6, <1>8
  <2>2. new[next].chain = signing[r].chain /\ new[next].expiresAt = signing[r].expiresAt
    BY <1>3, <1>5, <1>8
  <2> QED
    BY <1>11, <1>14, <2>1, <2>2 DEF Together
<1>18. \A q \in Refreshes : od[q] # 0 => sg[q].chain # 0
  BY <1>11, <1>14
<1>19. new[next].line = signing[r].line /\ \A t \in Tokens : t # next => new[t].line = store[t].line
  BY <1>3, <1>5, <1>6, <1>8
<1>20. Numbered(new, sg, sm.lines)
  <2>1. 0 <= sm.lines
    BY <1>1, ManagerParts
  <2> QED
    BY <1>11, <1>14, <1>19, <2>1 DEF Numbered
<1>21. OneEach(new, sg, od)
  <2>1. \A t \in Tokens : Alive(new, t) => (t = next \/ (Alive(store, t) /\ t # old[r] /\ new[t] = store[t]))
    BY <1>6, <1>8 DEF Alive
  <2>2. \A t \in Tokens : Alive(store, t) /\ store[t].line = signing[r].line => t = old[r]
    BY <1>3, <1>14 DEF OneEach
  <2>3. \A t, u \in Tokens : Alive(new, t) /\ Alive(new, u) /\ new[t].line = new[u].line => t = u
    BY <1>14, <1>19, <2>1, <2>2 DEF OneEach
  <2>4. ASSUME NEW q \in Refreshes, od[q] # 0, NEW t \in Tokens, Alive(new, t), new[t].line = sg[q].line
        PROVE  t = od[q]
    <3>1. q # r /\ od[q] = old[q] /\ sg[q] = signing[q]
      BY <1>11, <2>4
    <3>2. signing[q].line # signing[r].line
      BY <1>3, <1>14, <2>4, <3>1 DEF OneEach
    <3>3. t # next /\ Alive(store, t) /\ new[t] = store[t]
      BY <1>19, <2>1, <2>4, <3>1, <3>2
    <3> QED
      BY <1>14, <2>4, <3>1, <3>3 DEF OneEach
  <2>5. \A p, q \in Refreshes : od[p] # 0 /\ od[q] # 0 /\ sg[p].line = sg[q].line => p = q
    BY <1>11, <1>14 DEF OneEach
  <2> QED
    BY <2>3, <2>4, <2>5 DEF OneEach
<1> QED
  BY <1>13, <1>16, <1>17, <1>18, <1>20, <1>21 DEF ManagerOK

\* A sign-out leaves the refreshes under way as they are.
LEMMA SessionDestroyed ==
  ASSUME AuthAssumption, ManagerOK(sm), NEW t \in Tokens, DestroySession(t)
  PROVE  ManagerOK(sm')
<1>1. sm \in ManagerState
  BY DEF ManagerOK
<1>2. PICK store, signing, old : store = sm.refreshTokenStore /\ signing = sm.signing /\ old = sm.old
  OBVIOUS
<1>3. /\ store \in [Tokens -> RefreshRecord] /\ signing \in [Refreshes -> RefreshRecord]
      /\ old \in [Refreshes -> 0 .. MaxTokens] /\ sm.lines \in Nat
  BY <1>1, <1>2, ManagerParts
<1>4. Gone \in RefreshRecord /\ Gone.chain = 0 /\ Gone.line = 0
  BY DEF Gone, RefreshRecord, AuthAssumption
<1>5. PICK new : new = [store EXCEPT ![t] = Gone]
  OBVIOUS
<1>6. /\ new \in [Tokens -> RefreshRecord] /\ new[t].chain = 0 /\ new[t].line = 0
      /\ \A u \in Tokens : u # t => new[u] = store[u]
  BY <1>3, <1>4, <1>5
<1>8. sm' = [sm EXCEPT !.refreshTokenStore = new]
  BY <1>2, <1>5 DEF DestroySession
<1>9. /\ sm' \in ManagerState /\ sm'.refreshTokenStore = new /\ sm'.signing = signing
      /\ sm'.old = old /\ sm'.lines = sm.lines /\ sm'.next = sm.next
  BY <1>1, <1>2, <1>6, <1>8 DEF ManagerState
<1>10. /\ Issued(store, signing, sm.next) /\ Together(store, signing)
       /\ \A q \in Refreshes : old[q] # 0 => signing[q].chain # 0
       /\ OneEach(store, signing, old) /\ Numbered(store, signing, sm.lines)
  BY <1>2 DEF ManagerOK
<1>11. sm.next > 0
  BY <1>1, ManagerParts DEF AuthAssumption
<1>12. Issued(new, signing, sm.next)
  BY <1>6, <1>10, <1>11 DEF Issued
<1>13. Together(new, signing)
  BY <1>6, <1>10 DEF Together
<1>14. OneEach(new, signing, old)
  BY <1>6, <1>10 DEF OneEach, Alive
<1>15. Numbered(new, signing, sm.lines)
  BY <1>3, <1>6, <1>10 DEF Numbered
<1> QED
  BY <1>9, <1>10, <1>12, <1>13, <1>14, <1>15 DEF ManagerOK

LEMMA ManagerStep == ASSUME AuthAssumption, ManagerOK(sm), [SMNext]_sm PROVE ManagerOK(sm')
<1>1. CASE UNCHANGED sm
  BY <1>1
<1>2. CASE ClockTick
  <2>1. sm \in ManagerState
    BY DEF ManagerOK
  <2>2. PICK n : n = sm.now + 1
    OBVIOUS
  <2>3. n \in 0 .. MaxTime
    BY <1>2, <2>1, <2>2, ManagerParts DEF ClockTick, AuthAssumption
  <2>4. sm' = [sm EXCEPT !.now = n]
    BY <1>2, <2>2 DEF ClockTick
  <2>5. /\ sm' \in ManagerState /\ sm'.refreshTokenStore = sm.refreshTokenStore
        /\ sm'.signing = sm.signing /\ sm'.old = sm.old /\ sm'.lines = sm.lines /\ sm'.next = sm.next
    BY <2>1, <2>3, <2>4 DEF ManagerState
  <2> QED
    BY <2>5 DEF ManagerOK
<1> QED
  BY <1>1, <1>2, SessionCreated, RefreshAsked, RefreshSigned, SessionDestroyed DEF SMNext

\* For any number of tokens, callers and ticks of the clock: a login has one live
\* refresh token and one more for each of its refreshes that began while another of
\* the same token was between check and revocation, and every token of a login
\* expires when the first one did.
THEOREM LoginTokens ==
  ASSUME AuthAssumption
  PROVE  SMInit /\ [][SMNext]_sm => []OneLiveToken
<1>1. SMInit => ManagerOK(sm)
  BY ManagerStarts
<1>2. ManagerOK(sm) /\ [SMNext]_sm => ManagerOK(sm)'
  BY ManagerStep
<1>3. ManagerOK(sm) => OneLiveToken
  BY DEF ManagerOK, Together, OneEach, Alive, OneLiveToken, Live
<1> QED
  BY <1>1, <1>2, <1>3, PTL

-----------------------------------------------------------------------------
(* The view: the session it shows, and where that session came from *)

SessionOrNone == Session \cup {None}
Shown(session) == IF session = None THEN "unauthenticated" ELSE "authenticated"
SignInStates == {"idle", "authorizing", "done"}
ViewState ==
  [current : SessionOrNone, session : SessionOrNone,
   status : {"loading", "authenticated", "unauthenticated"}, mounted : BOOLEAN,
   sessionCallback : SessionOrNone, now : 0 .. MaxTime, wrong : BOOLEAN, providers : {<<"app">>},
   pending : [SignIns -> SignInStates]]

Authorizing(s) == \E o \in SignIns : s.pending[o] = "authorizing"

\* Only a sign-in under way hides what the view has; the clock alone takes it from the session
\* of createAuth; only a hydration sets the session that replaces a user's own.
ViewOK(s) ==
  /\ s \in ViewState
  /\ ~s.mounted => s.session = None /\ ~Authorizing(s)
  /\ s.mounted => s.status = Shown(s.session) \/ Authorizing(s)
  /\ s.session # None => s.current = s.session \/ s.now > s.session.expires
  /\ ~Hydrates => s.sessionCallback = None /\ ~s.wrong

\* What is shown, once it is what createAuth holds.
LEMMA ViewShows ==
  ASSUME NEW s \in ViewState, NEW session \in SessionOrNone, session # None => s.current = session,
         ~Hydrates => s.sessionCallback = None /\ ~s.wrong, s.mounted
  PROVE  ViewOK(Show(s, session))
<1>1. PICK st : st = Shown(session)
  OBVIOUS
<1>2. st \in {"loading", "authenticated", "unauthenticated"}
  BY <1>1 DEF Shown
<1>3. PICK t : t = Show(s, session)
  OBVIOUS
<1>4. t = [s EXCEPT !.session = session, !.status = st]
  BY <1>1, <1>3 DEF Show, Shown
<1>5. /\ t \in ViewState /\ t.session = session /\ t.status = st /\ t.current = s.current
      /\ t.sessionCallback = s.sessionCallback /\ t.wrong = s.wrong /\ t.mounted = s.mounted
  BY <1>2, <1>4 DEF ViewState
<1> QED
  BY <1>1, <1>3, <1>5 DEF ViewOK

LEMMA NoneIs == ASSUME AuthAssumption PROVE None \in SessionOrNone
  BY DEF SessionOrNone

\* getSession() drops an expired session and nothing else.
LEMMA SessionRead ==
  ASSUME AuthAssumption, NEW s \in ViewState
  PROVE  LET t == GetSession(s)
         IN  /\ t \in ViewState /\ t.current \in {s.current, None} /\ t.session = s.session
             /\ t.status = s.status /\ t.mounted = s.mounted /\ t.now = s.now /\ t.wrong = s.wrong
             /\ t.sessionCallback = s.sessionCallback /\ t.pending = s.pending
<1>1. PICK t : t = GetSession(s)
  OBVIOUS
<1>2. CASE t = s
  BY <1>1, <1>2
<1>3. CASE t = [s EXCEPT !.current = None]
  <2>1. PICK none \in SessionOrNone : none = None
    BY NoneIs
  <2>2. t = [s EXCEPT !.current = none]
    BY <1>3, <2>1
  <2>3. /\ t \in ViewState /\ t.current = none /\ t.session = s.session
        /\ t.status = s.status /\ t.mounted = s.mounted /\ t.now = s.now /\ t.wrong = s.wrong
        /\ t.sessionCallback = s.sessionCallback /\ t.pending = s.pending
    BY <2>2 DEF ViewState
  <2> QED
    BY <1>1, <2>1, <2>3
<1> QED
  BY <1>1, <1>2, <1>3 DEF GetSession

LEMMA ViewStarts == ASSUME AuthAssumption, AuthInit PROVE ViewOK(au)
<1>1. PICK pending, none, now :
        /\ pending = [o \in SignIns |-> "idle"] /\ none = None /\ now = 0
  OBVIOUS
<1>2. pending \in [SignIns -> SignInStates] /\ \A o \in SignIns : pending[o] = "idle"
  BY <1>1 DEF SignInStates
<1>3. none \in SessionOrNone /\ now \in 0 .. MaxTime
  BY <1>1, NoneIs DEF AuthAssumption
<1>4. au = [current |-> none, session |-> none, status |-> "loading", mounted |-> FALSE,
            sessionCallback |-> none, now |-> now, wrong |-> FALSE, providers |-> <<"app">>,
            pending |-> pending]
  BY <1>1 DEF AuthInit
<1>5. /\ au \in ViewState /\ au.session = none /\ ~au.mounted /\ au.sessionCallback = none
      /\ ~au.wrong /\ au.pending = pending
  BY <1>2, <1>3, <1>4 DEF ViewState
<1> QED
  BY <1>1, <1>2, <1>5 DEF ViewOK, Authorizing

\* A sign-in that is over leaves the view as it now shows it.
LEMMA SignInSettles ==
  ASSUME AuthAssumption, NEW s, ViewOK(s), s.mounted, s.status = Shown(s.session),
         NEW o \in SignIns, NEW wrong \in BOOLEAN, Hydrates \/ ~wrong
  PROVE  ViewOK([s EXCEPT !.pending[o] = "done", !.wrong = wrong])
<1>1. s \in ViewState
  BY DEF ViewOK
<1>2. PICK pending : pending = [s.pending EXCEPT ![o] = "done"]
  OBVIOUS
<1>3. pending \in [SignIns -> SignInStates]
  BY <1>1, <1>2 DEF ViewState, SignInStates
<1>4. PICK t : t = [s EXCEPT !.pending[o] = "done", !.wrong = wrong]
  OBVIOUS
<1>5. t = [s EXCEPT !.pending = pending, !.wrong = wrong]
  BY <1>1, <1>2, <1>4 DEF ViewState
<1>6. /\ t \in ViewState /\ t.session = s.session /\ t.status = s.status /\ t.current = s.current
      /\ t.sessionCallback = s.sessionCallback /\ t.wrong = wrong /\ t.mounted = s.mounted
      /\ t.now = s.now
  BY <1>1, <1>3, <1>5 DEF ViewState
<1> QED
  BY <1>4, <1>6 DEF ViewOK

LEMMA ViewHydrated == ASSUME AuthAssumption, ViewOK(au), HydrateSession PROVE ViewOK(au')
<1>1. au \in ViewState /\ ~au.mounted /\ au.session = None /\ Hydrates /\ ~Authorizing(au)
  BY DEF ViewOK, HydrateSession
<1>2. PICK u \in Users :
        LET session == [user |-> u, expires |-> au.now + MaxAge]
        IN au' = [au EXCEPT !.sessionCallback = session, !.current = session]
  BY DEF HydrateSession
<1>3. au.now + MaxAge \in 0 .. 2 * MaxTime + 1
  BY <1>1 DEF ViewState, MaxAge, AuthAssumption
<1>4. PICK session : session = [user |-> u, expires |-> au.now + MaxAge]
  OBVIOUS
<1>5. session \in SessionOrNone
  BY <1>3, <1>4 DEF SessionOrNone, Session
<1>6. au' = [au EXCEPT !.sessionCallback = session, !.current = session]
  BY <1>2, <1>4
<1>7. au' \in ViewState /\ au'.session = None /\ ~au'.mounted /\ au'.pending = au.pending
  BY <1>1, <1>5, <1>6 DEF ViewState
<1> QED
  BY <1>1, <1>7 DEF ViewOK, Authorizing

LEMMA ViewMounted == ASSUME AuthAssumption, ViewOK(au), UseSession PROVE ViewOK(au')
<1>1. /\ au \in ViewState /\ ~au.mounted /\ au.session = None /\ ~Authorizing(au)
      /\ ~Hydrates => au.sessionCallback = None /\ ~au.wrong
  BY DEF ViewOK, UseSession
<1>2. PICK s : s = GetSession(au)
  OBVIOUS
<1>3. /\ s \in ViewState /\ s.session = None /\ s.pending = au.pending
      /\ ~Hydrates => s.sessionCallback = None /\ ~s.wrong
  BY <1>1, <1>2, SessionRead
<1>4. CASE s.current = None
  <2>1. au' = [s EXCEPT !.status = "unauthenticated", !.mounted = TRUE]
    BY <1>2, <1>3, <1>4 DEF UseSession, ViewState
  <2>2. /\ au' \in ViewState /\ au'.session = None /\ au'.status = "unauthenticated" /\ au'.mounted
        /\ au'.sessionCallback = s.sessionCallback /\ au'.wrong = s.wrong
    BY <1>3, <2>1 DEF ViewState
  <2> QED
    BY <1>3, <2>2 DEF ViewOK, Shown
<1>5. CASE s.current # None
  <2>1. PICK m : m = [s EXCEPT !.mounted = TRUE]
    OBVIOUS
  <2>2. /\ m \in ViewState /\ m.current = s.current /\ m.mounted
        /\ m.sessionCallback = s.sessionCallback /\ m.wrong = s.wrong
    BY <1>3, <2>1 DEF ViewState
  <2>3. au' = Show(m, s.current)
    BY <1>2, <1>3, <1>5, <2>1 DEF UseSession, Show, ViewState
  <2>4. s.current \in SessionOrNone
    BY <1>3 DEF ViewState
  <2> QED
    BY <1>3, <2>2, <2>3, <2>4, ViewShows
<1> QED
  BY <1>4, <1>5

LEMMA SignInAsked ==
  ASSUME AuthAssumption, ViewOK(au), NEW o \in SignIns, SignIn(o) PROVE ViewOK(au')
<1>1. au \in ViewState /\ au.mounted
  BY DEF ViewOK, SignIn
<1>2. PICK pending : pending = [au.pending EXCEPT ![o] = "authorizing"]
  OBVIOUS
<1>3. pending \in [SignIns -> SignInStates] /\ pending[o] = "authorizing"
  BY <1>1, <1>2 DEF ViewState, SignInStates
<1>4. au' = [au EXCEPT !.pending = pending, !.status = "loading"]
  BY <1>1, <1>2 DEF SignIn, ViewState
<1>5. /\ au' \in ViewState /\ au'.session = au.session /\ au'.current = au.current
      /\ au'.sessionCallback = au.sessionCallback /\ au'.wrong = au.wrong /\ au'.mounted
      /\ au'.now = au.now /\ au'.pending = pending
  BY <1>1, <1>3, <1>4 DEF ViewState
<1> QED
  BY <1>3, <1>5 DEF ViewOK, Authorizing

\* A sign-in under way says the view is mounted.
LEMMA MountedFirst ==
  ASSUME ViewOK(au), NEW o \in SignIns, au.pending[o] = "authorizing"
  PROVE  au \in ViewState /\ au.mounted
  BY DEF ViewOK, Authorizing

LEMMA SignInAccepted ==
  ASSUME AuthAssumption, ViewOK(au), NEW o \in SignIns, NEW user \in Users, Authorized(o, user)
  PROVE  ViewOK(au')
<1>1. au \in ViewState /\ au.mounted /\ (~Hydrates => au.sessionCallback = None /\ ~au.wrong)
  BY MountedFirst DEF Authorized, ViewOK
<1>2. PICK session : session = CreateSession(au, user)
  OBVIOUS
<1>3. session \in SessionOrNone /\ (~Hydrates => session.user = user)
  <2>1. au.now + MaxAge \in 0 .. 2 * MaxTime + 1
    BY <1>1 DEF ViewState, MaxAge, AuthAssumption
  <2>2. PICK own : own = [user |-> user, expires |-> au.now + MaxAge]
    OBVIOUS
  <2>3. own \in SessionOrNone /\ own.user = user
    BY <2>1, <2>2 DEF Session, SessionOrNone
  <2>4. session = IF au.sessionCallback # None THEN au.sessionCallback ELSE own
    BY <1>2, <2>2 DEF CreateSession
  <2> QED
    BY <1>1, <2>3, <2>4 DEF ViewState
<1>4. PICK s : s = [au EXCEPT !.current = session]
  OBVIOUS
<1>5. /\ s \in ViewState /\ s.current = session /\ s.mounted /\ s.wrong = au.wrong
      /\ s.sessionCallback = au.sessionCallback
  BY <1>1, <1>3, <1>4 DEF ViewState
<1>6. PICK t : t = Show(s, session)
  OBVIOUS
<1>7. ViewOK(t)
  BY <1>1, <1>3, <1>5, <1>6, ViewShows
<1>8. t.mounted /\ t.status = Shown(t.session) /\ t.wrong = au.wrong
  BY <1>5, <1>6 DEF Show, Shown, ViewState
<1>9. PICK wrong : wrong = (au.wrong \/ session.user # user)
  OBVIOUS
<1>10. wrong \in BOOLEAN /\ (Hydrates \/ ~wrong)
  BY <1>1, <1>3, <1>9 DEF ViewState
<1>11. au' = [t EXCEPT !.pending[o] = "done", !.wrong = wrong]
  BY <1>2, <1>4, <1>6, <1>8, <1>9 DEF Authorized
<1> QED
  BY <1>7, <1>8, <1>10, <1>11, SignInSettles

LEMMA SignInRefused ==
  ASSUME AuthAssumption, ViewOK(au), NEW o \in SignIns, NotAuthorized(o) PROVE ViewOK(au')
<1>1. au \in ViewState /\ au.mounted /\ (~Hydrates => au.sessionCallback = None /\ ~au.wrong)
  BY MountedFirst DEF NotAuthorized, ViewOK
<1>2. PICK t : t = Show(au, None)
  OBVIOUS
<1>3. ViewOK(t)
  BY <1>1, <1>2, NoneIs, ViewShows
<1>4. t.mounted /\ t.status = Shown(t.session) /\ t.wrong = au.wrong /\ t \in ViewState
  BY <1>1, <1>2, <1>3 DEF Show, Shown, ViewState, ViewOK
<1>5. PICK wrong : wrong = au.wrong
  OBVIOUS
<1>6. wrong \in BOOLEAN /\ (Hydrates \/ ~wrong)
  BY <1>1, <1>5 DEF ViewState
<1>7. [t EXCEPT !.pending[o] = "done"] = [t EXCEPT !.pending[o] = "done", !.wrong = wrong]
  BY <1>4, <1>5 DEF ViewState
<1>8. au' = [t EXCEPT !.pending[o] = "done", !.wrong = wrong]
  BY <1>2, <1>7 DEF NotAuthorized
<1> QED
  BY <1>3, <1>4, <1>6, <1>8, SignInSettles

LEMMA SignedOut == ASSUME AuthAssumption, ViewOK(au), SignOut PROVE ViewOK(au')
<1>1. au \in ViewState /\ au.mounted /\ (~Hydrates => au.sessionCallback = None /\ ~au.wrong)
  BY DEF SignOut, ViewOK
<1>2. PICK none \in SessionOrNone : none = None
  BY NoneIs
<1>3. PICK s : s = [au EXCEPT !.current = none]
  OBVIOUS
<1>4. s \in ViewState /\ s.mounted /\ s.wrong = au.wrong /\ s.sessionCallback = au.sessionCallback
  BY <1>1, <1>3 DEF ViewState
<1>5. au' = Show(s, none)
  BY <1>2, <1>3 DEF SignOut
<1> QED
  BY <1>1, <1>2, <1>4, <1>5, ViewShows

LEMMA ViewRefreshed == ASSUME AuthAssumption, ViewOK(au), Refresh PROVE ViewOK(au')
<1>1. au \in ViewState /\ au.mounted /\ (~Hydrates => au.sessionCallback = None /\ ~au.wrong)
  BY DEF Refresh, ViewOK
<1>2. PICK s : s = GetSession(au)
  OBVIOUS
<1>3. s \in ViewState /\ s.mounted /\ s.wrong = au.wrong /\ s.sessionCallback = au.sessionCallback
  BY <1>1, <1>2, SessionRead
<1>4. PICK session \in SessionOrNone : session = s.current
  BY <1>3 DEF ViewState
<1>5. au' = Show(s, session)
  BY <1>2, <1>4 DEF Refresh
<1> QED
  BY <1>1, <1>3, <1>4, <1>5, ViewShows

LEMMA ViewStep == ASSUME AuthAssumption, ViewOK(au), [AuthNext]_au PROVE ViewOK(au')
<1>1. CASE UNCHANGED au
  BY <1>1
<1>2. CASE Tick
  <2>1. au \in ViewState
    BY DEF ViewOK
  <2>2. PICK n : n = au.now + 1
    OBVIOUS
  <2>3. n \in 0 .. MaxTime
    BY <1>2, <2>1, <2>2 DEF Tick, ViewState, AuthAssumption
  <2>4. au' = [au EXCEPT !.now = n]
    BY <1>2, <2>2 DEF Tick
  <2>5. /\ au' \in ViewState /\ au'.session = au.session /\ au'.current = au.current
        /\ au'.sessionCallback = au.sessionCallback /\ au'.wrong = au.wrong
        /\ au'.mounted = au.mounted /\ au'.status = au.status /\ au'.pending = au.pending
        /\ au'.now = n
    BY <2>1, <2>3, <2>4 DEF ViewState
  <2>6. ASSUME au.session # None, au.now > au.session.expires PROVE n > au.session.expires
    <3>1. au.session \in Session
      BY <2>1, <2>6 DEF ViewState, SessionOrNone
    <3>2. au.session.expires \in 0 .. 2 * MaxTime + 1 /\ au.now \in 0 .. MaxTime
      BY <2>1, <3>1 DEF Session, ViewState
    <3> QED
      BY <2>2, <2>6, <3>2 DEF AuthAssumption
  <2> QED
    BY <2>5, <2>6 DEF ViewOK, Authorizing
<1> QED
  BY <1>1, <1>2, ViewHydrated, ViewMounted, SignInAsked, SignInAccepted, SignInRefused, SignedOut,
     ViewRefreshed DEF AuthNext

\* Whatever sign-ins, sign-outs, refreshes and expiries interleave: with no sign-in under
\* way the view shows the session createAuth holds, or one that has expired since.
THEOREM ViewHonest ==
  ASSUME AuthAssumption
  PROVE  AuthInit /\ [][AuthNext]_au => []SignedInShown
<1>1. AuthInit => ViewOK(au)
  BY ViewStarts
<1>2. ViewOK(au) /\ [AuthNext]_au => ViewOK(au)'
  BY ViewStep
<1>3. ViewOK(au) => SignedInShown
  BY DEF ViewOK, SignedInShown, Authorizing, Shown
<1> QED
  BY <1>1, <1>2, <1>3, PTL

\* On a page that carries no session of the server, the session of a sign-in is that of
\* the user the provider accepted: the session callback that a hydration leaves behind is
\* the only way to another's.
THEOREM SessionIsOwn ==
  ASSUME AuthAssumption, ~Hydrates
  PROVE  AuthInit /\ [][AuthNext]_au => []SignInIsOwn
<1>1. AuthInit => ViewOK(au)
  BY ViewStarts
<1>2. ViewOK(au) /\ [AuthNext]_au => ViewOK(au)'
  BY ViewStep
<1>3. ViewOK(au) => SignInIsOwn
  BY DEF ViewOK, SignInIsOwn
<1> QED
  BY <1>1, <1>2, <1>3, PTL

-----------------------------------------------------------------------------
(* Auth: the decisions of the middleware *)

\* A token is a session of alice when it was signed with the secret and is still good.
LEMMA VerifyIs ==
  ASSUME NEW t \in CandidateTokens
  PROVE  VerifyJWT(TokenOf(t), "secret", 1) = IF t \in {"garbage", "expired"} THEN "none" ELSE "alice"
<1>1. PICK payload : payload = [sub |-> "alice", exp |-> IF t = "expired" THEN 0 ELSE 1]
  OBVIOUS
<1>2. payload.sub = "alice" /\ payload.exp = IF t = "expired" THEN 0 ELSE 1
  BY <1>1
<1>3. PICK secret : secret = IF t = "garbage" THEN "other" ELSE "secret"
  OBVIOUS
<1>4. TokenOf(t) = [payload |-> payload, sig |-> HmacSha256(secret, payload)]
  BY <1>1, <1>3 DEF TokenOf, EncodeJWT
<1>5. TokenOf(t).payload = payload /\ TokenOf(t).sig = HmacSha256(secret, payload)
  BY <1>4
<1>6. HmacSha256(secret, payload) = HmacSha256("secret", payload) <=> secret = "secret"
  <2>1. ASSUME NEW a, NEW b, Sha256(a) = Sha256(b) PROVE a = b
    <3>1. Sha256(a)[2] = a /\ Sha256(b)[2] = b
      BY DEF Sha256
    <3> QED
      BY <2>1, <3>1
  <2>2. ASSUME HmacSha256(secret, payload) = HmacSha256("secret", payload) PROVE secret = "secret"
    <3>1. <<secret, "o", Sha256(<<secret, "i", payload>>)>> = <<"secret", "o", Sha256(<<"secret", "i", payload>>)>>
      BY <2>1, <2>2 DEF HmacSha256
    <3> QED
      BY <3>1
  <2> QED
    BY <2>2
<1> QED
  BY <1>2, <1>3, <1>5, <1>6 DEF VerifyJWT

\* The comparison that takes the same time wherever the two differ.
LEMMA TimingSafeIs ==
  ASSUME NEW a \in Seq(Nat), NEW b \in Seq(Nat)
  PROVE  TimingSafeEqual(a, b) <=> a = b
<1>1. PICK m \in Nat, n \in Nat : m = Len(a) /\ n = Len(b)
  BY LenProperties
<1>2. ASSUME TimingSafeEqual(a, b) PROVE a = b
  <2>1. m = n
    BY <1>1, <1>2 DEF TimingSafeEqual
  <2>2. \A i \in 1 .. m : Padded(a, m)[i] = Padded(b, m)[i]
    BY <1>1, <1>2, <2>1 DEF TimingSafeEqual
  <2>3. \A i \in 1 .. m : Padded(a, m)[i] = a[i] /\ Padded(b, m)[i] = b[i]
    BY <1>1, <2>1 DEF Padded
  <2> QED
    BY <1>1, <2>1, <2>2, <2>3, SeqEqual
<1>3. ASSUME a = b PROVE TimingSafeEqual(a, b)
  BY <1>3 DEF TimingSafeEqual
<1> QED
  BY <1>2, <1>3

LEMMA GuardsRight == ASSUME am \in MiddlewareContext PROVE DecisionsRight
<1>1. PICK bearer \in CandidateTokens, cookie \in CandidateTokens, object \in {"absent", "alice"}, memory \in {"none", "bob"} :
        bearer = am.bearer /\ cookie = am.cookie /\ object = am.object /\ memory = am.memory
  BY DEF MiddlewareContext
<1>2. GetServerSession(am) = IF bearer = "alice" \/ cookie = "alice" \/ object = "alice" THEN "alice" ELSE "none"
  <2> DEFINE verify(t) == IF t = "absent" THEN "none" ELSE VerifyJWT(TokenOf(t), "secret", 1)
  <2>1. \A t \in CandidateTokens : verify(t) = IF t = "alice" THEN "alice" ELSE "none"
    BY VerifyIs DEF CandidateTokens
  <2>2. GetServerSession(am) = CASE verify(cookie) # "none" -> verify(cookie)
                                 [] verify(cookie) = "none" /\ verify(bearer) # "none" -> verify(bearer)
                                 [] OTHER -> verify(object)
    BY <1>1 DEF GetServerSession
  <2> HIDE DEF verify
  <2>3. verify(cookie) \in {"none", "alice"} /\ verify(bearer) \in {"none", "alice"} /\ object \in CandidateTokens
    BY <2>1 DEF CandidateTokens
  <2> QED
    BY <2>1, <2>2, <2>3
<1>3. Protect(am) = "none" <=> bearer # "alice" /\ cookie # "alice" /\ memory = "none"
  <2>1. Protect(am) = LET b == IF bearer = "absent" THEN "none" ELSE ResolveSessionFromToken(bearer, memory)
                          c == IF cookie = "absent" THEN "none" ELSE ResolveSessionFromToken(cookie, memory)
                      IN CASE b # "none" -> b [] b = "none" /\ c # "none" -> c [] OTHER -> memory
    BY <1>1 DEF Protect
  <2>2. \A t \in CandidateTokens : ResolveSessionFromToken(t, memory) = IF t = "expired" THEN "none" ELSE IF t = "garbage" THEN memory ELSE t
    BY DEF ResolveSessionFromToken
  <2> DEFINE b == IF bearer = "absent" THEN "none" ELSE ResolveSessionFromToken(bearer, memory)
             c == IF cookie = "absent" THEN "none" ELSE ResolveSessionFromToken(cookie, memory)
  <2>3. Protect(am) = IF b # "none" THEN b ELSE IF c # "none" THEN c ELSE memory
    BY <2>1
  <2>4. b = IF bearer \in {"absent", "expired"} THEN "none" ELSE IF bearer = "garbage" THEN memory ELSE "alice"
    BY <2>2 DEF CandidateTokens
  <2>5. c = IF cookie \in {"absent", "expired"} THEN "none" ELSE IF cookie = "garbage" THEN memory ELSE "alice"
    BY <2>2 DEF CandidateTokens
  <2> HIDE DEF b, c
  <2> QED
    BY <2>3, <2>4, <2>5 DEF CandidateTokens
<1>4. Compose(am, {"admin"}) = 200 <=> Protect(am) # "none" /\ "admin" \in am.roles
  <2>1. RequireRole(am, Protect(am), {"admin"}) = IF Protect(am) = "none" THEN 401 ELSE IF am.roles \cap {"admin"} = {} THEN 403 ELSE 200
    BY DEF RequireRole
  <2>2. am.roles \cap {"admin"} = {} <=> "admin" \notin am.roles
    OBVIOUS
  <2> QED
    BY <2>1, <2>2 DEF Compose
<1>5. CsrfMiddleware(am) = "valid" <=> am.method # "POST" \/ (am.submitted = am.expected /\ am.expected # <<>>)
  <2>a. am.submitted \in {<<>>, <<1>>, <<1, 0>>} /\ am.expected \in {<<>>, <<1>>} /\ am.method \in {"GET", "POST", "TRACE"}
    BY DEF MiddlewareContext
  <2>b. <<>> \in Seq(Nat) /\ <<1>> \in Seq(Nat) /\ <<1, 0>> \in Seq(Nat)
    OBVIOUS
  <2>1. am.submitted \in Seq(Nat) /\ am.expected \in Seq(Nat) /\ am.method \in {"GET", "POST", "TRACE"}
    BY <2>a, <2>b
  <2>2. TimingSafeEqual(am.submitted, am.expected) <=> am.submitted = am.expected
    BY <2>1, TimingSafeIs
  <2>3. CsrfMiddleware(am) = IF am.method # "POST" THEN "valid" ELSE IF am.submitted = <<>> THEN "missing"
                             ELSE IF am.expected = <<>> THEN "no session"
                             ELSE IF TimingSafeEqual(am.submitted, am.expected) THEN "valid" ELSE "invalid"
    <3>1. am.method \notin {"POST", "PUT", "DELETE", "PATCH"} <=> am.method # "POST"
      BY <2>1
    <3>2. CASE am.method # "POST"
      BY <3>1, <3>2 DEF CsrfMiddleware
    <3>3. CASE am.method = "POST"
      BY <3>1, <3>3 DEF CsrfMiddleware
    <3> QED
      BY <3>2, <3>3
  <2> QED
    BY <2>2, <2>3
<1>6. (\E t \in {am.bearer, am.cookie, am.object} : t = "alice") <=> bearer = "alice" \/ cookie = "alice" \/ object = "alice"
  BY <1>1
<1>7. GetServerSession(am) = IF \E t \in {am.bearer, am.cookie, am.object} : t = "alice" THEN "alice" ELSE "none"
  BY <1>2, <1>6
<1>8. (Protect(am) = "none") = (am.bearer # "alice" /\ am.cookie # "alice" /\ am.memory = "none")
  BY <1>1, <1>3
<1>9. (Compose(am, {"admin"}) = 200) = (Protect(am) # "none" /\ "admin" \in am.roles)
  BY <1>4
<1>10. (CsrfMiddleware(am) = "valid") = (am.method # "POST" \/ (am.submitted = am.expected /\ am.expected # <<>>))
  BY <1>5
<1> QED
  BY <1>7, <1>8, <1>9, <1>10 DEF DecisionsRight

-----------------------------------------------------------------------------
(* Db: transactions of the postgres driver, and the attempts of an action *)

AttemptStates == {"none", "connecting", "open", "ok", "error"}
Writes == Attempts \X (1 .. Statements)
TransactionState ==
  [pc : [Attempts -> AttemptStates], done : [Attempts -> 0 .. Statements],
   dirty : [Attempts -> SUBSET Writes], data : SUBSET Writes, free : 0 .. PoolSize, lost : Nat,
   action : [Actions -> {"idle", "running", "ok", "error"}],
   attempt : [Actions -> 1 .. Retries + 1], timedOut : SUBSET Attempts]

\* An open attempt holds the statements it has run; a write is in the database when
\* its attempt committed.
AttemptWritten(s, a) ==
  /\ s.pc[a] = "open" => s.dirty[a] = {a} \X (1 .. s.done[a])
  /\ s.pc[a] # "open" => s.dirty[a] = {}
  /\ s.pc[a] \in {"none", "connecting"} => s.done[a] = 0
  /\ \A i \in 1 .. Statements : <<a, i>> \in s.data <=> s.pc[a] = "ok"
Written(s) == \A a \in Attempts : AttemptWritten(s, a)

\* The attempts of an action are made in turn; of those that did not time out only the
\* last can be other than failed, and it ends as the action does.
InTurn(s, x) ==
  /\ \A n \in 1 .. Retries + 1 : n > s.attempt[x] => s.pc[<<x, n>>] = "none" /\ <<x, n>> \notin s.timedOut
  /\ s.action[x] = "idle" => s.attempt[x] = 1 /\ s.pc[<<x, 1>>] = "none" /\ <<x, 1>> \notin s.timedOut
  /\ s.action[x] # "idle" => \A n \in 1 .. Retries + 1 :
       n < s.attempt[x] => s.pc[<<x, n>>] = "error" \/ <<x, n>> \in s.timedOut
  /\ s.action[x] = "running" => /\ s.pc[<<x, s.attempt[x]>>] \in {"connecting", "open"}
                                /\ <<x, s.attempt[x]>> \notin s.timedOut
  /\ s.action[x] = "ok" => s.pc[<<x, s.attempt[x]>>] = "ok" /\ <<x, s.attempt[x]>> \notin s.timedOut
  /\ s.action[x] = "error" => s.pc[<<x, s.attempt[x]>>] = "error" \/ <<x, s.attempt[x]>> \in s.timedOut
AttemptsInTurn(s) == \A x \in Actions : InTurn(s, x)

Open(s) == {a \in Attempts : s.pc[a] = "open"}
ClientsKept(s) == s.free + s.lost + Cardinality(Open(s)) = PoolSize

DriverOK(s) == s \in TransactionState /\ Written(s) /\ AttemptsInTurn(s) /\ ClientsKept(s)

LEMMA TransactionParts ==
  ASSUME NEW s \in TransactionState
  PROVE  /\ s.pc \in [Attempts -> AttemptStates] /\ s.done \in [Attempts -> 0 .. Statements]
         /\ s.dirty \in [Attempts -> SUBSET Writes] /\ s.data \subseteq Writes
         /\ s.free \in 0 .. PoolSize /\ s.lost \in Nat
         /\ s.action \in [Actions -> {"idle", "running", "ok", "error"}]
         /\ s.attempt \in [Actions -> 1 .. Retries + 1] /\ s.timedOut \subseteq Attempts
  BY DEF TransactionState

LEMMA AttemptsFinite == ASSUME DbAssumption PROVE IsFiniteSet(Attempts)
<1>1. IsFiniteSet(1 .. Retries + 1)
  BY FS_Interval DEF DbAssumption
<1> QED
  BY <1>1, FS_Product DEF DbAssumption, Attempts

LEMMA AttemptIs ==
  ASSUME NEW a \in Attempts
  PROVE  a[1] \in Actions /\ a[2] \in 1 .. Retries + 1 /\ a = <<a[1], a[2]>>
  BY DEF Attempts

\* Neither a retry nor a promise that settles touches the database.
SameWrites(s, t) ==
  /\ t.done = s.done /\ t.dirty = s.dirty /\ t.data = s.data
  /\ t.free = s.free /\ t.lost = s.lost /\ t.timedOut = s.timedOut

\* The next attempt begins, or the action ends in the error.
NextAttempt(s, t, x, n) ==
  \/ /\ n + 1 \in 1 .. Retries + 1 /\ <<x, n + 1>> \in Attempts
     /\ t.pc = [s.pc EXCEPT ![<<x, n + 1>>] = "connecting"]
     /\ t.attempt = [s.attempt EXCEPT ![x] = n + 1] /\ t.action = s.action
  \/ /\ t.pc = s.pc /\ t.attempt = s.attempt
     /\ t.action = [s.action EXCEPT ![x] = "error"]

\* The attempt is over, and so is the action if that waited for it, or the next one begins.
SettledAs(s, t, x, n, outcome, pc) ==
  LET waited == s.action[x] = "running" /\ s.attempt[x] = n
  IN  \/ ~waited /\ t.pc = pc /\ t.action = s.action /\ t.attempt = s.attempt
      \/ /\ waited /\ t.pc = pc /\ t.attempt = s.attempt
         /\ t.action = [s.action EXCEPT ![x] = outcome]
      \/ /\ waited /\ outcome = "error" /\ n + 1 \in 1 .. Retries + 1
         /\ <<x, n + 1>> \in Attempts
         /\ t.pc = [pc EXCEPT ![<<x, n + 1>>] = "connecting"]
         /\ t.attempt = [s.attempt EXCEPT ![x] = n + 1] /\ t.action = s.action

LEMMA RetryOrError ==
  ASSUME DbAssumption, NEW s \in TransactionState, NEW x \in Actions,
         NEW n \in 1 .. Retries + 1, n = s.attempt[x], NEW t, t = AttemptFailed(s, x)
  PROVE  t \in TransactionState /\ SameWrites(s, t) /\ NextAttempt(s, t, x, n)
<1>1. CASE n <= Retries
  <2>1. n + 1 \in 1 .. Retries + 1 /\ <<x, n + 1>> \in Attempts
    BY <1>1 DEF DbAssumption, Attempts
  <2>2. PICK pc, attempt : /\ pc = [s.pc EXCEPT ![<<x, n + 1>>] = "connecting"]
                           /\ attempt = [s.attempt EXCEPT ![x] = n + 1]
    OBVIOUS
  <2>3. pc \in [Attempts -> AttemptStates] /\ attempt \in [Actions -> 1 .. Retries + 1]
    BY <2>1, <2>2, TransactionParts DEF AttemptStates
  <2>4. t = [s EXCEPT !.attempt = attempt, !.pc = pc]
    BY <1>1, <2>2 DEF AttemptFailed, TransactionState
  <2>5. /\ t \in TransactionState /\ SameWrites(s, t)
        /\ t.pc = pc /\ t.attempt = attempt /\ t.action = s.action
    BY <2>3, <2>4 DEF TransactionState, SameWrites
  <2> QED
    BY <2>1, <2>2, <2>5 DEF NextAttempt
<1>2. CASE ~(n <= Retries)
  <2>1. PICK action : action = [s.action EXCEPT ![x] = "error"]
    OBVIOUS
  <2>2. action \in [Actions -> {"idle", "running", "ok", "error"}]
    BY <2>1, TransactionParts
  <2>3. t = [s EXCEPT !.action = action]
    BY <1>2, <2>1 DEF AttemptFailed, TransactionState
  <2>4. /\ t \in TransactionState /\ SameWrites(s, t)
        /\ t.pc = s.pc /\ t.attempt = s.attempt /\ t.action = action
    BY <2>2, <2>3 DEF TransactionState, SameWrites
  <2> QED
    BY <2>1, <2>4 DEF NextAttempt
<1> QED
  BY <1>1, <1>2

\* A promise that settles ends its attempt, and the action if that waited for it.
LEMMA SettleCases ==
  ASSUME DbAssumption, NEW s \in TransactionState, NEW x \in Actions, NEW n \in 1 .. Retries + 1,
         NEW outcome \in {"ok", "error"}, NEW t, t = SettleAttempt(s, <<x, n>>, outcome),
         NEW pc, pc = [s.pc EXCEPT ![<<x, n>>] = outcome]
  PROVE  t \in TransactionState /\ SameWrites(s, t) /\ SettledAs(s, t, x, n, outcome, pc)
<1> DEFINE waited == s.action[x] = "running" /\ s.attempt[x] = n
<1>1. <<x, n>> \in Attempts
  BY DEF Attempts
<1>2. pc \in [Attempts -> AttemptStates]
  BY <1>1, TransactionParts DEF AttemptStates
<1>3. PICK s1 : s1 = [s EXCEPT !.pc[<<x, n>>] = outcome]
  OBVIOUS
<1>4. s1 = [s EXCEPT !.pc = pc]
  BY <1>3 DEF TransactionState
<1>5. /\ s1 \in TransactionState /\ SameWrites(s, s1) /\ s1.pc = pc
      /\ s1.action = s.action /\ s1.attempt = s.attempt
  BY <1>2, <1>4 DEF TransactionState, SameWrites
<1>6. CASE ~waited
  <2>1. t = s1
    BY <1>3, <1>6 DEF SettleAttempt
  <2> QED
    BY <1>5, <1>6, <2>1 DEF SettledAs
<1>7. CASE waited /\ outcome = "ok"
  <2>1. PICK action : action = [s.action EXCEPT ![x] = "ok"]
    OBVIOUS
  <2>2. action \in [Actions -> {"idle", "running", "ok", "error"}]
    BY <2>1, TransactionParts
  <2>3. t = [s1 EXCEPT !.action[x] = "ok"]
    BY <1>3, <1>7 DEF SettleAttempt
  <2>4. t = [s1 EXCEPT !.action = action]
    BY <1>5, <2>1, <2>3 DEF TransactionState
  <2>5. /\ t \in TransactionState /\ SameWrites(s1, t)
        /\ t.pc = pc /\ t.attempt = s.attempt /\ t.action = action
    BY <1>5, <2>2, <2>4 DEF TransactionState, SameWrites
  <2> QED
    BY <1>5, <1>7, <2>1, <2>5 DEF SameWrites, SettledAs
<1>8. CASE waited /\ outcome = "error"
  <2>1. t = AttemptFailed(s1, x)
    BY <1>3, <1>8 DEF SettleAttempt
  <2>2. /\ t \in TransactionState /\ SameWrites(s1, t)
        /\ \/ /\ n + 1 \in 1 .. Retries + 1 /\ <<x, n + 1>> \in Attempts
              /\ t.pc = [pc EXCEPT ![<<x, n + 1>>] = "connecting"]
              /\ t.attempt = [s.attempt EXCEPT ![x] = n + 1] /\ t.action = s.action
           \/ /\ t.pc = pc /\ t.attempt = s.attempt
              /\ t.action = [s.action EXCEPT ![x] = "error"]
    <3>1. n = s1.attempt[x]
      BY <1>5, <1>8
    <3>2. t \in TransactionState /\ SameWrites(s1, t) /\ NextAttempt(s1, t, x, n)
      BY <1>5, <2>1, <3>1, RetryOrError
    <3> QED
      BY <1>5, <3>2 DEF NextAttempt
  <2>3. SameWrites(s, t)
    BY <1>5, <2>2 DEF SameWrites
  <2> QED
    BY <1>8, <2>2, <2>3 DEF SettledAs
<1> QED
  BY <1>6, <1>7, <1>8

\* An attempt under way is the last of its action, or one that the action gave up on.
LEMMA UnderWay ==
  ASSUME DbAssumption, NEW s \in TransactionState, AttemptsInTurn(s), NEW x \in Actions,
         NEW n \in 1 .. Retries + 1, s.pc[<<x, n>>] \in {"connecting", "open"}
  PROVE  /\ s.action[x] # "idle" /\ n <= s.attempt[x]
         /\ <<x, n>> \notin s.timedOut => s.action[x] = "running" /\ s.attempt[x] = n
<1>1. InTurn(s, x) /\ s.attempt[x] \in 1 .. Retries + 1
      /\ s.action[x] \in {"idle", "running", "ok", "error"}
  BY TransactionParts DEF AttemptsInTurn
<1>2. PICK last \in 1 .. Retries + 1 : last = s.attempt[x]
  BY <1>1
<1>3. n <= last
  BY <1>1, <1>2 DEF InTurn, DbAssumption
<1>4. s.action[x] # "idle"
  <2>1. ASSUME s.action[x] = "idle" PROVE FALSE
    <3>1. last = 1 /\ s.pc[<<x, 1>>] = "none"
      BY <1>1, <1>2, <2>1 DEF InTurn
    <3>2. n = 1
      BY <1>3, <3>1 DEF DbAssumption
    <3> QED
      BY <3>1, <3>2
  <2> QED
    BY <2>1
<1>5. ASSUME <<x, n>> \notin s.timedOut PROVE s.action[x] = "running" /\ last = n
  <2>1. ~(n < last)
    BY <1>1, <1>2, <1>4, <1>5 DEF InTurn
  <2>2. last = n
    BY <1>3, <2>1 DEF DbAssumption
  <2> QED
    BY <1>1, <1>2, <1>4, <1>5, <2>2 DEF InTurn
<1> QED
  BY <1>2, <1>3, <1>4, <1>5

\* Settling an attempt under way keeps the attempts of its action in turn.
LEMMA SettleInTurn ==
  ASSUME DbAssumption, NEW s \in TransactionState, AttemptsInTurn(s), NEW x \in Actions,
         NEW n \in 1 .. Retries + 1, s.pc[<<x, n>>] \in {"connecting", "open"},
         NEW outcome \in {"ok", "error"}, NEW t, t = SettleAttempt(s, <<x, n>>, outcome)
  PROVE  AttemptsInTurn(t)
<1> DEFINE waited == s.action[x] = "running" /\ s.attempt[x] = n
<1>1. PICK pc : pc = [s.pc EXCEPT ![<<x, n>>] = outcome]
  OBVIOUS
<1>2. t \in TransactionState /\ SameWrites(s, t) /\ SettledAs(s, t, x, n, outcome, pc)
  BY <1>1, SettleCases
<1> HIDE DEF waited
<1>3. \A y \in Actions, m \in 1 .. Retries + 1 : <<y, m>> \in Attempts
  BY DEF Attempts
<1>4. /\ s.pc \in [Attempts -> AttemptStates] /\ s.attempt \in [Actions -> 1 .. Retries + 1]
      /\ s.action \in [Actions -> {"idle", "running", "ok", "error"}]
  BY TransactionParts
<1>5. /\ pc[<<x, n>>] = outcome
      /\ \A y \in Actions, m \in 1 .. Retries + 1 : <<y, m>> # <<x, n>> => pc[<<y, m>>] = s.pc[<<y, m>>]
  BY <1>1, <1>3, <1>4
<1>6. /\ s.action[x] # "idle" /\ n <= s.attempt[x] /\ t.timedOut = s.timedOut
      /\ <<x, n>> \notin s.timedOut => waited
  BY <1>2, UnderWay DEF SameWrites, waited
<1>7. ASSUME NEW y \in Actions, y # x PROVE InTurn(t, y)
  <2>1. /\ t.action[y] = s.action[y] /\ t.attempt[y] = s.attempt[y]
        /\ \A m \in 1 .. Retries + 1 : t.pc[<<y, m>>] = s.pc[<<y, m>>]
    <3>1. \A m \in 1 .. Retries + 1 : pc[<<y, m>>] = s.pc[<<y, m>>]
      BY <1>5, <1>7
    <3>2. CASE t.pc = pc
      BY <1>2, <1>4, <1>7, <3>1, <3>2 DEF SettledAs
    <3>3. CASE t.pc # pc
      <4>1. /\ t.pc = [pc EXCEPT ![<<x, n + 1>>] = "connecting"]
            /\ t.attempt = [s.attempt EXCEPT ![x] = n + 1] /\ t.action = s.action
        BY <1>2, <3>3 DEF SettledAs
      <4>2. pc \in [Attempts -> AttemptStates]
        BY <1>1, <1>4 DEF AttemptStates
      <4>3. \A m \in 1 .. Retries + 1 : t.pc[<<y, m>>] = pc[<<y, m>>]
        BY <1>3, <1>7, <4>1, <4>2
      <4> QED
        BY <1>4, <1>7, <3>1, <4>1, <4>3
    <3> QED
      BY <3>2, <3>3
  <2>2. InTurn(s, y) /\ s.attempt[y] \in 1 .. Retries + 1 /\ 1 \in 1 .. Retries + 1
    BY <1>4 DEF AttemptsInTurn, DbAssumption
  <2> QED
    BY <1>6, <2>1, <2>2 DEF InTurn
<1>8. InTurn(s, x) /\ \A m \in 1 .. Retries + 1 : m # n => pc[<<x, m>>] = s.pc[<<x, m>>]
  BY <1>5 DEF AttemptsInTurn
<1>9. PICK last \in 1 .. Retries + 1 : last = s.attempt[x]
  BY <1>4
<1>10. ASSUME ~waited, t.pc = pc, t.action = s.action, t.attempt = s.attempt PROVE InTurn(t, x)
  <2>1. \A m \in 1 .. Retries + 1 : m > last => m # n
    BY <1>6, <1>9 DEF DbAssumption
  <2>2. <<x, n>> \in s.timedOut
    BY <1>6, <1>10
  <2>3. s.action[x] \in {"running", "ok"} => last # n
    BY <1>8, <1>9, <2>2 DEF InTurn
  <2> QED
    BY <1>6, <1>8, <1>9, <1>10, <2>1, <2>2, <2>3 DEF InTurn
<1>11. ASSUME waited, t.pc = pc, t.attempt = s.attempt, t.action = [s.action EXCEPT ![x] = outcome]
       PROVE  InTurn(t, x)
  <2>1. last = n /\ s.action[x] = "running" /\ t.action[x] = outcome /\ t.attempt[x] = n
    BY <1>4, <1>9, <1>11 DEF waited
  <2>2. \A m \in 1 .. Retries + 1 : (m > n => m # n) /\ (m < n => m # n)
    BY DEF DbAssumption
  <2> QED
    BY <1>5, <1>6, <1>8, <1>9, <1>11, <2>1, <2>2 DEF InTurn
<1>12. ASSUME waited, outcome = "error", n + 1 \in 1 .. Retries + 1, <<x, n + 1>> \in Attempts,
              t.pc = [pc EXCEPT ![<<x, n + 1>>] = "connecting"],
              t.attempt = [s.attempt EXCEPT ![x] = n + 1], t.action = s.action
       PROVE  InTurn(t, x)
  <2>1. last = n /\ s.action[x] = "running" /\ t.action[x] = "running" /\ t.attempt[x] = n + 1
    BY <1>4, <1>9, <1>12 DEF waited
  <2>2. pc \in [Attempts -> AttemptStates]
    BY <1>1, <1>4 DEF AttemptStates
  <2>3. /\ t.pc[<<x, n + 1>>] = "connecting"
        /\ \A m \in 1 .. Retries + 1 : m # n + 1 => t.pc[<<x, m>>] = pc[<<x, m>>]
    BY <1>3, <1>12, <2>2
  <2>4. \A m \in 1 .. Retries + 1 : /\ m > n + 1 => m > n /\ m # n /\ m # n + 1
                                    /\ m < n + 1 => m # n + 1 /\ (m = n \/ (m < n /\ m # n))
    BY DEF DbAssumption
  <2>5. /\ \A m \in 1 .. Retries + 1 : m > n + 1 => t.pc[<<x, m>>] = "none" /\ <<x, m>> \notin s.timedOut
        /\ <<x, n + 1>> \notin s.timedOut
    <3>1. n + 1 > n
      BY DEF DbAssumption
    <3> QED
      BY <1>8, <1>9, <1>12, <2>1, <2>3, <2>4, <3>1 DEF InTurn
  <2>6. \A m \in 1 .. Retries + 1 : m < n + 1 => t.pc[<<x, m>>] = "error" \/ <<x, m>> \in s.timedOut
    BY <1>5, <1>8, <1>9, <1>12, <2>1, <2>3, <2>4 DEF InTurn
  <2> QED
    BY <1>6, <2>1, <2>3, <2>5, <2>6 DEF InTurn
<1>13. InTurn(t, x)
  BY <1>2, <1>10, <1>11, <1>12 DEF SettledAs, waited
<1> QED
  BY <1>7, <1>13 DEF AttemptsInTurn

\* The writes of an attempt are where its outcome puts them, those of the others where they were.
WrittenFor(s, a, outcome) ==
  /\ \A b \in Attempts : b # a => AttemptWritten(s, b)
  /\ s.dirty[a] = {}
  /\ \A i \in 1 .. Statements : <<a, i>> \in s.data <=> outcome = "ok"

OpenBut(s, t, a) == Open(t) = Open(s) \ {a}

\* It also leaves every write where it belongs, if those of the attempt are there.
LEMMA SettleWritten ==
  ASSUME DbAssumption, NEW s \in TransactionState, AttemptsInTurn(s), NEW x \in Actions,
         NEW n \in 1 .. Retries + 1, s.pc[<<x, n>>] \in {"connecting", "open"},
         NEW outcome \in {"ok", "error"}, NEW t, t = SettleAttempt(s, <<x, n>>, outcome),
         WrittenFor(s, <<x, n>>, outcome)
  PROVE  t \in TransactionState /\ SameWrites(s, t) /\ Written(t) /\ OpenBut(s, t, <<x, n>>)
<1>1. PICK pc : pc = [s.pc EXCEPT ![<<x, n>>] = outcome]
  OBVIOUS
<1>2. t \in TransactionState /\ SameWrites(s, t) /\ SettledAs(s, t, x, n, outcome, pc)
  BY <1>1, SettleCases
<1>3. PICK a \in Attempts : a = <<x, n>>
  BY DEF Attempts
<1>4. s.pc \in [Attempts -> AttemptStates]
  BY TransactionParts
<1>5. pc \in [Attempts -> AttemptStates] /\ pc[a] = outcome /\ \A b \in Attempts : b # a => pc[b] = s.pc[b]
  BY <1>1, <1>3, <1>4 DEF AttemptStates
<1>6. /\ t.pc[a] = outcome
      /\ \A b \in Attempts : b # a =>
           t.pc[b] = s.pc[b] \/ (s.pc[b] = "none" /\ t.pc[b] = "connecting")
  <2>1. CASE t.pc = pc
    BY <1>5, <2>1
  <2>2. CASE t.pc # pc
    <3>1. /\ s.attempt[x] = n /\ n + 1 \in 1 .. Retries + 1 /\ <<x, n + 1>> \in Attempts
          /\ t.pc = [pc EXCEPT ![<<x, n + 1>>] = "connecting"]
      BY <1>2, <2>2 DEF SettledAs
    <3>2. InTurn(s, x) /\ n + 1 > n
      BY DEF AttemptsInTurn, DbAssumption
    <3>3. s.pc[<<x, n + 1>>] = "none"
      BY <3>1, <3>2 DEF InTurn
    <3>4. n + 1 # n
      BY DEF DbAssumption
    <3>5. PICK c \in Attempts : c = <<x, n + 1>>
      BY <3>1
    <3>6. c # a /\ s.pc[c] = "none" /\ t.pc = [pc EXCEPT ![c] = "connecting"]
      BY <1>3, <3>1, <3>3, <3>4, <3>5
    <3> QED
      BY <1>5, <3>6
  <2> QED
    BY <2>1, <2>2
<1>7. ASSUME NEW b \in Attempts PROVE AttemptWritten(t, b)
  <2>1. CASE b = a
    BY <1>2, <1>3, <1>6, <2>1 DEF WrittenFor, AttemptWritten, SameWrites
  <2>2. CASE b # a
    <3>1. AttemptWritten(s, b)
      BY <1>3, <2>2 DEF WrittenFor
    <3> QED
      BY <1>2, <1>6, <2>2, <3>1 DEF AttemptWritten, SameWrites
  <2> QED
    BY <2>1, <2>2
<1>8. Open(t) = Open(s) \ {a}
  BY <1>6 DEF Open
<1> QED
  BY <1>2, <1>3, <1>7, <1>8 DEF Written, OpenBut

\* The pool gives a client to an attempt that begins and has it back when that ends.
LEMMA OpenCount ==
  ASSUME DbAssumption, NEW s, NEW a \in Attempts
  PROVE  /\ IsFiniteSet(Open(s)) /\ Cardinality(Open(s)) \in Nat
         /\ a \in Open(s) => /\ Cardinality(Open(s) \ {a}) = Cardinality(Open(s)) - 1
                             /\ Cardinality(Open(s)) > 0
         /\ a \notin Open(s) => /\ Cardinality(Open(s) \cup {a}) = Cardinality(Open(s)) + 1
                                /\ Open(s) \ {a} = Open(s)
<1>1. IsFiniteSet(Open(s))
  BY AttemptsFinite, FS_Subset DEF Open
<1>2. Cardinality(Open(s)) \in Nat
  BY <1>1, FS_CardinalityType
<1>3. ASSUME a \in Open(s)
      PROVE  Cardinality(Open(s) \ {a}) = Cardinality(Open(s)) - 1 /\ Cardinality(Open(s)) > 0
  <2>1. Cardinality(Open(s) \ {a}) = Cardinality(Open(s)) - 1
    BY <1>1, <1>3, FS_RemoveElement
  <2>2. Cardinality(Open(s)) # 0
    BY <1>1, <1>3, FS_EmptySet
  <2> QED
    BY <1>2, <2>1, <2>2
<1>4. ASSUME a \notin Open(s) PROVE Cardinality(Open(s) \cup {a}) = Cardinality(Open(s)) + 1
  BY <1>1, <1>4, FS_AddElement
<1>5. a \notin Open(s) => Open(s) \ {a} = Open(s)
  OBVIOUS
<1> QED
  BY <1>1, <1>2, <1>3, <1>4, <1>5

\* All that settling an attempt needs of the state before it.
ReadyToSettle(s, x, n, outcome) ==
  /\ s \in TransactionState /\ AttemptsInTurn(s) /\ s.pc[<<x, n>>] \in {"connecting", "open"}
  /\ WrittenFor(s, <<x, n>>, outcome)
  /\ s.free + s.lost + Cardinality(Open(s) \ {<<x, n>>}) = PoolSize

LEMMA SettledWhole ==
  ASSUME DbAssumption, NEW x \in Actions, NEW n \in 1 .. Retries + 1, NEW outcome \in {"ok", "error"},
         NEW s, ReadyToSettle(s, x, n, outcome), NEW t, t = SettleAttempt(s, <<x, n>>, outcome)
  PROVE  DriverOK(t)
<1>1. /\ s \in TransactionState /\ AttemptsInTurn(s) /\ s.pc[<<x, n>>] \in {"connecting", "open"}
      /\ WrittenFor(s, <<x, n>>, outcome)
      /\ s.free + s.lost + Cardinality(Open(s) \ {<<x, n>>}) = PoolSize
  BY DEF ReadyToSettle
<1>2. AttemptsInTurn(t)
  BY <1>1, SettleInTurn
<1>3. t \in TransactionState /\ SameWrites(s, t) /\ Written(t) /\ OpenBut(s, t, <<x, n>>)
  BY <1>1, SettleWritten
<1>4. ClientsKept(t)
  BY <1>1, <1>3 DEF ClientsKept, SameWrites, OpenBut
<1> QED
  BY <1>2, <1>3, <1>4 DEF DriverOK

\* An open attempt that ends with its writes in place and its client given back or lost.
LEMMA AttemptEnds ==
  ASSUME DbAssumption, NEW s, DriverOK(s), NEW x \in Actions, NEW n \in 1 .. Retries + 1,
         s.pc[<<x, n>>] = "open", NEW outcome \in {"ok", "error"},
         NEW data, NEW dirty, NEW free, NEW u, NEW t,
         data = (IF outcome = "ok" THEN s.data \cup s.dirty[<<x, n>>] ELSE s.data),
         outcome = "ok" => s.done[<<x, n>>] = Statements,
         dirty = [s.dirty EXCEPT ![<<x, n>>] = {}],
         NEW lost, (free = s.free + 1 /\ lost = s.lost) \/ (free = s.free /\ lost = s.lost + 1),
         u = [s EXCEPT !.data = data, !.dirty = dirty, !.free = free, !.lost = lost],
         t = SettleAttempt(u, <<x, n>>, outcome)
  PROVE  DriverOK(t)
<1>1. s \in TransactionState /\ Written(s) /\ AttemptsInTurn(s) /\ ClientsKept(s)
  BY DEF DriverOK
<1>2. PICK a \in Attempts : a = <<x, n>>
  BY DEF Attempts
<1>3. /\ s.dirty \in [Attempts -> SUBSET Writes] /\ s.data \subseteq Writes
      /\ s.free \in 0 .. PoolSize /\ s.lost \in Nat
  BY <1>1, TransactionParts
<1>4. /\ dirty \in [Attempts -> SUBSET Writes] /\ dirty[a] = {}
      /\ \A b \in Attempts : b # a => dirty[b] = s.dirty[b]
  BY <1>2, <1>3
<1>5. data \subseteq Writes
  BY <1>2, <1>3
<1>6. a \in Open(s) /\ s.free + s.lost + Cardinality(Open(s)) = PoolSize
  BY <1>1, <1>2 DEF Open, ClientsKept
<1>7. /\ Cardinality(Open(s)) \in Nat /\ Cardinality(Open(s)) > 0
      /\ Cardinality(Open(s) \ {a}) = Cardinality(Open(s)) - 1
  BY <1>6, OpenCount
<1>8. free \in 0 .. PoolSize /\ lost \in Nat /\ free + lost + Cardinality(Open(s) \ {a}) = PoolSize
  <2>1. PoolSize \in Nat
    BY DEF DbAssumption
  <2>2. PICK c \in Nat : c = Cardinality(Open(s))
    BY <1>7
  <2>3. PICK d \in Nat : d = Cardinality(Open(s) \ {a})
    BY <1>7, <2>2
  <2>4. s.free + s.lost + c = PoolSize /\ d = c - 1
    BY <1>6, <1>7, <2>2, <2>3
  <2>5. s.free \in Nat /\ s.lost \in Nat
    BY <1>3, <2>1
  <2>6. free \in 0 .. PoolSize /\ lost \in Nat /\ free + lost + d = PoolSize
    BY <2>1, <2>4, <2>5
  <2> QED
    BY <2>3, <2>6
<1>9. /\ u \in TransactionState /\ u.pc = s.pc /\ u.done = s.done /\ u.lost = lost
      /\ u.action = s.action /\ u.attempt = s.attempt /\ u.timedOut = s.timedOut
      /\ u.data = data /\ u.dirty = dirty /\ u.free = free
  BY <1>1, <1>4, <1>5, <1>8 DEF TransactionState
<1>10. AttemptsInTurn(u) /\ Open(u) = Open(s)
  BY <1>1, <1>9 DEF AttemptsInTurn, InTurn, Open
<1>11. s.dirty[a] = {a} \X (1 .. s.done[a]) /\ s.pc[a] = "open" /\ AttemptWritten(s, a)
  BY <1>1, <1>2 DEF Written, AttemptWritten
<1>12. \A b \in Attempts, i \in 1 .. Statements : b # a => (<<b, i>> \in data <=> <<b, i>> \in s.data)
  BY <1>2, <1>11
<1>13. \A b \in Attempts : b # a => AttemptWritten(u, b)
  BY <1>1, <1>2, <1>4, <1>9, <1>12 DEF Written, AttemptWritten
<1>14. \A i \in 1 .. Statements : <<a, i>> \in u.data <=> outcome = "ok"
  <2>1. CASE outcome = "ok"
    <3>1. s.dirty[a] = {a} \X (1 .. Statements) /\ s.dirty[a] \subseteq data
      BY <1>2, <1>11, <2>1
    <3> QED
      BY <1>9, <2>1, <3>1
  <2>2. CASE outcome = "error"
    BY <1>9, <1>11, <2>2 DEF AttemptWritten
  <2> QED
    BY <2>1, <2>2
<1>15. WrittenFor(u, <<x, n>>, outcome)
  BY <1>2, <1>4, <1>9, <1>13, <1>14 DEF WrittenFor
<1>16. ReadyToSettle(u, x, n, outcome)
  BY <1>2, <1>8, <1>9, <1>10, <1>11, <1>15 DEF ReadyToSettle
<1> QED
  BY <1>16, SettledWhole

LEMMA DriverStarts == ASSUME DbAssumption, DTInit PROVE DriverOK(dt)
<1>1. PICK pc, done, dirty, action, attempt :
        /\ pc = [a \in Attempts |-> "none"] /\ done = [a \in Attempts |-> 0]
        /\ dirty = [a \in Attempts |-> {}] /\ action = [x \in Actions |-> "idle"]
        /\ attempt = [x \in Actions |-> 1]
  OBVIOUS
<1>2. /\ pc \in [Attempts -> AttemptStates] /\ done \in [Attempts -> 0 .. Statements]
      /\ dirty \in [Attempts -> SUBSET Writes] /\ action \in [Actions -> {"idle", "running", "ok", "error"}]
      /\ attempt \in [Actions -> 1 .. Retries + 1]
  BY <1>1 DEF AttemptStates, DbAssumption
<1>3. PoolSize \in 0 .. PoolSize
  BY DEF DbAssumption
<1>4. dt = [pc |-> pc, done |-> done, dirty |-> dirty, data |-> {}, free |-> PoolSize, lost |-> 0,
            action |-> action, attempt |-> attempt, timedOut |-> {}]
  BY <1>1 DEF DTInit
<1>5. /\ dt \in TransactionState /\ dt.pc = pc /\ dt.done = done /\ dt.dirty = dirty /\ dt.data = {}
      /\ dt.free = PoolSize /\ dt.lost = 0 /\ dt.action = action /\ dt.attempt = attempt
      /\ dt.timedOut = {}
  BY <1>2, <1>3, <1>4 DEF TransactionState
<1>6. Written(dt)
  BY <1>1, <1>5 DEF Written, AttemptWritten
<1>7. AttemptsInTurn(dt)
  <2>1. \A x \in Actions, n \in 1 .. Retries + 1 : pc[<<x, n>>] = "none"
    BY <1>1 DEF Attempts
  <2>2. 1 \in 1 .. Retries + 1
    BY DEF DbAssumption
  <2> QED
    BY <1>1, <1>5, <2>1, <2>2 DEF AttemptsInTurn, InTurn
<1>8. Open(dt) = {}
  BY <1>1, <1>5 DEF Open
<1>9. ClientsKept(dt)
  BY <1>5, <1>8, FS_EmptySet DEF ClientsKept, DbAssumption
<1> QED
  BY <1>5, <1>6, <1>7, <1>9 DEF DriverOK

\* An attempt that now connects, and had not been made.
LEMMA AttemptMade ==
  ASSUME NEW s \in TransactionState, Written(s), ClientsKept(s), NEW c \in Attempts, s.pc[c] = "none",
         NEW t \in TransactionState, t.pc = [s.pc EXCEPT ![c] = "connecting"],
         t.done = s.done, t.dirty = s.dirty, t.data = s.data, t.free = s.free, t.lost = s.lost
  PROVE  Written(t) /\ ClientsKept(t)
<1>1. t.pc[c] = "connecting" /\ \A a \in Attempts : a # c => t.pc[a] = s.pc[a]
  BY TransactionParts
<1>2. ASSUME NEW a \in Attempts PROVE AttemptWritten(t, a)
  BY <1>1 DEF Written, AttemptWritten
<1>3. Open(t) = Open(s)
  BY <1>1 DEF Open
<1> QED
  BY <1>2, <1>3 DEF Written, ClientsKept

LEMMA ActionCalled ==
  ASSUME DbAssumption, DriverOK(dt), NEW x \in Actions, CallAction(x) PROVE DriverOK(dt')
<1>1. dt \in TransactionState /\ Written(dt) /\ AttemptsInTurn(dt) /\ ClientsKept(dt)
  BY DEF DriverOK
<1>2. PICK c \in Attempts : c = <<x, 1>>
  <2>1. 1 \in 1 .. Retries + 1
    BY DEF DbAssumption
  <2> QED
    BY <2>1 DEF Attempts
<1>3. PICK pc, action : /\ pc = [dt.pc EXCEPT ![c] = "connecting"]
                        /\ action = [dt.action EXCEPT ![x] = "running"]
  OBVIOUS
<1>4. /\ dt.pc \in [Attempts -> AttemptStates] /\ dt.attempt \in [Actions -> 1 .. Retries + 1]
      /\ dt.action \in [Actions -> {"idle", "running", "ok", "error"}]
  BY <1>1, TransactionParts
<1>5. /\ pc \in [Attempts -> AttemptStates]
      /\ action \in [Actions -> {"idle", "running", "ok", "error"}]
  BY <1>3, <1>4 DEF AttemptStates
<1>6. dt' = [dt EXCEPT !.action = action, !.pc = pc]
  BY <1>1, <1>2, <1>3 DEF CallAction, TransactionState
<1>7. /\ dt' \in TransactionState /\ dt'.pc = pc /\ dt'.action = action /\ dt'.attempt = dt.attempt
      /\ dt'.timedOut = dt.timedOut /\ dt'.done = dt.done /\ dt'.dirty = dt.dirty
      /\ dt'.data = dt.data /\ dt'.free = dt.free /\ dt'.lost = dt.lost
  BY <1>1, <1>5, <1>6 DEF TransactionState
<1>8. InTurn(dt, x) /\ dt.action[x] = "idle" /\ dt.attempt[x] = 1 /\ dt.pc[c] = "none"
  BY <1>1, <1>2 DEF CallAction, AttemptsInTurn, InTurn
<1>9. Written(dt') /\ ClientsKept(dt')
  BY <1>1, <1>3, <1>7, <1>8, AttemptMade
<1>10. /\ pc[<<x, 1>>] = "connecting" /\ action[x] = "running"
       /\ \A y \in Actions, m \in 1 .. Retries + 1 : <<y, m>> # <<x, 1>> => pc[<<y, m>>] = dt.pc[<<y, m>>]
       /\ \A y \in Actions : y # x => action[y] = dt.action[y]
  BY <1>2, <1>3, <1>4 DEF Attempts
<1>11. \A m \in 1 .. Retries + 1 : ~(m < 1) /\ (m > 1 => m # 1)
  BY DEF DbAssumption
<1>12. InTurn(dt', x)
  BY <1>7, <1>8, <1>10, <1>11 DEF InTurn
<1>13. ASSUME NEW y \in Actions, y # x PROVE InTurn(dt', y)
  <2>1. \A m \in 1 .. Retries + 1 : pc[<<y, m>>] = dt.pc[<<y, m>>]
    BY <1>10, <1>13
  <2>2. InTurn(dt, y) /\ dt.attempt[y] \in 1 .. Retries + 1 /\ 1 \in 1 .. Retries + 1
    BY <1>1, <1>4 DEF AttemptsInTurn, DbAssumption
  <2> QED
    BY <1>7, <1>10, <1>13, <2>1, <2>2 DEF InTurn
<1> QED
  BY <1>7, <1>9, <1>12, <1>13 DEF DriverOK, AttemptsInTurn

\* A client that begins goes from the pool to its attempt.
LEMMA AttemptOpened ==
  ASSUME DbAssumption, DriverKind = "postgres", DriverOK(dt), NEW a \in Attempts, BeginTransaction(a)
  PROVE  DriverOK(dt')
<1>1. dt \in TransactionState /\ Written(dt) /\ AttemptsInTurn(dt) /\ ClientsKept(dt)
  BY DEF DriverOK
<1>2. /\ dt.pc \in [Attempts -> AttemptStates] /\ dt.free \in 0 .. PoolSize /\ dt.lost \in Nat
      /\ dt.attempt \in [Actions -> 1 .. Retries + 1]
  BY <1>1, TransactionParts
<1>3. PICK pc, free : pc = [dt.pc EXCEPT ![a] = "open"] /\ free = dt.free - 1
  OBVIOUS
<1>4. /\ dt.pc[a] = "connecting" /\ dt.free > 0
      /\ dt' = [dt EXCEPT !.free = free, !.pc = pc]
  BY <1>1, <1>3 DEF BeginTransaction, TransactionState
<1>5. pc \in [Attempts -> AttemptStates] /\ free \in 0 .. PoolSize
  BY <1>2, <1>3, <1>4 DEF AttemptStates, DbAssumption
<1>6. /\ dt' \in TransactionState /\ dt'.pc = pc /\ dt'.action = dt.action /\ dt'.attempt = dt.attempt
      /\ dt'.timedOut = dt.timedOut /\ dt'.done = dt.done /\ dt'.dirty = dt.dirty
      /\ dt'.data = dt.data /\ dt'.free = free /\ dt'.lost = dt.lost
  BY <1>1, <1>4, <1>5 DEF TransactionState
<1>7. pc[a] = "open" /\ \A b \in Attempts : b # a => pc[b] = dt.pc[b]
  BY <1>2, <1>3
<1>8. AttemptWritten(dt', a)
  <2>1. dt.done[a] = 0 /\ dt.dirty[a] = {} /\ AttemptWritten(dt, a)
    BY <1>1, <1>4 DEF Written, AttemptWritten
  <2>2. {a} \X (1 .. 0) = {}
    OBVIOUS
  <2> QED
    BY <1>4, <1>6, <1>7, <2>1, <2>2 DEF AttemptWritten
<1>9. \A b \in Attempts : b # a => AttemptWritten(dt', b)
  BY <1>1, <1>6, <1>7 DEF Written, AttemptWritten
<1>10. ClientsKept(dt')
  <2>1. a \notin Open(dt) /\ Open(dt') = Open(dt) \cup {a}
    BY <1>4, <1>6, <1>7 DEF Open
  <2>2. Cardinality(Open(dt)) \in Nat /\ Cardinality(Open(dt')) = Cardinality(Open(dt)) + 1
    BY <2>1, OpenCount
  <2>3. PICK c \in Nat, d \in Nat : c = Cardinality(Open(dt)) /\ d = Cardinality(Open(dt'))
    BY <2>2
  <2>4. dt.free + dt.lost + c = PoolSize /\ d = c + 1
    BY <1>1, <2>2, <2>3 DEF ClientsKept
  <2>5. PoolSize \in Nat
    BY DEF DbAssumption
  <2>6. free + dt.lost + d = PoolSize
    BY <1>2, <1>3, <2>4, <2>5
  <2> QED
    BY <1>6, <2>3, <2>6 DEF ClientsKept
<1>11. PICK x \in Actions, n \in 1 .. Retries + 1 : a = <<x, n>>
  BY AttemptIs
<1>12. /\ dt.action[x] # "idle" /\ n <= dt.attempt[x]
       /\ <<x, n>> \notin dt.timedOut => dt.action[x] = "running" /\ dt.attempt[x] = n
  BY <1>1, <1>4, <1>11, UnderWay
<1>13. ASSUME NEW y \in Actions PROVE InTurn(dt', y)
  <2>1. InTurn(dt, y) /\ dt.attempt[y] \in 1 .. Retries + 1 /\ 1 \in 1 .. Retries + 1
    BY <1>1, <1>2 DEF AttemptsInTurn, DbAssumption
  <2>2. \A m \in 1 .. Retries + 1 : <<y, m>> \in Attempts
    BY DEF Attempts
  <2>3. CASE y # x
    <3>1. \A m \in 1 .. Retries + 1 : pc[<<y, m>>] = dt.pc[<<y, m>>]
      BY <1>7, <1>11, <2>2, <2>3
    <3> QED
      BY <1>6, <2>1, <3>1 DEF InTurn
  <2>4. CASE y = x
    <3>1. pc[<<x, n>>] = "open" /\ \A m \in 1 .. Retries + 1 : m # n => pc[<<x, m>>] = dt.pc[<<x, m>>]
      BY <1>7, <1>11, <2>2, <2>4
    <3>2. \A m \in 1 .. Retries + 1 : (m > dt.attempt[x] => m # n) /\ (m < n => m # n)
      BY <1>12, <2>1, <2>4 DEF DbAssumption
    <3> QED
      BY <1>6, <1>12, <2>1, <2>4, <3>1, <3>2 DEF InTurn
  <2> QED
    BY <2>3, <2>4
<1> QED
  BY <1>6, <1>8, <1>9, <1>10, <1>13 DEF DriverOK, Written, AttemptsInTurn

\* BEGIN that fails costs the pool a client, and the attempt.
LEMMA AttemptRefused ==
  ASSUME DbAssumption, DriverOK(dt), NEW a \in Attempts, BeginFails(a)
  PROVE  DriverOK(dt')
<1>1. dt \in TransactionState /\ Written(dt) /\ AttemptsInTurn(dt) /\ ClientsKept(dt)
  BY DEF DriverOK
<1>2. PICK x \in Actions, n \in 1 .. Retries + 1 : a = <<x, n>>
  BY AttemptIs
<1>3. PICK free, lost, u : /\ free = dt.free - 1 /\ lost = dt.lost + 1
                           /\ u = [dt EXCEPT !.free = free, !.lost = lost]
  OBVIOUS
<1>4. dt.free \in 0 .. PoolSize /\ dt.lost \in Nat /\ dt.free > 0 /\ dt.pc[a] = "connecting"
  BY <1>1, TransactionParts DEF BeginFails
<1>5. free \in 0 .. PoolSize /\ lost \in Nat
  BY <1>3, <1>4 DEF DbAssumption
<1>6. /\ u \in TransactionState /\ u.pc = dt.pc /\ u.done = dt.done /\ u.dirty = dt.dirty
      /\ u.data = dt.data /\ u.action = dt.action /\ u.attempt = dt.attempt
      /\ u.timedOut = dt.timedOut /\ u.free = free /\ u.lost = lost
  BY <1>1, <1>3, <1>5 DEF TransactionState
<1>7. AttemptsInTurn(u) /\ Open(u) = Open(dt)
  BY <1>1, <1>6 DEF AttemptsInTurn, InTurn, Open
<1>8. a \notin Open(dt) /\ Open(dt) \ {a} = Open(dt) /\ Cardinality(Open(dt)) \in Nat
  BY <1>4, OpenCount DEF Open
<1>9. u.free + u.lost + Cardinality(Open(u) \ {<<x, n>>}) = PoolSize
  <2>0. PoolSize \in Nat
    BY DEF DbAssumption
  <2>1. free + lost = dt.free + dt.lost
    BY <1>3, <1>4, <2>0
  <2>2. Open(u) \ {<<x, n>>} = Open(dt)
    BY <1>2, <1>7, <1>8
  <2> QED
    BY <1>1, <1>6, <2>1, <2>2 DEF ClientsKept
<1>10. WrittenFor(u, a, "error")
  BY <1>1, <1>4, <1>6 DEF WrittenFor, Written, AttemptWritten
<1>11. PICK outcome \in {"ok", "error"} : outcome = "error"
  OBVIOUS
<1>12. ReadyToSettle(u, x, n, outcome)
  BY <1>2, <1>4, <1>6, <1>7, <1>9, <1>10, <1>11 DEF ReadyToSettle
<1>13. dt' = SettleAttempt(u, <<x, n>>, outcome)
  BY <1>2, <1>3, <1>11 DEF BeginFails
<1> QED
  BY <1>12, <1>13, SettledWhole

LEMMA AttemptCommits ==
  ASSUME DbAssumption, DriverKind = "postgres", DriverOK(dt), NEW a \in Attempts, Commit(a)
  PROVE  DriverOK(dt')
<1>1. dt \in TransactionState
  BY DEF DriverOK
<1>2. PICK x \in Actions, n \in 1 .. Retries + 1 : a = <<x, n>>
  BY AttemptIs
<1>3. PICK data, dirty, free, u :
        /\ data = dt.data \cup dt.dirty[a] /\ dirty = [dt.dirty EXCEPT ![a] = {}]
        /\ free = dt.free + 1
        /\ u = [dt EXCEPT !.data = data, !.dirty = dirty, !.free = free, !.lost = dt.lost]
  OBVIOUS
<1>4. u = Release(FlushWrites(dt, a))
  BY <1>1, <1>3 DEF Release, FlushWrites, Conn, TransactionState
<1>5. PICK outcome \in {"ok", "error"} : outcome = "ok"
  OBVIOUS
<1>6. dt.pc[<<x, n>>] = "open" /\ dt.done[<<x, n>>] = Statements
      /\ dt' = SettleAttempt(u, <<x, n>>, outcome)
  BY <1>2, <1>4, <1>5 DEF Commit
<1>7. /\ data = (IF outcome = "ok" THEN dt.data \cup dt.dirty[<<x, n>>] ELSE dt.data)
      /\ dirty = [dt.dirty EXCEPT ![<<x, n>>] = {}]
  BY <1>2, <1>3, <1>5
<1> QED
  BY <1>3, <1>6, <1>7, AttemptEnds

\* ROLLBACK that fails costs the pool a client too.
LEMMA AttemptRollsBack ==
  ASSUME DbAssumption, DriverKind = "postgres", DriverOK(dt), NEW a \in Attempts, Rollback(a)
  PROVE  DriverOK(dt')
<1>1. dt \in TransactionState
  BY DEF DriverOK
<1>2. PICK x \in Actions, n \in 1 .. Retries + 1 : a = <<x, n>>
  BY AttemptIs
<1>3. PICK u : u \in RolledBack(a) /\ dt' = SettleAttempt(u, a, "error")
  BY DEF Rollback
<1>4. PICK data, dirty, free, lost :
        /\ data = dt.data /\ dirty = [dt.dirty EXCEPT ![a] = {}]
        /\ (free = dt.free + 1 /\ lost = dt.lost) \/ (free = dt.free /\ lost = dt.lost + 1)
        /\ u = [dt EXCEPT !.data = data, !.dirty = dirty, !.free = free, !.lost = lost]
  <2>1. PICK dropped : dropped = [dt EXCEPT !.dirty[Conn(a)] = {}]
    OBVIOUS
  <2>2. u = Release(dropped) \/ u = [dropped EXCEPT !.lost = @ + 1]
    BY <1>3, <2>1 DEF RolledBack
  <2>3. PICK dirty : dirty = [dt.dirty EXCEPT ![a] = {}]
    OBVIOUS
  <2>4. dropped = [dt EXCEPT !.dirty = dirty]
    BY <1>1, <2>1, <2>3 DEF Conn, TransactionState
  <2>5. CASE u = Release(dropped)
    <3>1. u = [dt EXCEPT !.data = dt.data, !.dirty = dirty, !.free = dt.free + 1, !.lost = dt.lost]
      BY <1>1, <2>4, <2>5 DEF Release, TransactionState
    <3> QED
      BY <2>3, <3>1
  <2>6. CASE u = [dropped EXCEPT !.lost = @ + 1]
    <3>1. u = [dt EXCEPT !.data = dt.data, !.dirty = dirty, !.free = dt.free, !.lost = dt.lost + 1]
      BY <1>1, <2>4, <2>6 DEF TransactionState
    <3> QED
      BY <2>3, <3>1
  <2> QED
    BY <2>2, <2>5, <2>6
<1>5. PICK outcome \in {"ok", "error"} : outcome = "error"
  OBVIOUS
<1>6. dt.pc[<<x, n>>] = "open" /\ dt' = SettleAttempt(u, <<x, n>>, outcome)
  BY <1>2, <1>3, <1>5 DEF Rollback
<1>7. /\ data = (IF outcome = "ok" THEN dt.data \cup dt.dirty[<<x, n>>] ELSE dt.data)
      /\ dirty = [dt.dirty EXCEPT ![<<x, n>>] = {}]
      /\ outcome = "ok" => dt.done[<<x, n>>] = Statements
  BY <1>2, <1>4, <1>5
<1> QED
  BY <1>4, <1>6, <1>7, AttemptEnds

\* A statement adds its write to those its attempt holds.
LEMMA StatementRuns ==
  ASSUME DbAssumption, DriverKind = "postgres", DriverOK(dt), NEW a \in Attempts, Statement(a)
  PROVE  DriverOK(dt')
<1>1. dt \in TransactionState /\ Written(dt) /\ AttemptsInTurn(dt) /\ ClientsKept(dt)
  BY DEF DriverOK
<1>2. /\ dt.done \in [Attempts -> 0 .. Statements] /\ dt.dirty \in [Attempts -> SUBSET Writes]
      /\ dt.pc[a] = "open" /\ dt.done[a] < Statements
  BY <1>1, TransactionParts DEF Statement
<1>3. PICK i, done, dirty : /\ i = dt.done[a] + 1 /\ done = [dt.done EXCEPT ![a] = i]
                            /\ dirty = [dt.dirty EXCEPT ![a] = @ \cup {<<a, i>>}]
  OBVIOUS
<1>4. i \in 1 .. Statements /\ i \in 0 .. Statements /\ 1 .. i = (1 .. dt.done[a]) \cup {i}
  BY <1>2, <1>3 DEF DbAssumption
<1>5. /\ done \in [Attempts -> 0 .. Statements] /\ done[a] = i
      /\ dirty \in [Attempts -> SUBSET Writes] /\ dirty[a] = dt.dirty[a] \cup {<<a, i>>}
      /\ \A b \in Attempts : b # a => done[b] = dt.done[b] /\ dirty[b] = dt.dirty[b]
  BY <1>2, <1>3, <1>4 DEF Writes
<1>6. dt' = [dt EXCEPT !.done = done, !.dirty = dirty]
  BY <1>1, <1>3 DEF Statement, Conn, TransactionState
<1>7. /\ dt' \in TransactionState /\ dt'.done = done /\ dt'.dirty = dirty /\ dt'.pc = dt.pc
      /\ dt'.data = dt.data /\ dt'.free = dt.free /\ dt'.lost = dt.lost
      /\ dt'.action = dt.action /\ dt'.attempt = dt.attempt /\ dt'.timedOut = dt.timedOut
  BY <1>1, <1>5, <1>6 DEF TransactionState
<1>8. AttemptWritten(dt', a)
  <2>1. dt.dirty[a] = {a} \X (1 .. dt.done[a]) /\ AttemptWritten(dt, a)
    BY <1>1, <1>2 DEF Written, AttemptWritten
  <2>2. dirty[a] = {a} \X (1 .. i)
    BY <1>4, <1>5, <2>1
  <2> QED
    BY <1>2, <1>5, <1>7, <2>1, <2>2 DEF AttemptWritten
<1>9. \A b \in Attempts : b # a => AttemptWritten(dt', b)
  BY <1>1, <1>5, <1>7 DEF Written, AttemptWritten
<1>10. AttemptsInTurn(dt') /\ ClientsKept(dt')
  BY <1>1, <1>7 DEF AttemptsInTurn, InTurn, ClientsKept, Open
<1> QED
  BY <1>7, <1>8, <1>9, <1>10 DEF DriverOK, Written

\* A timeout moves on from an attempt that goes on by itself.
LEMMA TimedOut ==
  ASSUME DbAssumption, DriverOK(dt), NEW x \in Actions, TimeoutFires(x)
  PROVE  DriverOK(dt')
<1>1. dt \in TransactionState /\ Written(dt) /\ AttemptsInTurn(dt) /\ ClientsKept(dt)
  BY DEF DriverOK
<1>2. /\ dt.pc \in [Attempts -> AttemptStates] /\ dt.attempt \in [Actions -> 1 .. Retries + 1]
      /\ dt.action \in [Actions -> {"idle", "running", "ok", "error"}]
      /\ dt.timedOut \subseteq Attempts
  BY <1>1, TransactionParts
<1>3. PICK timedOut, u : /\ timedOut = dt.timedOut \cup {<<x, dt.attempt[x]>>}
                         /\ u = [dt EXCEPT !.timedOut = timedOut]
  OBVIOUS
<1>4. /\ timedOut \subseteq Attempts /\ <<x, dt.attempt[x]>> \in timedOut
      /\ dt.timedOut \subseteq timedOut
      /\ \A y \in Actions, m \in 1 .. Retries + 1 :
           y # x \/ m # dt.attempt[x] => (<<y, m>> \in timedOut <=> <<y, m>> \in dt.timedOut)
  BY <1>2, <1>3 DEF Attempts
<1>5. /\ u \in TransactionState /\ u.done = dt.done /\ u.dirty = dt.dirty /\ u.pc = dt.pc
      /\ u.data = dt.data /\ u.free = dt.free /\ u.lost = dt.lost
      /\ u.action = dt.action /\ u.attempt = dt.attempt /\ u.timedOut = timedOut
  BY <1>1, <1>3, <1>4 DEF TransactionState
<1>6. PICK n \in 1 .. Retries + 1 : n = u.attempt[x]
  BY <1>2, <1>5
<1>7. dt' = AttemptFailed(u, x) /\ dt.action[x] = "running"
  BY <1>3 DEF TimeoutFires
<1>8. PICK t : t = dt'
  OBVIOUS
<1>9. t \in TransactionState /\ SameWrites(u, t) /\ NextAttempt(u, t, x, n)
  BY <1>5, <1>6, <1>7, <1>8, RetryOrError
<1>10. InTurn(dt, x) /\ n = dt.attempt[x] /\ t.timedOut = timedOut
  BY <1>1, <1>5, <1>6, <1>9 DEF AttemptsInTurn, SameWrites
<1>11. \A y \in Actions, m \in 1 .. Retries + 1 : <<y, m>> \in Attempts
  BY DEF Attempts
<1>12. CASE t.pc = u.pc /\ t.attempt = u.attempt /\ t.action = [u.action EXCEPT ![x] = "error"]
  <2>1. Written(t) /\ ClientsKept(t)
    BY <1>1, <1>5, <1>9, <1>12 DEF Written, AttemptWritten, ClientsKept, Open, SameWrites
  <2>2. t.action[x] = "error" /\ \A y \in Actions : y # x => t.action[y] = dt.action[y]
    BY <1>2, <1>5, <1>12
  <2>3. ASSUME NEW y \in Actions, y # x PROVE InTurn(t, y)
    <3>1. InTurn(dt, y) /\ dt.attempt[y] \in 1 .. Retries + 1 /\ 1 \in 1 .. Retries + 1
      BY <1>1, <1>2 DEF AttemptsInTurn, DbAssumption
    <3> QED
      BY <1>4, <1>5, <1>10, <1>12, <2>2, <2>3, <3>1 DEF InTurn
  <2>4. InTurn(t, x)
    <3>1. \A m \in 1 .. Retries + 1 : m > n => m # n
      BY DEF DbAssumption
    <3> QED
      BY <1>4, <1>5, <1>7, <1>10, <1>12, <2>2, <3>1 DEF InTurn
  <2> QED
    BY <1>8, <1>9, <2>1, <2>3, <2>4 DEF DriverOK, AttemptsInTurn
<1>13. CASE /\ n + 1 \in 1 .. Retries + 1 /\ <<x, n + 1>> \in Attempts
            /\ t.pc = [u.pc EXCEPT ![<<x, n + 1>>] = "connecting"]
            /\ t.attempt = [u.attempt EXCEPT ![x] = n + 1] /\ t.action = u.action
  <2>1. PICK c \in Attempts : c = <<x, n + 1>>
    BY <1>13
  <2>2. n + 1 > n /\ \A m \in 1 .. Retries + 1 : m > n + 1 => m > n /\ m # n + 1
    BY DEF DbAssumption
  <2>3. dt.pc[c] = "none" /\ t.pc = [dt.pc EXCEPT ![c] = "connecting"]
    BY <1>5, <1>10, <1>13, <2>1, <2>2 DEF InTurn
  <2>4. Written(t) /\ ClientsKept(t)
    BY <1>1, <1>5, <1>9, <2>3, AttemptMade DEF SameWrites
  <2>5. \A b \in Attempts : b # c => t.pc[b] = dt.pc[b]
    BY <1>2, <2>3
  <2>6. t.attempt[x] = n + 1 /\ \A y \in Actions : y # x => t.attempt[y] = dt.attempt[y]
    BY <1>2, <1>5, <1>13
  <2>7. InTurn(t, x)
    <3>1. \A m \in 1 .. Retries + 1 : m > n + 1 => t.pc[<<x, m>>] = "none" /\ <<x, m>> \notin timedOut
      BY <1>4, <1>10, <1>11, <2>1, <2>2, <2>5 DEF InTurn
    <3>2. <<x, n + 1>> \notin timedOut /\ t.pc[<<x, n + 1>>] = "connecting"
      <4>1. n + 1 \in 1 .. Retries + 1 /\ n + 1 > n /\ n + 1 # n
        BY <1>13 DEF DbAssumption
      <4>2. <<x, n + 1>> \notin timedOut
        BY <1>4, <1>10, <4>1 DEF InTurn
      <4> QED
        BY <1>2, <2>1, <2>3, <4>2
    <3>3. \A m \in 1 .. Retries + 1 : m < n + 1 => m = n \/ (m < n /\ m # n + 1)
      BY DEF DbAssumption
    <3>4. \A m \in 1 .. Retries + 1 : m < n + 1 => t.pc[<<x, m>>] = "error" \/ <<x, m>> \in timedOut
      BY <1>4, <1>7, <1>10, <1>11, <2>1, <2>5, <3>3 DEF InTurn
    <3> QED
      BY <1>5, <1>7, <1>10, <1>13, <2>6, <3>1, <3>2, <3>4 DEF InTurn
  <2>8. ASSUME NEW y \in Actions, y # x PROVE InTurn(t, y)
    <3>1. \A m \in 1 .. Retries + 1 : t.pc[<<y, m>>] = dt.pc[<<y, m>>]
      BY <1>11, <2>1, <2>5, <2>8
    <3>2. InTurn(dt, y) /\ dt.attempt[y] \in 1 .. Retries + 1 /\ 1 \in 1 .. Retries + 1
      BY <1>1, <1>2 DEF AttemptsInTurn, DbAssumption
    <3> QED
      BY <1>4, <1>5, <1>10, <1>13, <2>6, <2>8, <3>1, <3>2 DEF InTurn
  <2> QED
    BY <1>8, <1>9, <2>4, <2>7, <2>8 DEF DriverOK, AttemptsInTurn
<1> QED
  BY <1>9, <1>12, <1>13 DEF NextAttempt

LEMMA DriverStep ==
  ASSUME DbAssumption, DriverKind = "postgres", DriverOK(dt), [DTNext]_dt PROVE DriverOK(dt')
<1>1. CASE UNCHANGED dt
  BY <1>1
<1> QED
  BY <1>1, ActionCalled, TimedOut, AttemptOpened, AttemptRefused, StatementRuns, AttemptCommits,
     AttemptRollsBack DEF DTNext

LEMMA DriverFromInv ==
  ASSUME DbAssumption, DriverOK(dt) PROVE ActionAtomic /\ PoolKept
<1>1. dt \in TransactionState /\ Written(dt) /\ AttemptsInTurn(dt) /\ ClientsKept(dt)
  BY DEF DriverOK
<1>2. ASSUME NEW a \in Attempts, dt.pc[a] \in {"ok", "error"}
      PROVE  {i \in 1 .. Statements : <<a, i>> \in dt.data}
               = IF dt.pc[a] = "ok" THEN 1 .. Statements ELSE {}
  BY <1>1, <1>2 DEF Written, AttemptWritten
<1>3. ASSUME NEW x \in Actions, dt.action[x] \in {"ok", "error"}
      PROVE  Cardinality({a \in Attempts \ dt.timedOut : a[1] = x /\ dt.pc[a] = "ok"})
               = IF dt.action[x] = "ok" THEN 1 ELSE 0
  <2>1. PICK n \in 1 .. Retries + 1 : n = dt.attempt[x]
    BY <1>1, TransactionParts
  <2>2. /\ dt.action[x] = "ok" => dt.pc[<<x, n>>] = "ok" /\ <<x, n>> \notin dt.timedOut
        /\ dt.action[x] = "error" => dt.pc[<<x, n>>] # "ok" \/ <<x, n>> \in dt.timedOut
        /\ \A m \in 1 .. Retries + 1 : m < n \/ m > n =>
             dt.pc[<<x, m>>] # "ok" \/ <<x, m>> \in dt.timedOut
    BY <1>1, <1>3, <2>1 DEF AttemptsInTurn, InTurn
  <2>3. \A m \in 1 .. Retries + 1 : m < n \/ m > n \/ m = n
    BY DEF DbAssumption
  <2>4. \A a \in Attempts \ dt.timedOut :
          a[1] = x /\ dt.pc[a] = "ok" => a = <<x, n>> /\ dt.action[x] = "ok"
    BY <1>3, <2>2, <2>3, AttemptIs
  <2>5. <<x, n>> \in Attempts
    BY DEF Attempts
  <2>6. {a \in Attempts \ dt.timedOut : a[1] = x /\ dt.pc[a] = "ok"}
          = IF dt.action[x] = "ok" THEN {<<x, n>>} ELSE {}
    BY <1>3, <2>2, <2>4, <2>5
  <2> QED
    BY <2>6, FS_EmptySet, FS_Singleton
<1>4. PoolKept
  BY <1>1 DEF PoolKept, ClientsKept, Open
<1> QED
  BY <1>2, <1>3, <1>4 DEF ActionAtomic

\* With the postgres driver, for any number of actions, retries, statements and clients:
\* the writes of an attempt are kept together or not at all; but for attempts that timed out
\* an action is applied exactly as often as it says; and a client that is neither free nor in
\* a transaction is one whose BEGIN or ROLLBACK failed.
THEOREM PostgresWhole ==
  ASSUME DbAssumption, DriverKind = "postgres"
  PROVE  DTInit /\ [][DTNext]_dt => [](ActionAtomic /\ PoolKept)
<1>1. DTInit => DriverOK(dt)
  BY DriverStarts
<1>2. DriverOK(dt) /\ [DTNext]_dt => DriverOK(dt)'
  BY DriverStep
<1>3. DriverOK(dt) => ActionAtomic /\ PoolKept
  BY DriverFromInv
<1> QED
  BY <1>1, <1>2, <1>3, PTL

-----------------------------------------------------------------------------
(* Db: the other drivers keep their shape *)

SimpleOK(s) == s \in TransactionState /\ s.free = PoolSize

\* What a step of an attempt leaves for the next step to change.
LEMMA WritesFlushed ==
  ASSUME NEW s, SimpleOK(s), NEW a \in Attempts
  PROVE  SimpleOK(FlushWrites(s, a)) /\ FlushWrites(s, a).pc = s.pc
<1>1. s \in TransactionState /\ s.dirty \in [Attempts -> SUBSET Writes] /\ s.data \subseteq Writes
  BY TransactionParts DEF SimpleOK
<1>2. PICK c \in Attempts : c = Conn(a)
  BY DEF Conn
<1>3. PICK data, dirty : data = s.data \cup s.dirty[c] /\ dirty = [s.dirty EXCEPT ![c] = {}]
  OBVIOUS
<1>4. data \subseteq Writes /\ dirty \in [Attempts -> SUBSET Writes]
  BY <1>1, <1>3
<1>5. FlushWrites(s, a) = [s EXCEPT !.data = data, !.dirty = dirty]
  BY <1>1, <1>2, <1>3 DEF FlushWrites, TransactionState
<1> QED
  BY <1>1, <1>4, <1>5 DEF SimpleOK, TransactionState

LEMMA StatusSet ==
  ASSUME NEW s, SimpleOK(s), NEW a \in Attempts, NEW status \in AttemptStates
  PROVE  SimpleOK([s EXCEPT !.pc[a] = status])
<1>1. s \in TransactionState /\ s.pc \in [Attempts -> AttemptStates] /\ s.free = PoolSize
  BY TransactionParts DEF SimpleOK
<1>2. PICK pc : pc = [s.pc EXCEPT ![a] = status]
  OBVIOUS
<1>3. pc \in [Attempts -> AttemptStates]
  BY <1>1, <1>2
<1>4. [s EXCEPT !.pc[a] = status] = [s EXCEPT !.pc = pc]
  BY <1>1, <1>2 DEF TransactionState
<1> QED
  BY <1>1, <1>3, <1>4 DEF SimpleOK, TransactionState

LEMMA SettledSimply ==
  ASSUME DbAssumption, NEW s, SimpleOK(s), NEW a \in Attempts, NEW outcome \in {"ok", "error"},
         NEW t, t = SettleAttempt(s, a, outcome)
  PROVE  SimpleOK(t)
<1>1. PICK x \in Actions, n \in 1 .. Retries + 1 : a = <<x, n>>
  BY AttemptIs
<1>2. PICK pc : pc = [s.pc EXCEPT ![<<x, n>>] = outcome]
  OBVIOUS
<1>3. s \in TransactionState /\ s.free = PoolSize /\ t = SettleAttempt(s, <<x, n>>, outcome)
  BY <1>1 DEF SimpleOK
<1>4. t \in TransactionState /\ SameWrites(s, t)
  BY <1>2, <1>3, SettleCases
<1> QED
  BY <1>3, <1>4 DEF SimpleOK, SameWrites

LEMMA SimpleStarts == ASSUME DbAssumption, DTInit PROVE SimpleOK(dt)
<1>1. DriverOK(dt)
  BY DriverStarts
<1>2. dt.free = PoolSize
  BY DEF DTInit
<1> QED
  BY <1>1, <1>2 DEF DriverOK, SimpleOK

LEMMA SimplyCalled ==
  ASSUME DbAssumption, SimpleOK(dt), NEW x \in Actions, CallAction(x) PROVE SimpleOK(dt')
<1>1. /\ dt \in TransactionState /\ dt.action \in [Actions -> {"idle", "running", "ok", "error"}]
      /\ dt.free = PoolSize
  BY TransactionParts DEF SimpleOK
<1>2. PICK c \in Attempts : c = <<x, 1>>
  <2>1. 1 \in 1 .. Retries + 1
    BY DEF DbAssumption
  <2> QED
    BY <2>1 DEF Attempts
<1>3. PICK action, s : /\ action = [dt.action EXCEPT ![x] = "running"]
                       /\ s = [dt EXCEPT !.action = action]
  OBVIOUS
<1>4. action \in [Actions -> {"idle", "running", "ok", "error"}]
  BY <1>1, <1>3
<1>5. SimpleOK(s)
  BY <1>1, <1>3, <1>4 DEF SimpleOK, TransactionState
<1>6. dt' = [s EXCEPT !.pc[c] = "connecting"]
  BY <1>1, <1>2, <1>3 DEF CallAction, TransactionState
<1>7. "connecting" \in AttemptStates
  BY DEF AttemptStates
<1> QED
  BY <1>5, <1>6, <1>7, StatusSet

LEMMA SimplyTimedOut ==
  ASSUME DbAssumption, SimpleOK(dt), NEW x \in Actions, TimeoutFires(x) PROVE SimpleOK(dt')
<1>1. /\ dt \in TransactionState /\ dt.timedOut \subseteq Attempts
      /\ dt.attempt \in [Actions -> 1 .. Retries + 1] /\ dt.free = PoolSize
  BY TransactionParts DEF SimpleOK
<1>2. PICK timedOut, s : /\ timedOut = dt.timedOut \cup {<<x, dt.attempt[x]>>}
                         /\ s = [dt EXCEPT !.timedOut = timedOut]
  OBVIOUS
<1>3. timedOut \subseteq Attempts
  BY <1>1, <1>2 DEF Attempts
<1>4. s \in TransactionState /\ s.free = PoolSize /\ s.attempt = dt.attempt
  BY <1>1, <1>2, <1>3 DEF TransactionState
<1>5. PICK n \in 1 .. Retries + 1 : n = s.attempt[x]
  BY <1>1, <1>4
<1>6. PICK t : t = dt'
  OBVIOUS
<1>7. t = AttemptFailed(s, x)
  BY <1>2, <1>6 DEF TimeoutFires
<1>8. t \in TransactionState /\ SameWrites(s, t)
  BY <1>4, <1>5, <1>7, RetryOrError
<1> QED
  BY <1>4, <1>6, <1>8 DEF SimpleOK, SameWrites

LEMMA SimplyStepped ==
  ASSUME DbAssumption, DriverKind # "postgres", SimpleOK(dt), NEW a \in Attempts,
         BeginTransaction(a) \/ Statement(a) \/ Commit(a) \/ Rollback(a)
  PROVE  SimpleOK(dt')
<1>1. /\ dt \in TransactionState /\ dt.done \in [Attempts -> 0 .. Statements]
      /\ dt.dirty \in [Attempts -> SUBSET Writes] /\ dt.data \subseteq Writes
  BY TransactionParts DEF SimpleOK
<1>2. "open" \in AttemptStates
  BY DEF AttemptStates
<1>3. PICK c \in Attempts : c = Conn(a)
  BY DEF Conn
<1>4. CASE BeginTransaction(a)
  <2>1. dt' = [FlushWrites(dt, a) EXCEPT !.pc[a] = "open"] \/ dt' = [dt EXCEPT !.pc[a] = "open"]
    BY <1>4 DEF BeginTransaction
  <2> QED
    BY <1>2, <2>1, WritesFlushed, StatusSet
<1>5. CASE Statement(a)
  <2>1. PICK i, done, s : /\ i = dt.done[a] + 1 /\ done = [dt.done EXCEPT ![a] = i]
                          /\ s = [dt EXCEPT !.done = done]
    OBVIOUS
  <2>2. i \in 1 .. Statements /\ i \in 0 .. Statements
    BY <1>1, <1>5, <2>1 DEF Statement, DbAssumption
  <2>3. done \in [Attempts -> 0 .. Statements] /\ <<a, i>> \in Writes
    BY <1>1, <2>1, <2>2 DEF Writes
  <2>4. SimpleOK(s) /\ s = [dt EXCEPT !.done[a] = @ + 1] /\ s.dirty = dt.dirty /\ s.data = dt.data
    BY <1>1, <2>1, <2>3 DEF SimpleOK, TransactionState
  <2>5. dt' = [s EXCEPT !.data = @ \cup {<<a, i>>}] \/ dt' = [s EXCEPT !.dirty[c] = @ \cup {<<a, i>>}]
    BY <1>3, <1>5, <2>1, <2>4 DEF Statement
  <2>6. CASE dt' = [s EXCEPT !.data = @ \cup {<<a, i>>}]
    <3>1. PICK data : data = dt.data \cup {<<a, i>>}
      OBVIOUS
    <3>2. data \subseteq Writes /\ dt' = [s EXCEPT !.data = data]
      BY <1>1, <2>3, <2>4, <2>6, <3>1
    <3> QED
      BY <2>4, <3>2 DEF SimpleOK, TransactionState
  <2>7. CASE dt' = [s EXCEPT !.dirty[c] = @ \cup {<<a, i>>}]
    <3>1. PICK dirty : dirty = [dt.dirty EXCEPT ![c] = @ \cup {<<a, i>>}]
      OBVIOUS
    <3>2. dirty \in [Attempts -> SUBSET Writes]
      BY <1>1, <2>3, <3>1
    <3>3. dt' = [s EXCEPT !.dirty = dirty]
      BY <2>4, <2>7, <3>1 DEF SimpleOK, TransactionState
    <3> QED
      BY <2>4, <3>2, <3>3 DEF SimpleOK, TransactionState
  <2> QED
    BY <2>5, <2>6, <2>7
<1>6. CASE Commit(a)
  <2>1. PICK s, t : s = FlushWrites(dt, a) /\ t = dt'
    OBVIOUS
  <2>a. PICK outcome \in {"ok", "error"} : outcome = "ok"
    OBVIOUS
  <2>2. t = SettleAttempt(s, a, outcome)
    BY <1>6, <2>1, <2>a DEF Commit, Release
  <2>3. SimpleOK(s)
    BY <2>1, WritesFlushed
  <2>4. SimpleOK(t)
    BY <2>2, <2>3, SettledSimply
  <2> QED
    BY <2>1, <2>4
<1>7. CASE Rollback(a)
  <2>1. PICK s, t, dirty :
          /\ s \in RolledBack(a) /\ t = SettleAttempt(s, a, "error") /\ t = dt'
          /\ dirty = [dt.dirty EXCEPT ![c] = {}]
    BY <1>7 DEF Rollback
  <2>a. PICK outcome \in {"ok", "error"} : outcome = "error"
    OBVIOUS
  <2>2. s = dt \/ s = [dt EXCEPT !.dirty[c] = {}]
    BY <1>3, <2>1 DEF RolledBack, Release
  <2>3. dirty \in [Attempts -> SUBSET Writes]
    BY <1>1, <2>1
  <2>4. s = dt \/ s = [dt EXCEPT !.dirty = dirty]
    BY <1>1, <1>3, <2>1, <2>2 DEF TransactionState
  <2>5. SimpleOK(s)
    BY <1>1, <2>3, <2>4 DEF SimpleOK, TransactionState
  <2>6. SimpleOK(t)
    BY <2>1, <2>a, <2>5, SettledSimply
  <2> QED
    BY <2>1, <2>6
<1> QED
  BY <1>4, <1>5, <1>6, <1>7

\* Whatever the driver.
TransactionsOK(s) == IF DriverKind = "postgres" THEN DriverOK(s) ELSE SimpleOK(s)

LEMMA TransactionsStart == ASSUME DbAssumption, DTInit PROVE TransactionsOK(dt)
  BY DriverStarts, SimpleStarts DEF TransactionsOK

LEMMA TransactionsStep ==
  ASSUME DbAssumption, TransactionsOK(dt), [DTNext]_dt PROVE TransactionsOK(dt')
<1>1. CASE DriverKind = "postgres"
  BY <1>1, DriverStep DEF TransactionsOK
<1>2. CASE DriverKind # "postgres"
  <2>1. SimpleOK(dt)
    BY <1>2 DEF TransactionsOK
  <2>2. SimpleOK(dt')
    <3>1. CASE UNCHANGED dt
      BY <2>1, <3>1
    <3>2. ASSUME NEW x \in Actions, CallAction(x) \/ TimeoutFires(x) PROVE SimpleOK(dt')
      BY <2>1, <3>2, SimplyCalled, SimplyTimedOut
    <3>3. ASSUME NEW a \in Attempts, \/ BeginTransaction(a) \/ BeginFails(a) \/ Statement(a)
                                     \/ Commit(a) \/ Rollback(a)
          PROVE  SimpleOK(dt')
      <4>1. ~BeginFails(a)
        BY <1>2 DEF BeginFails
      <4> QED
        BY <1>2, <2>1, <3>3, <4>1, SimplyStepped
    <3> QED
      BY <3>1, <3>2, <3>3 DEF DTNext
  <2> QED
    BY <1>2, <2>2 DEF TransactionsOK
<1> QED
  BY <1>1, <1>2

LEMMA StatementGiven == ASSUME DQInit \/ dq = AnyStatement PROVE dq \in Inputs
<1>1. <<>> \in SeqOf(Conditions, 2) /\ <<>> \in SeqOf(Conditions, 1)
  <2>1. 0 \in 0 .. 2 /\ 0 \in 0 .. 1 /\ <<>> \in [1 .. 0 -> Conditions]
    OBVIOUS
  <2> QED
    BY <2>1 DEF SeqOf
<1>2. [where |-> <<>>, having |-> <<>>, limit |-> <<>>, offset |-> <<>>, data |-> <<4>>,
       old |-> {}, new |-> {}, sameTable |-> TRUE] \in Inputs
  BY <1>1 DEF Inputs
<1> QED
  BY <1>2 DEF DQInit, AnyStatement

-----------------------------------------------------------------------------
(* Db: what the migration runner reports *)

MigrationState ==
  [applied : SUBSET ToSet(Versions), ran : [Migrations -> Int], lost : [Migrations -> Nat]]

\* What is applied comes before what is not.
NoGap(s) ==
  \A m, n \in Migrations : Before(m, n) /\ Versions[n] \in s.applied => Versions[m] \in s.applied
\* A version is applied when its migration was run once more up than down.
RunAsReported(s) ==
  \A m \in Migrations : s.ran[m] + s.lost[m] = IF Versions[m] \in s.applied THEN 1 ELSE 0
MigratedOK(s) ==
  s \in MigrationState /\ NoGap(s) /\ (IsInjective(Versions) => RunAsReported(s))

LEMMA VersionsApart ==
  ASSUME IsInjective(Versions), NEW m \in Migrations, NEW n \in Migrations, m # n
  PROVE  Versions[m] # Versions[n]
  BY DEF IsInjective, Migrations

LEMMA VersionOf ==
  ASSUME DbAssumption, NEW m \in Migrations
  PROVE  Versions[m] \in ToSet(Versions) /\ Versions[m] \in Nat /\ m \in Nat
<1>1. Versions \in Seq(Nat) /\ Migrations = 1 .. Len(Versions)
  BY LenProperties DEF DbAssumption, Migrations
<1>2. Versions[m] \in Nat
  BY <1>1, ElementOfSeq
<1> QED
  BY <1>1, <1>2 DEF ToSet, Migrations

\* The order of migrations.
LEMMA BeforeOrder ==
  ASSUME DbAssumption, NEW l \in Migrations, NEW m \in Migrations, NEW n \in Migrations
  PROVE  /\ Before(l, m) /\ Before(m, n) => Before(l, n)
         /\ Before(l, m) => Versions[l] <= Versions[m]
         /\ Before(l, m) /\ Versions[m] = Versions[n] => Versions[l] = Versions[n] \/ Before(l, n)
         /\ Versions[l] < Versions[m] => Before(l, m)
<1>1. PICK a, b, c \in Nat : a = Versions[l] /\ b = Versions[m] /\ c = Versions[n]
  BY VersionOf
<1>2. l \in Nat /\ m \in Nat /\ n \in Nat
  BY VersionOf
<1> QED
  BY <1>1, <1>2 DEF Before

LEMMA MigrationsStart == ASSUME DMInit PROVE MigratedOK(dm)
<1>1. PICK ran : ran = [m \in Migrations |-> 0]
  OBVIOUS
<1>2. ran \in [Migrations -> Int] /\ ran \in [Migrations -> Nat] /\ dm = [applied |-> {}, ran |-> ran, lost |-> ran]
  BY <1>1 DEF DMInit
<1> QED
  BY <1>1, <1>2 DEF MigratedOK, MigrationState, RunAsReported, NoGap

\* What is run comes before what is not: all that is pending, or what is before a thrower.
LEMMA MigrationsReached ==
  ASSUME DbAssumption, NEW applied, NEW bad \in SUBSET Migrations, NEW reached,
         NoGap([applied |-> applied]),
         reached = {m \in Migrations : Versions[m] \notin applied /\ \A b \in bad : Before(m, b)},
         NEW m \in Migrations, NEW n \in Migrations, Before(m, n),
         Versions[n] \in applied \cup {Versions[l] : l \in reached}
  PROVE  Versions[m] \in applied \cup {Versions[l] : l \in reached}
<1>1. CASE Versions[n] \in applied
  BY <1>1 DEF NoGap
<1>2. CASE \E l \in reached : Versions[l] = Versions[n]
  <2>1. PICK l \in reached : Versions[l] = Versions[n]
    BY <1>2
  <2>2. l \in Migrations /\ \A b \in bad : Before(l, b)
    BY <2>1
  <2>3. CASE Versions[m] = Versions[l]
    BY <2>1, <2>3
  <2>4. CASE Before(m, l) /\ Versions[m] \notin applied
    <3>1. \A b \in bad : Before(m, b)
      BY <2>2, <2>4, BeforeOrder
    <3> QED
      BY <2>4, <3>1
  <2> QED
    BY <2>1, <2>2, <2>3, <2>4, BeforeOrder
<1> QED
  BY <1>1, <1>2

\* A count of what was run goes up by one for each that was.
LEMMA CountedOnce ==
  ASSUME NEW count, NEW ms, NEW m \in Migrations
  PROVE  Counted(count, ms)[m] = count[m] + IF m \in ms THEN 1 ELSE 0
  BY DEF Counted

LEMMA CountedKind ==
  ASSUME NEW ms, NEW count
  PROVE  /\ count \in [Migrations -> Int] => Counted(count, ms) \in [Migrations -> Int]
         /\ count \in [Migrations -> Nat] => Counted(count, ms) \in [Migrations -> Nat]
  BY DEF Counted

LEMMA MigrationsRun == ASSUME DbAssumption, MigratedOK(dm), Migrate PROVE MigratedOK(dm')
<1>1. dm \in MigrationState /\ NoGap(dm)
  BY DEF MigratedOK
<1>2. /\ dm.applied \subseteq ToSet(Versions)
      /\ dm.ran \in [Migrations -> Int] /\ dm.lost \in [Migrations -> Nat]
  BY <1>1 DEF MigrationState
<1>3. PICK bad \in SUBSET (Pending \cap Throws) :
        \E reached \in {{m \in Pending : \A b \in bad : Before(m, b)}} :
          dm' = [applied |-> dm.applied \cup {Versions[m] : m \in reached},
                 ran |-> Counted(dm.ran, IF bad = {} THEN reached ELSE {}),
                 lost |-> Counted(dm.lost, IF bad = {} THEN {} ELSE reached)]
  BY DEF Migrate
<1>4. PICK reached : /\ reached = {m \in Pending : \A b \in bad : Before(m, b)}
                     /\ dm' = [applied |-> dm.applied \cup {Versions[m] : m \in reached},
                               ran |-> Counted(dm.ran, IF bad = {} THEN reached ELSE {}),
                               lost |-> Counted(dm.lost, IF bad = {} THEN {} ELSE reached)]
  BY <1>3
<1>5. PICK applied, ran, lost :
        /\ applied = dm.applied \cup {Versions[m] : m \in reached}
        /\ ran = Counted(dm.ran, IF bad = {} THEN reached ELSE {})
        /\ lost = Counted(dm.lost, IF bad = {} THEN {} ELSE reached)
  OBVIOUS
<1>6. /\ bad \subseteq Migrations /\ reached \subseteq Migrations
      /\ reached = {m \in Migrations : Versions[m] \notin dm.applied /\ \A b \in bad : Before(m, b)}
  BY <1>4 DEF Pending
<1>7. applied \subseteq ToSet(Versions)
  BY <1>2, <1>5, <1>6, VersionOf
<1>8. ran \in [Migrations -> Int] /\ lost \in [Migrations -> Nat]
  BY <1>2, <1>5, CountedKind
<1>9. dm' \in MigrationState /\ dm'.applied = applied /\ dm'.ran = ran /\ dm'.lost = lost
  BY <1>4, <1>5, <1>7, <1>8 DEF MigrationState
<1>10. NoGap(dm')
  <2>1. NoGap([applied |-> dm.applied])
    BY <1>1 DEF NoGap
  <2>2. ASSUME NEW m \in Migrations, NEW n \in Migrations, Before(m, n), Versions[n] \in applied
        PROVE  Versions[m] \in applied
    BY <1>5, <1>6, <2>1, <2>2, MigrationsReached
  <2> QED
    BY <1>9, <2>2 DEF NoGap
<1>11. ASSUME IsInjective(Versions), NEW m \in Migrations
       PROVE  ran[m] + lost[m] = IF Versions[m] \in applied THEN 1 ELSE 0
  <2>1. dm.ran[m] + dm.lost[m] = (IF Versions[m] \in dm.applied THEN 1 ELSE 0) /\ dm.ran[m] \in Int /\ dm.lost[m] \in Nat
    BY <1>2, <1>11 DEF MigratedOK, RunAsReported
  <2>2. /\ ran[m] = dm.ran[m] + (IF bad = {} /\ m \in reached THEN 1 ELSE 0)
        /\ lost[m] = dm.lost[m] + (IF bad # {} /\ m \in reached THEN 1 ELSE 0)
    BY <1>5, CountedOnce
  <2>3. Versions[m] \in applied <=> Versions[m] \in dm.applied \/ m \in reached
    BY <1>5, <1>6, <1>11, VersionsApart
  <2>4. m \in reached => Versions[m] \notin dm.applied
    BY <1>6
  <2> QED
    BY <2>1, <2>2, <2>3, <2>4
<1> QED
  BY <1>9, <1>10, <1>11 DEF MigratedOK, RunAsReported

LEMMA MigrationBack == ASSUME DbAssumption, MigratedOK(dm), RollbackLast PROVE MigratedOK(dm')
<1>1. dm \in MigrationState /\ NoGap(dm)
  BY DEF MigratedOK
<1>2. PICK last \in Migrations \ Pending :
        /\ \A m \in Migrations \ Pending : m = last \/ Before(m, last)
        /\ dm' = [dm EXCEPT !.applied = @ \ {Versions[last]}, !.ran[last] = @ - 1]
  BY DEF RollbackLast
<1>3. PICK applied, ran : /\ applied = dm.applied \ {Versions[last]}
                          /\ ran = [dm.ran EXCEPT ![last] = @ - 1]
  OBVIOUS
<1>4. dm' = [dm EXCEPT !.applied = applied, !.ran = ran]
  BY <1>1, <1>2, <1>3 DEF MigrationState
<1>5. /\ applied \subseteq ToSet(Versions) /\ dm.ran \in [Migrations -> Int]
      /\ dm.lost \in [Migrations -> Nat]
  BY <1>1, <1>3 DEF MigrationState
<1>6. ran \in [Migrations -> Int]
  <2>1. dm.ran[last] \in Int
    BY <1>5
  <2> QED
    BY <1>3, <1>5, <2>1
<1>7. /\ dm' \in MigrationState /\ dm'.applied = applied /\ dm'.ran = ran /\ dm'.lost = dm.lost
  BY <1>1, <1>4, <1>5, <1>6 DEF MigrationState
<1>8. NoGap(dm')
  <2>1. ASSUME NEW m \in Migrations, NEW n \in Migrations, Before(m, n), Versions[n] \in applied
        PROVE  Versions[m] \in applied
    <3>1. Versions[n] \in dm.applied /\ Versions[n] # Versions[last]
      BY <1>3, <2>1
    <3>2. Before(n, last)
      BY <1>2, <3>1 DEF Pending
    <3>3. Versions[m] \in dm.applied
      BY <1>1, <2>1, <3>1 DEF NoGap
    <3>4. Versions[m] <= Versions[n] /\ Versions[n] <= Versions[last]
      BY <2>1, <3>2, BeforeOrder
    <3>5. Versions[m] # Versions[last]
      BY <3>1, <3>4, VersionOf
    <3> QED
      BY <1>3, <3>3, <3>5
  <2> QED
    BY <1>7, <2>1 DEF NoGap
<1>9. ASSUME IsInjective(Versions), NEW m \in Migrations
      PROVE  ran[m] + dm.lost[m] = IF Versions[m] \in applied THEN 1 ELSE 0
  <2>1. \A n \in Migrations : dm.ran[n] + dm.lost[n] = IF Versions[n] \in dm.applied THEN 1 ELSE 0
    BY <1>9 DEF MigratedOK, RunAsReported
  <2>2. Versions[last] \in dm.applied
    BY <1>2 DEF Pending
  <2>3. CASE m = last
    <3>1. PICK r \in Int, l \in Nat : r = dm.ran[m] /\ l = dm.lost[m]
      BY <1>5
    <3>2. r + l = 1 /\ ran[m] = r - 1 /\ Versions[m] \notin applied
      BY <1>3, <1>5, <2>1, <2>2, <2>3, <3>1
    <3> QED
      BY <3>1, <3>2
  <2>4. CASE m # last
    BY <1>2, <1>3, <1>5, <1>9, <2>1, <2>4, VersionsApart
  <2> QED
    BY <2>3, <2>4
<1> QED
  BY <1>7, <1>8, <1>9 DEF MigratedOK, RunAsReported

LEMMA MigrationsStep == ASSUME DbAssumption, MigratedOK(dm), [DMNext]_dm PROVE MigratedOK(dm')
  BY MigrationsRun, MigrationBack DEF DMNext

LEMMA MigrationsFromInv == MigratedOK(dm) => AppliedMatches
  BY DEF MigratedOK, RunAsReported, NoGap, AppliedMatches

LEMMA DbTypesFromInv ==
  ASSUME TransactionsOK(dt), MigratedOK(dm), dq \in Inputs PROVE DbTypes
<1>1. dt \in TransactionState
  BY DEF TransactionsOK, DriverOK, SimpleOK
<1>2. /\ dt.pc \in [Attempts -> AttemptStates] /\ dt.data \subseteq Writes /\ dt.free \in 0 .. PoolSize
  BY <1>1, TransactionParts
<1>3. dm.applied \subseteq ToSet(Versions)
  BY DEF MigratedOK, MigrationState
<1> QED
  BY <1>2, <1>3 DEF DbTypes, AttemptStates, Writes

-----------------------------------------------------------------------------
(* The suite: a behaviour takes the steps of one part and leaves the others alone *)

SuiteInv ==
  /\ NavigatorOK(kn) /\ HydrationOK(ky) /\ WCInv
  /\ ServedOK(dv) /\ HotOK(hm) /\ WFOK(wf) /\ wf.received <= TotalSize
  /\ ManagerOK(sm) /\ ViewOK(au) /\ am \in MiddlewareContext
  /\ TransactionsOK(dt) /\ MigratedOK(dm) /\ dq \in Inputs

LEMMA Assumed == KitAssumption /\ SocketAssumption /\ DevAssumption /\ AuthAssumption /\ DbAssumption
  BY ServerAssumption DEF ServerAssumption

LEMMA PartSteps ==
  ASSUME [Next]_vars
  PROVE  /\ [KNNext]_kn /\ [KYNext]_ky /\ [WCNext]_wc /\ [DVNext]_dv /\ [HMNext]_hm /\ [WFNext]_wf
         /\ [AuthNext]_au /\ [SMNext]_sm /\ am' = am /\ [DTNext]_dt /\ [DMNext]_dm /\ dq' = dq
         /\ part' = part
  BY DEF Next, vars, DVNext, HMNext, WFNext

LEMMA SuiteStarts == ASSUME Init PROVE SuiteInv
<1>1. /\ KNInit /\ KYInit /\ WCInit /\ DVInit /\ HMInit /\ WFInit /\ AuthInit /\ SMInit
      /\ DTInit /\ DMInit
  BY DEF Init
<1>2. AnyRequest \in MiddlewareContext
  <2>1. [bearer |-> "absent", cookie |-> "absent", object |-> "absent", memory |-> "none", roles |-> {},
         method |-> "GET", submitted |-> <<>>, expected |-> <<>>] \in MiddlewareContext
    BY DEF MiddlewareContext, CandidateTokens
  <2> QED
    BY <2>1 DEF AnyRequest
<1>3. am \in MiddlewareContext /\ dq \in Inputs
  BY <1>2, StatementGiven DEF Init, AMInit
<1>4. NavigatorOK(kn) /\ HydrationOK(ky) /\ WCInv
  BY <1>1, Assumed, NavigatorStarts, HydrationStarts, SocketStarts
<1>5. ServedOK(dv) /\ HotOK(hm) /\ WFOK(wf) /\ wf.received <= TotalSize
  BY <1>1, Assumed, ServedStarts, HotStarts, StreamStarts, StreamEnds
<1>6. ManagerOK(sm) /\ ViewOK(au) /\ TransactionsOK(dt) /\ MigratedOK(dm)
  BY <1>1, Assumed, ManagerStarts, ViewStarts, TransactionsStart, MigrationsStart
<1> QED
  BY <1>3, <1>4, <1>5, <1>6 DEF SuiteInv

LEMMA SuiteStep == ASSUME SuiteInv, [Next]_vars PROVE SuiteInv'
<1>1. /\ NavigatorOK(kn) /\ HydrationOK(ky) /\ WCInv
      /\ ServedOK(dv) /\ HotOK(hm) /\ WFOK(wf) /\ wf.received <= TotalSize
      /\ ManagerOK(sm) /\ ViewOK(au) /\ am \in MiddlewareContext
      /\ TransactionsOK(dt) /\ MigratedOK(dm) /\ dq \in Inputs
  BY DEF SuiteInv
<1>2. /\ [KNNext]_kn /\ [KYNext]_ky /\ [WCNext]_wc /\ [DVNext]_dv /\ [HMNext]_hm /\ [WFNext]_wf
      /\ [AuthNext]_au /\ [SMNext]_sm /\ am' = am /\ [DTNext]_dt /\ [DMNext]_dm /\ dq' = dq
  BY PartSteps
<1>3. NavigatorOK(kn') /\ HydrationOK(ky') /\ WCInv'
  BY <1>1, <1>2, Assumed, NavigatorStep, HydrationStep, SocketStep
<1>4. ServedOK(dv') /\ HotOK(hm') /\ WFOK(wf')
  BY <1>1, <1>2, Assumed, ServedStep, HotStep, StreamStep
<1>5. wf'.received <= TotalSize
  BY <1>1, <1>2, Assumed, StreamEnds
<1>6. ManagerOK(sm') /\ ViewOK(au') /\ am' \in MiddlewareContext
  BY <1>1, <1>2, Assumed, ManagerStep, ViewStep
<1>7. TransactionsOK(dt') /\ MigratedOK(dm') /\ dq' \in Inputs
  BY <1>1, <1>2, Assumed, TransactionsStep, MigrationsStep
<1> QED
  BY <1>3, <1>4, <1>5, <1>6, <1>7 DEF SuiteInv

\* Whatever is lost, retried, saved or cut in pieces: a closed connection leaves no request
\* waiting; with nothing pending the page and the hot module are the newest, but for updates
\* sent while nobody was connected and imports still under way when the newest was told; and
\* frames come out whole and in order (ws/client.ts:281, dev.ts:243, hmr client.ts:148, cli
\* ws.ts:38).
THEOREM ServerConnections == Spec => []ConnectionsSettle
<1>1. Init => SuiteInv
  BY SuiteStarts
<1>2. SuiteInv /\ [Next]_vars => SuiteInv'
  BY SuiteStep
<1>3. ASSUME SuiteInv PROVE ConnectionsSettle
  <2>1. ClosedSettlesAll
    BY <1>3 DEF SuiteInv, WCInv, TableOK, ClosedOK, ClosedSettlesAll
  <2>2. PageUpToDate /\ HotModuleNewest /\ FramesWhole
    BY <1>3, Assumed, ServedFromInv, HotFromInv, StreamFromInv DEF SuiteInv
  <2> QED
    BY <2>1, <2>2 DEF ConnectionsSettle
<1> QED
  BY <1>1, <1>2, <1>3, PTL DEF Spec

\* Whoever signs in, refreshes or asks, in whatever order: the view shows the session, a
\* login has one live refresh token and one more for each refresh that began while another
\* of the same token was being signed, and the guards decide alike (client.ts,
\* session.ts:275, middleware.ts).
THEOREM ServerSignIns == Spec => []SignInsHold
<1>1. Init => SuiteInv
  BY SuiteStarts
<1>2. SuiteInv /\ [Next]_vars => SuiteInv'
  BY SuiteStep
<1>3. ASSUME SuiteInv PROVE SignInsHold
  <2>1. SignedInShown
    BY <1>3 DEF SuiteInv, ViewOK, SignedInShown, Authorizing, Shown
  <2>2. OneLiveToken
    BY <1>3 DEF SuiteInv, ManagerOK, Together, OneEach, Alive, OneLiveToken, Live
  <2>3. DecisionsRight
    BY <1>3, GuardsRight DEF SuiteInv
  <2> QED
    BY <2>1, <2>2, <2>3 DEF SignInsHold
<1> QED
  BY <1>1, <1>2, <1>3, PTL DEF Spec

\* However a page is navigated and hydrated, with handlers started twice, traversals under
\* way, hydrations that overlap or fail: the route is that of the address bar unless the
\* last link was no path, when it is what the string itself matches, no URL is prefetched
\* twice, and events captured early are delivered once and in order (navigator.ts:89,
\* link.ts:37, prefetch.ts, hydrate.ts:39, queue.ts:32).
THEOREM ServerRoutes == Spec => []RouteIsPage
<1>1. Init => SuiteInv
  BY SuiteStarts
<1>2. SuiteInv /\ [Next]_vars => SuiteInv'
  BY SuiteStep
<1>3. SuiteInv => RouteIsPage
  BY NavigatorFromInv, HydrationFromInv DEF SuiteInv, RouteIsPage
<1> QED
  BY <1>1, <1>2, <1>3, PTL DEF Spec

\* With the postgres driver, whatever is retried, times out or fails: transactions are
\* atomic, the pool has its clients but for those whose BEGIN or ROLLBACK failed, and what the
\* migration runner reports as applied has no gap and, but for what a migrate() that throws ran
\* before, is what its caller was given to run (server.ts:222, postgres.ts:266, 308, migration.ts:358).
THEOREM ServerDatabase ==
  ASSUME DriverKind = "postgres" PROVE Spec => []DatabaseWhole
<1>1. Init => SuiteInv
  BY SuiteStarts
<1>2. SuiteInv /\ [Next]_vars => SuiteInv'
  BY SuiteStep
<1>3. ASSUME SuiteInv PROVE DatabaseWhole
  <2>1. DriverOK(dt) /\ MigratedOK(dm)
    BY <1>3 DEF SuiteInv, TransactionsOK
  <2> QED
    BY <2>1, Assumed, DriverFromInv, MigrationsFromInv DEF DatabaseWhole
<1> QED
  BY <1>1, <1>2, <1>3, PTL DEF Spec

\* Every part keeps its shape, whichever driver there is; a page is mounted at most as often
\* as hydrations were asked for, the pool is never overfull and the buffer of a stream holds
\* no more than was sent.
THEOREM ServerTypeCorrect == Spec => []ServerTypes
<1>1. Init => SuiteInv
  BY SuiteStarts
<1>2. SuiteInv /\ [Next]_vars => SuiteInv'
  BY SuiteStep
<1>3. ASSUME SuiteInv PROVE ServerTypes
  <2>1. KitTypes
    BY <1>3, Assumed, KitTypesFromInv DEF SuiteInv
  <2>2. WCTypeOK
    BY <1>3 DEF SuiteInv, WCInv, TableOK, SocketState, WCTypeOK
  <2>3. DevTypeOK
    <3>1. wf.buffer \in 0 .. TotalSize
      BY <1>3, Assumed, BufferBound DEF SuiteInv
    <3>2. dv.out \in 1 .. MaxVersion /\ dv.inbox \in Nat /\ OnTheWay(dv) <= dv.disk - 1 /\ dv.disk \in 1 .. MaxVersion
      BY <1>3 DEF SuiteInv, ServedOK, PageState
    <3>3. dv.out \in 0 .. MaxVersion /\ dv.inbox \in 0 .. MaxVersion
      BY <3>2, Assumed DEF OnTheWay, DevAssumption
    <3>4. hm.shows \in 1 .. MaxVersion /\ hm.retries \in 0 .. HmrRetries
      BY <1>3 DEF SuiteInv, HotOK, HotState, Told
    <3> QED
      BY <3>1, <3>3, <3>4 DEF DevTypeOK
  <2>4. AuthTypes
    <3>1. au \in ViewState /\ sm \in ManagerState /\ am \in MiddlewareContext
      BY <1>3 DEF SuiteInv, ViewOK, ManagerOK
    <3>2. \A t \in Tokens : sm.refreshTokenStore[t] \in RefreshRecord
      BY <3>1 DEF ManagerState
    <3> QED
      BY <3>1, <3>2 DEF ViewState, SessionOrNone, AuthTypes
  <2>5. DbTypes
    BY <1>3, DbTypesFromInv DEF SuiteInv
  <2> QED
    BY <2>1, <2>2, <2>3, <2>4, <2>5 DEF ServerTypes
<1> QED
  BY <1>1, <1>2, <1>3, PTL DEF Spec
=============================================================================
