------------------------------ MODULE DevServer ------------------------------
(* packages/vais-web/packages: the development server (cli/src/dev.ts) with  *)
(* the page that reloads on its messages, its WebSocket framing (cli/src/    *)
(* ws.ts), and hot module replacement (hmr/src/server.ts, client.ts).        *)
(* One source file, in versions; Bad versions do not compile.                *)
EXTENDS Naturals, Sequences, FiniteSets, SequencesExt

CONSTANTS MaxVersion,  \* bound: versions of the file
          Bad,         \* versions that do not compile
          MaxDrops,    \* bound: disconnections, and restarts of the server
          HmrRetries,  \* maxRetries of the HMR client
          Frames       \* payload lengths of the frames a peer sends, in order

\* Of the constants, for the proofs.
DevAssumption == /\ MaxVersion \in Nat \ {0} /\ {MaxDrops, HmrRetries} \subseteq Nat
                 /\ Frames \in Seq(Nat)

VARIABLES dv,  \* file, compiled output, watcher and page
          hm,  \* HMR server and client
          wf   \* bytes of a WebSocket stream and what was parsed of them

devVars == <<dv, hm, wf>>

----------------------------------------------------------------------------
(* createDevServer: the watcher reports a write some time after it happened; *)
(* the handler reads the file, compiles it, writes the output, broadcasts.   *)
DVInit == dv = [disk |-> 1, out |-> 1, dirty |-> FALSE, compiling |-> 0, up |-> TRUE,
                page |-> "loaded", shows |-> 1, inbox |-> 0, drops |-> 0,
                unseen |-> FALSE,  \* history: the file changed with no watcher on it
                missed |-> FALSE]  \* history: an update was sent to a page not yet connected

FileSaved ==
  /\ dv.disk < MaxVersion
  /\ dv' = [dv EXCEPT !.disk = @ + 1, !.dirty = dv.up, !.unseen = ~dv.up]

WatcherChange == /\ dv.up /\ dv.dirty /\ dv.compiling = 0
                 /\ dv' = [dv EXCEPT !.dirty = FALSE, !.compiling = dv.disk]

\* broadcast: to the sockets that are open. An error message does not reload the page.
CompileAndCache ==
  /\ dv.compiling # 0
  /\ dv' = IF dv.compiling \in Bad THEN [dv EXCEPT !.compiling = 0]
           ELSE [dv EXCEPT !.compiling = 0, !.out = dv.compiling,
                           !.inbox = IF dv.page = "open" THEN @ + 1 ELSE @,
                           !.missed = @ \/ dv.page = "loaded"]

\* A page that is served is the output of then; its script connects after that.
Served(s) == [s EXCEPT !.page = "loaded", !.shows = s.out, !.inbox = 0, !.missed = FALSE]

\* The "connection" event: the socket is in the set from now on.
PageConnects == dv.page = "loaded" /\ dv.up /\ dv' = [dv EXCEPT !.page = "open"]

\* An update message: location.reload().
PageUpdated == dv.page = "open" /\ dv.inbox > 0 /\ dv.up /\ dv' = Served(dv)

\* "close": of an open socket or of one that could not connect.
PageDisconnected == /\ dv.page \in {"loaded", "open"} /\ dv.drops < MaxDrops
                    /\ dv' = [dv EXCEPT !.page = "waiting", !.inbox = 0, !.drops = @ + 1]

\* One second later the page reloads, into an error page if nobody serves it.
PageReloads == /\ dv.page = "waiting"
               /\ dv' = IF dv.up THEN Served(dv) ELSE [dv EXCEPT !.page = "dead"]

ServerCloses == /\ dv.up /\ dv.drops < MaxDrops
                /\ dv' = [dv EXCEPT !.up = FALSE, !.drops = @ + 1, !.inbox = 0,
                                    !.unseen = @ \/ dv.dirty \/ dv.compiling # 0,
                                    !.dirty = FALSE, !.compiling = 0,
                                    !.page = IF @ \in {"loaded", "open"} THEN "waiting" ELSE @]

\* The watcher ignores what is there when it starts.
ServerStarts == ~dv.up /\ dv' = [dv EXCEPT !.up = TRUE]
UserOpensPage == dv.page = "dead" /\ dv.up /\ dv' = Served(dv)

DVNext == /\ \/ FileSaved \/ WatcherChange \/ CompileAndCache \/ PageConnects \/ PageUpdated
             \/ PageDisconnected \/ PageReloads \/ ServerCloses \/ ServerStarts \/ UserOpensPage
          /\ UNCHANGED <<hm, wf>>

----------------------------------------------------------------------------
(* HMR: updates carry code; the client imports it and calls the accept       *)
(* callbacks when the import resolves, in whatever order imports resolve.    *)
HMInit == hm = [version |-> 1, inbox |-> <<>>, link |-> "connecting", retries |-> 0,
                accepted |-> FALSE, declined |-> FALSE, shows |-> 1, importing |-> <<>>,
                disposed |-> 0,     \* dispose callbacks run since the module was evaluated
                under |-> {},       \* history: imports under way when the last update was handled
                missed |-> FALSE]   \* history: an update sent while disconnected

\* notifyUpdate: broadcast to the clients in the set.
NotifyUpdate ==
  /\ hm.version < MaxVersion
  /\ hm' = [hm EXCEPT !.version = @ + 1,
                      !.inbox = IF hm.link = "up" THEN Append(@, hm.version + 1) ELSE @,
                      !.missed = @ \/ hm.link # "up"]

\* The page is loaded; connectHmr opens its socket after that.
Reload(s) == [s EXCEPT !.shows = s.version, !.importing = <<>>, !.inbox = <<>>,
                       !.accepted = FALSE, !.declined = FALSE, !.disposed = 0,
                       !.under = {}, !.missed = FALSE, !.link = "connecting", !.retries = 0]
ConnectHmr(up) == /\ hm.link = "connecting"
                  /\ hm' = [hm EXCEPT !.link = IF up THEN "up" ELSE "down"]

\* module.hot.accept / decline, when the module's code runs.
Accept == ~hm.accepted /\ hm' = [hm EXCEPT !.accepted = TRUE]
Decline == ~hm.declined /\ hm' = [hm EXCEPT !.declined = TRUE]

HandleComponentUpdate ==
  /\ hm.inbox # <<>>
  /\ LET s == [hm EXCEPT !.inbox = Tail(@)]
     IN hm' = IF hm.declined \/ ~hm.accepted THEN Reload(s)
              ELSE [s EXCEPT !.importing = Append(@, Head(hm.inbox)),
                             !.disposed = IF @ < 2 THEN @ + 1 ELSE @,
                             !.under = ToSet(hm.importing)]

\* The new module is evaluated: its hot context starts with no callbacks.
ImportResolves(k) ==
  hm' = [hm EXCEPT !.importing = RemoveAt(@, k), !.shows = hm.importing[k], !.disposed = 0]
ImportFails(k) == hm' = Reload([hm EXCEPT !.importing = RemoveAt(@, k)])

LinkDrops == /\ hm.link = "up"
             /\ hm' = [hm EXCEPT !.link = "down", !.missed = @ \/ hm.inbox # <<>>, !.inbox = <<>>]
\* "close" handler: retry, or give up for good.
RetryConnect(up) ==
  /\ hm.link = "down"
  /\ hm' = IF hm.retries = HmrRetries THEN [hm EXCEPT !.link = "gone"]
           ELSE IF up THEN [hm EXCEPT !.link = "up", !.retries = 0]
           ELSE [hm EXCEPT !.retries = @ + 1]

HMNext == /\ \/ NotifyUpdate \/ Accept \/ Decline \/ HandleComponentUpdate \/ LinkDrops
             \/ \E b \in BOOLEAN : ConnectHmr(b) \/ RetryConnect(b)
             \/ \E k \in 1 .. Len(hm.importing) : ImportResolves(k) \/ ImportFails(k)
          /\ UNCHANGED <<dv, wf>>

----------------------------------------------------------------------------
(* ws.ts: frames out of a byte stream that arrives in pieces.                *)
HeaderSize(n) == IF n < 126 THEN 2 ELSE IF n < 65536 THEN 4 ELSE 10
FrameSize(n) == HeaderSize(n) + n
BytesOf(frames) ==
  LET sum[k \in 0 .. Len(frames)] == IF k = 0 THEN 0 ELSE sum[k - 1] + FrameSize(frames[k])
  IN sum[Len(frames)]
TotalSize == BytesOf(Frames)

WFInit == wf = [received |-> 0, buffer |-> 0, parsed |-> <<>>]

\* parseFrame of a buffer of b bytes that starts with the frame of length n:
\* null until the header and the payload are all there.
FrameComplete(b, n) == b >= 2 /\ b >= HeaderSize(n) /\ b >= FrameSize(n)

\* One turn of the loop over the buffer, and the loop: what is parsed is a prefix of the frames.
ParseNext(r) ==
  LET next == Frames[Len(r.parsed) + 1]
  IN IF Len(r.parsed) = Len(Frames) \/ ~FrameComplete(r.buffer, next) THEN r
     ELSE [buffer |-> r.buffer - FrameSize(next), parsed |-> Append(r.parsed, next)]
ParseAll(buffer, parsed) ==
  LET turn[k \in 0 .. Len(Frames)] ==
        IF k = 0 THEN [buffer |-> buffer, parsed |-> parsed] ELSE ParseNext(turn[k - 1])
  IN turn[Len(Frames)]

DataArrives(n) ==
  /\ wf.received + n <= TotalSize
  /\ LET r == ParseAll(wf.buffer + n, wf.parsed)
     IN wf' = [received |-> wf.received + n, buffer |-> r.buffer, parsed |-> r.parsed]

\* Pieces of one to four bytes near a header, or up to the end of a frame.
WFNext == /\ \E n \in 1 .. 4 \cup {FrameSize(m) - k : m \in ToSet(Frames), k \in 0 .. 1} : DataArrives(n)
          /\ UNCHANGED <<dv, hm>>

----------------------------------------------------------------------------
DevTypeOK == /\ dv.out \in 0 .. MaxVersion /\ dv.inbox \in 0 .. MaxVersion
             /\ hm.shows \in 1 .. MaxVersion /\ hm.retries \in 0 .. HmrRetries
             /\ wf.buffer \in 0 .. TotalSize

\* When nothing is pending the connected page shows the last version that
\* compiled, unless an update was broadcast between its load and its connection:
\* nobody was in the set, and nothing makes up for it (dev.ts:51, 243). That
\* version is the one on the disk, as long as no save fell into a time without
\* a watcher; the file may have been saved again during a compilation.
PageUpToDate ==
  (dv.page = "open" /\ dv.up /\ dv.inbox = 0 /\ ~dv.dirty /\ dv.compiling = 0)
    => /\ ~dv.missed => dv.shows = dv.out
       /\ ~dv.unseen => dv.out = dv.disk \/ dv.disk \in Bad

\* When nothing is pending the hot module is the newest or one whose import was
\* still under way when the newest was told, as imports are not ordered
\* (client.ts:148); unless an update fell into a time without a connection: the
\* client does not ask for what it missed (client.ts:205).
HotModuleNewest ==
  (hm.inbox = <<>> /\ hm.importing = <<>> /\ ~hm.missed) => hm.shows = hm.version \/ hm.shows \in hm.under

\* Frames come out whole and in order however the bytes were cut, and no
\* complete frame is left waiting in the buffer.
FramesWhole ==
  /\ IsPrefix(wf.parsed, Frames)
  /\ Len(wf.parsed) < Len(Frames) => wf.buffer < FrameSize(Frames[Len(wf.parsed) + 1])
  /\ wf.buffer + BytesOf(wf.parsed) = wf.received
=============================================================================
