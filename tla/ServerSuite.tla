---------------------------- MODULE ServerSuite -----------------------------
(* The packages that serve a page and its data, next to each other: kit,     *)
(* the development server of cli with the HMR client, auth and db.  They     *)
(* share no state, so a behaviour is one of the part it starts as.           *)
EXTENDS Naturals, Sequences, Kit, WsClient, DevServer, Auth, Db

VARIABLES part,
          rt, fr                          \* kit's router
          \* kit: kn, ky, ka, wc; cli and hmr: dv, hm, wf; auth: au, sm, am; db: dt, dm, dq

vars == <<part, rt, fr, kn, ky, ka, wc, dv, hm, wf, au, sm, am, dt, dm, dq>>

Router == INSTANCE RouteMatcher WITH Words <- {"a", "b"}, MaxUrl <- 2, Fanout <- 2

\* Sequences are no values of a .cfg.
GivenFrames == <<0, 1, 125, 126, 3>>
GivenVersions == <<2, 1, 3>>

\* Of the constants, for the proofs.
ASSUME ServerAssumption == KitAssumption /\ SocketAssumption /\ DevAssumption /\ AuthAssumption /\ DbAssumption

Parts == {"routes", "federated", "navigator", "hydration", "socket", "dev", "hmr", "frames", "view",
          "sessions", "transactions", "migrations", "serve", "guard", "statement"}
AnyRequest == CHOOSE r \in MiddlewareContext : TRUE
AnyStatement == CHOOSE q \in Inputs : TRUE

Init ==
  /\ part \in Parts
  /\ Router!RMInit /\ KNInit /\ KYInit /\ WCInit
  /\ DVInit /\ HMInit /\ WFInit /\ AuthInit
  /\ SMInit /\ DTInit /\ DMInit
  /\ \/ part = "serve" /\ KAInit
     \/ part # "serve" /\ ka = [ask |-> "none"]
  /\ \/ part = "guard" /\ AMInit
     \/ part # "guard" /\ am = AnyRequest
  /\ \/ part = "statement" /\ DQInit
     \/ part # "statement" /\ dq = AnyStatement

Next ==
  \/ part = "routes" /\ Router!Ask
     /\ UNCHANGED <<part, kn, ky, ka, wc, dv, hm, wf, au, sm, am, dt, dm, dq>>
  \/ part = "federated" /\ Router!RouterNext
     /\ UNCHANGED <<part, kn, ky, ka, wc, dv, hm, wf, au, sm, am, dt, dm, dq>>
  \/ part = "navigator" /\ KNNext
     /\ UNCHANGED <<part, rt, fr, ky, ka, wc, dv, hm, wf, au, sm, am, dt, dm, dq>>
  \/ part = "hydration" /\ KYNext
     /\ UNCHANGED <<part, rt, fr, kn, ka, wc, dv, hm, wf, au, sm, am, dt, dm, dq>>
  \/ part = "socket" /\ WCNext
     /\ UNCHANGED <<part, rt, fr, kn, ky, ka, dv, hm, wf, au, sm, am, dt, dm, dq>>
  \/ part = "dev" /\ DVNext
     /\ UNCHANGED <<part, rt, fr, kn, ky, ka, wc, au, sm, am, dt, dm, dq>>
  \/ part = "hmr" /\ HMNext
     /\ UNCHANGED <<part, rt, fr, kn, ky, ka, wc, au, sm, am, dt, dm, dq>>
  \/ part = "frames" /\ WFNext
     /\ UNCHANGED <<part, rt, fr, kn, ky, ka, wc, au, sm, am, dt, dm, dq>>
  \/ part = "view" /\ AuthNext
     /\ UNCHANGED <<part, rt, fr, kn, ky, ka, wc, dv, hm, wf, sm, am, dt, dm, dq>>
  \/ part = "sessions" /\ SMNext
     /\ UNCHANGED <<part, rt, fr, kn, ky, ka, wc, dv, hm, wf, au, am, dt, dm, dq>>
  \/ part = "transactions" /\ DTNext
     /\ UNCHANGED <<part, rt, fr, kn, ky, ka, wc, dv, hm, wf, au, sm, am, dm, dq>>
  \/ part = "migrations" /\ DMNext
     /\ UNCHANGED <<part, rt, fr, kn, ky, ka, wc, dv, hm, wf, au, sm, am, dt, dq>>

\* Timers fire, a connection attempt opens or fails, a lost socket closes.
Spec == Init /\ [][Next]_vars /\ WCFairness

----------------------------------------------------------------------------
ServerTypes ==
  /\ KitTypes /\ WCTypeOK /\ DevTypeOK /\ AuthTypes /\ DbTypes

\* The router's route is that of the address bar, or what the string of the last
\* link matches where that was no path, and an event captured before hydration is
\* replayed once and in order (link.ts:37, navigator.ts:90, hydrate.ts:52).
RouteIsPage ==
  /\ part = "navigator" => RouteIsUrl
  /\ part = "hydration" => EventsReplayed

\* What is answered to a request, whatever is wrong with it at once: the page
\* of a URL, actions, forms, cookies, renders, prerendered pages, the six
\* servers that are generated, and the statements that are built (matcher.ts:243,
\* action.ts, validation.ts, context.ts:98, node.ts:37, query.ts).
RequestsAgree ==
  /\ part \in {"routes", "federated"} => Router!MatchIsOnePage
  /\ part = "serve" => /\ ServerDecides /\ CookiesAgree /\ RendersAgree
                       /\ PrerenderRight /\ AdaptersAgree
  /\ part = "statement" => StatementsRight

\* A closed connection leaves no request waiting; when nothing is pending the
\* page and the hot module are the newest, but for updates sent while nobody was
\* connected and imports still under way when the newest was told; frames come
\* out whole (ws/client.ts:281, dev.ts:243, hmr client.ts:148, cli ws.ts).
ConnectionsSettle ==
  /\ ClosedSettlesAll
  /\ PageUpToDate /\ HotModuleNewest /\ FramesWhole

\* A connection that was lost ends in a new one or in "closed", and a federated
\* route keeps its URLs until it is replaced or removed itself (client.ts:176,
\* federation/src/router.ts:200).
ServerSteps == ReconnectEnds /\ Router!RoutesKept

\* What the page shows is the session, a login has one live refresh token and one
\* more for each refresh that raced another of the same token, and the guards
\* decide alike (session.ts:275, middleware).
SignInsHold ==
  /\ SignedInShown /\ OneLiveToken
  /\ part = "guard" => DecisionsRight

\* An attempt writes all or nothing, whatever is retried or times out, and an
\* action is applied once or not at all but for its attempts that timed out; the
\* pool gets its clients back but for those whose BEGIN or ROLLBACK failed; the
\* migrations reported as applied are those that ran (server.ts:222, 230,
\* postgres.ts:266, 308, migration.ts:358).
DatabaseWhole == ActionAtomic /\ PoolKept /\ AppliedMatches
=============================================================================
