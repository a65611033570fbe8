----------------------------- MODULE ToolSuite ------------------------------
(* The packages a page and its tools are made with, next to each other: ai,  *)
(* a11y, native, motion, i18n, and those an author works with.  They share   *)
(* no state, so a behaviour is one of the part it starts as, and the run     *)
(* visits the states of every part.                                          *)
EXTENDS Integers, Sequences

VARIABLES part,
          ch, cp, ui, wss, rg, aq,        \* ai
          ax,                             \* a11y
          br, nv, ot, nq,                 \* native
          tr, ge, pi, sp, sh, fp,         \* motion
          tq,                             \* i18n
          ls, wf, rd, pq                  \* language server, test library, plugins

\* The variables of the parts that are one input each, and of the others.
inputs == <<aq, ax, nq, tq, pq>>
asks == <<ch, cp, ui, wss, rg>>
hosts == <<br, nv, ot>>
moves == <<tr, ge, pi, sp, sh, fp>>
benches == <<ls, wf, rd>>
vars == <<part, asks, hosts, moves, benches, inputs>>

Ask == INSTANCE Ai
  WITH MaxRequests <- 3, MaxTokens <- 2, MaxRetries <- 2, Docs <- {"d"}, MaxVersion <- 3, MaxText <- 4
Access == INSTANCE A11y
Host == INSTANCE Native
  WITH Calls <- {"c1", "c2"}, Watchers <- {"w1", "w2"}, MaxMessages <- 3, MaxBatchSize <- 2,
       Screens <- {"a", "b"}, MaxRoutes <- 3, MaxPatch <- 2
Move == INSTANCE Motion
  WITH Runs <- {"r1", "r2", "r3"}, Pointers <- {"p1", "p2"}, Places <- {0, 1, 2}, Fingers <- {"f1", "f2", "f3"}, MaxGap <- 1,
       MaxScale <- 1, Values <- {0, 1, 2}, MaxStarts <- 3, Reenters <- FALSE, Elements <- {"a", "b"},
       Transfers <- {"t1", "t2"}, Overlaps <- FALSE, Flips <- {"f1", "f2"}
Texts == INSTANCE I18n WITH Words <- {"about"}
Bench == INSTANCE Workbench
  WITH Uris <- {"u", "v"}, MaxSent <- 4, Timeout <- 3, Interval <- 2, MaxLate <- 1,
       Mounts <- {"m1", "m2", "m3"}, Containers <- {"c1", "c2"}, Throwers <- {}, MaxAgain <- 1

Parts == {"chat", "completion", "typing", "stream", "documents", "bridge", "navigation", "updates",
          "transition", "gesture", "pinch", "spring", "shared", "flip", "editor", "wait", "mount",
          "answer", "markup", "tree", "text", "plugins"}

NoInput == [ask |-> "none"]
\* A part that starts in several states does so only when it is the part.
Init ==
  /\ part \in Parts
  /\ Ask!CHInit /\ Ask!CPInit /\ Ask!UIInit /\ Ask!WSSInit /\ Ask!RGInit
  /\ Host!BRInit /\ Host!NVInit /\ Host!OTInit
  /\ Move!PIInit /\ Bench!LSInit /\ Bench!RDInit
  /\ Move!TRInit /\ (part # "transition" => tr.manager = "css")
  /\ Move!GEInit /\ (part # "gesture" => ge.axis = "both" /\ ~ge.bounded /\ ge.input = "pointer")
  /\ Move!SPInit /\ (part # "spring" => sp.from = 0 /\ sp.to = 1)
  /\ Move!SHInit /\ (part # "shared" => sh.waapi)
  /\ Move!FPInit /\ (part # "flip" => fp.waapi)
  /\ Bench!WFInit /\ (part # "wait" => wf.holds)
  /\ IF part = "answer" THEN Ask!AQInit ELSE aq = NoInput
  /\ IF part = "markup" THEN Access!AXInit ELSE ax = NoInput
  /\ IF part = "tree" THEN Host!NQInit ELSE nq = NoInput
  /\ IF part = "text" THEN Texts!TQInit ELSE tq = NoInput
  /\ IF part = "plugins" THEN Bench!PQInit ELSE pq = NoInput

NextAsk ==
  /\ \/ part = "chat" /\ Ask!CHNext /\ UNCHANGED <<cp, ui, wss, rg>>
     \/ part = "completion" /\ Ask!CPNext /\ UNCHANGED <<ch, ui, wss, rg>>
     \/ part = "typing" /\ Ask!UINext /\ UNCHANGED <<ch, cp, wss, rg>>
     \/ part = "stream" /\ Ask!WSSNext /\ UNCHANGED <<ch, cp, ui, rg>>
     \/ part = "documents" /\ Ask!RGNext /\ UNCHANGED <<ch, cp, ui, wss>>
  /\ UNCHANGED <<part, hosts, moves, benches, inputs>>
NextHost ==
  /\ \/ part = "bridge" /\ Host!BRNext /\ UNCHANGED <<nv, ot>>
     \/ part = "navigation" /\ Host!NVNext /\ UNCHANGED <<br, ot>>
     \/ part = "updates" /\ Host!OTNext /\ UNCHANGED <<br, nv>>
  /\ UNCHANGED <<part, asks, moves, benches, inputs>>
NextMove ==
  /\ \/ part = "transition" /\ Move!TRNext /\ UNCHANGED <<ge, pi, sp, sh, fp>>
     \/ part = "gesture" /\ Move!GENext /\ UNCHANGED <<tr, pi, sp, sh, fp>>
     \/ part = "pinch" /\ Move!PINext /\ UNCHANGED <<tr, ge, sp, sh, fp>>
     \/ part = "spring" /\ Move!SPNext /\ UNCHANGED <<tr, ge, pi, sh, fp>>
     \/ part = "shared" /\ Move!SHNext /\ UNCHANGED <<tr, ge, pi, sp, fp>>
     \/ part = "flip" /\ Move!FPNext /\ UNCHANGED <<tr, ge, pi, sp, sh>>
  /\ UNCHANGED <<part, asks, hosts, benches, inputs>>
NextBench ==
  /\ \/ part = "editor" /\ Bench!LSNext /\ UNCHANGED <<wf, rd>>
     \/ part = "wait" /\ Bench!WFNext /\ UNCHANGED <<ls, rd>>
     \/ part = "mount" /\ Bench!RDNext /\ UNCHANGED <<ls, wf>>
  /\ UNCHANGED <<part, asks, hosts, moves, inputs>>
Next == NextAsk \/ NextHost \/ NextMove \/ NextBench

\* Timers fire.
Spec == Init /\ [][Next]_vars /\ Host!BRFairness /\ (part = "wait" => Bench!WFFairness)

----------------------------------------------------------------------------
ToolTypes == Ask!AiTypes /\ Host!NativeTypes /\ Move!MotionTypes /\ Bench!WorkbenchTypes

\* The flags, messages and timers of a chat, a typed text and a socket stream
\* are those of the request that runs, unless onClose connects; a retrieved
\* chunk that its document still has is of the newest version; wherever a
\* stream is cut it reads the same (chat.ts:160, streaming-ui.ts:285, 443,
\* rag.ts:303, stream.ts).
StreamsSound ==
  /\ Ask!ChatCoherent /\ Ask!TokensKept /\ Ask!DisconnectStays /\ Ask!QueryCurrent
  /\ part = "answer" => Ask!AnswersParsed

\* What an abandoned request had said stays as it was, and a pinch changes the
\* scale only as the fingers move (chat.ts:190, gesture.ts:385).
ToolSteps == Ask!AbandonedSilent /\ Move!ScaleFollows

\* Two ways to read one input agree: the linter, the rules, the runtime audit
\* and the queries of the tests on markup; an old tree with the difference
\* applied and the new one; messages before and after the unused are cut; a
\* list of plugins and the hooks that ran (lint.ts:291, engine.ts:194,
\* renderer.ts:169, tree-shake.ts:125, container.ts:34).
InputsAgree ==
  /\ part = "markup" => /\ Access!PatternsApplied /\ Access!CheckersAgree
                        /\ Access!QueriesAgree /\ Access!AuditRight
  /\ part = "tree" => Host!TreesAgree /\ Host!BuildsAgree
  /\ part = "text" => Texts!TextsRight
  /\ part = "plugins" => Bench!PluginsRight

\* Messages arrive once and in order, over the pipe to the language server and,
\* unless a handler's answer fills a batch inside another, over the bridge to the
\* host; a destroyed bridge keeps nobody waiting (bridge.ts:126, location.ts:73,
\* server.ts:239).
MessagesWhole == Host!BridgeSound /\ Bench!AnswersInOrder


\* waitFor gives up only after a last look at the deadline, and ends if the
\* promises of its callback settle (wait-for.ts:43, 52); a call of the host is
\* answered or times out (bridge.ts:209).
WaitsSettle == Host!CallSettles /\ [](part = "wait" => Bench!WaitForRight) /\ (part = "wait" => Bench!WaitForEnds)
=============================================================================
