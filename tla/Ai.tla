--------------------------------- MODULE Ai ---------------------------------
(* packages/vais-web/packages/ai/src: useChat and useCompletion (ch, cp), the *)
(* widgets of streaming-ui.ts (ui, wss), the documents of rag.ts (rg), and the *)
(* parsers of what a model answers, one answer at a time (aq).               *)
EXTENDS Integers, Sequences, FiniteSets, SequencesExt

CONSTANTS MaxRequests,  \* bound: requests of a chat, of a completion
          MaxTokens,    \* bound: tokens of an answer
          MaxRetries,   \* reconnections of a socket stream; bound: connects
          Docs, MaxVersion, \* documents and their versions
          MaxText       \* bound: pieces of a streamed answer

VARIABLES ch, cp, ui, wss, rg, aq
aiVars == <<ch, cp, ui, wss, rg, aq>>

Requests == 1 .. MaxRequests
Message == [role : {"user", "assistant"}, id : Requests, content : 0 .. MaxTokens]
CHInit == ch = [messages |-> <<>>, next |-> 1, controller |-> 0, aborted |-> {}, isLoading |-> FALSE,
                error |-> FALSE, phase |-> [r \in Requests |-> "none"], finished |-> {}]

Abort(s) == [s EXCEPT !.aborted = IF s.controller = 0 THEN @ ELSE @ \cup {s.controller}]
FetchAndStream(s, msgs) ==
  LET r == s.next
  IN [Abort(s) EXCEPT !.controller = r, !.next = @ + 1, !.isLoading = TRUE, !.error = FALSE,
                      !.phase[r] = "fetching",
                      !.messages = Append(msgs, [role |-> "assistant", id |-> r, content |-> 0])]
AppendMessage == /\ ch.next <= MaxRequests
                 /\ ch' = FetchAndStream(ch, Append(ch.messages, [role |-> "user", id |-> ch.next, content |-> 1]))
Reload ==
  LET asked == {i \in DOMAIN ch.messages : ch.messages[i].role = "user"}
  IN /\ ch.next <= MaxRequests /\ asked # {}
     /\ ch' = FetchAndStream(ch, SubSeq(ch.messages, 1, CHOOSE i \in asked : \A j \in asked : j <= i))
StopChat == /\ ch.controller # 0
            /\ ch' = [Abort(ch) EXCEPT !.controller = 0, !.isLoading = FALSE]
SetMessages == ch.messages # <<>> /\ ch' = [ch EXCEPT !.messages = <<>>]

Running(s, r) == s.phase[r] \in {"fetching", "streaming"}
\* Broken variant: whichever request ends, none is loading.
AbortErrorSettles(s, r) == [s EXCEPT !.phase[r] = "ended", !.isLoading = FALSE, !.controller = 0]
\* Reading on after an abort throws an AbortError: nothing is shown any more.
AbortError(s, r) == [s EXCEPT !.phase[r] = "ended"]
Finally(s, r) == [s EXCEPT !.phase[r] = "ended", !.isLoading = FALSE, !.controller = 0]
Update(messages, r, n) ==
  [i \in DOMAIN messages |-> IF messages[i].role = "assistant" /\ messages[i].id = r
                             THEN [messages[i] EXCEPT !.content = n] ELSE messages[i]]
ContentOf(messages, r) ==
  LET mine == {i \in DOMAIN messages : messages[i].role = "assistant" /\ messages[i].id = r}
  IN IF mine = {} THEN -1 ELSE messages[CHOOSE i \in mine : TRUE].content
\* Broken variant: a token read after the abort is still shown.
LateToken(r) ==
  /\ Running(ch, r) /\ ContentOf(ch.messages, r) < MaxTokens
  /\ ch' = [ch EXCEPT !.phase[r] = "streaming", !.messages = Update(@, r, ContentOf(@, r) + 1)]
Token(r) ==
  /\ Running(ch, r) /\ r \notin ch.aborted /\ ContentOf(ch.messages, r) < MaxTokens
  /\ ch' = [ch EXCEPT !.phase[r] = "streaming", !.messages = Update(@, r, ContentOf(@, r) + 1)]
Finish(r) == /\ Running(ch, r) /\ r \notin ch.aborted
             /\ ch' = [Finally(ch, r) EXCEPT !.finished = @ \cup {r}]
Fails(r) == /\ Running(ch, r) /\ r \notin ch.aborted
            /\ ch' = [Finally(ch, r) EXCEPT !.error = TRUE, !.messages =
                        SelectSeq(@, LAMBDA m : ~(m.role = "assistant" /\ m.id = r))]
Aborted(r) == Running(ch, r) /\ r \in ch.aborted /\ ch' = AbortError(ch, r)
CHNext == \/ AppendMessage \/ Reload \/ StopChat \/ SetMessages
          \/ \E r \in Requests : Token(r) \/ Finish(r) \/ Fails(r) \/ Aborted(r)

\* useCompletion: one text instead of a list.
CPInit == cp = [completion |-> [id |-> 0, content |-> 0], next |-> 1, controller |-> 0, aborted |-> {},
                isLoading |-> FALSE, error |-> FALSE, phase |-> [r \in Requests |-> "none"]]
Complete == /\ cp.next <= MaxRequests
            /\ cp' = [Abort(cp) EXCEPT !.controller = cp.next, !.next = @ + 1, !.isLoading = TRUE, !.error = FALSE,
                        !.phase[cp.next] = "fetching", !.completion = [id |-> cp.next, content |-> 0]]
CompletionToken(r) ==
  /\ Running(cp, r) /\ r \notin cp.aborted /\ cp.completion.content < MaxTokens
  /\ cp' = [cp EXCEPT !.phase[r] = "streaming", !.completion = [id |-> r, content |-> @.content + 1]]
CompletionEnds(r, error) ==
  /\ Running(cp, r)
  /\ cp' = IF r \in cp.aborted THEN AbortError(cp, r) ELSE [Finally(cp, r) EXCEPT !.error = error]
StopCompletion == /\ cp.controller # 0
                  /\ cp' = [Abort(cp) EXCEPT !.controller = 0, !.isLoading = FALSE]
CPNext == Complete \/ StopCompletion \/
          \E r \in Requests : CompletionToken(r) \/ \E e \in BOOLEAN : CompletionEnds(r, e)

----------------------------------------------------------------------------
(* streaming-ui.ts: the token buffer, the streaming text it feeds, and the   *)
(* typing effect over a text of MaxTokens characters.                        *)
UIInit == ui = [buffer |-> <<>>, tokens |-> <<>>, pushed |-> 0, flushing |-> FALSE, isStreaming |-> FALSE,
                index |-> 0, running |-> FALSE, timer |-> FALSE, shown |-> 0, cursor |-> FALSE, completed |-> 0]
AppendToken(s, tokens) == IF tokens = <<>> THEN s
                          ELSE [s EXCEPT !.tokens = @ \o tokens, !.isStreaming = TRUE]
Flush(s) == [AppendToken(s, s.buffer) EXCEPT !.buffer = <<>>]
Push == /\ ui.pushed < MaxTokens
        /\ ui' = [ui EXCEPT !.buffer = Append(@, ui.pushed + 1), !.pushed = @ + 1]
StartBuffer == ~ui.flushing /\ ui' = [ui EXCEPT !.flushing = TRUE]
FlushTimer == ui.flushing /\ ui' = Flush(ui)
StopBuffer == ui.flushing /\ ui' = [ui EXCEPT !.flushing = FALSE]
DestroyBuffer == ui' = Flush([ui EXCEPT !.flushing = FALSE])
CompleteText == ui.isStreaming /\ ui' = [ui EXCEPT !.isStreaming = FALSE]

EmitUpdate(s) == [s EXCEPT !.shown = s.index, !.cursor = s.running]
StartTyping == /\ ~ui.running /\ ui.index < MaxTokens
               /\ ui' = EmitUpdate([ui EXCEPT !.running = TRUE, !.timer = TRUE])
TypingTick ==
  /\ ui.timer
  /\ LET s == EmitUpdate([ui EXCEPT !.index = @ + 1])
     IN ui' = IF s.index < MaxTokens THEN s
              ELSE EmitUpdate([s EXCEPT !.timer = FALSE, !.running = FALSE, !.completed = @ + 1])
StopTyping(s) == IF s.running THEN EmitUpdate([s EXCEPT !.running = FALSE, !.timer = FALSE]) ELSE s
Stop == ui.running /\ ui' = StopTyping(ui)
\* Skipping a text that is already complete completes it again.
Skip == /\ ui.completed < 2
        /\ ui' = EmitUpdate([StopTyping(ui) EXCEPT !.index = MaxTokens, !.completed = @ + 1])
UINext == \/ Push \/ StartBuffer \/ FlushTimer \/ StopBuffer \/ DestroyBuffer \/ CompleteText
          \/ StartTyping \/ TypingTick \/ Stop \/ Skip

(* The socket stream.  ws: "null", "opening" or "open"; timer: the one that  *)
(* clearReconnectTimer would clear; orphans: timers set before it and still  *)
(* to fire, which nothing can clear.  reentered and stray are history: an    *)
(* onClose connected, an orphan fired after the last call of the page.       *)
WebSocketConnectionState == {"idle", "connecting", "connected", "reconnecting", "closed", "error"}
WSSInit == wss = [ws |-> "null", connectionState |-> "idle", retryCount |-> 0, timer |-> FALSE,
                  manuallyDisconnected |-> FALSE, connects |-> 0, orphans |-> 0,
                  reentered |-> FALSE, stray |-> FALSE]
ScheduleReconnect(s) ==
  IF s.manuallyDisconnected \/ s.retryCount >= MaxRetries THEN [s EXCEPT !.connectionState = "closed"]
  ELSE [s EXCEPT !.connectionState = "reconnecting", !.retryCount = @ + 1, !.timer = TRUE,
                 !.orphans = IF s.timer THEN @ + 1 ELSE @]
\* A constructor that throws counts as a failed attempt.
DoConnect(s, throws) ==
  IF throws THEN ScheduleReconnect([s EXCEPT !.ws = "null", !.connectionState = "error"])
  ELSE [s EXCEPT !.ws = "opening", !.connectionState = "connecting"]
\* connect() and reconnect() do the same.
ConnectNow(s, throws) ==
  DoConnect([s EXCEPT !.manuallyDisconnected = FALSE, !.timer = FALSE, !.retryCount = 0,
                      !.connects = @ + 1, !.stray = FALSE], throws)
DisconnectNow(s) ==
  [s EXCEPT !.manuallyDisconnected = TRUE, !.timer = FALSE, !.connectionState = "closed",
            !.ws = "null", !.stray = FALSE]
Connect(throws) == wss.connects < MaxRetries /\ wss' = ConnectNow(wss, throws)
TimerFires(throws) == wss.timer /\ wss' = DoConnect([wss EXCEPT !.timer = FALSE], throws)
\* The callback of a timer forgets whichever timer is the last, and connects.
OrphanFires(throws) ==
  wss.orphans > 0 /\ wss' = DoConnect([wss EXCEPT !.timer = FALSE, !.stray = TRUE,
                                        !.orphans = IF wss.timer THEN @ ELSE @ - 1], throws)
Opened == wss.ws = "opening" /\ wss' = [wss EXCEPT !.ws = "open", !.connectionState = "connected", !.retryCount = 0]
Errored == /\ wss.ws # "null" /\ wss.connectionState # "error"
           /\ wss' = [wss EXCEPT !.connectionState = "error"]
\* onClose may call into the stream before the end of the handler.
AfterClose(s) == IF s.manuallyDisconnected THEN [s EXCEPT !.connectionState = "closed"] ELSE ScheduleReconnect(s)
Closed ==
  LET s == [wss EXCEPT !.ws = "null"]
  IN /\ wss.ws # "null"
     /\ \/ wss' = AfterClose(s)
        \/ wss' = AfterClose(DisconnectNow(s))
        \/ wss.connects < MaxRetries /\ \E throws \in BOOLEAN :
             wss' = AfterClose(ConnectNow([s EXCEPT !.reentered = TRUE], throws))
Disconnect == ~wss.manuallyDisconnected /\ wss' = DisconnectNow(wss)
WSSNext == Opened \/ Errored \/ Closed \/ Disconnect
           \/ \E t \in BOOLEAN : Connect(t) \/ TimerFires(t) \/ OrphanFires(t)

----------------------------------------------------------------------------
(* rag.ts: a document's version has a number of chunks; store: chunk -> the  *)
(* version its vector was made from.                                         *)
ChunkIds == Docs \X (1 .. 2)
RGInit == rg = [store |-> [c \in ChunkIds |-> 0], version |-> [d \in Docs |-> 0], chunks |-> [d \in Docs |-> 0]]
Ingest(d, n) ==
  /\ rg.version[d] < MaxVersion
  /\ rg' = [version |-> [rg.version EXCEPT ![d] = @ + 1], chunks |-> [rg.chunks EXCEPT ![d] = n],
            store |-> [c \in ChunkIds |-> IF c[1] = d /\ c[2] <= n THEN rg.version[d] + 1 ELSE rg.store[c]]]
Query(topK) == LET found == SetToSeq({c \in ChunkIds : rg.store[c] # 0})
               IN SubSeq(found, 1, IF topK < Len(found) THEN topK ELSE Len(found))
RGNext == \E d \in Docs, n \in 0 .. 2 : Ingest(d, n)
\* A chunk that a document still has is found as it is now.  Those that only a
\* longer version before had are never removed, and found as well (rag.ts:303).
QueryCurrent == \A c \in Range(Query(4)) : c[2] <= rg.chunks[c[1]] => rg.store[c] = rg.version[c[1]]

(* DocumentSplitter.split: the bounds of the chunks of a text of n characters. *)
Split(n, chunkSize, overlap) ==
  LET step == chunkSize - overlap
      from[start \in 0 .. n] ==
        LET end == IF start + chunkSize < n THEN start + chunkSize ELSE n
        IN IF end = n \/ start + step >= n THEN <<[from |-> start, to |-> end]>>
           ELSE <<[from |-> start, to |-> end]>> \o from[start + step]
  IN IF n = 0 THEN <<>> ELSE from[0]
SplitInputs == {i \in [ask : {"split"}, n : 0 .. 7, size : 1 .. 4, overlap : 0 .. 3] : i.overlap < i.size}

----------------------------------------------------------------------------
(* Streamed answers: pieces of text, cut anywhere into two chunks.           *)
Pieces == {"data:", "event:", "x", "[DONE]", "\n"}
StreamInputs == [ask : {"stream"}, text : UNION {[1 .. k -> Pieces] : k \in 0 .. MaxText}, cut : 0 .. MaxText]
Chunks(a) == LET k == IF a.cut < Len(a.text) THEN a.cut ELSE Len(a.text)
             IN <<SubSeq(a.text, 1, k), SubSeq(a.text, k + 1, Len(a.text))>>
\* Complete lines of the buffer, and what is left of it.
Lines(buffer) ==
  FoldLeft(LAMBDA s, p : IF p = "\n" THEN [lines |-> Append(s.lines, s.rest), rest |-> <<>>]
                         ELSE [s EXCEPT !.rest = Append(@, p)],
           [lines |-> <<>>, rest |-> <<>>], buffer)
DispatchEvent(s) == [s EXCEPT !.events = IF s.data = <<>> \/ s.data = <<<<"[DONE]">>>> THEN @
                                         ELSE Append(@, [event |-> s.type, data |-> s.data]),
                              !.data = <<>>, !.type = IF s.data = <<>> THEN @ ELSE <<"message">>]
SseLine(s, line) ==
  CASE line = <<>> -> DispatchEvent(s)
    [] line # <<>> /\ line[1] = "data:" -> [s EXCEPT !.data = Append(@, Tail(line))]
    [] line # <<>> /\ line[1] = "event:" -> [s EXCEPT !.type = Tail(line)]
    [] OTHER -> s
\* The unfinished last line counts only when it is data.
SseTail(s, line) == DispatchEvent(IF line # <<>> /\ line[1] = "data:" THEN SseLine(s, line) ELSE s)
ParseSSEStream(chunks) ==
  LET empty == [rest |-> <<>>, type |-> <<"message">>, data |-> <<>>, events |-> <<>>]
      chunk(s, c) == LET read == Lines(s.rest \o c)
                     IN [FoldLeft(SseLine, s, read.lines) EXCEPT !.rest = read.rest]
      read == FoldLeft(chunk, empty, chunks)
  IN SseTail(read, read.rest).events

\* The providers: lines that start with data, until [DONE].  Anthropic's also
\* follow the event they are of; an Ollama line is a JSON object of its own.
OpenAiLine(s, line) ==
  CASE s.done \/ line = <<>> -> s
    [] ~s.done /\ line = <<"data:", "[DONE]">> -> [s EXCEPT !.done = TRUE]
    [] OTHER -> IF line = <<"data:", "x">> THEN [s EXCEPT !.tokens = Append(@, "x")] ELSE s
AnthropicLine(s, line) ==
  CASE s.done -> s
    [] ~s.done /\ line = <<>> -> [s EXCEPT !.event = <<>>]
    [] OTHER -> CASE line[1] = "event:" -> [s EXCEPT !.event = Tail(line)]
                  [] line[1] = "data:" -> IF s.event = <<"x">> \/ line = <<"data:", "[DONE]">>
                                          THEN OpenAiLine(s, line) ELSE s
                  [] OTHER -> s
OllamaLine(s, line) == CASE s.done -> s
                         [] ~s.done /\ line = <<"[DONE]">> -> [s EXCEPT !.done = TRUE]
                         [] OTHER -> IF line = <<"x">> THEN [s EXCEPT !.tokens = Append(@, "x")] ELSE s
Tokens(Line(_, _), chunks) ==
  LET chunk(s, c) == LET read == Lines(s.rest \o c)
                     IN [FoldLeft(Line, s, read.lines) EXCEPT !.rest = read.rest]
      read == FoldLeft(chunk, [rest |-> <<>>, event |-> <<>>, done |-> FALSE, tokens |-> <<>>], chunks)
  IN Line(read, read.rest).tokens
ParseOpenAISSE(chunks) == Tokens(OpenAiLine, chunks)
ParseAnthropicSSE(chunks) == Tokens(AnthropicLine, chunks)
ParseOllamaNDJSON(chunks) == Tokens(OllamaLine, chunks)
\* What is sent: the Anthropic API takes the system messages apart.
RoleInputs == [ask : {"roles"}, messages : UNION {[1 .. k -> {"system", "user", "assistant"}] : k \in 0 .. 3}]
ConvertMessages(messages) == [system |-> SelectSeq(messages, LAMBDA m : m = "system"),
                              messages |-> SelectSeq(messages, LAMBDA m : m # "system")]

----------------------------------------------------------------------------
(* generate.ts and diagnose.ts                                               *)
Brackets == {"{", "}", "(", ")"}
CodeInputs == [ask : {"code"}, tags : SUBSET {"<template>", "</template>", "<script>", "</script>"},
               brackets : UNION {[1 .. k -> Brackets] : k \in 0 .. 4}]
\* Kinds of brackets are balanced one by one: ({)} passes.
CheckBalance(code, open, close) ==
  LET step(d, c) == IF d < 0 THEN d ELSE IF c = open THEN d + 1 ELSE IF c = close THEN d - 1 ELSE d
  IN FoldLeft(step, 0, code) = 0
ValidateGeneratedCode(a) ==
  /\ a.tags = {"<template>", "</template>", "<script>", "</script>"}
  /\ CheckBalance(a.brackets, "{", "}") /\ CheckBalance(a.brackets, "(", ")")

Langs == {"vaisx", "ts", "css", ""}
GenerateInputs == [ask : {"generate"}, blocks : UNION {[1 .. k -> Langs] : k \in 0 .. 3}, includeTests : BOOLEAN]
FirstOf(blocks, langs, but) == SelectInSeq([i \in DOMAIN blocks |-> i], LAMBDA i : i # but /\ blocks[i] \in langs)
\* [code, tests]: indexes of blocks, 0 for none.  No block at all is an error.
Generate(a) ==
  LET component == FirstOf(a.blocks, {"vaisx", "ts", ""}, 0)
      code == IF component = 0 /\ a.blocks # <<>> THEN 1 ELSE component
  IN [code |-> code, tests |-> IF a.includeTests /\ code # 0 THEN FirstOf(a.blocks, {"ts"}, code) ELSE 0]

DiagnosisInputs == [ask : {"diagnose"}, message : SUBSET {"signal", "prop", "loop"}, answer : {"json", "text", ""},
                    fields : SUBSET {"summary", "cause"}, confidence : {-1, 0, 1, 2, 9}]
CommonErrors == <<"signal", "prop", "loop">>
MatchOfflinePattern(message) ==
  LET i == SelectInSeq(CommonErrors, LAMBDA id : id \in message) IN IF i = 0 THEN "none" ELSE CommonErrors[i]
\* Confidence in halves; 9 stands for one that is not a number.
ParseDiagnosticResponse(a) ==
  LET clamped == IF a.confidence < 0 THEN 0 ELSE IF a.confidence > 2 THEN 2 ELSE a.confidence
      sure == IF a.confidence = 9 THEN 1 ELSE clamped
  IN IF a.answer = "json" /\ a.fields # {} THEN [by |-> "json", confidence |-> sure]
     ELSE [by |-> "text", confidence |-> IF a.answer = "" THEN 1 ELSE sure]
Diagnose(a) == IF MatchOfflinePattern(a.message) # "none"
               THEN [by |-> MatchOfflinePattern(a.message), confidence |-> 2] ELSE ParseDiagnosticResponse(a)

AQInit == aq \in StreamInputs \cup SplitInputs \cup RoleInputs \cup CodeInputs \cup GenerateInputs \cup DiagnosisInputs

----------------------------------------------------------------------------
AiTypes ==
  /\ Range(ch.messages) \subseteq Message /\ ch.controller \in 0 .. MaxRequests
  /\ cp.completion.content \in 0 .. MaxTokens /\ ui.index \in 0 .. MaxTokens
  /\ wss.connectionState \in WebSocketConnectionState /\ wss.retryCount \in 0 .. MaxRetries

\* isLoading says that the last request, and no other, is still running; each
\* answer of the conversation follows a question (chat.ts:160 and 190).
ChatCoherent ==
  /\ \A s \in {ch, cp} : s.isLoading = \E r \in Requests \ s.aborted : Running(s, r)
  /\ \A r \in Requests \ ch.aborted : Running(ch, r) => r = ch.next - 1 /\ r = ch.controller
  /\ \A i \in DOMAIN ch.messages :
       ch.messages[i].role = "assistant" => i > 1 /\ ch.messages[i - 1].role = "user"
  /\ cp.completion.id = cp.next - 1

\* What an abandoned request had said stays as it was.
AbandonedSilent ==
  [][/\ \A r \in ch.aborted : ContentOf(ch'.messages, r) \in {ContentOf(ch.messages, r), -1}
     /\ cp.completion.id \in cp.aborted /\ cp'.completion.id = cp.completion.id => cp'.completion = cp.completion]_<<ch, cp>>

\* No token pushed is lost or shown twice; a text that is not being typed has
\* no timer and no cursor, and is shown up to where it stopped.
TokensKept ==
  /\ ui.tokens \o ui.buffer = [i \in 1 .. ui.pushed |-> i]
  /\ ui.timer = ui.running /\ ui.cursor = ui.running /\ ui.shown = ui.index
  /\ ui.index = MaxTokens => ~ui.running /\ ui.completed > 0

\* After disconnect() nothing reconnects and no timer is left, and a timer waits
\* only without a socket, unless onClose connected: close then sets a timer beside
\* the new socket, and one set before it fires whatever was called (streaming-ui.ts:443).
DisconnectStays ==
  /\ wss.manuallyDisconnected /\ ~wss.stray => wss.ws = "null" /\ ~wss.timer /\ wss.connectionState = "closed"
  /\ ~wss.reentered => /\ wss.orphans = 0 /\ ~wss.stray
                       /\ wss.timer => wss.ws = "null"
                       /\ wss.connectionState = "closed" => wss.ws = "null" /\ ~wss.timer

\* Wherever the network cuts a stream, the parsers read the same; nothing is
\* read after [DONE]; the chunks of a document cover it and overlap as asked.
AnswersParsed ==
  /\ aq.ask = "stream" =>
       /\ ParseSSEStream(Chunks(aq)) = ParseSSEStream(<<aq.text>>)
       /\ ParseOpenAISSE(Chunks(aq)) = ParseOpenAISSE(<<aq.text>>)
       /\ ParseAnthropicSSE(Chunks(aq)) = ParseAnthropicSSE(<<aq.text>>)
       /\ ParseOllamaNDJSON(Chunks(aq)) = ParseOllamaNDJSON(<<aq.text>>)
       /\ Len(ParseAnthropicSSE(<<aq.text>>)) <= Len(ParseOpenAISSE(<<aq.text>>))
       /\ \A e \in Range(ParseSSEStream(<<aq.text>>)) : e.data # <<>> /\ e.data # <<<<"[DONE]">>>>
  /\ aq.ask = "split" =>
       LET chunks == Split(aq.n, aq.size, aq.overlap)
       IN /\ UNION {c.from .. c.to - 1 : c \in Range(chunks)} = 0 .. aq.n - 1
          /\ \A i \in DOMAIN chunks : chunks[i].to - chunks[i].from \in 1 .. aq.size
          /\ \A i \in 2 .. Len(chunks) : chunks[i - 1].to - chunks[i].from = aq.overlap
  /\ aq.ask = "roles" =>
       LET sent == ConvertMessages(aq.messages)
       IN /\ Len(sent.system) + Len(sent.messages) = Len(aq.messages)
          /\ "system" \notin Range(sent.messages)
  /\ aq.ask = "code" /\ ValidateGeneratedCode(aq) =>
       \A k \in 0 .. Len(aq.brackets) :
         LET count(c) == Cardinality({i \in 1 .. k : aq.brackets[i] = c})
         IN count("{") >= count("}") /\ count("(") >= count(")")
  /\ aq.ask = "generate" =>
       LET made == Generate(aq)
       IN /\ made.code = 0 <=> aq.blocks = <<>>
          /\ made.tests # 0 => made.tests # made.code /\ aq.blocks[made.tests] = "ts"
          /\ aq.blocks # <<>> /\ (\E i \in DOMAIN aq.blocks : aq.blocks[i] # "css") => aq.blocks[made.code] # "css"
  /\ aq.ask = "diagnose" => Diagnose(aq).confidence \in 0 .. 2
=============================================================================
