------------------------------- MODULE Motion -------------------------------
(* packages/vais-web/packages/motion/src: class transitions and moves of one *)
(* element (tr), drag and swipe on one stream of pointer events (ge), pinch  *)
(* (pi), the spring that writes a style (sp), shared transitions (sh) and    *)
(* FLIP animations of one element (fp).                                      *)
EXTENDS Integers, Sequences, FiniteSets, SequencesExt

CONSTANTS Runs,       \* calls of enter and leave
          Pointers, Places,
          Fingers, MaxGap, MaxScale,
          Values, MaxStarts,      \* bound: times a spring is started
          Reenters,   \* TRUE: onUpdate may start the spring again
          Elements, Transfers,
          Overlaps,   \* TRUE: two transfers may leave, or reach, one element
          Flips

VARIABLES tr, ge, pi, sp, sh, fp

----------------------------------------------------------------------------
(* transition.ts, css-transition.ts.  A class is a kind and a phase.  frames *)
(* are the runs whose next frame has not come, timers those that wait for    *)
(* the end event or their timer, both in the order of the calls.  met is     *)
(* history: the runs that another of their kind overlapped.                  *)
Kinds == {"enter", "leave"}
TRInit == \E m \in {"plain", "css"} :
  tr = [manager |-> m, classes |-> {}, state |-> "idle", kind |-> [r \in Runs |-> "none"], last |-> "none",
        frames |-> <<>>, timers |-> <<>>, dropped |-> {}, met |-> {}]

\* enter and leave differ in their classes only.
StartRun(s, r, k) ==
  LET others == {q \in ToSet(s.frames \o s.timers) : s.kind[q] = k}
      n == [s EXCEPT !.kind[r] = k, !.last = k, !.met = @ \cup (IF others = {} THEN {} ELSE others \cup {r})]
  IN IF s.manager = "css"
     THEN [n EXCEPT !.classes = @ \cup {<<k, "from">>, <<k, "active">>}, !.frames = Append(@, r)]
     ELSE [n EXCEPT !.classes = @ \cup {<<k, "active">>}, !.state = IF k = "enter" THEN "entering" ELSE "leaving",
                    !.timers = Append(@, r)]
NextFrame(s) ==
  LET r == Head(s.frames)
  IN [s EXCEPT !.classes = (@ \ {<<s.kind[r], "from">>}) \cup {<<s.kind[r], "to">>},
               !.frames = Tail(@), !.timers = Append(@, r)]
EndRun(s, r) ==
  LET n == [s EXCEPT !.timers = Remove(@, r), !.classes = @ \ {<<s.kind[r], "active">>, <<s.kind[r], "to">>}]
  IN IF s.manager = "css" THEN n ELSE [n EXCEPT !.state = IF s.kind[r] = "enter" THEN "entered" ELSE "left"]
\* One event reaches every listener of the element.
TransitionEnd(s) ==
  LET n == FoldLeft(EndRun, s, s.timers) IN [n EXCEPT !.classes = @ \ {<<"move", "active">>}]
ApplyMove(s) == [s EXCEPT !.classes = @ \cup {<<"move", "active">>}]
DestroyTransition(s) ==
  [s EXCEPT !.frames = <<>>, !.timers = <<>>, !.dropped = @ \cup {s.kind[r] : r \in ToSet(s.frames \o s.timers)}]

TRNext ==
  \/ \E r \in Runs, k \in Kinds : tr.kind[r] = "none" /\ tr' = StartRun(tr, r, k)
  \/ tr.frames # <<>> /\ tr' = NextFrame(tr)
  \/ tr.timers # <<>> /\ tr' = EndRun(tr, Head(tr.timers))
  \/ tr.manager = "css" /\ (tr' = TransitionEnd(tr) \/ tr' = ApplyMove(tr))
  \/ tr' = DestroyTransition(tr)

----------------------------------------------------------------------------
(* gesture.ts, createDragGesture and createSwipeGesture on one element.  A   *)
(* pointer is at its place when it goes up.  solo: no second pointer went    *)
(* down since the gesture began.                                             *)
Zero == [x |-> 0, y |-> 0]
Largest == CHOOSE p \in Places : \A q \in Places : q <= p
Points == [x : Places, y : Places \ {Largest}] \* bound: a narrow screen
Unreported == [event |-> "none", x |-> 0, y |-> 0, dx |-> 0, dy |-> 0]
GEInit == \E a \in {"both", "x", "y"}, b \in BOOLEAN, i \in {"pointer", "touch"} :
  ge = [axis |-> a, bounded |-> b, input |-> i, down |-> {}, at |-> Zero, active |-> FALSE, start |-> Zero, last |-> Zero,
        drag |-> Unreported, swipe |-> Unreported, solo |-> TRUE]

Clamp(value, least, greatest) ==
  IF value < least THEN least ELSE IF value > greatest THEN greatest ELSE value
\* The bounding box of the model leaves out the largest place.
ApplyBounds(s, p) ==
  IF s.bounded THEN [x |-> Clamp(p.x, 0, Largest - 1), y |-> Clamp(p.y, 0, Largest - 1)] ELSE p
BuildState(s, event, p) ==
  [event |-> event, x |-> p.x, y |-> p.y, dx |-> IF s.axis = "y" THEN 0 ELSE p.x - s.start.x,
   dy |-> IF s.axis = "x" THEN 0 ELSE p.y - s.start.y]
OnStart(s, f, p) ==
  LET n == [s EXCEPT !.down = @ \cup {f}, !.at = p, !.active = TRUE, !.start = p, !.last = p,
                     !.solo = s.down = {}, !.swipe = Unreported]
  IN [n EXCEPT !.drag = BuildState(n, "start", p)]
OnMove(s, p) ==
  IF ~s.active THEN [s EXCEPT !.at = p]
  ELSE LET held == [x |-> IF s.axis = "y" THEN s.start.x ELSE p.x, y |-> IF s.axis = "x" THEN s.start.y ELSE p.y]
       IN [s EXCEPT !.at = p, !.last = p, !.drag = BuildState(s, "drag", ApplyBounds(s, held))]
\* The list of touches of the last finger's end is empty.  swept: the swipe
\* was long and fast enough.
OnEnd(s, f, swept) ==
  LET up == [s EXCEPT !.down = @ \ {f}]
  IN IF ~s.active THEN up
     ELSE [up EXCEPT !.active = FALSE,
                     !.drag = BuildState(s, "end", IF s.input = "touch" /\ up.down = {} THEN Zero ELSE s.at),
                     !.swipe = IF swept /\ s.last # s.start
                               THEN [event |-> "swipe", x |-> s.last.x, y |-> s.last.y,
                                     dx |-> s.last.x - s.start.x, dy |-> s.last.y - s.start.y]
                               ELSE Unreported]

GENext ==
  \/ \E f \in Pointers \ ge.down, p \in Points : ge' = OnStart(ge, f, p)
  \/ ge.down # {} /\ \/ \E p \in Points : ge' = OnMove(ge, p)
                     \/ \E f \in ge.down, swept \in BOOLEAN : ge' = OnEnd(ge, f, swept)

----------------------------------------------------------------------------
(* gesture.ts, createPinchGesture.  Distances and scales are powers of two,  *)
(* kept as their exponents; gap is the distance of each pair of fingers.     *)
(* third: a third finger touched since the first two did.                    *)
Pairs == {p \in SUBSET Fingers : Cardinality(p) = 2}
PIInit == pi = [touches |-> <<>>, gap |-> [p \in Pairs |-> 0], initial |-> 0, scale |-> 0, base |-> 0,
                active |-> FALSE, third |-> FALSE]
TouchDistance(s) == s.gap[{s.touches[1], s.touches[2]}]
OnTouchStart(s, f) ==
  LET n == [s EXCEPT !.touches = Append(@, f)]
  IN CASE Len(n.touches) = 2 -> [n EXCEPT !.active = TRUE, !.initial = TouchDistance(n), !.base = s.scale]
       [] Len(n.touches) > 2 -> [n EXCEPT !.third = TRUE]
       [] OTHER -> n
OnTouchMove(s, gap) ==
  LET n == [s EXCEPT !.gap = gap]
  IN IF ~s.active \/ Len(s.touches) < 2 THEN n
     ELSE [n EXCEPT !.scale = Clamp(s.base + TouchDistance(n) - s.initial, -MaxScale, MaxScale)]
OnTouchEnd(s, f) ==
  LET n == [s EXCEPT !.touches = Remove(@, f)]
  IN IF Len(n.touches) < 2 THEN [n EXCEPT !.active = FALSE, !.third = FALSE] ELSE n
PINext ==
  \/ \E f \in Fingers \ ToSet(pi.touches) : pi' = OnTouchStart(pi, f)
  \/ \E f \in ToSet(pi.touches) : \/ pi' = OnTouchEnd(pi, f)
                                  \/ \E d \in 0 .. MaxGap, p \in Pairs : f \in p /\ pi' = OnTouchMove(pi, [pi.gap EXCEPT ![p] = d])

----------------------------------------------------------------------------
(* spring.ts: spring, and createSpringAnimation on it.  Every start is a     *)
(* loop with its target; frames are the loops whose next frame is requested, *)
(* timed those that had their first.  A frame shows some value.  outcome is  *)
(* how the last start ended, written: the loops that wrote after they ended. *)
Loops == 1 .. MaxStarts
SPInit == \E from, to \in Values :
  sp = [from |-> from, to |-> to, style |-> from, active |-> TRUE, rafId |-> 1, frames |-> {1}, timed |-> {},
        started |-> 1, goal |-> [l \in Loops |-> to], finished |-> FALSE, outcome |-> "runs"]
StopSpring(s) ==
  [s EXCEPT !.frames = @ \ {s.rafId}, !.rafId = 0, !.active = FALSE, !.outcome = "stopped"]
StartSpring(s, to) ==
  LET l == s.started + 1
  IN [StopSpring(s) EXCEPT !.active = TRUE, !.started = l, !.goal[l] = to, !.frames = @ \cup {l}, !.rafId = l,
                           !.outcome = "runs"]
\* The frame of loop l: s is the state after onUpdate was called.
TickEnds(s, l) ==
  [s EXCEPT !.style = s.goal[l], !.active = FALSE, !.rafId = 0, !.finished = TRUE, !.outcome = "complete"]
TickAgain(s, l) == [s EXCEPT !.rafId = l, !.frames = @ \cup {l}]
Tick(l) ==
  LET s == [sp EXCEPT !.frames = @ \ {l}]
  IN CASE ~sp.active -> sp' = s
       [] sp.active /\ l \notin sp.timed -> sp' = [TickAgain(s, l) EXCEPT !.timed = @ \cup {l}]
       [] OTHER -> \E v \in Values :
            LET shown == [s EXCEPT !.style = v]
            IN \E told \in {shown} \cup (IF Reenters /\ s.started < MaxStarts THEN {StartSpring(shown, s.from)} ELSE {}) :
                 \/ v = s.goal[l] /\ sp' = TickEnds(told, l)
                 \/ sp' = TickAgain(told, l)
\* finish shows the target of the first play, whatever ran last.
FinishSpring(s) == [StopSpring(s) EXCEPT !.style = s.to, !.finished = TRUE, !.outcome = "finished"]
CancelSpring(s) == [StopSpring(s) EXCEPT !.finished = TRUE]
SPNext ==
  \/ \E l \in sp.frames : Tick(l)
  \/ sp.started < MaxStarts /\ \E to \in {sp.from, sp.to} : sp' = StartSpring(sp, to) \* play, reverse
  \/ sp' = StopSpring(sp) \/ sp' = FinishSpring(sp) \/ sp' = CancelSpring(sp)

----------------------------------------------------------------------------
(* layout.ts, createSharedTransition.  An inline style is "" when unset.     *)
SHInit == \E w \in BOOLEAN :
  sh = [waapi |-> w, visibility |-> [e \in Elements |-> ""], opacity |-> [e \in Elements |-> ""], clones |-> {},
        from |-> [t \in Transfers |-> "none"], to |-> [t \in Transfers |-> "none"],
        wasVisibility |-> [t \in Transfers |-> ""], wasOpacity |-> [t \in Transfers |-> ""]]
StartTransfer(t, f, e) ==
  /\ sh.from[t] = "none" /\ f # e
  /\ Overlaps \/ \A u \in sh.clones : sh.from[u] # f /\ sh.to[u] # e
  /\ sh' = [sh EXCEPT !.clones = @ \cup {t}, !.from[t] = f, !.to[t] = e, !.wasVisibility[t] = sh.visibility[f],
                      !.wasOpacity[t] = sh.opacity[e], !.visibility[f] = "hidden",
                      !.opacity[e] = IF sh.waapi THEN "0" ELSE "1"]
FinishTransfer(t) ==
  /\ t \in sh.clones
  /\ sh' = [sh EXCEPT !.clones = @ \ {t}, !.visibility[sh.from[t]] = sh.wasVisibility[t],
                      !.opacity[sh.to[t]] = sh.wasOpacity[t]]
SHNext == \E t \in Transfers : FinishTransfer(t) \/ \E f, e \in Elements : StartTransfer(t, f, e)

----------------------------------------------------------------------------
(* layout.ts, flipAnimate on one element.  Without Element.animate a flip is *)
(* ended by the event of the element or its own timer; completed counts the  *)
(* calls of onComplete.                                                      *)
FPInit == \E w \in BOOLEAN :
  fp = [waapi |-> w, style |-> "", playing |-> {}, timers |-> {}, cancelled |-> {}, resolved |-> {},
        completed |-> [f \in Flips |-> 0], begun |-> {}, still |-> {}]
Flip(s, f, moved) ==
  IF ~moved THEN [s EXCEPT !.begun = @ \cup {f}, !.completed[f] = @ + 1, !.resolved = @ \cup {f}, !.still = @ \cup {f}]
  ELSE [s EXCEPT !.begun = @ \cup {f}, !.playing = @ \cup {f}, !.timers = IF s.waapi THEN @ ELSE @ \cup {f},
                 !.style = IF s.waapi THEN "inverted" ELSE "playing"]
CleanUp(s, f) ==
  IF f \in s.cancelled THEN s
  ELSE [s EXCEPT !.style = "", !.playing = @ \ {f}, !.completed[f] = @ + 1, !.resolved = @ \cup {f}]
\* With Element.animate the promise of a cancelled animation is rejected.  What
\* did not move has nothing to cancel.
CancelFlip(s, f) ==
  IF f \in s.still THEN s
  ELSE [s EXCEPT !.cancelled = @ \cup {f}, !.style = "", !.playing = @ \ {f},
                 !.resolved = IF s.waapi /\ f \in s.playing THEN @ \cup {f} ELSE @]
FPNext ==
  \/ \E f \in Flips : \/ f \notin fp.begun /\ \E moved \in BOOLEAN : fp' = Flip(fp, f, moved)
                      \/ f \in fp.begun /\ fp' = CancelFlip(fp, f)
                      \/ fp.waapi /\ f \in fp.playing /\ fp' = CleanUp(fp, f)
                      \/ f \in fp.timers /\ fp' = CleanUp([fp EXCEPT !.timers = @ \ {f}], f)
  \/ ~fp.waapi /\ fp.playing # {} /\ fp' = FoldLeft(CleanUp, fp, SetToSeq(fp.playing))

----------------------------------------------------------------------------
MotionTypes ==
  /\ tr.classes \subseteq (Kinds \X {"from", "active", "to"}) \cup {<<"move", "active">>}
  /\ ToSet(tr.frames) \cap ToSet(tr.timers) = {} /\ tr.state \in {"idle", "entering", "entered", "leaving", "left"}
  /\ ge.down \subseteq Pointers /\ ge.at \in Points
  /\ pi.scale \in -MaxScale .. MaxScale /\ pi.active <=> Len(pi.touches) >= 2
  /\ sp.frames \subseteq Loops /\ sp.style \in Values
  /\ sh.clones \subseteq Transfers /\ fp.playing \subseteq fp.begun

\* A transition class on the element belongs to a run of its kind that has not
\* ended, or that destroy dropped; a run that no other of its kind overlapped has
\* the classes of its phase (of two that did, the first to end takes them from the
\* other); once no timer is left the element is marked with the outcome of the
\* last call (css-transition.ts:224, transition.ts:52).
ClassesOwned ==
  /\ \A c \in tr.classes : c[1] \in Kinds \ tr.dropped =>
       LET mine(q) == {r \in ToSet(q) : tr.kind[r] = c[1]}
       IN CASE c[2] = "from" -> mine(tr.frames) # {}
            [] c[2] = "to" -> mine(tr.timers) # {}
            [] OTHER -> mine(tr.frames \o tr.timers) # {}
  /\ \A r \in ToSet(tr.frames \o tr.timers) \ tr.met :
       /\ <<tr.kind[r], "active">> \in tr.classes
       /\ r \in ToSet(tr.frames) => <<tr.kind[r], "from">> \in tr.classes
       /\ tr.manager = "css" /\ r \in ToSet(tr.timers) => <<tr.kind[r], "to">> \in tr.classes
  /\ tr.manager = "plain" /\ tr.last # "none" /\ tr.dropped = {} /\ tr.timers = <<>> =>
       tr.state = IF tr.last = "enter" THEN "entered" ELSE "left"

\* With one pointer the two recognisers of an element report the same
\* displacement, on the axes the drag is free on (gesture.ts:203, :302).
GesturesAgree ==
  ge.swipe.event = "swipe" /\ ge.solo /\ ge.input = "pointer" =>
    /\ ge.drag.event = "end"
    /\ ge.axis # "y" => ge.drag.dx = ge.swipe.dx
    /\ ge.axis # "x" => ge.drag.dy = ge.swipe.dy

\* The scale grows only when the fingers move apart, and shrinks only when they
\* close, from one gesture to the next as well (gesture.ts:380).
ScaleFollows ==
  [][pi.active /\ pi'.active /\ ~pi'.third /\ pi'.scale # pi.scale =>
       (pi'.scale > pi.scale <=> TouchDistance(pi') > TouchDistance(pi))]_pi

\* One loop runs at a time and stop can reach it; a spring that came to its
\* end, or was finished, shows the value it ended at (spring.ts:95, :146).
SpringRests ==
  /\ Cardinality(sp.frames) <= 1
  /\ sp.frames # {} => sp.active /\ sp.rafId \in sp.frames
  /\ sp.outcome = "complete" => sp.style = sp.goal[sp.started] /\ sp.finished
  /\ sp.outcome = "finished" => sp.style = sp.to /\ sp.finished

\* When no shared transition runs, nothing is left hidden; a flip leaves no
\* inline style, and one played by the browser resolves once, cancelled or not
\* (layout.ts:379, :200).
LayoutRests ==
  /\ sh.clones = {} => \A e \in Elements : sh.visibility[e] = "" /\ sh.opacity[e] = ""
  /\ fp.playing = {} => fp.style = ""
  /\ fp.waapi => /\ fp.resolved = fp.begun \ fp.playing
                 /\ \A f \in Flips : fp.completed[f] <= 1

MotionRests == ClassesOwned /\ GesturesAgree /\ SpringRests /\ LayoutRests
=============================================================================
