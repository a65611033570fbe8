--------------------------- MODULE InfiniteQuery ---------------------------
(* packages/vais-web/packages/query: createInfiniteQuery (infinite.ts).      *)
(* A page is its own page parameter, a number; getNextPageParam of the last  *)
(* page n is n + 1, getPreviousPageParam of the first is n - 1, between      *)
(* MinPage and MaxPage.                                                      *)
EXTENDS Integers, Sequences, SequencesExt

CONSTANTS MinPage, MaxPage,  \* the pages the server has; page 0 is the initial one
          PageRetry,         \* options.retry
          MaxPages,          \* bound: pages held at once
          MaxRuns            \* bound: fetches under way at once

VARIABLE iq

\* What the theorems ask of the constants: the server has the initial page.
PagesAssumption == /\ {MinPage, MaxPage} \subseteq Int /\ MinPage <= 0 /\ 0 <= MaxPage
                   /\ {PageRetry, MaxPages, MaxRuns} \subseteq Nat

None == MaxPage + 1
\* flagged: the flag of its direction is up, and only the run itself has put it there.
Run(d, p) == [dir |-> d, param |-> p, attempt |-> 0, flagged |-> TRUE]

\* enabled: the initial page is fetched at once.
IQInit == iq = [pages |-> <<>>, status |-> "loading", next |-> None, prev |-> None,
                fetching |-> TRUE, fetchingNext |-> FALSE, fetchingPrev |-> FALSE,
                runs |-> <<Run("initial", 0)>>,
                doubled |-> FALSE]  \* history: see Doubles

NextParam(pages) == IF pages = <<>> \/ pages[Len(pages)] >= MaxPage THEN None
                    ELSE pages[Len(pages)] + 1
PrevParam(pages) == IF pages = <<>> \/ pages[1] <= MinPage THEN None ELSE pages[1] - 1

UpdateDerivedParams(s) == [s EXCEPT !.next = NextParam(s.pages), !.prev = PrevParam(s.pages)]

\* A refetch begins during a fetch, or a fetch during one of its own direction
\* whose flag the end of another has reset.
Doubles(s, d) ==
  \E k \in 1 .. Len(s.runs) : d = "initial" \/ (s.runs[k].dir = d /\ ~s.runs[k].flagged)

\* fetchPage up to its await.
FetchPage(s, d, param) ==
  [s EXCEPT !.fetching = TRUE,
            !.fetchingNext = @ \/ d = "next",
            !.fetchingPrev = @ \/ d = "previous",
            !.status = IF @ \in {"idle", "error"} THEN "loading" ELSE @,
            !.runs = Append(@, Run(d, param)),
            !.doubled = @ \/ Doubles(s, d)]

\* Broken variant: a second fetch of the next page may start.
FetchNextPageTwice ==
  /\ iq.next # None
  /\ Len(iq.runs) < MaxRuns
  /\ iq' = FetchPage(iq, "next", iq.next)
FetchNextPage ==
  /\ iq.next # None /\ ~iq.fetchingNext
  /\ Len(iq.runs) < MaxRuns
  /\ iq' = FetchPage(iq, "next", iq.next)

FetchPreviousPage ==
  /\ iq.prev # None /\ ~iq.fetchingPrev
  /\ Len(iq.runs) < MaxRuns
  /\ iq' = FetchPage(iq, "previous", iq.prev)

\* Not guarded by a running fetch, whose page will still be added.
RefetchPages ==
  /\ Len(iq.runs) < MaxRuns
  /\ iq' = FetchPage([iq EXCEPT !.pages = <<>>, !.next = None, !.prev = None,
                                !.status = "idle"], "initial", 0)

\* The last lines of fetchPage: the flags of every direction are reset.
Finish(s, k) ==
  LET left == RemoveAt(s.runs, k)
  IN [s EXCEPT !.runs = [j \in 1 .. Len(left) |-> [left[j] EXCEPT !.flagged = FALSE]],
               !.fetching = FALSE, !.fetchingNext = FALSE, !.fetchingPrev = FALSE]

PageArrives(k) ==
  /\ Len(iq.pages) < MaxPages
  /\ LET page == iq.runs[k].param
         pages == IF iq.runs[k].dir = "previous" THEN <<page>> \o iq.pages
                  ELSE Append(iq.pages, page)
     IN iq' = Finish(UpdateDerivedParams([iq EXCEPT !.pages = pages, !.status = "success"]), k)

PageFails(k) ==
  /\ iq.runs[k].attempt < PageRetry
  /\ iq' = [iq EXCEPT !.runs[k].attempt = @ + 1]

\* The attempts are used up, or the function returned undefined.
PageGivesUp(k) ==
  iq' = Finish([iq EXCEPT !.status = "error"], k)

IQNext == FetchNextPage \/ FetchPreviousPage \/ RefetchPages
          \/ \E k \in 1 .. Len(iq.runs) : PageArrives(k) \/ PageFails(k) \/ PageGivesUp(k)

----------------------------------------------------------------------------
IQTypeOK ==
  /\ iq.pages \in UNION {[1 .. n -> MinPage .. MaxPage] : n \in 0 .. MaxPages}
  /\ iq.status \in {"idle", "loading", "success", "error"}

\* The pages shown are consecutive, each once, whichever of a next and a
\* previous fetch that overlap ends first.  Two things break it: a refetch
\* during a fetch, and the end of one direction's fetch, which resets both
\* flags, after which the other direction may fetch its page a second time
\* (infinite.ts:263, 296, 303).
PagesConsecutive ==
  ~iq.doubled => \A k \in 1 .. Len(iq.pages) - 1 : iq.pages[k + 1] = iq.pages[k] + 1
=============================================================================
