------------------------------ MODULE ClogCache ------------------------------
(* storage/txn/clog.vais: transaction statuses packed two bits each into bytes,
   in a window of cached pages that slides up when a later page is needed.
   Nothing in the repository writes a page that leaves the window, or loads one.
   TxnManager takes the CLOG for a plain table; this module says when it is. *)
EXTENDS Naturals, Sequences

CONSTANTS
  PageBytes,   \* bytes of statuses in a page
  CachePages,  \* pages in the window
  MaxId        \* bound: transaction ids handed out

ASSUME ClogAssumption ==
  PageBytes \in Nat \ {0} /\ CachePages \in Nat \ {0} /\ MaxId \in Nat

VARIABLES
  cache,            \* the pages of the window, lowest first
  cache_base_page,  \* page number of the first one
  status            \* history: the status last set for each id begun

cvars == <<cache, cache_base_page, status>>

InProgress == 0
Committed == 1
Aborted == 2

txns_per_page == 4 * PageBytes
PageNum(t) == t \div txns_per_page
BlankPage == [b \in 0..PageBytes - 1 |-> 0]

\* Four statuses in a byte, the first in the lowest bits.
ByteOf(t) == (t % txns_per_page) \div 4
Weight(t) == <<1, 4, 16, 64>>[(t % 4) + 1]
PageGet(page, t) == (page[ByteOf(t)] \div Weight(t)) % 4

PageSet(page, t, s) ==
  [page EXCEPT ![ByteOf(t)] = @ - PageGet(page, t) * Weight(t) + s * Weight(t)]

Cached(base, p) == p >= base /\ p < base + CachePages

\* Broken variant: the window moves to start at the page asked for.
BadEnsurePageCached(p) ==
  IF p < cache_base_page + CachePages THEN [base |-> cache_base_page, pages |-> cache]
  ELSE [base |-> p, pages |-> [i \in 1..CachePages |-> BlankPage]]

\* The window after ensure_page_cached(p): a page above it is reached by dropping
\* the lowest pages; a page below it is not brought back.
EnsurePageCached(p) ==
  IF p < cache_base_page + CachePages THEN [base |-> cache_base_page, pages |-> cache]
  ELSE LET new_base == p + 1 - CachePages
           shift == new_base - cache_base_page
           limit == IF shift < CachePages THEN shift ELSE CachePages
       IN  [base |-> new_base,
            pages |-> SubSeq(cache, limit + 1, CachePages)
                        \o [i \in 1..limit |-> BlankPage]]

Index(base, p) == p - base + 1

\* What a reader is told of t.
GetStatus(t) ==
  LET w == EnsurePageCached(PageNum(t))
  IN  IF Cached(w.base, PageNum(t))
      THEN PageGet(w.pages[Index(w.base, PageNum(t))], t) ELSE InProgress

\* set_status: without a cached page the status is dropped.
SetStatus(t, s) ==
  LET w == EnsurePageCached(PageNum(t))
      i == Index(w.base, PageNum(t))
  IN  /\ cache_base_page' = w.base
      /\ cache' = IF Cached(w.base, PageNum(t))
                  THEN [w.pages EXCEPT ![i] = PageSet(@, t, s)] ELSE w.pages

-----------------------------------------------------------------------------
ClogInit ==
  /\ cache = [i \in 1..CachePages |-> BlankPage]
  /\ cache_base_page = 0
  /\ status = <<>>

\* begin hands out the next id, starting at 1.
Begin ==
  /\ Len(status) < MaxId
  /\ SetStatus(Len(status) + 1, InProgress)
  /\ status' = Append(status, InProgress)

\* commit decides a transaction that is still open, however old; abort asks only
\* that it exists, and may write over an outcome.
Decide(t, s) ==
  /\ s = Committed => status[t] = InProgress
  /\ SetStatus(t, s)
  /\ status' = [status EXCEPT ![t] = s]

ClogNext == Begin \/ \E t \in DOMAIN status : Decide(t, Committed) \/ Decide(t, Aborted)

ClogSpec == ClogInit /\ [][ClogNext]_cvars

-----------------------------------------------------------------------------
(* Properties *)

\* The window is always full, of bytes.
ClogTypeOK ==
  /\ cache \in [1..CachePages -> [0..PageBytes - 1 -> 0..255]]
  /\ cache_base_page \in Nat
  /\ status \in Seq({InProgress, Committed, Aborted})

\* Neighbours packed into one byte, and pages moved by a slide, keep what was set
\* for them: inside the window the CLOG answers what commit and abort wrote.
WindowExact ==
  \A t \in DOMAIN status : PageNum(t) >= cache_base_page => GetStatus(t) = status[t]

\* The window drops no page before it has to.
WindowFull ==
  \A t \in DOMAIN status :
    PageNum(t) + CachePages > PageNum(Len(status)) => PageNum(t) >= cache_base_page

\* The comment's claim, that a miss no longer makes a committed transaction
\* appear uncommitted.
CommittedStays ==
  \A t \in DOMAIN status : status[t] = Committed => GetStatus(t) = Committed
=============================================================================
