------------------------- MODULE EngineSuite_proofs -------------------------
(* The commit log's window and the write-ahead log; and what the parts of the
   storage engine prove of themselves, for the engine. *)
EXTENDS EngineSuite, Induction

-----------------------------------------------------------------------------
(* The commit log's window: for every size of page and of window it answers what
   was last set, and slides no sooner than it must. *)

Weights == {1, 4, 16, 64}
Digit(x, w) == (x \div w) % 4
WithDigit(x, w, s) == x - Digit(x, w) * w + s * w
BytePage == [0..PageBytes - 1 -> 0..255]

LEMMA DigitRange ==
  ASSUME NEW x \in 0..255, NEW w \in Weights, NEW s \in 0..3
  PROVE  WithDigit(x, w, s) \in 0..255
  BY DEF Digit, WithDigit, Weights

\* Setting one of the four statuses of a byte leaves the other three alone.
LEMMA DigitSet ==
  ASSUME NEW x \in 0..255, NEW w \in Weights, NEW v \in Weights, NEW s \in 0..3
  PROVE  /\ Digit(WithDigit(x, w, s), w) = s
         /\ v # w => Digit(WithDigit(x, w, s), v) = Digit(x, v)
<1> DEFINE y == WithDigit(x, w, s)
<1>1. Digit(y, w) = s
  BY DEF Digit, WithDigit, Weights
<1>2. ASSUME v # w PROVE Digit(y, v) = Digit(x, v)
  <2>1. CASE v = 1
    BY <1>2, <2>1 DEF Digit, WithDigit, Weights
  <2>2. CASE v = 4
    BY <1>2, <2>2 DEF Digit, WithDigit, Weights
  <2>3. CASE v = 16
    BY <1>2, <2>3 DEF Digit, WithDigit, Weights
  <2>4. CASE v = 64
    BY <1>2, <2>4 DEF Digit, WithDigit, Weights
  <2> QED
    BY <2>1, <2>2, <2>3, <2>4 DEF Weights
<1> QED
  BY <1>1, <1>2

LEMMA WeightOf ==
  ASSUME NEW t \in Nat, NEW u \in Nat
  PROVE  Weight(t) \in Weights /\ (t % 4 # u % 4 => Weight(t) # Weight(u))
<1>1. t % 4 \in 0..3 /\ u % 4 \in 0..3
  OBVIOUS
<1> DEFINE W == <<1, 4, 16, 64>>
<1>2. W[1] = 1 /\ W[2] = 4 /\ W[3] = 16 /\ W[4] = 64
  OBVIOUS
<1> HIDE DEF W
<1>3. ASSUME NEW k \in 0..3 PROVE W[k + 1] \in Weights 
  <2>1. k = 0 \/ k = 1 \/ k = 2 \/ k = 3
    OBVIOUS
  <2> QED
    BY <1>2, <2>1 DEF Weights
<1>4. ASSUME NEW k \in 0..3, NEW j \in 0..3, W[k + 1] = W[j + 1] PROVE k = j
  <2>1. (k = 0 \/ k = 1 \/ k = 2 \/ k = 3) /\ (j = 0 \/ j = 1 \/ j = 2 \/ j = 3)
    OBVIOUS
  <2> QED
    BY <1>2, <1>4, <2>1
<1> QED
  BY <1>1, <1>3, <1>4 DEF Weight, W

\* Where the status of t lies: on which page, in which byte, at which weight.
LEMMA PlaceOf ==
  ASSUME NEW t \in Nat
  PROVE  PageNum(t) \in Nat /\ ByteOf(t) \in 0..PageBytes - 1
<1>1. PageBytes \in Nat \ {0} /\ txns_per_page = 4 * PageBytes
  BY ClogAssumption DEF txns_per_page
<1> DEFINE d == txns_per_page
<1>2. d \in Nat \ {0} /\ d = 4 * PageBytes
  BY <1>1
<1> HIDE DEF d
<1>3. t \div d \in Nat /\ t % d \in 0..d - 1
  BY <1>2
<1>4. (t % d) \div 4 \in 0..PageBytes - 1
  BY <1>1, <1>2, <1>3
<1> QED
  BY <1>3, <1>4 DEF PageNum, ByteOf, d

\* No two ids share a place.
LEMMA SamePlace ==
  ASSUME NEW t \in Nat, NEW u \in Nat, PageNum(t) = PageNum(u), ByteOf(t) = ByteOf(u),
         t % 4 = u % 4
  PROVE  t = u
<1> DEFINE d == txns_per_page
           q == t \div d
           a == t % d
           b == u % d
<1>1. PageBytes \in Nat \ {0} /\ d \in Nat \ {0} /\ d = 4 * PageBytes
  BY ClogAssumption DEF txns_per_page
<1>2. u \div d = q /\ a \div 4 = b \div 4
  BY DEF PageNum, ByteOf
<1> HIDE DEF d
<1>6. t \div d \in Nat /\ t % d \in Nat /\ t = ((t \div d) * d) + (t % d)
  BY <1>1
<1>7. u \div d \in Nat /\ u % d \in Nat /\ u = ((u \div d) * d) + (u % d)
  BY <1>1
<1>3. q \in Nat /\ a \in Nat /\ b \in Nat /\ t = (q * d) + a /\ u = (q * d) + b
  BY <1>2, <1>6, <1>7
<1> DEFINE m == q * PageBytes
<1> HIDE DEF q, a, b
<1>4. m \in Nat /\ q * d = 4 * m
  BY <1>1, <1>3
<1> HIDE DEF m
<1>5. t % 4 = a % 4 /\ u % 4 = b % 4
  BY <1>3, <1>4
<1> QED
  BY <1>2, <1>3, <1>5

\* Pages are passed in order, one at a time.
LEMMA PagesInOrder ==
  ASSUME NEW t \in Nat, NEW u \in Nat, t <= u
  PROVE  PageNum(t) <= PageNum(u) /\ (u = t + 1 => PageNum(u) <= PageNum(t) + 1)
<1> DEFINE d == txns_per_page
<1>1. d \in Nat \ {0}
  BY ClogAssumption DEF txns_per_page
<1> HIDE DEF d
<1> DEFINE p == t \div d
           q == u \div d
           a == t % d
           b == u % d
<1>2. /\ p \in Nat /\ q \in Nat /\ a \in 0..d - 1 /\ b \in 0..d - 1
      /\ t = (p * d) + a /\ u = (q * d) + b
  BY <1>1
<1> HIDE DEF p, q, a, b
<1>3. p <= q
  <2> SUFFICES ASSUME q + 1 <= p PROVE FALSE
    BY <1>2
  <2>1. (q + 1) * d <= p * d
    BY <1>1, <1>2
  <2> QED
    BY <1>1, <1>2, <2>1
<1>4. ASSUME u = t + 1 PROVE q <= p + 1
  <2> SUFFICES ASSUME p + 2 <= q PROVE FALSE
    BY <1>2
  <2>1. (p + 2) * d <= q * d
    BY <1>1, <1>2
  <2> QED
    BY <1>1, <1>2, <1>4, <2>1
<1> QED
  BY <1>3, <1>4 DEF PageNum, p, q, d

\* What set writes get returns, and every other id of the page keeps its status.
LEMMA SetThenGet ==
  ASSUME NEW page \in BytePage, NEW t \in Nat, NEW u \in Nat, PageNum(t) = PageNum(u),
         NEW s \in 0..3
  PROVE  /\ PageSet(page, t, s) \in BytePage
         /\ PageGet(PageSet(page, t, s), t) = s
         /\ u # t => PageGet(PageSet(page, t, s), u) = PageGet(page, u)
<1> DEFINE i == ByteOf(t)
           w == Weight(t)
           x == page[i]
           y == WithDigit(x, w, s)
<1>1. i \in 0..PageBytes - 1 /\ ByteOf(u) \in 0..PageBytes - 1 /\ w \in Weights
  BY PlaceOf, WeightOf
<1>2. x \in 0..255
  BY <1>1 DEF BytePage
<1>4. PageSet(page, t, s) = [page EXCEPT ![i] = y]
  BY DEF PageSet, PageGet, Digit, WithDigit
<1>7. \A b : i = b <=> ByteOf(t) = b
  OBVIOUS
<1>8. y = WithDigit(x, w, s) /\ w = Weight(t) /\ x = page[i]
  OBVIOUS
<1> HIDE DEF i, w, x, y
<1>9. y \in 0..255
  <2>1. WithDigit(x, w, s) \in 0..255
    BY <1>1, <1>2, DigitRange, ZenonT(20)
  <2> QED
    BY <1>8, <2>1
<1>10. ASSUME NEW v \in Weights
       PROVE  /\ Digit(WithDigit(x, w, s), w) = s
              /\ v # w => Digit(WithDigit(x, w, s), v) = Digit(x, v)
  BY <1>1, <1>2, DigitSet
<1>3. y \in 0..255 /\ Digit(y, w) = s
  <2>1. Digit(WithDigit(x, w, s), w) = s
    BY <1>1, <1>10
  <2>2. \A b : b = WithDigit(x, w, s) => Digit(b, w) = s
    BY <2>1
  <2> QED
    BY <1>8, <1>9, <2>2
<1>5. PageGet(PageSet(page, t, s), t) = s
  <2>1. ByteOf(t) = i /\ PageSet(page, t, s)[i] = y
    BY <1>1, <1>4, <1>7 DEF BytePage
  <2>2. \A b, v : b = y /\ v = w => Digit(b, v) = s
    BY <1>3
  <2>3. PageGet(PageSet(page, t, s), t) = Digit(PageSet(page, t, s)[ByteOf(t)], Weight(t))
    BY DEF PageGet, Digit
  <2> QED
    BY <1>8, <2>1, <2>2, <2>3
<1>6. ASSUME u # t PROVE PageGet(PageSet(page, t, s), u) = PageGet(page, u)
  <2>1. CASE ByteOf(u) # i
    BY <1>1, <1>4, <1>7, <2>1 DEF BytePage, PageGet
  <2>2. CASE ByteOf(u) = i
    <3>1. t % 4 # u % 4
      BY <1>6, <1>7, <2>2, SamePlace
    <3>2. Weight(u) \in Weights /\ Weight(u) # w
      BY <3>1, <1>8, WeightOf
    <3>3. Digit(y, Weight(u)) = Digit(x, Weight(u))
      BY <1>8, <1>10, <3>2
    <3> QED
      BY <1>1, <1>4, <1>7, <1>8, <2>2, <3>3 DEF BytePage, PageGet, Digit
  <2> QED
    BY <2>1, <2>2
<1> QED
  BY <1>1, <1>3, <1>4, <1>5, <1>6 DEF BytePage

-----------------------------------------------------------------------------
(* The window *)

\* The window ends at the page of the last id handed out.
Lowest(n) == IF PageNum(n) < CachePages THEN 0 ELSE PageNum(n) + 1 - CachePages

\* The cached pages hold the status last set of every id they have room for.
StatusWritten ==
  \A t \in DOMAIN status : PageNum(t) >= cache_base_page =>
    PageGet(cache[Index(cache_base_page, PageNum(t))], t) = status[t]

ClogInv == ClogTypeOK /\ cache_base_page = Lowest(Len(status)) /\ StatusWritten

WindowPages == [1..CachePages -> BytePage]

LEMMA BlankIsPage == BlankPage \in BytePage
  BY ClogAssumption DEF BlankPage, BytePage

LEMMA LowestIs ==
  ASSUME NEW n \in Nat
  PROVE  /\ Lowest(n) \in Nat
         /\ Lowest(n) <= PageNum(n) /\ PageNum(n) < Lowest(n) + CachePages
         /\ Lowest(n + 1) = IF PageNum(n + 1) < Lowest(n) + CachePages
                            THEN Lowest(n) ELSE Lowest(n) + 1
<1>1. /\ PageNum(n) \in Nat /\ PageNum(n + 1) \in Nat /\ CachePages \in Nat \ {0}
      /\ PageNum(n) <= PageNum(n + 1) /\ PageNum(n + 1) <= PageNum(n) + 1
  BY PlaceOf, PagesInOrder, ClogAssumption
<1> QED
  BY <1>1 DEF Lowest

\* A slide to the next page keeps the content of the pages that stay.
LEMMA SlideKeeps ==
  ASSUME cache \in WindowPages, cache_base_page \in Nat,
         NEW p \in Nat, p <= cache_base_page + CachePages
  PROVE  LET w == EnsurePageCached(p)
         IN  /\ w.base = IF p < cache_base_page + CachePages
                         THEN cache_base_page ELSE cache_base_page + 1
             /\ w.pages \in WindowPages
             /\ \A q \in Nat : q >= w.base /\ q < cache_base_page + CachePages =>
                  w.pages[Index(w.base, q)] = cache[Index(cache_base_page, q)]
<1> DEFINE b == cache_base_page
           n == CachePages
           w == EnsurePageCached(p)
<1>1. n \in Nat \ {0} /\ b \in Nat
  BY ClogAssumption
<1>2. CASE p < b + n
  <2>1. w = [base |-> b, pages |-> cache]
    BY <1>2 DEF EnsurePageCached
  <2> QED
    BY <1>2, <2>1
<1>3. CASE ~(p < b + n)
  <2> DEFINE moved(base, limit) ==
               [base |-> base, pages |-> SubSeq(cache, limit + 1, n) \o [i \in 1..limit |-> BlankPage]]
             shift == (p + 1 - n) - b
             rest == SubSeq(cache, 2, n)
             blank == [i \in 1..1 |-> BlankPage]
  <2>13. w = IF p < b + n THEN [base |-> b, pages |-> cache]
             ELSE moved(p + 1 - n, IF shift < n THEN shift ELSE n)
    BY DEF EnsurePageCached
  <2> HIDE DEF moved, shift, w
  <2>1. w = moved(p + 1 - n, IF shift < n THEN shift ELSE n)
    BY <1>3, <2>13
  <2> USE DEF moved, shift
  <2>2. p + 1 - n = b + 1 /\ (IF shift < n THEN shift ELSE n) = 1
    BY <1>1, <1>3
  <2>11. moved(b + 1, 1) = [base |-> b + 1, pages |-> rest \o blank]
    OBVIOUS
  <2> HIDE DEF moved, shift
  <2>3. w = [base |-> b + 1, pages |-> rest \o blank]
    BY <2>1, <2>2, <2>11
  <2>4. cache \in Seq(BytePage) /\ Len(cache) = n
    BY <1>1 DEF WindowPages
  <2>5. /\ rest \in Seq(BytePage) /\ Len(rest) = n - 1
        /\ \A i \in 1..n - 1 : rest[i] = cache[i + 1]
    BY <1>1, <2>4
  <2>6. blank \in Seq(BytePage) /\ Len(blank) = 1
    BY BlankIsPage
  <2> HIDE DEF rest, blank
  <2> DEFINE pages == rest \o blank
  <2>14. pages \in Seq(BytePage)
    BY <2>5, <2>6
  <2>16. rest \in Seq(BytePage) /\ blank \in Seq(BytePage)
    BY <2>5, <2>6
  <2>15. Len(pages) = Len(rest) + Len(blank)
    BY <2>16
  <2>7. pages \in Seq(BytePage) /\ Len(pages) = n
    BY <1>1, <2>5, <2>6, <2>14, <2>15
  <2>12. \A i \in 1..n - 1 : pages[i] = cache[i + 1]
    BY <1>1, <2>5, <2>6
  <2>8. w.base = b + 1 /\ w.pages = pages
    BY <2>3
  <2> HIDE DEF pages, w, b, n
  <2>9. pages \in WindowPages
    BY <1>1, <2>7 DEF WindowPages, n
  <2>10. ASSUME NEW q \in Nat, q >= b + 1, q < b + n
         PROVE  pages[q - (b + 1) + 1] = cache[q - b + 1]
    <3> DEFINE i == q - b
    <3>1. i \in 1..n - 1 /\ q - (b + 1) + 1 = i /\ q - b + 1 = i + 1
      BY <1>1, <2>10
    <3> QED
      BY <2>12, <3>1
  <2> QED
    BY <1>3, <2>8, <2>9, <2>10 DEF Index, b, n, w
<1> QED
  BY <1>2, <1>3

\* set_status changes the status of its id and of no other in the window.
LEMMA StatusSet ==
  ASSUME cache \in WindowPages, cache_base_page \in Nat,
         NEW t \in Nat, NEW s \in 0..2, PageNum(t) <= cache_base_page + CachePages,
         SetStatus(t, s)
  PROVE  /\ cache_base_page' = IF PageNum(t) < cache_base_page + CachePages
                               THEN cache_base_page ELSE cache_base_page + 1
         /\ cache' \in WindowPages
         /\ PageNum(t) >= cache_base_page' =>
              PageGet(cache'[Index(cache_base_page', PageNum(t))], t) = s
         /\ \A u \in Nat :
              u # t /\ PageNum(u) >= cache_base_page' /\ PageNum(u) < cache_base_page + CachePages =>
                PageGet(cache'[Index(cache_base_page', PageNum(u))], u)
                  = PageGet(cache[Index(cache_base_page, PageNum(u))], u)
<1> DEFINE b == cache_base_page
           n == CachePages
           p == PageNum(t)
           w == EnsurePageCached(p)
           i == Index(w.base, p)
<1>1. n \in Nat \ {0} /\ b \in Nat /\ p \in Nat
  BY ClogAssumption, PlaceOf
<1>2. /\ w.base = IF p < b + n THEN b ELSE b + 1
      /\ w.pages \in WindowPages
      /\ \A q \in Nat : q >= w.base /\ q < b + n => w.pages[Index(w.base, q)] = cache[Index(b, q)]
  BY <1>1, SlideKeeps
<1>3. cache_base_page' = w.base
  BY DEF SetStatus
<1>4. CASE ~Cached(w.base, p)
  <2>1. cache' = w.pages
    BY <1>4 DEF SetStatus
  <2>2. ~(p >= w.base)
    BY <1>1, <1>2, <1>4 DEF Cached
  <2>3. \A u \in Nat : PageNum(u) \in Nat
    BY PlaceOf
  <2> QED
    BY <1>2, <1>3, <2>1, <2>2, <2>3
<1>5. CASE Cached(w.base, p)
  <2>1. cache' = [w.pages EXCEPT ![i] = PageSet(w.pages[i], t, s)]
    BY <1>5 DEF SetStatus
  <2>2. w.base \in Nat /\ p >= w.base /\ p < w.base + n
    BY <1>1, <1>2, <1>5 DEF Cached
  <2>3. i \in 1..n
    BY <1>1, <2>2 DEF Index
  <2>9. s \in 0..3
    OBVIOUS
  <2>10. w.pages \in [1..n -> BytePage]
    BY <1>2 DEF WindowPages
  <2>4. w.pages[i] \in BytePage
    BY <2>3, <2>10
  <2> DEFINE pages == w.pages
             base == w.base
             new == PageSet(pages[i], t, s)
  <2>5. new \in BytePage /\ PageGet(new, t) = s
    BY <2>4, <2>9, SetThenGet
  <2>6. ASSUME NEW u \in Nat, u # t, PageNum(u) = p PROVE PageGet(new, u) = PageGet(pages[i], u)
    BY <2>4, <2>6, <2>9, SetThenGet
  <2> HIDE DEF w, i, new
  <2>7. cache' \in WindowPages /\ cache'[i] = new /\ \A j \in 1..n : j # i => cache'[j] = pages[j]
    BY <1>2, <2>1, <2>3, <2>5 DEF WindowPages, new
  <2>8. ASSUME NEW u \in Nat, u # t, PageNum(u) >= base, PageNum(u) < b + n
        PROVE  PageGet(cache'[Index(base, PageNum(u))], u)
                 = PageGet(cache[Index(b, PageNum(u))], u)
    <3>1. PageNum(u) \in Nat /\ base \in Nat /\ b <= base
      BY <1>1, <1>2, <2>2, PlaceOf
    <3>2. pages[Index(base, PageNum(u))] = cache[Index(b, PageNum(u))]
      BY <1>2, <2>8, <3>1
    <3>3. CASE PageNum(u) = p
      BY <2>6, <2>7, <2>8, <3>2, <3>3 DEF i
    <3>4. CASE PageNum(u) # p
      <4>1. Index(base, PageNum(u)) \in 1..n /\ Index(base, PageNum(u)) # i
        BY <1>1, <2>2, <2>8, <3>1, <3>4 DEF Index, i
      <4> QED
        BY <2>7, <3>2, <4>1
    <3> QED
      BY <3>3, <3>4
  <2> QED
    BY <1>2, <1>3, <2>5, <2>7, <2>8 DEF i
<1> QED
  BY <1>4, <1>5

LEMMA ClogInitial == ClogInit => ClogInv
<1> SUFFICES ASSUME ClogInit PROVE ClogInv
  OBVIOUS
<1> DEFINE e == <<>>
<1>1. status = e /\ e \in Seq({InProgress, Committed, Aborted}) /\ Len(e) = 0
  BY DEF ClogInit
<1> HIDE DEF e
<1>2. PageNum(0) = 0 /\ CachePages \in Nat \ {0}
  BY ClogAssumption DEF PageNum, txns_per_page
<1>3. Len(status) = 0 /\ Lowest(0) = 0
  BY <1>1, <1>2 DEF Lowest
<1>4. ClogTypeOK
  BY <1>1, BlankIsPage DEF ClogInit, ClogTypeOK, BytePage
<1>5. StatusWritten
  BY <1>1 DEF StatusWritten
<1> QED
  BY <1>3, <1>4, <1>5 DEF ClogInit, ClogInv

\* The facts about the window every step starts from.
LEMMA WindowFacts ==
  ASSUME ClogInv
  PROVE  /\ cache \in WindowPages /\ cache_base_page \in Nat /\ CachePages \in Nat \ {0}
         /\ status \in Seq(0..2) /\ Len(status) \in Nat /\ DOMAIN status = 1..Len(status)
         /\ \A u \in DOMAIN status : /\ u \in Nat /\ PageNum(u) \in Nat
                                     /\ PageNum(u) < cache_base_page + CachePages
         /\ PageNum(Len(status) + 1) <= cache_base_page + CachePages
<1>1. /\ cache \in WindowPages /\ cache_base_page \in Nat /\ CachePages \in Nat \ {0}
      /\ status \in Seq(0..2)
  <2>1. {InProgress, Committed, Aborted} = 0..2
    BY DEF InProgress, Committed, Aborted
  <2> QED
    BY <2>1, ClogAssumption DEF ClogInv, ClogTypeOK, WindowPages, BytePage
<1>2. Len(status) \in Nat /\ DOMAIN status = 1..Len(status)
  BY <1>1
<1> DEFINE n == Len(status)
<1> HIDE DEF n
<1>3. n \in Nat /\ n = Len(status) /\ cache_base_page = Lowest(n)
  BY <1>2 DEF ClogInv, n
<1>4. PageNum(n) < cache_base_page + CachePages /\ PageNum(n) \in Nat /\ PageNum(n + 1) \in Nat
  BY <1>3, LowestIs, PlaceOf
<1>5. PageNum(n + 1) <= PageNum(n) + 1
  BY <1>3, PagesInOrder
<1>6. ASSUME NEW u \in 1..n
      PROVE  u \in Nat /\ PageNum(u) \in Nat /\ PageNum(u) < cache_base_page + CachePages
  <2>1. u \in Nat /\ u <= n
    BY <1>3
  <2>2. PageNum(u) \in Nat /\ PageNum(u) <= PageNum(n)
    BY <1>3, <2>1, PlaceOf, PagesInOrder
  <2> QED
    BY <1>1, <1>4, <2>1, <2>2
<1> QED
  BY <1>1, <1>2, <1>3, <1>4, <1>5, <1>6

LEMMA StatusesAre == {InProgress, Committed, Aborted} = 0..2
  BY DEF InProgress, Committed, Aborted

LEMMA ClogBegin == ASSUME ClogInv, Begin PROVE ClogInv'
<1> DEFINE n == Len(status)
           t == n + 1
<1>1. /\ cache \in WindowPages /\ cache_base_page \in Nat /\ CachePages \in Nat \ {0}
      /\ status \in Seq(0..2) /\ n \in Nat /\ DOMAIN status = 1..n
      /\ \A u \in 1..n : /\ u \in Nat /\ PageNum(u) \in Nat
                         /\ PageNum(u) < cache_base_page + CachePages
      /\ PageNum(t) <= cache_base_page + CachePages
  BY WindowFacts
<1>2. SetStatus(t, 0) /\ status' = Append(status, 0)
  BY DEF Begin, InProgress
<1>3. /\ status' \in Seq(0..2) /\ Len(status') = t /\ DOMAIN status' = 1..t
      /\ status'[t] = 0 /\ \A u \in 1..n : status'[u] = status[u]
  BY <1>1, <1>2
<1>4. cache_base_page = Lowest(n)
  BY DEF ClogInv
<1>5. Lowest(t) = IF PageNum(t) < Lowest(n) + CachePages THEN Lowest(n) ELSE Lowest(n) + 1
  BY <1>1, LowestIs
<1> HIDE DEF n
<1>6. t \in Nat /\ 0 \in 0..2
  BY <1>1
<1> HIDE DEF t
<1>7. /\ cache_base_page' = IF PageNum(t) < cache_base_page + CachePages
                            THEN cache_base_page ELSE cache_base_page + 1
      /\ cache' \in WindowPages
      /\ PageNum(t) >= cache_base_page' =>
           PageGet(cache'[Index(cache_base_page', PageNum(t))], t) = 0
      /\ \A u \in Nat :
           u # t /\ PageNum(u) >= cache_base_page' /\ PageNum(u) < cache_base_page + CachePages =>
             PageGet(cache'[Index(cache_base_page', PageNum(u))], u)
               = PageGet(cache[Index(cache_base_page, PageNum(u))], u)
  BY <1>1, <1>2, <1>6, StatusSet
<1>8. cache_base_page' = Lowest(t) /\ cache_base_page' \in Nat /\ cache_base_page <= cache_base_page'
  BY <1>1, <1>4, <1>5, <1>7
<1>9. ASSUME NEW u \in 1..t, PageNum(u) >= cache_base_page'
      PROVE  PageGet(cache'[Index(cache_base_page', PageNum(u))], u) = status'[u]
  <2>1. CASE u = t
    BY <1>3, <1>7, <1>9, <2>1
  <2>2. CASE u # t
    <3>1. u \in 1..n
      BY <1>1, <2>2 DEF t
    <3>2. PageNum(u) >= cache_base_page
      BY <1>1, <1>8, <1>9, <3>1
    <3> QED
      BY <1>1, <1>3, <1>7, <1>9, <2>2, <3>1, <3>2 DEF ClogInv, StatusWritten
  <2> QED
    BY <2>1, <2>2
<1>10. ClogTypeOK'
  BY <1>3, <1>7, <1>8, StatusesAre DEF ClogTypeOK, WindowPages, BytePage
<1> QED
  BY <1>3, <1>8, <1>9, <1>10 DEF ClogInv, StatusWritten

LEMMA ClogDecide ==
  ASSUME ClogInv, NEW t \in DOMAIN status, NEW s \in {Committed, Aborted}, Decide(t, s)
  PROVE  ClogInv'
<1> DEFINE n == Len(status)
<1>1. /\ cache \in WindowPages /\ cache_base_page \in Nat /\ CachePages \in Nat \ {0}
      /\ status \in Seq(0..2) /\ n \in Nat /\ DOMAIN status = 1..n
      /\ \A u \in 1..n : /\ u \in Nat /\ PageNum(u) \in Nat
                         /\ PageNum(u) < cache_base_page + CachePages
  BY WindowFacts
<1>2. SetStatus(t, s) /\ status' = [status EXCEPT ![t] = s] /\ s \in 0..2
  BY DEF Decide, Committed, Aborted
<1>3. /\ status' \in Seq(0..2) /\ Len(status') = n /\ DOMAIN status' = 1..n
      /\ status'[t] = s /\ \A u \in 1..n : u # t => status'[u] = status[u]
  BY <1>1, <1>2
<1> HIDE DEF n
<1>4. t \in 1..n /\ t \in Nat /\ PageNum(t) \in Nat /\ PageNum(t) < cache_base_page + CachePages
  BY <1>1
<1>5. /\ cache_base_page' = IF PageNum(t) < cache_base_page + CachePages
                            THEN cache_base_page ELSE cache_base_page + 1
      /\ cache' \in WindowPages
      /\ PageNum(t) >= cache_base_page' =>
           PageGet(cache'[Index(cache_base_page', PageNum(t))], t) = s
      /\ \A u \in Nat :
           u # t /\ PageNum(u) >= cache_base_page' /\ PageNum(u) < cache_base_page + CachePages =>
             PageGet(cache'[Index(cache_base_page', PageNum(u))], u)
               = PageGet(cache[Index(cache_base_page, PageNum(u))], u)
  <2>1. PageNum(t) <= cache_base_page + CachePages
    BY <1>1, <1>4
  <2> QED
    BY <1>1, <1>2, <1>4, <2>1, StatusSet
<1>6. cache_base_page' = cache_base_page
  BY <1>4, <1>5
<1>7. ASSUME NEW u \in 1..n, PageNum(u) >= cache_base_page
      PROVE  PageGet(cache'[Index(cache_base_page', PageNum(u))], u) = status'[u]
  BY <1>1, <1>3, <1>5, <1>6, <1>7 DEF ClogInv, StatusWritten
<1>8. ClogTypeOK'
  BY <1>1, <1>3, <1>5, <1>6, StatusesAre DEF ClogTypeOK, WindowPages, BytePage
<1> QED
  BY <1>3, <1>6, <1>7, <1>8 DEF ClogInv, StatusWritten, n

LEMMA ClogStep == ClogInv /\ [ClogNext]_cvars => ClogInv'
<1> SUFFICES ASSUME ClogInv, [ClogNext]_cvars PROVE ClogInv'
  OBVIOUS
<1>1. CASE UNCHANGED cvars
  BY <1>1 DEF cvars, ClogInv, ClogTypeOK, StatusWritten
<1>2. CASE Begin
  BY <1>2, ClogBegin
<1>3. ASSUME NEW t \in DOMAIN status, Decide(t, Committed) \/ Decide(t, Aborted) PROVE ClogInv'
  BY <1>3, ClogDecide
<1> QED
  BY <1>1, <1>2, <1>3 DEF ClogNext

\* What the invariant is for: what a reader is told, and how much is kept.
LEMMA WindowFromInv == ClogInv => ClogTypeOK /\ WindowExact /\ WindowFull
<1> SUFFICES ASSUME ClogInv PROVE WindowExact /\ WindowFull
  BY DEF ClogInv
<1> DEFINE n == Len(status)
<1>1. /\ cache_base_page \in Nat /\ CachePages \in Nat \ {0}
      /\ n \in Nat /\ DOMAIN status = 1..n /\ cache_base_page = Lowest(n)
      /\ \A u \in 1..n : /\ u \in Nat /\ PageNum(u) \in Nat
                         /\ PageNum(u) < cache_base_page + CachePages
  BY WindowFacts DEF ClogInv
<1> HIDE DEF n
<1>2. ASSUME NEW t \in 1..n, PageNum(t) >= cache_base_page PROVE GetStatus(t) = status[t]
  <2>1. EnsurePageCached(PageNum(t)) = [base |-> cache_base_page, pages |-> cache]
    BY <1>1 DEF EnsurePageCached
  <2>2. Cached(cache_base_page, PageNum(t))
    BY <1>1, <1>2 DEF Cached
  <2> QED
    BY <1>1, <1>2, <2>1, <2>2 DEF GetStatus, ClogInv, StatusWritten
<1>3. ASSUME NEW t \in 1..n, PageNum(t) + CachePages > PageNum(n) PROVE PageNum(t) >= cache_base_page
  <2>1. PageNum(n) \in Nat
    BY <1>1, PlaceOf
  <2> QED
    BY <1>1, <1>3, <2>1 DEF Lowest
<1> QED
  BY <1>1, <1>2, <1>3 DEF WindowExact, WindowFull, n

\* clog.vais: whatever the size of a page and of the window, no status inside the
\* window is disturbed by its neighbours or by a slide, and none leaves it early.
THEOREM ClogAnswers == ClogSpec => [](ClogTypeOK /\ WindowExact /\ WindowFull)
<1>1. ClogSpec => []ClogInv
  BY ClogInitial, ClogStep, PTL DEF ClogSpec
<1> QED
  BY <1>1, WindowFromInv, PTL

-----------------------------------------------------------------------------
(* The write-ahead log, for every set of transactions, size of segment, buffer and
   batch, and number of failing file operations: what the writer's operations keep *)

Position(w) == EncodeLsn(w.segment, w.offset)

Segments == [recs : Seq(Entries), safe : Nat, last : Nat, safeLast : Nat]
FileMaps == UNION {[D -> Segments] : D \in SUBSET Nat}
Writers == [segment : Nat \ {0}, offset : 0..SegmentSlots, open : Nat, last : Nat,
            buffer : Seq(Entries), files : FileMaps, faults : Nat]

\* A file is whole, and no header is ahead of the allocator.
FileOK(w, f) ==
  f.safe <= Len(f.recs) /\ f.last <= Position(w) /\ f.safeLast <= Position(w)

\* Only the open file has records no fsync covers.
WriterOK(w) ==
  /\ w \in Writers
  /\ w.open \in DOMAIN w.files /\ DOMAIN w.files \subseteq 1..w.segment
  /\ w.last <= Position(w)
  /\ \A s \in DOMAIN w.files : FileOK(w, w.files[s])
  /\ \A s \in DOMAIN w.files \ {w.open} : w.files[s].safe = Len(w.files[s].recs)

Buffered(w, r) == \E i \in DOMAIN w.buffer : w.buffer[i] = r
Filed(w, r) == \E s \in DOMAIN w.files : \E i \in DOMAIN w.files[s].recs : w.files[s].recs[i] = r
Safe(w, r) == \E s \in DOMAIN w.files : \E i \in 1..w.files[s].safe : w.files[s].recs[i] = r

\* No record is lost on the way from w to x, and none loses its fsync.
Keeps(w, x) ==
  \A r : /\ Buffered(w, r) \/ Filed(w, r) => Buffered(x, r) \/ Filed(x, r)
         /\ Safe(w, r) => Safe(x, r)

LEMMA PositionNat ==
  ASSUME NEW w \in Writers
  PROVE  Base \in Nat \ {0} /\ Position(w) \in Nat
  BY WalAssumption DEF Writers, Position, EncodeLsn, Base

\* A writer that differs in nothing but its faults.
LEMMA FaultKeeps ==
  ASSUME NEW w, WriterOK(w)
  PROVE  WriterOK(Failed(w).w) /\ Keeps(w, Failed(w).w) /\ ~Failed(w).ok
         /\ Failed(w).w.segment = w.segment /\ Failed(w).w.offset = w.offset
         /\ Failed(w).w.files = w.files /\ Failed(w).w.open = w.open
         /\ Failed(w).w.buffer = w.buffer
<1> DEFINE x == Failed(w).w
<1>1. x = [w EXCEPT !.faults = @ + 1] /\ ~Failed(w).ok
  BY DEF Failed
<1>2. w \in Writers
  BY DEF WriterOK
<1>3. /\ x \in Writers /\ x.segment = w.segment /\ x.offset = w.offset /\ x.files = w.files
      /\ x.open = w.open /\ x.buffer = w.buffer /\ x.last = w.last
  BY <1>1, <1>2 DEF Writers
<1> HIDE DEF x
<1>4. Position(x) = Position(w)
  BY <1>3 DEF Position
<1>5. WriterOK(x)
  BY <1>3, <1>4 DEF WriterOK, FileOK
<1>6. Keeps(w, x)
  BY <1>3 DEF Keeps, Buffered, Filed, Safe
<1> QED
  BY <1>1, <1>3, <1>5, <1>6 DEF x
LEMMA FilesType ==
  ASSUME NEW w \in Writers
  PROVE  /\ DOMAIN w.files \subseteq Nat
         /\ \A s \in DOMAIN w.files : w.files[s] \in Segments
         /\ w.files = [s \in DOMAIN w.files |-> w.files[s]]
<1>1. w.files \in FileMaps
  BY DEF Writers
<1>2. PICK D \in SUBSET Nat : w.files \in [D -> Segments]
  BY <1>1 DEF FileMaps
<1> QED
  BY <1>2

\* The open file and the buffer get other contents.
WithOpen(w, f, b) == [w EXCEPT !.files = [w.files EXCEPT ![w.open] = f], !.buffer = b]

LEMMA OpenFile ==
  ASSUME NEW w, WriterOK(w), NEW f \in Segments, NEW b \in Seq(Entries), FileOK(w, f)
  PROVE  LET x == WithOpen(w, f, b)
         IN  /\ WriterOK(x) /\ DOMAIN x.files = DOMAIN w.files
             /\ x.segment = w.segment /\ x.offset = w.offset /\ x.open = w.open
             /\ x.last = w.last /\ x.faults = w.faults
             /\ x.buffer = b /\ x.files[w.open] = f
             /\ \A s \in DOMAIN w.files \ {w.open} : x.files[s] = w.files[s]
<1> DEFINE x == WithOpen(w, f, b)
           files == [w.files EXCEPT ![w.open] = f]
<1>1. w \in Writers /\ w.open \in DOMAIN w.files
  BY DEF WriterOK
<1>2. /\ DOMAIN files = DOMAIN w.files /\ files[w.open] = f
      /\ \A s \in DOMAIN w.files \ {w.open} : files[s] = w.files[s]
      /\ files \in [DOMAIN w.files -> Segments]
  BY <1>1, FilesType
<1>3. files \in FileMaps
  BY <1>1, <1>2, FilesType DEF FileMaps
<1> HIDE DEF files
<1>4. x = [w EXCEPT !.files = files, !.buffer = b]
  BY DEF files, WithOpen
<1> HIDE DEF x
<1>5. /\ x \in Writers /\ x.files = files /\ x.buffer = b
      /\ x.segment = w.segment /\ x.offset = w.offset /\ x.open = w.open /\ x.last = w.last
      /\ x.faults = w.faults
  BY <1>1, <1>3, <1>4 DEF Writers
<1>6. Position(x) = Position(w)
  BY <1>5 DEF Position
<1>7. \A s \in DOMAIN x.files : FileOK(x, x.files[s])
  BY <1>2, <1>5, <1>6 DEF WriterOK, FileOK
<1>8. WriterOK(x)
  BY <1>2, <1>5, <1>6, <1>7 DEF WriterOK
<1> QED
  BY <1>2, <1>5, <1>8 DEF x

\* The open file is f, which has the records the file g had, and more.
Extends(f, g) ==
  /\ \A i \in DOMAIN g.recs : i \in DOMAIN f.recs /\ f.recs[i] = g.recs[i]
  /\ g.safe <= f.safe

LEMMA OpenKeeps ==
  ASSUME NEW w, WriterOK(w), NEW f \in Segments, NEW b \in Seq(Entries), FileOK(w, f),
         Extends(f, w.files[w.open]),
         \A i \in DOMAIN w.buffer : \/ \E j \in DOMAIN b : b[j] = w.buffer[i]
                                    \/ \E j \in DOMAIN f.recs : f.recs[j] = w.buffer[i]
  PROVE  Keeps(w, WithOpen(w, f, b))
<1> DEFINE x == WithOpen(w, f, b)
           g == w.files[w.open]
<1>1. w.open \in DOMAIN w.files /\ w \in Writers
  BY DEF WriterOK
<1>2. /\ DOMAIN x.files = DOMAIN w.files /\ x.buffer = b /\ x.files[w.open] = f
      /\ \A s \in DOMAIN w.files \ {w.open} : x.files[s] = w.files[s]
  BY OpenFile
<1>3. g \in Segments /\ FileOK(w, g)
  BY <1>1, FilesType DEF WriterOK
<1> HIDE DEF x
<1>4. ASSUME NEW r, Buffered(w, r) PROVE Buffered(x, r) \/ Filed(x, r)
  BY <1>1, <1>2, <1>4 DEF Buffered, Filed
<1>5. ASSUME NEW r, Filed(w, r) PROVE Filed(x, r)
  <2>1. PICK s \in DOMAIN w.files : \E i \in DOMAIN w.files[s].recs : w.files[s].recs[i] = r
    BY <1>5 DEF Filed
  <2>2. CASE s = w.open
    BY <1>2, <2>1, <2>2 DEF Filed, Extends
  <2>3. CASE s # w.open
    BY <1>2, <2>1, <2>3 DEF Filed
  <2> QED
    BY <2>2, <2>3
<1>6. ASSUME NEW r, Safe(w, r) PROVE Safe(x, r)
  <2>1. PICK s \in DOMAIN w.files : \E i \in 1..w.files[s].safe : w.files[s].recs[i] = r
    BY <1>6 DEF Safe
  <2>2. CASE s = w.open
    <3>1. PICK i \in 1..g.safe : g.recs[i] = r
      BY <2>1, <2>2
    <3>2. i \in DOMAIN g.recs
      BY <1>3, <3>1 DEF FileOK, Segments
    <3>3. f.recs[i] = r /\ i \in 1..f.safe
      BY <1>3, <3>1, <3>2 DEF Extends, Segments
    <3> QED
      BY <1>1, <1>2, <3>3 DEF Safe
  <2>3. CASE s # w.open
    BY <1>2, <2>1, <2>3 DEF Safe
  <2> QED
    BY <2>2, <2>3
<1> QED
  BY <1>4, <1>5, <1>6 DEF Keeps, x

\* x differs from w in the open file's contents only.
AtSamePlace(w, x) ==
  /\ x.segment = w.segment /\ x.offset = w.offset /\ x.open = w.open
  /\ DOMAIN x.files = DOMAIN w.files

AllSafe(w) == \A s \in DOMAIN w.files : w.files[s].safe = Len(w.files[s].recs)

\* Writing the buffer out: its records are in the open file, unsynced.
Flushed(w) == [w EXCEPT !.files[w.open].recs = @ \o w.buffer, !.buffer = <<>>]

LEMMA FlushedKeeps ==
  ASSUME NEW w, WriterOK(w)
  PROVE  LET x == Flushed(w)
         IN  WriterOK(x) /\ Keeps(w, x) /\ AtSamePlace(w, x) /\ x.buffer = <<>>
<1> DEFINE g == w.files[w.open]
           recs == g.recs \o w.buffer
           f == [g EXCEPT !.recs = recs]
           e == <<>>
           x == Flushed(w)
<1>1. w \in Writers /\ w.open \in DOMAIN w.files
  BY DEF WriterOK
<1>2. g \in Segments /\ w.buffer \in Seq(Entries) /\ FileOK(w, g)
  BY <1>1, FilesType DEF Writers, WriterOK
<1>3. recs \in Seq(Entries) /\ e \in Seq(Entries)
  BY <1>2 DEF Segments
<1>4. /\ Len(recs) = Len(g.recs) + Len(w.buffer)
      /\ \A i \in DOMAIN g.recs : i \in DOMAIN recs /\ recs[i] = g.recs[i]
      /\ \A i \in DOMAIN w.buffer : Len(g.recs) + i \in DOMAIN recs
                                    /\ recs[Len(g.recs) + i] = w.buffer[i]
  <2> HIDE DEF g
  <2> QED
    BY <1>2 DEF Segments
<1>5. x = WithOpen(w, f, e)
  BY DEF Flushed, WithOpen
<1> HIDE DEF g, recs, e, x
<1>6. /\ f \in Segments /\ f.recs = recs
      /\ f.safe = g.safe /\ f.last = g.last /\ f.safeLast = g.safeLast
  BY <1>2, <1>3 DEF Segments
<1> HIDE DEF f
<1>7. FileOK(w, f) /\ Extends(f, g)
  BY <1>2, <1>3, <1>4, <1>6 DEF FileOK, Segments, Extends
<1>8. WriterOK(x) /\ AtSamePlace(w, x) /\ x.buffer = e
  BY <1>3, <1>5, <1>6, <1>7, OpenFile DEF AtSamePlace
<1>9. Keeps(w, x)
  BY <1>3, <1>4, <1>5, <1>6, <1>7, OpenKeeps DEF g
<1> QED
  BY <1>8, <1>9 DEF x, e

\* An fsync of the open file: now every record that is in a file is safe.
SyncedOpen(w) == [w EXCEPT !.files[w.open] = Synced(@)]

LEMMA SyncedKeeps ==
  ASSUME NEW w, WriterOK(w)
  PROVE  LET x == SyncedOpen(w)
         IN  WriterOK(x) /\ Keeps(w, x) /\ AtSamePlace(w, x) /\ AllSafe(x) /\ x.buffer = w.buffer
<1> DEFINE g == w.files[w.open]
           f == Synced(g)
           x == SyncedOpen(w)
<1>1. w \in Writers /\ w.open \in DOMAIN w.files
  BY DEF WriterOK
<1>2. g \in Segments /\ w.buffer \in Seq(Entries) /\ FileOK(w, g)
  BY <1>1, FilesType DEF Writers, WriterOK
<1>3. x = WithOpen(w, f, w.buffer)
  BY <1>1 DEF SyncedOpen, WithOpen, Writers
<1> HIDE DEF g, x
<1>4. /\ f \in Segments /\ f.recs = g.recs
      /\ f.safe = Len(g.recs) /\ f.last = g.last /\ f.safeLast = g.last
  <2> DEFINE n == Len(g.recs)
  <2>1. n \in Nat /\ f = [g EXCEPT !.safe = n, !.safeLast = g.last]
    BY <1>2 DEF Segments, Synced
  <2> HIDE DEF n, f
  <2>2. /\ f \in Segments /\ f.recs = g.recs
        /\ f.safe = n /\ f.last = g.last /\ f.safeLast = g.last
    BY <1>2, <2>1 DEF Segments
  <2> QED
    BY <2>2 DEF n
<1> HIDE DEF f
<1>5. FileOK(w, f) /\ Extends(f, g)
  BY <1>2, <1>4 DEF FileOK, Segments, Extends
<1>6. /\ WriterOK(x) /\ AtSamePlace(w, x) /\ x.buffer = w.buffer
      /\ x.files[w.open] = f /\ \A s \in DOMAIN w.files \ {w.open} : x.files[s] = w.files[s]
  BY <1>2, <1>3, <1>4, <1>5, OpenFile DEF AtSamePlace
<1>7. Keeps(w, x)
  BY <1>2, <1>3, <1>4, <1>5, OpenKeeps DEF g
<1>8. AllSafe(x)
  BY <1>4, <1>6 DEF AllSafe, AtSamePlace, WriterOK
<1> QED
  BY <1>6, <1>7, <1>8 DEF x
\* The header takes the last LSN.
Headed(w) == [w EXCEPT !.files[w.open].last = w.last]

LEMMA HeadedKeeps ==
  ASSUME NEW w, WriterOK(w)
  PROVE  LET x == Headed(w)
         IN  WriterOK(x) /\ Keeps(w, x) /\ AtSamePlace(w, x) /\ x.buffer = w.buffer
<1> DEFINE g == w.files[w.open]
           f == [g EXCEPT !.last = w.last]
           x == Headed(w)
<1>1. w \in Writers /\ w.open \in DOMAIN w.files /\ w.last \in Nat /\ w.last <= Position(w)
  BY DEF WriterOK, Writers
<1>2. g \in Segments /\ w.buffer \in Seq(Entries) /\ FileOK(w, g)
  BY <1>1, FilesType DEF Writers, WriterOK
<1>3. x = WithOpen(w, f, w.buffer)
  BY <1>1 DEF Headed, WithOpen, Writers
<1> HIDE DEF g, x
<1>4. /\ f \in Segments /\ f.recs = g.recs
      /\ f.safe = g.safe /\ f.last = w.last /\ f.safeLast = g.safeLast
  BY <1>1, <1>2 DEF Segments
<1> HIDE DEF f
<1>5. FileOK(w, f) /\ Extends(f, g)
  BY <1>1, <1>2, <1>4 DEF FileOK, Segments, Extends
<1>6. WriterOK(x) /\ AtSamePlace(w, x) /\ x.buffer = w.buffer
  BY <1>2, <1>3, <1>4, <1>5, OpenFile DEF AtSamePlace
<1>7. Keeps(w, x)
  BY <1>2, <1>3, <1>4, <1>5, OpenKeeps DEF g
<1> QED
  BY <1>6, <1>7 DEF x

LEMMA KeepsTwice ==
  ASSUME NEW w, NEW x, NEW y, Keeps(w, x), Keeps(x, y)
  PROVE  Keeps(w, y)
  BY DEF Keeps

-----------------------------------------------------------------------------
(* The log: the writer's operations *)

LEMMA MayFailKeeps ==
  ASSUME NEW w, WriterOK(w), NEW o \in MayFail(w, {w})
  PROVE  WriterOK(o.w) /\ Keeps(w, o.w) /\ AtSamePlace(w, o.w) /\ ~o.ok /\ o.w.buffer = w.buffer
<1>1. o = Failed(w)
  BY DEF MayFail
<1> QED
  BY <1>1, FaultKeeps DEF AtSamePlace

LEMMA FlushBufferKeeps ==
  ASSUME NEW w, WriterOK(w), NEW o \in FlushBuffer(w)
  PROVE  /\ WriterOK(o.w) /\ Keeps(w, o.w) /\ AtSamePlace(w, o.w)
         /\ o.ok => o.w.buffer = <<>>
         /\ o.w.buffer = w.buffer \/ o.w.buffer = <<>>
<1>1. o = Ok(Flushed(w)) \/ o \in MayFail(w, {w})
  BY DEF FlushBuffer, Flushed
<1>2. CASE o = Ok(Flushed(w))
  BY <1>2, FlushedKeeps DEF Ok
<1> QED
  BY <1>1, <1>2, MayFailKeeps

LEMMA FsyncKeeps ==
  ASSUME NEW w, WriterOK(w), NEW o \in Fsync(w)
  PROVE  /\ WriterOK(o.w) /\ Keeps(w, o.w) /\ AtSamePlace(w, o.w) /\ o.w.buffer = w.buffer
         /\ o.ok => AllSafe(o.w)
<1>1. o = Ok(SyncedOpen(w)) \/ o \in MayFail(w, {w})
  BY DEF Fsync, SyncedOpen
<1>2. CASE o = Ok(SyncedOpen(w))
  BY <1>2, SyncedKeeps DEF Ok
<1> QED
  BY <1>1, <1>2, MayFailKeeps

LEMMA FinalizeKeeps ==
  ASSUME NEW w, WriterOK(w), NEW o \in FinalizeCurrentSegment(w)
  PROVE  /\ WriterOK(o.w) /\ Keeps(w, o.w) /\ AtSamePlace(w, o.w) /\ o.w.buffer = w.buffer
         /\ o.ok => AllSafe(o.w)
<1> DEFINE first == {Ok(Headed(w))} \cup MayFail(w, {w})
<1>1. o \in Then(first, Fsync)
  BY DEF FinalizeCurrentSegment, Headed
<1>2. PICK p \in first : IF p.ok THEN o \in Fsync(p.w) ELSE o = p
  BY <1>1 DEF Then
<1>3. CASE p = Ok(Headed(w))
  <2>1. p.ok /\ p.w = Headed(w)
    BY <1>3 DEF Ok
  <2>2. WriterOK(p.w) /\ Keeps(w, p.w) /\ AtSamePlace(w, p.w) /\ p.w.buffer = w.buffer
    BY <2>1, HeadedKeeps
  <2> QED
    BY <1>2, <2>1, <2>2, FsyncKeeps, KeepsTwice DEF AtSamePlace
<1>4. CASE p \in MayFail(w, {w})
  BY <1>2, <1>4, MayFailKeeps
<1> QED
  BY <1>3, <1>4
LEMMA SyncKeeps ==
  ASSUME NEW w, WriterOK(w), NEW o \in Sync(w)
  PROVE  /\ WriterOK(o.w) /\ Keeps(w, o.w) /\ AtSamePlace(w, o.w)
         /\ o.w.buffer \in {w.buffer, <<>>}
         /\ o.ok => AllSafe(o.w) /\ o.w.buffer = <<>>
<1>1. PICK p \in FlushBuffer(w) : IF p.ok THEN o \in Fsync(p.w) ELSE o = p
  BY DEF Sync, Then
<1>2. /\ WriterOK(p.w) /\ Keeps(w, p.w) /\ AtSamePlace(w, p.w)
      /\ p.ok => p.w.buffer = <<>>
      /\ p.w.buffer = w.buffer \/ p.w.buffer = <<>>
  BY <1>1, FlushBufferKeeps
<1>3. CASE p.ok
  BY <1>1, <1>2, <1>3, FsyncKeeps, KeepsTwice DEF AtSamePlace
<1> QED
  BY <1>1, <1>2, <1>3

LEMMA CloseKeeps ==
  ASSUME NEW w, WriterOK(w), NEW o \in CloseWriter(w)
  PROVE  WriterOK(o.w) /\ Keeps(w, o.w) /\ AtSamePlace(w, o.w) /\ o.w.buffer \in {w.buffer, <<>>}
<1>1. PICK p \in FlushBuffer(w) : IF p.ok THEN o \in FinalizeCurrentSegment(p.w) ELSE o = p
  BY DEF CloseWriter, Then
<1>2. /\ WriterOK(p.w) /\ Keeps(w, p.w) /\ AtSamePlace(w, p.w)
      /\ p.w.buffer = w.buffer \/ p.w.buffer = <<>>
  BY <1>1, FlushBufferKeeps
<1>3. CASE p.ok
  BY <1>1, <1>2, <1>3, FinalizeKeeps, KeepsTwice DEF AtSamePlace
<1> QED
  BY <1>1, <1>2, <1>3

\* Allocation moves the position up, and the record's LSN is in between; a segment
\* it begins has no file yet.
LEMMA AllocateKeeps ==
  ASSUME NEW w, WriterOK(w)
  PROVE  LET x == Allocate(w)
         IN  /\ WriterOK(x) /\ Keeps(w, x) /\ x.buffer = w.buffer
             /\ NextLsn(w) \in Nat
             /\ Position(w) <= NextLsn(w) /\ NextLsn(w) < Position(x)
             /\ NeedsNewSegment(w) => x.segment \notin DOMAIN x.files
<1> DEFINE x == Allocate(w)
<1>1. w \in Writers
  BY DEF WriterOK
<1>2. /\ w.segment \in Nat \ {0} /\ w.offset \in Nat /\ w.offset <= SegmentSlots
      /\ SegmentSlots \in Nat \ {0} /\ Base = SegmentSlots + 1
  BY <1>1, WalAssumption DEF Writers, Base
<1>3. /\ x \in Writers /\ x.files = w.files /\ x.buffer = w.buffer /\ x.open = w.open
      /\ x.last = w.last
      /\ \/ x.segment = w.segment /\ x.offset = w.offset + 1
         \/ x.segment = w.segment + 1 /\ x.offset = 1
  <2>1. CASE w.offset + 1 > SegmentSlots
    <3> DEFINE m == w.segment + 1
    <3>1. m \in Nat \ {0} /\ 1 \in 0..SegmentSlots
      BY <1>2
    <3>2. x = [w EXCEPT !.segment = m, !.offset = 1]
      BY <2>1 DEF Allocate
    <3> HIDE DEF m, x
    <3>3. /\ x \in Writers /\ x.files = w.files /\ x.buffer = w.buffer /\ x.open = w.open
          /\ x.last = w.last /\ x.segment = m /\ x.offset = 1
      BY <1>1, <3>1, <3>2 DEF Writers
    <3> QED
      BY <3>3 DEF m
  <2>2. CASE ~(w.offset + 1 > SegmentSlots)
    <3> DEFINE n == w.offset + 1
    <3>1. n \in 0..SegmentSlots
      BY <1>2, <2>2
    <3>2. x = [w EXCEPT !.offset = n]
      BY <2>2 DEF Allocate
    <3> HIDE DEF n, x
    <3>3. /\ x \in Writers /\ x.files = w.files /\ x.buffer = w.buffer /\ x.open = w.open
          /\ x.last = w.last /\ x.segment = w.segment /\ x.offset = n
      BY <1>1, <3>1, <3>2 DEF Writers
    <3> QED
      BY <3>3 DEF n
  <2> QED
    BY <2>1, <2>2
<1>4. NextLsn(w) = EncodeLsn(x.segment, x.offset - 1) /\ (NeedsNewSegment(w) <=> x.segment # w.segment)
  BY DEF NextLsn, NeedsNewSegment
<1> HIDE DEF x
<1>5. /\ NextLsn(w) \in Nat /\ Position(w) \in Nat /\ Position(x) \in Nat
      /\ Position(w) <= NextLsn(w) /\ NextLsn(w) < Position(x)
  <2> DEFINE P == w.segment * Base
  <2>1. P \in Nat /\ (w.segment + 1) * Base = P + Base
    BY <1>2
  <2>2. CASE x.segment = w.segment /\ x.offset = w.offset + 1
    <3>1. NextLsn(w) = P + w.offset /\ Position(w) = P + w.offset /\ Position(x) = P + w.offset + 1
      BY <1>2, <1>4, <2>1, <2>2 DEF EncodeLsn, Position
    <3> HIDE DEF P
    <3> QED
      BY <1>2, <2>1, <3>1
  <2>3. CASE x.segment = w.segment + 1 /\ x.offset = 1
    <3>1. NextLsn(w) = P + Base /\ Position(w) = P + w.offset /\ Position(x) = P + Base + 1
      BY <1>2, <1>4, <2>1, <2>3 DEF EncodeLsn, Position
    <3> HIDE DEF P
    <3> QED
      BY <1>2, <2>1, <3>1
  <2> QED
    BY <1>3, <2>2, <2>3
<1>6. \A s \in DOMAIN x.files : FileOK(x, x.files[s])
  <2> SUFFICES ASSUME NEW s \in DOMAIN x.files PROVE FileOK(x, x.files[s])
    OBVIOUS
  <2>1. w.files[s] \in Segments /\ FileOK(w, w.files[s])
    BY <1>1, <1>3, FilesType DEF WriterOK
  <2> QED
    BY <1>3, <1>5, <2>1 DEF FileOK, Segments
<1>7. DOMAIN x.files \subseteq 1..x.segment /\ (NeedsNewSegment(w) => x.segment \notin DOMAIN x.files)
  <2>1. /\ w.segment <= x.segment /\ x.segment \in Nat
        /\ x.segment # w.segment => x.segment \notin 1..w.segment
    BY <1>2, <1>3
  <2>2. 1..w.segment \subseteq 1..x.segment
    BY <1>2, <2>1
  <2> QED
    BY <1>3, <1>4, <2>1, <2>2 DEF WriterOK
<1>8. x.last <= Position(x)
  BY <1>1, <1>3, <1>5 DEF WriterOK, Writers
<1>9. WriterOK(x)
  BY <1>3, <1>6, <1>7, <1>8 DEF WriterOK
<1>10. Keeps(w, x)
  BY <1>3 DEF Keeps, Buffered, Filed, Safe
<1> QED
  BY <1>3, <1>5, <1>7, <1>9, <1>10 DEF x
\* Another file, empty and with last in its header.
WithFile(w, last) ==
  [w EXCEPT !.files = [s \in DOMAIN @ \cup {w.segment} |->
                         IF s = w.segment THEN Segment(last) ELSE @[s]]]

LEMMA SegmentType ==
  ASSUME NEW last \in Nat
  PROVE  /\ Segment(last) \in Segments
         /\ Segment(last).recs = <<>> /\ Segment(last).safe = 0 /\ Len(Segment(last).recs) = 0
         /\ Segment(last).last = last /\ Segment(last).safeLast = last
<1> DEFINE e == <<>>
<1>1. e \in Seq(Entries) /\ Len(e) = 0
  OBVIOUS
<1>2. Segment(last) = [recs |-> e, safe |-> 0, last |-> last, safeLast |-> last]
  BY DEF Segment
<1> HIDE DEF e
<1>3. /\ Segment(last) \in Segments /\ Segment(last).recs = e /\ Segment(last).safe = 0
      /\ Segment(last).last = last /\ Segment(last).safeLast = last
  BY <1>1, <1>2 DEF Segments
<1> QED
  BY <1>1, <1>3 DEF e

LEMMA WithFileKeeps ==
  ASSUME NEW w, WriterOK(w), w.segment \notin DOMAIN w.files, AllSafe(w),
         NEW last \in Nat, last <= Position(w)
  PROVE  LET x == WithFile(w, last)
         IN  /\ WriterOK(x) /\ Keeps(w, x) /\ AllSafe(x)
             /\ x.segment = w.segment /\ x.offset = w.offset /\ x.open = w.open
             /\ x.buffer = w.buffer /\ w.segment \in DOMAIN x.files
<1> DEFINE x == WithFile(w, last)
           files == [s \in DOMAIN w.files \cup {w.segment} |->
                       IF s = w.segment THEN Segment(last) ELSE w.files[s]]
<1>1. w \in Writers /\ w.segment \in Nat \ {0}
  BY DEF WriterOK, Writers
<1>2. /\ DOMAIN files = DOMAIN w.files \cup {w.segment} /\ files[w.segment] = Segment(last)
      /\ \A s \in DOMAIN w.files : files[s] = w.files[s]
      /\ files \in [DOMAIN w.files \cup {w.segment} -> Segments]
  BY <1>1, FilesType, SegmentType
<1>3. files \in FileMaps
  <2>1. DOMAIN w.files \cup {w.segment} \in SUBSET Nat
    BY <1>1, FilesType
  <2> QED
    BY <1>2, <2>1 DEF FileMaps
<1>4. x = [w EXCEPT !.files = files]
  BY DEF WithFile
<1> HIDE DEF files, x
<1>5. /\ x \in Writers /\ x.files = files /\ x.buffer = w.buffer
      /\ x.segment = w.segment /\ x.offset = w.offset /\ x.open = w.open /\ x.last = w.last
  BY <1>1, <1>3, <1>4 DEF Writers
<1>6. Position(x) = Position(w) /\ Position(w) \in Nat
  BY <1>1, <1>5, PositionNat DEF Position
<1>7. \A s \in DOMAIN x.files : FileOK(x, x.files[s]) /\ x.files[s].safe = Len(x.files[s].recs)
  BY <1>1, <1>2, <1>5, <1>6, SegmentType DEF WriterOK, FileOK, AllSafe
<1>8. WriterOK(x)
  BY <1>1, <1>2, <1>5, <1>6, <1>7 DEF WriterOK
<1>9. Keeps(w, x)
  <2>1. ASSUME NEW r PROVE (Filed(w, r) => Filed(x, r)) /\ (Safe(w, r) => Safe(x, r))
    BY <1>2, <1>5 DEF Filed, Safe
  <2> QED
    BY <1>5, <2>1 DEF Keeps, Buffered
<1> QED
  BY <1>2, <1>5, <1>7, <1>8, <1>9 DEF x, AllSafe

\* The new segment becomes the open one, its last LSN the writer's.
LEMMA OpensKeeps ==
  ASSUME NEW w, WriterOK(w), AllSafe(w), w.segment \in DOMAIN w.files,
         NEW last \in Nat, last <= Position(w)
  PROVE  LET x == [w EXCEPT !.open = w.segment, !.last = last]
         IN  /\ WriterOK(x) /\ Keeps(w, x)
             /\ x.segment = w.segment /\ x.offset = w.offset /\ x.buffer = w.buffer
<1> DEFINE x == [w EXCEPT !.open = w.segment, !.last = last]
<1>1. w \in Writers /\ w.segment \in Nat
  BY DEF WriterOK, Writers
<1>2. /\ x \in Writers /\ x.files = w.files /\ x.buffer = w.buffer
      /\ x.segment = w.segment /\ x.offset = w.offset /\ x.open = w.segment /\ x.last = last
  BY <1>1 DEF Writers
<1> HIDE DEF x
<1>3. Position(x) = Position(w)
  BY <1>2 DEF Position
<1>4. WriterOK(x)
  BY <1>2, <1>3 DEF WriterOK, FileOK, AllSafe
<1>5. Keeps(w, x)
  BY <1>2 DEF Keeps, Buffered, Filed, Safe
<1> QED
  BY <1>2, <1>4, <1>5 DEF x

LEMMA CreateKeeps ==
  ASSUME NEW w, WriterOK(w), w.segment \notin DOMAIN w.files, AllSafe(w),
         NEW o \in CreateNewSegment(w)
  PROVE  /\ WriterOK(o.w) /\ Keeps(w, o.w) /\ o.w.buffer = w.buffer
         /\ o.w.segment = w.segment /\ o.w.offset = w.offset
<1> DEFINE last == Position(w)
           x == WithFile(w, last)
<1>1. w \in Writers /\ last \in Nat /\ 0 \in Nat /\ 0 <= Position(w) /\ last <= Position(w)
  BY PositionNat DEF WriterOK
<1>2. \/ o = Ok([x EXCEPT !.open = w.segment, !.last = last])
      \/ o = Failed(w) \/ o = Failed(WithFile(w, 0))
  BY DEF CreateNewSegment, MayFail, Position, WithFile, NULL_LSN
<1> HIDE DEF last
<1>3. /\ WriterOK(x) /\ Keeps(w, x) /\ AllSafe(x)
      /\ x.segment = w.segment /\ x.offset = w.offset
      /\ x.buffer = w.buffer /\ w.segment \in DOMAIN x.files
  BY <1>1, WithFileKeeps
<1> HIDE DEF x
<1>4. CASE o = Ok([x EXCEPT !.open = w.segment, !.last = last])
  <2> DEFINE y == [x EXCEPT !.open = x.segment, !.last = last]
  <2>1. o.w = y
    BY <1>3, <1>4 DEF Ok
  <2>2. last <= Position(x)
    BY <1>1, <1>3 DEF Position
  <2>3. WriterOK(y) /\ Keeps(x, y) /\ y.segment = x.segment /\ y.offset = x.offset
        /\ y.buffer = x.buffer
    BY <1>1, <1>3, <2>2, OpensKeeps
  <2> HIDE DEF y
  <2> QED
    BY <1>3, <2>1, <2>3, KeepsTwice
<1>5. CASE o = Failed(w)
  BY <1>5, FaultKeeps
<1>6. CASE o = Failed(WithFile(w, 0))
  <2>1. LET y == WithFile(w, 0)
        IN  WriterOK(y) /\ Keeps(w, y) /\ y.segment = w.segment /\ y.offset = w.offset
            /\ y.buffer = w.buffer
    BY <1>1, WithFileKeeps
  <2> QED
    BY <1>6, <2>1, FaultKeeps, KeepsTwice
<1> QED
  BY <1>2, <1>4, <1>5, <1>6
BufferFits(w) == Len(w.buffer) <= BufferSlots

\* The record goes to the buffer.
LEMMA PutKeeps ==
  ASSUME NEW w, WriterOK(w), Len(w.buffer) < BufferSlots,
         NEW rec \in Entries, rec.lsn <= Position(w)
  PROVE  LET x == [w EXCEPT !.buffer = Append(@, rec), !.last = rec.lsn]
         IN  /\ WriterOK(x) /\ Keeps(w, x) /\ BufferFits(x) /\ Buffered(x, rec)
             /\ x.segment = w.segment /\ x.offset = w.offset
<1> DEFINE b == Append(w.buffer, rec)
           x == [w EXCEPT !.buffer = b, !.last = rec.lsn]
<1>1. w \in Writers /\ w.buffer \in Seq(Entries) /\ rec.lsn \in Nat /\ BufferSlots \in Nat
  BY WalAssumption DEF WriterOK, Writers, Entries
<1>2. /\ b \in Seq(Entries) /\ Len(b) = Len(w.buffer) + 1 /\ Len(w.buffer) \in Nat
      /\ \A i \in DOMAIN w.buffer : i \in DOMAIN b /\ b[i] = w.buffer[i]
      /\ Len(b) \in DOMAIN b /\ b[Len(b)] = rec
  BY <1>1
<1> HIDE DEF b
<1>3. /\ x \in Writers /\ x.files = w.files /\ x.buffer = b
      /\ x.segment = w.segment /\ x.offset = w.offset /\ x.open = w.open /\ x.last = rec.lsn
  BY <1>1, <1>2 DEF Writers
<1> HIDE DEF x
<1>4. Position(x) = Position(w)
  BY <1>3 DEF Position
<1>5. WriterOK(x)
  BY <1>3, <1>4 DEF WriterOK, FileOK
<1>6. Keeps(w, x) /\ Buffered(x, rec)
  BY <1>2, <1>3 DEF Keeps, Buffered, Filed, Safe
<1>7. BufferFits(x)
  BY <1>1, <1>2, <1>3 DEF BufferFits
<1> QED
  BY <1>3, <1>5, <1>6, <1>7 DEF x, b

\* write_record, whatever of it fails: the records there were are there, what was
\* safe is safe, and a record that was accepted is in the buffer.
LEMMA WriteRecordKeeps ==
  ASSUME NEW w, WriterOK(w), BufferFits(w), NEW rec \in Entries, rec.lsn = NextLsn(w),
         NEW o \in WriteRecord(w, rec)
  PROVE  /\ WriterOK(o.w) /\ Keeps(w, o.w) /\ BufferFits(o.w)
         /\ Position(w) <= rec.lsn /\ rec.lsn < Position(o.w)
         /\ o.ok => Buffered(o.w, rec)
<1> DEFINE a == Allocate(w)
           Switched == IF NeedsNewSegment(w)
                       THEN Then(FinalizeCurrentSegment(a), CreateNewSegment) ELSE {Ok(a)}
           MakeRoom(x) == IF Len(x.buffer) < BufferSlots THEN {Ok(x)} ELSE FlushBuffer(x)
           Fitted == UNION {IF p.ok THEN MakeRoom(p.w) ELSE {p} : p \in Switched}
           Put(x) == Ok([x EXCEPT !.buffer = Append(@, rec), !.last = rec.lsn])
           Good(x) == /\ WriterOK(x) /\ Keeps(w, x) /\ BufferFits(x)
                      /\ x.segment = a.segment /\ x.offset = a.offset
<1>1. /\ WriterOK(a) /\ Keeps(w, a) /\ a.buffer = w.buffer
      /\ Position(w) <= rec.lsn /\ rec.lsn < Position(a)
      /\ NeedsNewSegment(w) => a.segment \notin DOMAIN a.files
  BY AllocateKeeps
<1>2. PICK q \in Fitted : IF q.ok THEN o = Put(q.w) ELSE o = q
  BY DEF WriteRecord, Then
<1>3. PICK p \in Switched : IF p.ok THEN q \in MakeRoom(p.w) ELSE q = p
  BY <1>2
<1> HIDE DEF a
<1>4. Good(p.w)
  <2>1. CASE NeedsNewSegment(w)
    <3>1. PICK f \in FinalizeCurrentSegment(a) :
            IF f.ok THEN p \in CreateNewSegment(f.w) ELSE p = f
      BY <1>3, <2>1 DEF Then
    <3>2. /\ WriterOK(f.w) /\ Keeps(a, f.w) /\ AtSamePlace(a, f.w) /\ f.w.buffer = a.buffer
          /\ f.ok => AllSafe(f.w)
      BY <1>1, <3>1, FinalizeKeeps
    <3>3. CASE ~f.ok
      BY <1>1, <3>1, <3>2, <3>3, KeepsTwice DEF AtSamePlace, BufferFits
    <3>4. CASE f.ok
      <4>1. /\ WriterOK(p.w) /\ Keeps(f.w, p.w) /\ p.w.buffer = f.w.buffer
            /\ p.w.segment = f.w.segment /\ p.w.offset = f.w.offset
        BY <1>1, <2>1, <3>1, <3>2, <3>4, CreateKeeps DEF AtSamePlace
      <4> QED
        BY <1>1, <3>2, <4>1, KeepsTwice DEF AtSamePlace, BufferFits
    <3> QED
      BY <3>3, <3>4
  <2>2. CASE ~NeedsNewSegment(w)
    BY <1>1, <1>3, <2>2 DEF Ok, BufferFits
  <2> QED
    BY <2>1, <2>2
<1> HIDE DEF Switched
<1>5. Good(q.w) /\ (q.ok => Len(q.w.buffer) < BufferSlots)
  <2>1. CASE ~p.ok
    BY <1>3, <1>4, <2>1
  <2>2. CASE p.ok /\ Len(p.w.buffer) < BufferSlots
    BY <1>3, <1>4, <2>2 DEF Ok
  <2>3. CASE p.ok /\ ~(Len(p.w.buffer) < BufferSlots)
    <3>1. q \in FlushBuffer(p.w)
      BY <1>3, <2>3
    <3>2. /\ WriterOK(q.w) /\ Keeps(p.w, q.w) /\ AtSamePlace(p.w, q.w)
          /\ q.ok => q.w.buffer = <<>>
          /\ q.w.buffer = p.w.buffer \/ q.w.buffer = <<>>
      BY <1>4, <3>1, FlushBufferKeeps
    <3>3. Len(<<>>) < BufferSlots
      BY WalAssumption
    <3> QED
      BY <1>4, <3>2, <3>3, KeepsTwice, WalAssumption DEF AtSamePlace, BufferFits
  <2> QED
    BY <2>1, <2>2, <2>3
<1>6. Position(q.w) = Position(a)
  BY <1>5 DEF Position
<1>7. CASE ~q.ok
  BY <1>1, <1>2, <1>5, <1>6, <1>7
<1>8. CASE q.ok
  <2>1. a \in Writers /\ Position(a) \in Nat /\ rec.lsn \in Nat /\ rec.lsn <= Position(a)
    BY <1>1, PositionNat DEF WriterOK, Entries
  <2>2. o = Put(q.w)
    BY <1>2, <1>8
  <2> DEFINE x == [q.w EXCEPT !.buffer = Append(@, rec), !.last = rec.lsn]
  <2>3. o.w = x
    BY <2>2 DEF Ok
  <2>4. /\ WriterOK(x) /\ Keeps(q.w, x) /\ BufferFits(x) /\ Buffered(x, rec)
        /\ x.segment = q.w.segment /\ x.offset = q.w.offset
    BY <1>5, <1>6, <1>8, <2>1, PutKeeps
  <2> HIDE DEF x
  <2>5. Position(x) = Position(a)
    BY <1>6, <2>4 DEF Position
  <2> QED
    BY <1>1, <1>5, <2>3, <2>4, <2>5, KeepsTwice
<1> QED
  BY <1>7, <1>8
-----------------------------------------------------------------------------
(* The log: a commit that was answered is on disk *)

Threads == {"new", "open", "logged", "waiting", "flush", "sync", "acked", "failed"}
Committing == {"logged", "waiting", "flush", "sync", "acked"}
CommitRecord(t) == [lsn |-> txn[t].lsn, txn |-> t, kind |-> "COMMIT"]

ThreadsOK ==
  /\ txn \in [Committers -> [at : Threads, lsn : Nat]]
  /\ group \in [pending : SUBSET Committers, flushed : Nat, leader : Nat]
  /\ {t \in Committers : txn[t].at \in {"flush", "sync"}} = {group.leader} \ {Nobody}
  /\ power \in {"up", "crashed", "closed"}

\* Nobody knows an LSN that was not handed out.
LsnsOK ==
  /\ group.flushed < Position(writer)
  /\ \A t \in Committers : txn[t].lsn < Position(writer)

\* While the process lives, no commit record is lost, and those up to the LSN the
\* group calls flushed are under an fsync.
RecordsOK ==
  power = "up" =>
    \A t \in Committers : txn[t].at \in Committing =>
      /\ Buffered(writer, CommitRecord(t)) \/ Filed(writer, CommitRecord(t))
      /\ txn[t].lsn <= group.flushed => Safe(writer, CommitRecord(t))

AckedSafe == \A t \in Committers : txn[t].at = "acked" => Safe(writer, CommitRecord(t))

LogInv == WriterOK(writer) /\ BufferFits(writer) /\ ThreadsOK /\ LsnsOK /\ RecordsOK /\ AckedSafe

LEMMA LogInit == WalInit => LogInv
<1> SUFFICES ASSUME WalInit PROVE LogInv
  OBVIOUS
<1> DEFINE p == EncodeLsn(1, 0)
           e == <<>>
           f == [s \in {1} |-> Segment(p)]
<1>1. p \in Nat /\ 0 < p
  BY WalAssumption DEF EncodeLsn, Base
<1>2. e \in Seq(Entries) /\ Len(e) = 0
  OBVIOUS
<1>3. f \in FileMaps /\ DOMAIN f = {1} /\ f[1] = Segment(p)
  <2>1. f \in [{1} -> Segments] /\ DOMAIN f = {1} /\ f[1] = Segment(p)
    BY <1>1, SegmentType
  <2>2. {1} \in SUBSET Nat
    OBVIOUS
  <2> HIDE DEF f
  <2> QED
    BY <2>1, <2>2 DEF FileMaps
<1>4. writer = [segment |-> 1, offset |-> 0, open |-> 1, last |-> p, buffer |-> e, files |-> f, faults |-> 0]
  BY DEF WalInit
<1>9. Position(writer) = p
  BY <1>4 DEF Position
<1> HIDE DEF p, e, f
<1>5. writer \in Writers /\ writer.files = f /\ writer.buffer = e /\ writer.open = 1
      /\ writer.segment = 1 /\ writer.last = p
  BY <1>1, <1>2, <1>3, <1>4, WalAssumption DEF Writers
<1>6. WriterOK(writer) /\ BufferFits(writer)
  <2>1. FileOK(writer, f[1]) /\ f[1].safe = Len(f[1].recs)
    BY <1>1, <1>3, <1>9, SegmentType DEF FileOK
  <2> QED
    BY <1>1, <1>2, <1>3, <1>5, <1>9, <2>1, WalAssumption DEF WriterOK, BufferFits
<1>7. ThreadsOK /\ RecordsOK /\ AckedSafe
  BY DEF WalInit, ThreadsOK, RecordsOK, AckedSafe, Threads, Committing, NULL_LSN, Nobody
<1>8. LsnsOK
  BY <1>1, <1>9 DEF WalInit, LsnsOK, NULL_LSN
<1> QED
  BY <1>6, <1>7, <1>8 DEF LogInv

\* A writer that loses nothing and does not go back keeps what threads rely on.
LEMMA WriterMoves ==
  ASSUME LogInv, WriterOK(writer'), BufferFits(writer'), Keeps(writer, writer'),
         Position(writer) <= Position(writer')
  PROVE  /\ \A l \in Nat : l < Position(writer) => l < Position(writer')
         /\ \A r : /\ Buffered(writer, r) \/ Filed(writer, r) => Buffered(writer', r) \/ Filed(writer', r)
                   /\ Safe(writer, r) => Safe(writer', r)
<1>1. Position(writer) \in Nat /\ Position(writer') \in Nat
  BY PositionNat DEF LogInv, WriterOK
<1> QED
  BY <1>1 DEF Keeps

LEMMA LogStep ==
  ASSUME LogInv, NEW t \in Committers, NEW kind \in {"BEGIN", "DATA", "COMMIT"},
         NEW from \in {"new", "open"}, NEW to \in {"open", "logged"},
         kind = "COMMIT" <=> to = "logged",
         Log(t, kind, from, to)
  PROVE  LogInv'
<1> DEFINE rec == Record(t, kind)
<1>1. PICK o \in WriteRecord(writer, rec) :
        /\ writer' = o.w
        /\ txn' = [txn EXCEPT ![t].at = IF o.ok THEN to ELSE IF kind = "DATA" THEN from ELSE "failed",
                              ![t].lsn = IF kind = "COMMIT" THEN rec.lsn ELSE @]
  BY DEF Log
<1>2. power = "up" /\ txn[t].at = from /\ group' = group /\ power' = power
  BY DEF Log
<1>3. rec \in Entries /\ rec.lsn = NextLsn(writer) /\ rec.txn = t /\ rec.kind = kind
      /\ rec = [lsn |-> rec.lsn, txn |-> t, kind |-> kind] /\ rec.lsn \in Nat
  BY AllocateKeeps DEF LogInv, Record, Entries
<1> HIDE DEF rec
<1>4. /\ WriterOK(writer') /\ Keeps(writer, writer') /\ BufferFits(writer')
      /\ Position(writer) <= rec.lsn /\ rec.lsn < Position(writer')
      /\ o.ok => Buffered(writer', rec)
  BY <1>1, <1>3, WriteRecordKeeps DEF LogInv
<1>5. Position(writer) \in Nat /\ Position(writer') \in Nat
  BY <1>4, PositionNat DEF LogInv, WriterOK
<1>6. Position(writer) <= Position(writer')
  BY <1>3, <1>4, <1>5
<1>7. /\ txn \in [Committers -> [at : Threads, lsn : Nat]]
      /\ \A u \in Committers \ {t} : txn'[u] = txn[u]
      /\ txn' \in [Committers -> [at : Threads, lsn : Nat]]
      /\ txn'[t].at = IF o.ok THEN to ELSE IF kind = "DATA" THEN from ELSE "failed"
      /\ txn'[t].lsn = IF kind = "COMMIT" THEN rec.lsn ELSE txn[t].lsn
  <2>1. txn \in [Committers -> [at : Threads, lsn : Nat]]
    BY DEF LogInv, ThreadsOK
  <2> QED
    BY <1>1, <1>2, <1>3, <2>1 DEF Threads
<1>8. ThreadsOK'
  <2>1. txn'[t].at \notin {"flush", "sync"} /\ txn[t].at \notin {"flush", "sync"}
    BY <1>2, <1>7
  <2> QED
    BY <1>2, <1>7, <2>1 DEF LogInv, ThreadsOK
<1>9. LsnsOK'
  BY <1>2, <1>3, <1>4, <1>5, <1>6, <1>7 DEF LogInv, LsnsOK, ThreadsOK
<1>10. \A u \in Committers \ {t} : CommitRecord(u)' = CommitRecord(u)
  BY <1>7 DEF CommitRecord
<1>11. txn'[t].at \in Committing => o.ok /\ kind = "COMMIT" /\ CommitRecord(t)' = rec
  BY <1>3, <1>7 DEF Committing, CommitRecord
<1>12. RecordsOK'
  <2> SUFFICES ASSUME NEW u \in Committers, txn'[u].at \in Committing
               PROVE  /\ Buffered(writer', CommitRecord(u)') \/ Filed(writer', CommitRecord(u)')
                      /\ txn'[u].lsn <= group'.flushed => Safe(writer', CommitRecord(u)')
    BY DEF RecordsOK
  <2>1. CASE u = t
    <3>1. ~(txn'[t].lsn <= group'.flushed)
      <4>1. group.flushed < Position(writer) /\ group.flushed \in Nat
        BY DEF LogInv, LsnsOK, ThreadsOK
      <4> QED
        BY <1>2, <1>3, <1>4, <1>5, <1>7, <1>11, <2>1, <4>1
    <3> QED
      BY <1>4, <1>11, <2>1, <3>1
  <2>2. CASE u # t
    BY <1>2, <1>4, <1>7, <1>10, <2>2 DEF LogInv, RecordsOK, Keeps
  <2> QED
    BY <2>1, <2>2
<1>13. AckedSafe'
  BY <1>4, <1>7, <1>10 DEF LogInv, AckedSafe, Keeps
<1> QED
  BY <1>4, <1>8, <1>9, <1>12, <1>13 DEF LogInv
\* A step of t that moves nobody else, and whose writer loses nothing.
LEMMA ThreadStep ==
  ASSUME LogInv, NEW t \in Committers, NEW at \in Threads,
         txn' = [txn EXCEPT ![t].at = at], power' = power, power = "up",
         WriterOK(writer'), BufferFits(writer'), Keeps(writer, writer'),
         Position(writer') = Position(writer),
         group'.flushed = group.flushed, group' \in [pending : SUBSET Committers, flushed : Nat, leader : Nat],
         \/ at \in {"flush", "sync"} /\ group'.leader = t /\ group.leader \in {Nobody, t}
         \/ at \notin {"flush", "sync"} /\ group'.leader = Nobody /\ group.leader \in {Nobody, t},
         at \in Committing => txn[t].at \in Committing,
         at = "acked" => Safe(writer', CommitRecord(t))
  PROVE  LogInv'
<1>1. /\ txn \in [Committers -> [at : Threads, lsn : Nat]]
      /\ \A u \in Committers \ {t} : txn'[u] = txn[u]
      /\ txn' \in [Committers -> [at : Threads, lsn : Nat]]
      /\ txn'[t].at = at /\ txn'[t].lsn = txn[t].lsn
  <2>1. txn \in [Committers -> [at : Threads, lsn : Nat]]
    BY DEF LogInv, ThreadsOK
  <2> QED
    BY <2>1
<1>2. \A u \in Committers : CommitRecord(u)' = CommitRecord(u)
  BY <1>1 DEF CommitRecord
<1>3. ThreadsOK'
  <2>1. {u \in Committers : txn[u].at \in {"flush", "sync"}} = {group.leader} \ {Nobody}
    BY DEF LogInv, ThreadsOK
  <2>2. t # Nobody
    BY WalAssumption DEF Nobody
  <2>3. {u \in Committers : txn'[u].at \in {"flush", "sync"}} = {group'.leader} \ {Nobody}
    BY <1>1, <2>1, <2>2
  <2> QED
    BY <1>1, <2>3 DEF LogInv, ThreadsOK
<1>4. LsnsOK'
  BY <1>1 DEF LogInv, LsnsOK
<1>5. RecordsOK'
  BY <1>1, <1>2 DEF LogInv, RecordsOK, Keeps
<1>6. AckedSafe'
  BY <1>1, <1>2 DEF LogInv, AckedSafe, Keeps
<1> QED
  BY <1>3, <1>4, <1>5, <1>6 DEF LogInv

LEMMA SameWriter ==
  ASSUME LogInv, writer' = writer
  PROVE  /\ WriterOK(writer') /\ BufferFits(writer') /\ Keeps(writer, writer')
         /\ Position(writer') = Position(writer)
  BY DEF LogInv, Keeps

LEMMA JoinStep == ASSUME LogInv, NEW t \in Committers, JoinBatch(t) PROVE LogInv'
<1> DEFINE batch == group.pending \cup {t}
           full == Cardinality(batch) >= MaxBatch
           at == IF full THEN "flush" ELSE "waiting"
<1>1. /\ power = "up" /\ power' = power /\ group.leader = Nobody /\ writer' = writer
      /\ txn[t].at = "logged"
      /\ group' = [group EXCEPT !.pending = batch, !.leader = IF full THEN t ELSE Nobody]
      /\ txn' = [txn EXCEPT ![t].at = at]
  BY DEF JoinBatch, LockFree
<1>2. group \in [pending : SUBSET Committers, flushed : Nat, leader : Nat] /\ t \in Nat
  BY WalAssumption DEF LogInv, ThreadsOK
<1> HIDE DEF full
<1>3. /\ group' \in [pending : SUBSET Committers, flushed : Nat, leader : Nat]
      /\ group'.flushed = group.flushed /\ group'.leader = IF full THEN t ELSE Nobody
  BY <1>1, <1>2 DEF Nobody
<1>4. /\ at \in Threads /\ at \in Committing /\ at # "acked" /\ (at \in {"flush", "sync"} <=> full)
      /\ txn[t].at \in Committing
  BY <1>1 DEF Threads, Committing
<1> HIDE DEF at
<1> QED
  BY <1>1, <1>3, <1>4, SameWriter, ThreadStep

LEMMA WakeStep == ASSUME LogInv, NEW t \in Committers, Wake(t) PROVE LogInv'
<1>1. power = "up" /\ power' = power /\ group.leader = Nobody /\ writer' = writer
      /\ txn[t].at = "waiting" /\ txn[t].at \in Committing
  BY DEF Wake, LockFree, Committing
<1>2. group \in [pending : SUBSET Committers, flushed : Nat, leader : Nat] /\ t \in Nat
  BY WalAssumption DEF LogInv, ThreadsOK
<1>3. "acked" \in Threads /\ "flush" \in Threads
  BY DEF Threads
<1>4. CASE group.flushed >= txn[t].lsn
  <2>1. txn' = [txn EXCEPT ![t].at = "acked"] /\ group' = group
    BY <1>4 DEF Wake
  <2>2. txn[t].lsn <= group.flushed
    BY <1>4
  <2>3. Safe(writer', CommitRecord(t))
    BY <1>1, <2>2 DEF LogInv, RecordsOK
  <2> QED
    BY <1>1, <1>2, <1>3, <2>1, <2>3, SameWriter, ThreadStep
<1>5. CASE ~(group.flushed >= txn[t].lsn)
  <2>1. txn' = [txn EXCEPT ![t].at = "flush"] /\ group' = [group EXCEPT !.leader = t]
    BY <1>5 DEF Wake
  <2>2. /\ group' \in [pending : SUBSET Committers, flushed : Nat, leader : Nat]
        /\ group'.flushed = group.flushed /\ group'.leader = t
    BY <1>2, <2>1
  <2> QED
    BY <1>1, <1>3, <2>1, <2>2, SameWriter, ThreadStep
<1> QED
  BY <1>4, <1>5

\* Who is in do_flush is the leader.
LEMMA Leads ==
  ASSUME LogInv, NEW t \in Committers, txn[t].at \in {"flush", "sync"}
  PROVE  group.leader = t
  BY DEF LogInv, ThreadsOK

LEMMA FlushStep == ASSUME LogInv, NEW t \in Committers, Flush(t) PROVE LogInv'
<1>1. PICK o \in FlushBuffer(writer) :
        /\ writer' = o.w
        /\ txn' = [txn EXCEPT ![t].at = IF o.ok THEN "sync" ELSE "failed"]
        /\ group' = IF o.ok THEN group ELSE [group EXCEPT !.leader = Nobody]
  BY DEF Flush
<1>2. power = "up" /\ power' = power /\ txn[t].at = "flush" /\ txn[t].at \in Committing
      /\ group.leader = t
  BY Leads DEF Flush, Committing
<1>3. group \in [pending : SUBSET Committers, flushed : Nat, leader : Nat]
  BY DEF LogInv, ThreadsOK
<1>4. /\ WriterOK(writer') /\ Keeps(writer, writer') /\ AtSamePlace(writer, writer')
      /\ writer'.buffer = writer.buffer \/ writer'.buffer = <<>>
  BY <1>1, FlushBufferKeeps DEF LogInv
<1>5. BufferFits(writer') /\ Position(writer') = Position(writer)
  <2>1. Len(<<>>) <= BufferSlots
    BY WalAssumption
  <2> QED
    BY <1>4, <2>1 DEF LogInv, BufferFits, AtSamePlace, Position
<1>6. "sync" \in Threads /\ "failed" \in Threads /\ "failed" \notin Committing
  BY DEF Threads, Committing
<1>7. CASE o.ok
  BY <1>1, <1>2, <1>3, <1>4, <1>5, <1>6, <1>7, ThreadStep
<1>8. CASE ~o.ok
  <2>1. /\ group' \in [pending : SUBSET Committers, flushed : Nat, leader : Nat]
        /\ group'.flushed = group.flushed /\ group'.leader = Nobody
    BY <1>1, <1>3, <1>8 DEF Nobody
  <2> QED
    BY <1>1, <1>2, <1>4, <1>5, <1>6, <1>8, <2>1, ThreadStep
<1> QED
  BY <1>7, <1>8

\* With an empty buffer and every file safe, a record that is there is safe.
LEMMA AllSafeMeans ==
  ASSUME NEW w, WriterOK(w), AllSafe(w), w.buffer = <<>>, NEW r,
         Buffered(w, r) \/ Filed(w, r)
  PROVE  Safe(w, r)
<1>1. Filed(w, r)
  BY DEF Buffered
<1>2. PICK s \in DOMAIN w.files : \E i \in DOMAIN w.files[s].recs : w.files[s].recs[i] = r
  BY <1>1 DEF Filed
<1>3. w.files[s] \in Segments /\ w.files[s].safe = Len(w.files[s].recs)
  BY FilesType DEF WriterOK, AllSafe
<1>4. DOMAIN w.files[s].recs = 1..w.files[s].safe
  BY <1>3 DEF Segments
<1> QED
  BY <1>2, <1>4 DEF Safe

LEMMA HighestFlushed ==
  ASSUME LogInv
  PROVE  LET h == Highest({group.flushed} \cup {txn[p].lsn : p \in group.pending})
         IN  h \in Nat /\ h < Position(writer)
<1> DEFINE L == {group.flushed} \cup {txn[p].lsn : p \in group.pending}
<1>1. /\ group.flushed \in Nat /\ group.pending \subseteq Committers
      /\ \A p \in Committers : txn[p].lsn \in Nat /\ txn[p].lsn < Position(writer)
      /\ group.flushed < Position(writer) /\ Position(writer) \in Nat
  BY PositionNat DEF LogInv, ThreadsOK, LsnsOK, WriterOK
<1>2. L \subseteq Nat /\ L # {} /\ \A l \in L : l < Position(writer) /\ l <= Position(writer)
  BY <1>1
<1> HIDE DEF L
<1>3. \E h \in L : \A l \in L : l <= h
  BY <1>1, <1>2, HighestNat
<1>4. Highest(L) \in L
  BY <1>3 DEF Highest
<1> QED
  BY <1>2, <1>4 DEF L

LEMMA SyncStep == ASSUME LogInv, NEW t \in Committers, SyncBatch(t) PROVE LogInv'
<1> DEFINE h == Highest({group.flushed} \cup {txn[p].lsn : p \in group.pending})
<1>1. PICK o \in Sync(writer) :
        /\ writer' = o.w
        /\ txn' = [txn EXCEPT ![t].at = IF o.ok THEN "acked" ELSE "failed"]
        /\ group' = IF o.ok THEN [pending |-> {}, leader |-> Nobody, flushed |-> h]
                            ELSE [group EXCEPT !.leader = Nobody]
  BY DEF SyncBatch
<1>2. power = "up" /\ power' = power /\ txn[t].at = "sync" /\ txn[t].at \in Committing
      /\ group.leader = t
  BY Leads DEF SyncBatch, Committing
<1>3. group \in [pending : SUBSET Committers, flushed : Nat, leader : Nat]
  BY DEF LogInv, ThreadsOK
<1>4. /\ WriterOK(writer') /\ Keeps(writer, writer') /\ AtSamePlace(writer, writer')
      /\ writer'.buffer \in {writer.buffer, <<>>}
      /\ o.ok => AllSafe(writer') /\ writer'.buffer = <<>>
  BY <1>1, SyncKeeps DEF LogInv
<1>5. BufferFits(writer') /\ Position(writer') = Position(writer)
  <2>1. Len(<<>>) <= BufferSlots
    BY WalAssumption
  <2> QED
    BY <1>4, <2>1 DEF LogInv, BufferFits, AtSamePlace, Position
<1>6. "acked" \in Threads /\ "failed" \in Threads /\ "failed" \notin Committing
  BY DEF Threads, Committing
<1>7. CASE ~o.ok
  <2>1. /\ group' \in [pending : SUBSET Committers, flushed : Nat, leader : Nat]
        /\ group'.flushed = group.flushed /\ group'.leader = Nobody
    BY <1>1, <1>3, <1>7 DEF Nobody
  <2> QED
    BY <1>1, <1>2, <1>4, <1>5, <1>6, <1>7, <2>1, ThreadStep
<1>8. CASE o.ok
  <2>1. h \in Nat /\ h < Position(writer)
    BY HighestFlushed
  <2> HIDE DEF h
  <2>2. /\ group'.pending = {} /\ group'.leader = Nobody /\ group'.flushed = h
        /\ group' \in [pending : SUBSET Committers, flushed : Nat, leader : Nat]
    BY <1>1, <1>8, <2>1 DEF Nobody
  <2>3. /\ txn \in [Committers -> [at : Threads, lsn : Nat]]
        /\ \A u \in Committers \ {t} : txn'[u] = txn[u]
        /\ txn' \in [Committers -> [at : Threads, lsn : Nat]]
        /\ txn'[t].at = "acked" /\ txn'[t].lsn = txn[t].lsn
    <3>1. txn \in [Committers -> [at : Threads, lsn : Nat]]
      BY DEF LogInv, ThreadsOK
    <3> QED
      BY <1>1, <1>6, <1>8, <3>1
  <2>4. \A u \in Committers : CommitRecord(u)' = CommitRecord(u)
    BY <2>3 DEF CommitRecord
  <2>5. ThreadsOK'
    <3>1. {u \in Committers : txn[u].at \in {"flush", "sync"}} = {group.leader} \ {Nobody}
      BY DEF LogInv, ThreadsOK
    <3>2. {u \in Committers : txn'[u].at \in {"flush", "sync"}} = {}
      BY <1>2, <2>3, <3>1
    <3> QED
      BY <1>2, <2>2, <2>3, <3>2 DEF LogInv, ThreadsOK
  <2>6. LsnsOK'
    BY <1>5, <2>1, <2>2, <2>3 DEF LogInv, LsnsOK
  <2>7. \A u \in Committers : txn'[u].at \in Committing => Safe(writer', CommitRecord(u)')
    <3> SUFFICES ASSUME NEW u \in Committers, txn'[u].at \in Committing
                 PROVE  Safe(writer', CommitRecord(u))
      BY <2>4
    <3>1. txn[u].at \in Committing
      BY <1>2, <2>3
    <3>2. Buffered(writer, CommitRecord(u)) \/ Filed(writer, CommitRecord(u))
      BY <1>2, <3>1 DEF LogInv, RecordsOK
    <3>3. Buffered(writer', CommitRecord(u)) \/ Filed(writer', CommitRecord(u))
      BY <1>4, <3>2 DEF Keeps
    <3> QED
      BY <1>4, <1>8, <3>3, AllSafeMeans
  <2>8. RecordsOK'
    <3> SUFFICES ASSUME NEW u \in Committers, txn'[u].at \in Committing
                 PROVE  /\ Buffered(writer', CommitRecord(u)') \/ Filed(writer', CommitRecord(u)')
                        /\ Safe(writer', CommitRecord(u)')
      BY DEF RecordsOK
    <3>1. txn[u].at \in Committing
      BY <1>2, <2>3
    <3> QED
      BY <1>2, <1>4, <2>4, <2>7, <3>1 DEF LogInv, RecordsOK, Keeps
  <2>9. AckedSafe'
    BY <2>7 DEF AckedSafe, Committing
  <2> QED
    BY <1>4, <1>5, <2>5, <2>6, <2>8, <2>9 DEF LogInv
<1> QED
  BY <1>7, <1>8
LEMMA CloseStep == ASSUME LogInv, Close PROVE LogInv'
<1>1. PICK o \in CloseWriter(writer) : writer' = o.w /\ power' = IF o.ok THEN "closed" ELSE power
  BY DEF Close
<1>2. group' = group /\ txn' = txn /\ power = "up"
  BY DEF Close, LockFree
<1>3. /\ WriterOK(writer') /\ Keeps(writer, writer') /\ AtSamePlace(writer, writer')
      /\ writer'.buffer \in {writer.buffer, <<>>}
  BY <1>1, CloseKeeps DEF LogInv
<1>4. BufferFits(writer') /\ Position(writer') = Position(writer)
  <2>1. Len(<<>>) <= BufferSlots
    BY WalAssumption
  <2> QED
    BY <1>3, <2>1 DEF LogInv, BufferFits, AtSamePlace, Position
<1>5. ThreadsOK' /\ LsnsOK'
  BY <1>1, <1>2, <1>4 DEF LogInv, ThreadsOK, LsnsOK
<1>6. \A u \in Committers : CommitRecord(u)' = CommitRecord(u)
  BY <1>2 DEF CommitRecord
<1>7. RecordsOK' /\ AckedSafe'
  BY <1>2, <1>3, <1>6 DEF LogInv, RecordsOK, AckedSafe, Keeps
<1> QED
  BY <1>3, <1>4, <1>5, <1>7 DEF LogInv

\* A file that comes through a crash is whole, and has what an fsync covered.
LEMMA SurvivorKeeps ==
  ASSUME NEW f \in Segments, f.safe <= Len(f.recs), NEW g \in Survivors(f)
  PROVE  /\ g \in Segments /\ g.safe = Len(g.recs) /\ f.safe <= g.safe
         /\ \A i \in 1..f.safe : g.recs[i] = f.recs[i]
         /\ g.last \in {f.last, f.safeLast} /\ g.safeLast = g.last
<1>1. PICK n \in f.safe..Len(f.recs), l \in {f.last, f.safeLast} :
        g = CutShort(f, n, l)
  BY DEF Survivors
<1> DEFINE recs == SubSeq(f.recs, 1, n)
           h == [f EXCEPT !.recs = recs, !.last = l]
<1>2. /\ f.recs \in Seq(Entries) /\ f.safe \in Nat /\ l \in Nat
      /\ n \in Nat /\ f.safe <= n /\ n <= Len(f.recs)
  BY <1>1 DEF Segments
<1>3. recs \in Seq(Entries) /\ Len(recs) = n /\ \A i \in 1..n : recs[i] = f.recs[i]
  BY <1>2
<1>4. g = Synced(h)
  BY <1>1 DEF CutShort
<1> HIDE DEF recs
<1>5. h \in Segments /\ h.recs = recs /\ h.last = l
  BY <1>2, <1>3 DEF Segments
<1> HIDE DEF h
<1>6. g = [h EXCEPT !.safe = n, !.safeLast = l]
  BY <1>3, <1>4, <1>5 DEF Synced
<1>7. g \in Segments /\ g.recs = recs /\ g.safe = n /\ g.last = l /\ g.safeLast = l
  BY <1>2, <1>5, <1>6 DEF Segments
<1> QED
  BY <1>2, <1>3, <1>7

LEMMA CrashStep == ASSUME LogInv, Crash PROVE LogInv'
<1> DEFINE files == writer.files
<1>1. PICK left \in [DOMAIN files -> UNION {Survivors(files[s]) : s \in DOMAIN files}] :
        /\ \A s \in DOMAIN files : left[s] \in Survivors(files[s])
        /\ writer' = [writer EXCEPT !.buffer = <<>>, !.files = left]
  BY DEF Crash
<1>2. power' = "crashed" /\ group' = group /\ txn' = txn
  BY DEF Crash
<1>3. writer \in Writers /\ WriterOK(writer)
  BY DEF LogInv, WriterOK
<1>4. \A s \in DOMAIN files :
        /\ files[s] \in Segments /\ FileOK(writer, files[s])
        /\ left[s] \in Segments /\ left[s].safe = Len(left[s].recs) /\ files[s].safe <= left[s].safe
        /\ \A i \in 1..files[s].safe : left[s].recs[i] = files[s].recs[i]
        /\ left[s].last \in {files[s].last, files[s].safeLast} /\ left[s].safeLast = left[s].last
  <2> SUFFICES ASSUME NEW s \in DOMAIN files
               PROVE  /\ files[s] \in Segments /\ FileOK(writer, files[s])
                      /\ left[s] \in Segments /\ left[s].safe = Len(left[s].recs)
                      /\ files[s].safe <= left[s].safe
                      /\ \A i \in 1..files[s].safe : left[s].recs[i] = files[s].recs[i]
                      /\ left[s].last \in {files[s].last, files[s].safeLast}
                      /\ left[s].safeLast = left[s].last
    OBVIOUS
  <2>1. files[s] \in Segments /\ FileOK(writer, files[s])
    BY <1>3, FilesType DEF WriterOK
  <2>2. files[s].safe <= Len(files[s].recs)
    BY <2>1 DEF FileOK
  <2> QED
    BY <1>1, <2>1, <2>2, SurvivorKeeps
<1> DEFINE e == <<>>
<1>5. e \in Seq(Entries) /\ Len(e) = 0 /\ e = <<>>
  OBVIOUS
<1>6. left \in FileMaps /\ DOMAIN left = DOMAIN files
  <2>1. DOMAIN left = DOMAIN files /\ left = [s \in DOMAIN files |-> left[s]]
    BY <1>1
  <2>2. left \in [DOMAIN files -> Segments]
    BY <1>4, <2>1
  <2> QED
    BY <1>3, <2>1, <2>2, FilesType DEF FileMaps
<1> HIDE DEF e
<1>7. /\ writer' \in Writers /\ writer'.files = left /\ writer'.buffer = e
      /\ writer'.segment = writer.segment /\ writer'.offset = writer.offset
      /\ writer'.open = writer.open /\ writer'.last = writer.last
  <2>1. writer' = [writer EXCEPT !.buffer = e, !.files = left]
    BY <1>1, <1>5
  <2> QED
    BY <1>3, <1>5, <1>6, <2>1 DEF Writers
<1>8. Position(writer') = Position(writer)
  BY <1>7 DEF Position
<1>9. \A s \in DOMAIN left : FileOK(writer', left[s]) /\ left[s].safe = Len(left[s].recs)
  <2> SUFFICES ASSUME NEW s \in DOMAIN left
               PROVE  FileOK(writer', left[s]) /\ left[s].safe = Len(left[s].recs)
    OBVIOUS
  <2>1. /\ left[s] \in Segments /\ left[s].safe = Len(left[s].recs)
        /\ left[s].last \in {files[s].last, files[s].safeLast} /\ left[s].safeLast = left[s].last
        /\ FileOK(writer, files[s])
    BY <1>4, <1>6
  <2>2. left[s].safe <= Len(left[s].recs)
    BY <2>1 DEF Segments
  <2> QED
    BY <1>8, <2>1, <2>2 DEF FileOK
<1>10. WriterOK(writer')
  BY <1>3, <1>6, <1>7, <1>8, <1>9 DEF WriterOK
<1>11. BufferFits(writer')
  BY <1>5, <1>7, WalAssumption DEF BufferFits
<1>12. \A r : Safe(writer, r) => Safe(writer', r)
  <2> SUFFICES ASSUME NEW r, NEW s \in DOMAIN files, NEW i \in 1..files[s].safe, files[s].recs[i] = r
               PROVE  Safe(writer', r)
    BY DEF Safe
  <2>1. /\ files[s].safe \in Nat /\ left[s].safe \in Nat /\ files[s].safe <= left[s].safe
        /\ left[s].recs[i] = r
    BY <1>4 DEF Segments
  <2>2. i \in 1..left[s].safe
    BY <2>1
  <2> QED
    BY <1>6, <1>7, <2>1, <2>2 DEF Safe
<1>13. ThreadsOK' /\ LsnsOK' /\ RecordsOK'
  BY <1>2, <1>8 DEF LogInv, ThreadsOK, LsnsOK, RecordsOK
<1>14. AckedSafe'
  BY <1>2, <1>12 DEF LogInv, AckedSafe, CommitRecord
<1> QED
  BY <1>10, <1>11, <1>13, <1>14 DEF LogInv

LEMMA LogNext == LogInv /\ [WalNext]_walvars => LogInv'
<1> SUFFICES ASSUME LogInv, [WalNext]_walvars PROVE LogInv'
  OBVIOUS
<1>1. ASSUME NEW t \in Committers,
             Log(t, "BEGIN", "new", "open") \/ LogData(t) \/ Log(t, "COMMIT", "open", "logged")
      PROVE  LogInv'
  BY <1>1, LogStep DEF LogData
<1>2. CASE UNCHANGED walvars
  <2>1. UNCHANGED <<writer, group, txn, power>>
    BY <1>2 DEF walvars
  <2> QED
    BY <2>1 DEF LogInv, ThreadsOK, LsnsOK, RecordsOK, AckedSafe, CommitRecord
<1> QED
  BY <1>1, <1>2, JoinStep, WakeStep, FlushStep, SyncStep, CloseStep, CrashStep DEF WalNext

LEMMA LogSafe == LogInv => AckedOnDisk /\ LogTypeOK
<1> SUFFICES ASSUME LogInv PROVE AckedOnDisk /\ LogTypeOK
  OBVIOUS
<1>1. AckedOnDisk
  <2> SUFFICES ASSUME NEW t \in Committers, txn[t].at = "acked" PROVE OnDisk(t)
    BY DEF AckedOnDisk
  <2>1. PICK s \in DOMAIN writer.files : \E i \in 1..writer.files[s].safe :
               writer.files[s].recs[i] = CommitRecord(t)
    BY DEF LogInv, AckedSafe, Safe
  <2>2. CommitRecord(t).txn = t /\ CommitRecord(t).kind = "COMMIT"
    BY DEF CommitRecord
  <2> QED
    BY <2>1, <2>2 DEF OnDisk
<1>2. writer \in Writers /\ WriterOK(writer)
  BY DEF LogInv, WriterOK
<1>3. \A s \in DOMAIN writer.files :
        LET f == writer.files[s]
        IN  f.recs \in Seq(Entries) /\ f.safe \in 0..Len(f.recs)
            /\ {f.safeLast, f.last} \subseteq 0..EncodeLsn(writer.segment, writer.offset)
  <2> SUFFICES ASSUME NEW s \in DOMAIN writer.files
               PROVE  LET f == writer.files[s]
                      IN  f.recs \in Seq(Entries) /\ f.safe \in 0..Len(f.recs)
                          /\ {f.safeLast, f.last} \subseteq 0..EncodeLsn(writer.segment, writer.offset)
    OBVIOUS
  <2>1. writer.files[s] \in Segments /\ FileOK(writer, writer.files[s]) /\ Position(writer) \in Nat
    BY <1>2, FilesType, PositionNat DEF WriterOK
  <2> QED
    BY <2>1 DEF FileOK, Segments, Position
<1>4. LogTypeOK
  BY <1>2, <1>3 DEF LogInv, WriterOK, Writers, BufferFits, ThreadsOK, LogTypeOK
<1> QED
  BY <1>1, <1>4

\* The log keeps its shape: no file is ahead of the allocator, only one leads a flush.
THEOREM LogTypeCorrect == WalSpec => []LogTypeOK
  BY LogInit, LogNext, LogSafe, PTL DEF WalSpec

\* Whatever is written or begun between the two calls of a flush, whichever file
\* operation fails, and whatever a crash takes with it: a commit that was answered
\* is on disk.
THEOREM AnsweredIsOnDisk == WalSpec => []AckedOnDisk
  BY LogInit, LogNext, LogSafe, PTL DEF WalSpec

-----------------------------------------------------------------------------
(* The parts of the engine *)

allvars == <<part, svars, gvars, cvars, walvars, poolvars, tvars>>

LEMMA DmlConstants == Dml!StoreAssumption
  BY EngineAssumption
LEMMA StoreConstants == Store!StoreAssumption
  BY EngineAssumption

LEMMA PoolConstants == Tight!Calm /\ Roomy!Calm
  BY EngineAssumption

\* The variables of the manager, the page and the pool, as the parts group them.
LEMMA SameVars ==
  /\ UNCHANGED svars <=> UNCHANGED Dml!svars
  /\ UNCHANGED svars <=> UNCHANGED Store!svars
  /\ UNCHANGED poolvars <=> UNCHANGED Tight!poolvars
  /\ UNCHANGED poolvars <=> UNCHANGED Roomy!poolvars
  BY DEF svars, Dml!svars, Dml!vars, Dml!lifecycle, Dml!undoVars, Dml!walVars, Dml!clientVars,
     Dml!storeVars, Store!svars, Store!vars, Store!lifecycle, Store!undoVars, Store!walVars,
     Store!clientVars, Store!storeVars,
     poolvars, Tight!poolvars, Roomy!poolvars

\* A step of the engine is a step of the part it runs as.
LEMMA PartSteps ==
  ASSUME [EngineNext]_allvars
  PROVE  /\ part' = part
         /\ part = "dml" => [Dml!StoreNext]_(Dml!svars)
         /\ part = "store" => [Store!StoreNext]_(Store!svars)
         /\ part = "clog" => [ClogNext]_cvars
         /\ part = "pool" => [Tight!PoolNext]_(Tight!poolvars)
         /\ part = "roomy" => [Roomy!PoolNext]_(Roomy!poolvars)
<1>1. CASE EngineNext
  BY <1>1 DEF EngineNext
<1>2. CASE UNCHANGED allvars
  BY <1>2, SameVars DEF allvars
<1> QED
  BY <1>1, <1>2

\* No row that a committed transaction put and none deleted is lost.
THEOREM EngineKeepsRows == EngineSpec => []RowsSurvive
<1> DEFINE Inv == part = "dml" => Dml!WiredInv
<1>1. EngineInit => Inv
  BY DmlConstants, Dml!WiredInit DEF EngineInit
<1>2. Inv /\ [EngineNext]_allvars => Inv'
  BY DmlConstants, PartSteps, Dml!WiredNext DEF Dml!Wired
<1>3. Inv => RowsSurvive
  BY DmlConstants, Dml!WiredSurvives DEF RowsSurvive
<1> QED
  BY <1>1, <1>2, <1>3, PTL DEF EngineSpec, allvars

\* While the engine runs as the guarded store, the store's invariant holds.
LEMMA StorePart ==
  /\ EngineInit => (part = "store" => Store!GuardedInv)
  /\ (part = "store" => Store!GuardedInv) /\ [EngineNext]_allvars
       => (part = "store" => Store!GuardedInv)'
<1>1. EngineInit => (part = "store" => Store!GuardedInv)
  BY StoreConstants, Store!GuardedInit DEF EngineInit
<1>2. (part = "store" => Store!GuardedInv) /\ [EngineNext]_allvars
        => (part = "store" => Store!GuardedInv)'
  BY StoreConstants, PartSteps, Store!GuardedNext
<1> QED
  BY <1>1, <1>2

\* An abort that has returned has left no stamp on a live version, whatever page calls
\* failed on the way.
THEOREM EngineUndoes == EngineSpec => []UndoLeavesNothing
<1> DEFINE Inv == part = "store" => Store!GuardedInv
<1>1. Inv => UndoLeavesNothing
  BY StoreConstants, Store!GuardedUndone DEF UndoLeavesNothing
<1> QED
  BY <1>1, StorePart, PTL DEF EngineSpec, allvars

\* A stamp of a transaction in progress is only ever taken off by its own abort.
THEOREM EngineWritesClean == EngineSpec => CleanWrites
<1> DEFINE Inv == part = "store" => Store!GuardedInv
           Clean == part = "store" => Store!KeepsStamps
<1>1. Inv /\ [EngineNext]_allvars => [Clean]_svars
  BY StoreConstants, PartSteps, Store!GuardedKeepsStamps
<1> QED
  BY <1>1, StorePart, PTL DEF EngineSpec, allvars, CleanWrites

\* The window of commit-log pages answers what was set and keeps what it can.
THEOREM EngineRemembers == EngineSpec => []WindowKept
<1> DEFINE Inv == part = "clog" => ClogInv
<1>1. EngineInit => Inv
  BY ClogInitial DEF EngineInit
<1>2. Inv /\ [EngineNext]_allvars => Inv'
  BY PartSteps, ClogStep
<1>3. Inv => WindowKept
  BY WindowFromInv DEF WindowKept
<1> QED
  BY <1>1, <1>2, <1>3, PTL DEF EngineSpec, allvars

\* The pool keeps pages apart, loses no change to one, and knows which are dirty: where
\* pages are evicted while calls run one at a time, and where calls interleave while
\* there is a frame for everybody.
THEOREM EnginePagesKept == EngineSpec => []PagesKept
<1> DEFINE Inv == (part = "pool" => Tight!PoolInv) /\ (part = "roomy" => Roomy!PoolInv)
<1>1. EngineInit => Inv
  BY PoolConstants, Tight!PoolStarts, Roomy!PoolStarts DEF EngineInit
<1>2. Inv /\ [EngineNext]_allvars => Inv'
  BY PoolConstants, PartSteps, Tight!PoolStep, Roomy!PoolStep
<1>3. Inv => PagesKept
  BY PoolConstants, Tight!PlacesArePages, Roomy!PlacesArePages
  DEF PagesKept, Tight!PoolInv, Roomy!PoolInv
<1> QED
  BY <1>1, <1>2, <1>3, PTL DEF EngineSpec, allvars
=============================================================================
