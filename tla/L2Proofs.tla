------------------------------- MODULE L2Proofs -------------------------------
(***************************************************************************)
(* Proofs about the reconstruction of order books: for any log of the      *)
(* exchange, any connections, gaps, losses, snapshots and days.            *)
(***************************************************************************)
EXTENDS L2Properties, FiniteSetTheorems, SequenceTheorems, WellFoundedInduction, TLAPS

(***************************************************************************)
(* The buffer of SnapshotBridge.                                           *)
(***************************************************************************)

\* A non-empty set of naturals has a least element.
LEMMA LeastNumber ==
  ASSUME NEW T, T \subseteq Nat, T # {} PROVE \E x \in T : \A y \in T : x <= y
<1> DEFINE Less == OpToRel(<, Nat)
<1>1. IsWellFoundedOn(Less, Nat)
  BY NatLessThanWellFounded
<1>2. \A x, y \in Nat : x < y => <<x, y>> \in Less
  BY DEF OpToRel
<1> HIDE DEF Less
<1>3. PICK x \in T : \A y \in T : ~(<<y, x>> \in Less)
  BY <1>1, WFMin
<1>4. ASSUME NEW y \in T PROVE x <= y
  <2>1. x \in Nat /\ y \in Nat
    OBVIOUS
  <2>2. ~(y < x)
    BY <1>2, <1>3, <2>1
  <2> QED
    BY <2>1, <2>2
<1> QED
  BY <1>4

Span == [first : Nat \ {0}, final : Nat \ {0}, prev : Nat]

\* FirstKept finds the first update that is not older than the snapshot.
LEMMA FirstKeptIsFirst ==
  ASSUME NEW spans \in Seq(Span), NEW id \in Nat
  PROVE  /\ FirstKept(id, spans) \in 1 .. Len(spans) + 1
         /\ FirstKept(id, spans) <= Len(spans) => spans[FirstKept(id, spans)].final >= id
         /\ \A j \in 1 .. FirstKept(id, spans) - 1 : spans[j].final < id
<1> DEFINE T == {i \in 1 .. Len(spans) + 1 : i <= Len(spans) => spans[i].final >= id}
           P(i) == /\ i <= Len(spans) => spans[i].final >= id
                   /\ \A j \in 1 .. i - 1 : spans[j].final < id
<1>1. Len(spans) \in Nat /\ \A i \in 1 .. Len(spans) : spans[i] \in Span
  OBVIOUS
<1>2. Len(spans) + 1 \in T /\ T \subseteq Nat
  BY <1>1
<1> HIDE DEF T
<1>3. PICK x \in T : \A y \in T : x <= y
  BY <1>2, LeastNumber
<1>4. ASSUME NEW j \in 1 .. x - 1 PROVE spans[j].final < id
  <2>a. x \in 1 .. Len(spans) + 1 /\ j \notin T
    BY <1>2, <1>3 DEF T
  <2>1. j \notin T /\ j \in 1 .. Len(spans) + 1
    BY <1>1, <2>a
  <2>2. j <= Len(spans) /\ ~(spans[j].final >= id) /\ spans[j] \in Span
    BY <1>1, <2>1 DEF T
  <2> QED
    BY <2>2 DEF Span
<1>5. \E i \in 1 .. Len(spans) + 1 : P(i)
  BY <1>3, <1>4 DEF T
<1>6. FirstKept(id, spans) = CHOOSE i \in 1 .. Len(spans) + 1 : P(i)
  BY DEF FirstKept
<1> HIDE DEF P
<1>7. FirstKept(id, spans) \in 1 .. Len(spans) + 1 /\ P(FirstKept(id, spans))
  BY <1>5, <1>6
<1> QED
  BY <1>7 DEF P

(***************************************************************************)
(* The exchange's book.                                                    *)
(***************************************************************************)

\* Max finds the greatest element of a bounded set of naturals.
LEMMA MaxIsGreatest ==
  ASSUME NEW T, NEW n \in Nat, T \subseteq 0 .. n, T # {}
  PROVE  Max(T) \in T /\ \A y \in T : y <= Max(T)
<1> DEFINE D == {n - x : x \in T}
<1>1. D \subseteq Nat /\ D # {}
  <2>1. \A x \in T : x \in 0 .. n
    OBVIOUS
  <2>2. \A x \in T : n - x \in Nat
    BY <2>1
  <2> QED
    BY <2>2
<1>2. PICK d \in D : \A e \in D : d <= e
  BY <1>1, LeastNumber
<1>3. PICK x \in T : d = n - x
  OBVIOUS
<1>4. ASSUME NEW y \in T PROVE x >= y
  <2>1. n - x <= n - y /\ x \in 0 .. n /\ y \in 0 .. n
    BY <1>2, <1>3
  <2> QED
    BY <2>1
<1>5. Max(T) \in T /\ \A y \in T : Max(T) >= y
  BY <1>4 DEF Max
<1> QED
  BY <1>5

\* An element that no other exceeds is the greatest.
LEMMA MaxIs ==
  ASSUME NEW T, NEW n \in Nat, T \subseteq 0 .. n, NEW m \in T, \A y \in T : y <= m
  PROVE  Max(T) = m
<1>1. Max(T) \in T /\ m <= Max(T)
  BY MaxIsGreatest
<1>2. Max(T) <= m /\ Max(T) \in 0 .. n /\ m \in 0 .. n
  BY <1>1
<1> QED
  BY <1>1, <1>2

LEMMA TouchedIs ==
  ASSUME NEW from, NEW to, NEW p, NEW k
  PROVE  k \in Touched(from, to, p) <=> k \in from .. to /\ k % 3 = p
BY DEF Touched

\* A book of the exchange has a natural number at each level.
LEMMA ExchangeIsBook == ASSUME NEW id \in Nat PROVE Exchange(id) \in [Levels -> Nat]
<1>1. ASSUME NEW p \in Levels PROVE Max({0} \cup Touched(1, id, p)) \in Nat
  <2>1. {0} \cup Touched(1, id, p) \subseteq 0 .. id
    BY TouchedIs
  <2> QED
    BY <2>1, MaxIsGreatest
<1> QED
  BY <1>1 DEF Exchange

\* An update that covers id, or follows it, takes the book at id to the one at
\* its own end.
LEMMA UpdateIsExact ==
  ASSUME NEW id \in Nat, NEW first \in Nat \ {0}, NEW final \in Nat,
         first <= id + 1, id <= final
  PROVE  [p \in Levels |-> LET ks == Touched(first, final, p) IN
                             IF ks = {} THEN Exchange(id)[p] ELSE Max(ks)] = Exchange(final)
<1>1. ASSUME NEW p \in Levels, Touched(first, final, p) = {}
      PROVE  Exchange(id)[p] = Exchange(final)[p]
  <2>1. ASSUME NEW k \in Touched(1, final, p) PROVE k \in Touched(1, id, p)
    <3>1. k \in 1 .. final /\ k % 3 = p /\ k \notin first .. final
      BY <1>1, TouchedIs
    <3>2. k \in 1 .. id
      BY <3>1
    <3> QED
      BY <3>1, <3>2, TouchedIs
  <2>2. ASSUME NEW k \in Touched(1, id, p) PROVE k \in Touched(1, final, p)
    <3>1. k \in 1 .. id /\ k % 3 = p
      BY TouchedIs
    <3>2. k \in 1 .. final
      BY <3>1
    <3> QED
      BY <3>1, <3>2, TouchedIs
  <2>3. Touched(1, id, p) = Touched(1, final, p)
    BY <2>1, <2>2
  <2> QED
    BY <2>3 DEF Exchange
<1>2. ASSUME NEW p \in Levels, Touched(first, final, p) # {}
      PROVE  Max(Touched(first, final, p)) = Exchange(final)[p]
  <2> DEFINE ks == Touched(first, final, p)
             m == Max(ks)
             all == {0} \cup Touched(1, final, p)
  <2>1. ks \subseteq 0 .. final
    BY TouchedIs
  <2>2. m \in ks /\ \A y \in ks : y <= m
    BY <1>2, <2>1, MaxIsGreatest
  <2>3. m \in first .. final /\ m % 3 = p
    BY <2>2, TouchedIs
  <2> HIDE DEF m
  <2>4. m \in all /\ all \subseteq 0 .. final
    <3>1. m \in 1 .. final
      BY <2>3
    <3> QED
      BY <2>3, <3>1, TouchedIs
  <2>5. ASSUME NEW y \in all PROVE y <= m
    <3>1. CASE y = 0
      BY <3>1, <2>3
    <3>2. CASE y \in Touched(1, final, p) /\ y >= first
      <4>1. y \in 1 .. final /\ y % 3 = p
        BY <3>2, TouchedIs
      <4>2. y \in first .. final
        BY <3>2, <4>1
      <4> QED
        BY <2>2, <4>1, <4>2, TouchedIs
    <3>3. CASE y \in Touched(1, final, p) /\ ~(y >= first)
      <4>1. y \in 1 .. final
        BY <3>3, TouchedIs
      <4> QED
        BY <2>3, <3>3, <4>1
    <3> QED
      BY <3>1, <3>2, <3>3
  <2> HIDE DEF all
  <2>6. Max(all) = m
    BY <2>4, <2>5, MaxIs
  <2> QED
    BY <2>6 DEF m, all, Exchange
<1> QED
  BY <1>1, <1>2 DEF Exchange

(***************************************************************************)
(* The replay of a buffer.                                                 *)
(***************************************************************************)

\* A span of the log: it leaves no update out.
LogSpan == {s \in Span : s.first <= s.final /\ s.first = s.prev + 1}

LEMMA LogSpanIs ==
  ASSUME NEW s \in LogSpan
  PROVE  /\ s.first \in Nat \ {0} /\ s.final \in Nat /\ s.prev \in Nat
         /\ s.first <= s.prev + 1 /\ s.prev < s.final
BY DEF LogSpan, Span

Book == [state : {"UNANCHORED", "VALID", "GAPPED"}, levels : [Levels -> Nat], prev : Nat,
         pending : Seq(LogSpan), anchor : Nat, seen : SUBSET Nat]

\* What FoldLeft iterates when it applies the first n spans: a value for each
\* set of positions, from that of the set without its greatest one.
Replays(g, book, spans, n) ==
  g = [s \in SUBSET (1 .. n) |->
         IF s = {} THEN book ELSE Applied(g[s \ {Max(s)}], spans[Max(s)])]

\* There is such a function.
LEMMA ReplayExists ==
  ASSUME NEW book, NEW spans, NEW m \in Nat PROVE \E g : Replays(g, book, spans, m)
<1> DEFINE T == {n \in Nat : ~\E g : Replays(g, book, spans, n)}
<1>1. SUFFICES ASSUME m \in T PROVE FALSE
  OBVIOUS
<1>2. PICK n \in T : \A k \in T : n <= k
  BY <1>1, LeastNumber
<1>3. n # 0
  <2> DEFINE g == [s \in SUBSET (1 .. 0) |-> book]
  <2>1. SUBSET (1 .. 0) = {{}}
    <3>1. 1 .. 0 = {}
      OBVIOUS
    <3> QED
      BY <3>1
  <2>2. g = [s \in SUBSET (1 .. 0) |->
               IF s = {} THEN book ELSE Applied(g[s \ {Max(s)}], spans[Max(s)])]
    BY <2>1
  <2>3. Replays(g, book, spans, 0)
    BY <2>2 DEF Replays
  <2> QED
    BY <2>3
<1>4. n - 1 \in Nat /\ ~(n <= n - 1)
  BY <1>3
<1>5. PICK h : Replays(h, book, spans, n - 1)
  BY <1>2, <1>4
<1> DEFINE g == [s \in SUBSET (1 .. n) |->
                   IF n \in s THEN Applied(h[s \ {n}], spans[n]) ELSE h[s]]
<1>6. \A s \in SUBSET (1 .. n - 1) :
        h[s] = IF s = {} THEN book ELSE Applied(h[s \ {Max(s)}], spans[Max(s)])
  BY <1>5 DEF Replays
<1>7. ASSUME NEW s \in SUBSET (1 .. n)
      PROVE  g[s] = IF s = {} THEN book ELSE Applied(g[s \ {Max(s)}], spans[Max(s)])
  <2> n \in Nat
    OBVIOUS
  <2>1. CASE n \in s
    <3>1. s \subseteq 0 .. n /\ \A y \in s : y <= n
      OBVIOUS
    <3>2. Max(s) = n
      BY <2>1, <3>1, MaxIs
    <3>3. s \ {n} \in SUBSET (1 .. n) /\ n \notin s \ {n}
      OBVIOUS
    <3>4. g[s \ {n}] = h[s \ {n}]
      BY <3>3
    <3>5. g[s] = Applied(h[s \ {n}], spans[n])
      BY <2>1
    <3> QED
      BY <2>1, <3>2, <3>4, <3>5
  <2>2. CASE n \notin s
    <3>1. s \in SUBSET (1 .. n - 1)
      BY <2>2
    <3>2. g[s] = h[s]
      BY <2>2
    <3>3. s \ {Max(s)} \in SUBSET (1 .. n) /\ n \notin s \ {Max(s)}
      BY <2>2
    <3>4. g[s \ {Max(s)}] = h[s \ {Max(s)}]
      BY <3>3
    <3> HIDE DEF g
    <3> QED
      BY <1>6, <3>1, <3>2, <3>4
  <2> QED
    BY <2>1, <2>2
<1>8. Replays(g, book, spans, n)
  <2>1. g = [s \in SUBSET (1 .. n) |-> g[s]]
    OBVIOUS
  <2> HIDE DEF g
  <2> QED
    BY <1>7, <2>1 DEF Replays
<1> QED
  BY <1>8

\* Replayed applies the spans one after the other.
LEMMA FoldReplays ==
  ASSUME NEW book, NEW S, NEW spans \in Seq(S)
  PROVE  \E f : /\ f[0] = book
                /\ \A k \in 1 .. Len(spans) : f[k] = Applied(f[k - 1], spans[k])
                /\ Replayed(book, spans) = f[Len(spans)]
<1> DEFINE n == Len(spans)
           it == CHOOSE g : g = [s \in SUBSET DOMAIN spans |->
                   IF s = {} THEN book ELSE Applied(g[s \ {Max(s)}], spans[Max(s)])]
           f == [k \in 0 .. n |-> it[1 .. k]]
<1>1. Replayed(book, spans) = it[DOMAIN spans]
  BY DEF Replayed, FoldLeft, MapThenFoldSet
<1>2. DOMAIN spans = 1 .. n /\ n \in Nat
  OBVIOUS
<1>3. \E g : g = [s \in SUBSET DOMAIN spans |->
                   IF s = {} THEN book ELSE Applied(g[s \ {Max(s)}], spans[Max(s)])]
  <2>1. PICK g : Replays(g, book, spans, n)
    BY <1>2, ReplayExists
  <2>2. g = [s \in SUBSET DOMAIN spans |->
               IF s = {} THEN book ELSE Applied(g[s \ {Max(s)}], spans[Max(s)])]
    BY <1>2, <2>1 DEF Replays
  <2> QED
    BY <2>2
<1>4. it = [s \in SUBSET DOMAIN spans |->
              IF s = {} THEN book ELSE Applied(it[s \ {Max(s)}], spans[Max(s)])]
  BY <1>3
<1> HIDE DEF it, n
<1>5. f[0] = book
  <2>1. 0 \in 0 .. n /\ 1 .. 0 = {} /\ {} \in SUBSET DOMAIN spans
    BY <1>2
  <2> QED
    BY <1>4, <2>1
<1>6. ASSUME NEW k \in 1 .. n PROVE f[k] = Applied(f[k - 1], spans[k])
  <2> DEFINE s == 1 .. k
  <2>1. k \in Nat /\ k \in s /\ s \in SUBSET (1 .. n) /\ s # {} /\ s \subseteq 0 .. k
        /\ \A y \in s : y <= k
    BY <1>2
  <2>2. Max(s) = k
    BY <2>1, MaxIs
  <2>3. s \ {k} = 1 .. k - 1
    BY <2>1
  <2>4. it[s] = Applied(it[s \ {Max(s)}], spans[Max(s)])
    BY <1>2, <1>4, <2>1
  <2>5. f[k] = it[1 .. k] /\ f[k - 1] = it[1 .. k - 1]
    BY <1>2
  <2> QED
    BY <2>2, <2>3, <2>4, <2>5
<1>7. f[n] = it[1 .. n]
  BY <1>2
<1> QED
  BY <1>1, <1>2, <1>5, <1>6, <1>7 DEF n

\* What a span does to a book.
LEMMA AppliedFields ==
  ASSUME NEW b \in Book, NEW span \in LogSpan
  PROVE  LET a == Applied(b, span) IN
         /\ a.state = b.state /\ a.pending = b.pending /\ a.anchor = b.anchor /\ a.seen = b.seen
         /\ a.prev = span.final
         /\ a.levels = [p \in Levels |-> LET ks == Touched(span.first, span.final, p) IN
                                           IF ks = {} THEN b.levels[p] ELSE Max(ks)]
         /\ DOMAIN a = DOMAIN b
BY DEF Applied, Book

\* A record with the fields of a book is one.
LEMMA BookIs ==
  ASSUME NEW b \in Book, NEW a, DOMAIN a = DOMAIN b, a = [x \in DOMAIN a |-> a[x]],
         a.state \in {"UNANCHORED", "VALID", "GAPPED"}, a.levels \in [Levels -> Nat],
         a.prev \in Nat, a.pending \in Seq(LogSpan), a.anchor \in Nat, a.seen \in SUBSET Nat
  PROVE  a \in Book
BY DEF Book

\* The span that covers the id of a book, or follows it, takes the book of the
\* exchange to the one at its end.
LEMMA AppliedIsExact ==
  ASSUME NEW b \in Book, NEW span \in LogSpan, b.levels = Exchange(b.prev),
         span.first <= b.prev + 1, b.prev <= span.final
  PROVE  LET a == Applied(b, span) IN
         /\ a \in Book
         /\ a.levels = Exchange(a.prev) /\ a.prev = span.final
         /\ a.state = b.state /\ a.pending = b.pending /\ a.anchor = b.anchor /\ a.seen = b.seen
<1> DEFINE a == Applied(b, span)
<1>1. /\ a.state = b.state /\ a.pending = b.pending /\ a.anchor = b.anchor /\ a.seen = b.seen
      /\ a.prev = span.final
      /\ a.levels = [p \in Levels |-> LET ks == Touched(span.first, span.final, p) IN
                                        IF ks = {} THEN b.levels[p] ELSE Max(ks)]
      /\ DOMAIN a = DOMAIN b
  BY AppliedFields
<1>2. span.first \in Nat \ {0} /\ span.final \in Nat
  BY DEF LogSpan, Span
<1>3. /\ b.prev \in Nat /\ b.state \in {"UNANCHORED", "VALID", "GAPPED"}
      /\ b.pending \in Seq(LogSpan) /\ b.anchor \in Nat /\ b.seen \in SUBSET Nat
  BY DEF Book
<1>4. a.levels = Exchange(span.final)
  BY <1>1, <1>2, <1>3, UpdateIsExact
<1>5. a = [x \in DOMAIN a |-> a[x]]
  BY DEF Applied, Book
<1> HIDE DEF a
<1>6. a \in Book
  BY <1>1, <1>2, <1>3, <1>4, <1>5, ExchangeIsBook, BookIs
<1> QED
  BY <1>1, <1>4, <1>6 DEF a

\* A buffer without breaks whose first span covers the anchor takes the book to
\* that of the exchange at its end.
LEMMA ReplayIsExact ==
  ASSUME NEW b \in Book, NEW spans \in Seq(LogSpan), b.levels = Exchange(b.prev),
         Len(spans) > 0, spans[1].first <= b.prev, b.prev <= spans[1].final,
         Breaks(spans) = {}
  PROVE  LET a == Replayed(b, spans) IN
         /\ a \in Book /\ a.levels = Exchange(a.prev) /\ a.seen = b.seen
         /\ a.prev = spans[Len(spans)].final
<1>1. PICK f : /\ f[0] = b
               /\ \A k \in 1 .. Len(spans) : f[k] = Applied(f[k - 1], spans[k])
               /\ Replayed(b, spans) = f[Len(spans)]
  BY FoldReplays
<1> DEFINE Good(k) == /\ f[k] \in Book /\ f[k].levels = Exchange(f[k].prev)
                      /\ f[k].prev = spans[k].final /\ f[k].seen = b.seen
           T == {k \in Nat : k \in 1 .. Len(spans) /\ ~Good(k)}
<1>2. Len(spans) \in Nat /\ \A k \in 1 .. Len(spans) : spans[k] \in LogSpan
  OBVIOUS
<1>3. b.prev \in Nat
  BY DEF Book
<1>4. Good(1)
  <2>1. 1 \in 1 .. Len(spans) /\ f[1] = Applied(b, spans[1])
    BY <1>1, <1>2
  <2>2. spans[1].first <= b.prev + 1
    BY <1>2, <1>3, <2>1 DEF LogSpan, Span
  <2> QED
    BY <1>2, <2>1, <2>2, AppliedIsExact
<1>5. T = {}
  <2>1. SUFFICES ASSUME T # {} PROVE FALSE
    OBVIOUS
  <2>2. PICK k \in T : \A j \in T : k <= j
    BY <2>1, LeastNumber
  <2>3. k \in 2 .. Len(spans)
    BY <1>2, <1>4, <2>2
  <2>4. k - 1 \in 1 .. Len(spans) /\ k \in 1 .. Len(spans) /\ k - 1 \in Nat /\ ~(k <= k - 1)
    BY <1>2, <2>3
  <2>5. Good(k - 1)
    BY <2>2, <2>4
  <2>6. spans[k].prev = spans[k - 1].final
    BY <2>3 DEF Breaks, Continues
  <2>7. spans[k].first <= f[k - 1].prev + 1 /\ f[k - 1].prev <= spans[k].final
    <3>a. f[k - 1].prev = spans[k - 1].final
      BY <2>5
    <3>b. spans[k] \in LogSpan
      BY <2>4
    <3>1. spans[k] \in LogSpan /\ f[k - 1].prev = spans[k].prev
      BY <2>6, <3>a, <3>b
    <3>2. spans[k].first <= spans[k].prev + 1 /\ spans[k].prev <= spans[k].final
      BY <3>b, LogSpanIs
    <3> QED
      BY <3>1, <3>2
  <2>8. f[k] = Applied(f[k - 1], spans[k])
    BY <1>1, <2>4
  <2>9. Good(k)
    BY <1>2, <2>4, <2>5, <2>7, <2>8, AppliedIsExact
  <2> QED
    BY <2>2, <2>9
<1>6. Good(Len(spans))
  BY <1>2, <1>5
<1> QED
  BY <1>1, <1>6

(***************************************************************************)
(* What rows do to a book.                                                 *)
(***************************************************************************)

\* A book with an anchor is the exchange's, at the anchor or behind it; a valid
\* one has no buffer.
GoodBook(b) ==
  /\ b \in Book
  /\ b.state = "VALID" => b.pending = <<>>
  /\ b.state = "VALID" \/ b.anchor # 0 => b.levels = Exchange(b.prev)
  /\ b.state # "VALID" /\ b.anchor # 0 => b.prev = b.anchor

\* The connection of a book has had an update.
Fed(b) == b.state = "VALID" \/ b.pending # <<>>

\* What a row makes of a book, and what the loop of run is told of it.
GoodRow(b, r) ==
  /\ GoodBook(r.book) /\ r.change \in {"none", "VALID", "GAPPED"}
  /\ r.change = "none" => r.book.state = b.state
  /\ r.change # "none" => r.change = r.book.state

GoodResult(b, r) ==
  GoodRow(b, r) /\ (Fed(r.book) => Fed(b)) /\ r.book.seen = b.seen

LEMMA NewBookIsGood == GoodBook(NewBook) /\ ~Fed(NewBook)
<1>1. /\ NewBook.state = "UNANCHORED" /\ NewBook.pending = <<>> /\ NewBook.anchor = 0
      /\ NewBook.prev = 0
  BY DEF NewBook
<1>2. NewBook \in Book
  BY ExchangeIsBook DEF NewBook, Book
<1> QED
  BY <1>1, <1>2 DEF GoodBook, Fed

\* invalidate, and the span the break was found at.
LEMMA InvalidatedIsGood ==
  ASSUME NEW b \in Book
  PROVE  /\ GoodBook(Invalidated(b)) /\ Invalidated(b).state = "GAPPED"
         /\ Invalidated(b).seen = b.seen /\ ~Fed(Invalidated(b))
         /\ \A span \in LogSpan : LET g == [Invalidated(b) EXCEPT !.pending = <<span>>] IN
              GoodBook(g) /\ g.state = "GAPPED" /\ g.seen = b.seen
<1>1. Exchange(0) \in [Levels -> Nat]
  BY ExchangeIsBook
<1>2. /\ Invalidated(b) \in Book
      /\ Invalidated(b).state = "GAPPED" /\ Invalidated(b).pending = <<>>
      /\ Invalidated(b).anchor = 0 /\ Invalidated(b).seen = b.seen
  <2> DEFINE n == NewBook
             w == [n EXCEPT !.state = "GAPPED", !.seen = b.seen]
  <2>1. n \in Book /\ n.pending = <<>> /\ n.anchor = 0
    BY <1>1 DEF NewBook, Book
  <2>2. b.seen \in SUBSET Nat
    BY DEF Book
  <2> HIDE DEF n
  <2>3. /\ w \in Book /\ w.state = "GAPPED" /\ w.pending = n.pending /\ w.anchor = n.anchor
        /\ w.seen = b.seen
    BY <2>1, <2>2 DEF Book
  <2> QED
    BY <2>1, <2>3 DEF Invalidated, n
<1>3. ASSUME NEW span \in LogSpan
      PROVE  LET g == [Invalidated(b) EXCEPT !.pending = <<span>>] IN
             GoodBook(g) /\ g.state = "GAPPED" /\ g.seen = b.seen
  <2> DEFINE v == Invalidated(b)
             g == [v EXCEPT !.pending = <<span>>]
  <2>1. v \in Book /\ <<span>> \in Seq(LogSpan)
    BY <1>2
  <2> HIDE DEF v
  <2>2. g \in Book /\ g.state = v.state /\ g.anchor = v.anchor /\ g.seen = v.seen
    BY <2>1 DEF Book
  <2> QED
    BY <1>2, <2>2 DEF GoodBook, v
<1> QED
  BY <1>2, <1>3 DEF GoodBook, Fed

\* The end of a buffer.
LEMMA KeptSpans ==
  ASSUME NEW spans \in Seq(LogSpan), NEW id \in Nat
  PROVE  LET i == FirstKept(id, spans)
             e == SubSeq(spans, i, Len(spans))
         IN /\ e \in Seq(LogSpan) /\ (e # <<>> => Len(e) > 0 /\ e[1].final >= id)
            /\ (spans = <<>> => e = <<>>)
<1> DEFINE i == FirstKept(id, spans)
           e == SubSeq(spans, i, Len(spans))
<1>1. spans \in Seq(Span) /\ Len(spans) \in Nat
  <2>1. \A k \in 1 .. Len(spans) : spans[k] \in Span
    BY DEF LogSpan
  <2> QED
    BY <2>1
<1>2. i \in 1 .. Len(spans) + 1 /\ (i <= Len(spans) => spans[i].final >= id)
  BY <1>1, FirstKeptIsFirst
<1> HIDE DEF i
<1>3. \A k \in i .. Len(spans) : spans[k] \in LogSpan
  BY <1>2
<1>4. /\ e \in Seq(LogSpan)
      /\ Len(e) = IF i <= Len(spans) THEN Len(spans) - i + 1 ELSE 0
      /\ \A k \in 1 .. Len(spans) - i + 1 : e[k] = spans[i + k - 1]
  BY <1>1, <1>2, <1>3, SubSeqProperties
<1> HIDE DEF e
<1>5. ASSUME e # <<>> PROVE Len(e) > 0 /\ e[1].final >= id
  <2>1. Len(e) > 0
    BY <1>4, <1>5
  <2>2. i <= Len(spans) /\ 1 \in 1 .. Len(spans) - i + 1 /\ i + 1 - 1 = i
    BY <1>1, <1>2, <1>4, <2>1
  <2>3. e[1] = spans[i]
    BY <1>4, <2>2
  <2> QED
    BY <1>2, <2>1, <2>2, <2>3
<1>6. ASSUME spans = <<>> PROVE e = <<>>
  <2>1. Len(e) = 0
    BY <1>2, <1>4, <1>6
  <2> QED
    BY <1>4, <2>1
<1> QED
  BY <1>4, <1>5, <1>6 DEF e, i

LEMMA ResultFields ==
  ASSUME NEW b
  PROVE  /\ Same(b).book = b /\ Same(b).change = "none"
         /\ Change(b).book = b /\ Change(b).change = b.state
BY DEF Same, Change

\* _try_bridge: a book becomes valid only as the exchange's.
LEMMA TryBridgeIsGood ==
  ASSUME NEW b, GoodBook(b) PROVE GoodResult(b, TryBridge(b))
<1> DEFINE spans == SubSeq(b.pending, FirstKept(b.anchor, b.pending), Len(b.pending))
           broken == Breaks(spans)
           break == Min(broken)
<1>1. b \in Book /\ b.pending \in Seq(LogSpan) /\ b.anchor \in Nat /\ b.prev \in Nat
  BY DEF GoodBook, Book
<1>2. /\ spans \in Seq(LogSpan)
      /\ spans # <<>> => Len(spans) > 0 /\ spans[1].final >= b.anchor
      /\ b.pending = <<>> => spans = <<>>
  BY <1>1, KeptSpans
<1> HIDE DEF spans
<1>3. TryBridge(b) =
        IF b.anchor = 0 THEN Same(b)
        ELSE IF spans = <<>> THEN Same([b EXCEPT !.pending = spans])
        ELSE IF TooNew(spans[1], b.anchor)
        THEN Same([b EXCEPT !.levels = Exchange(0), !.prev = 0, !.anchor = 0, !.pending = spans])
        ELSE IF broken # {}
        THEN Change([Invalidated(b) EXCEPT !.pending = <<spans[break]>>])
        ELSE Change([Replayed(b, spans) EXCEPT !.state = "VALID", !.pending = <<>>, !.anchor = 0])
  BY DEF TryBridge, BrokenAt, spans
<1>4. CASE b.anchor = 0
  <2>1. TryBridge(b).book = b /\ TryBridge(b).change = "none"
    BY <1>3, <1>4, ResultFields
  <2> QED
    BY <2>1 DEF GoodResult, GoodRow
<1>5. CASE b.anchor # 0 /\ spans = <<>>
  <2> DEFINE a == [b EXCEPT !.pending = spans]
  <2>1. /\ a \in Book /\ a.state = b.state /\ a.levels = b.levels /\ a.prev = b.prev
        /\ a.anchor = b.anchor /\ a.pending = <<>> /\ a.seen = b.seen
    BY <1>1, <1>2, <1>5 DEF Book
  <2> HIDE DEF a
  <2>2. TryBridge(b).book = a /\ TryBridge(b).change = "none"
    BY <1>3, <1>5, ResultFields DEF a
  <2>3. GoodBook(a)
    BY <2>1 DEF GoodBook
  <2> QED
    BY <2>1, <2>2, <2>3 DEF GoodResult, GoodRow, Fed
<1>6. ASSUME b.anchor # 0, spans # <<>>
      PROVE  /\ b.state # "VALID" /\ b.levels = Exchange(b.prev) /\ b.prev = b.anchor /\ Fed(b)
             /\ Len(spans) > 0 /\ spans[1] \in LogSpan /\ spans[1].final >= b.anchor
  BY <1>2, <1>6 DEF GoodBook, Fed
<1>7. CASE b.anchor # 0 /\ spans # <<>> /\ TooNew(spans[1], b.anchor)
  <2> DEFINE z == Exchange(0)
             a == [b EXCEPT !.levels = z, !.prev = 0, !.anchor = 0, !.pending = spans]
  <2>1. z \in [Levels -> Nat]
    BY ExchangeIsBook
  <2> HIDE DEF z
  <2>2. a \in Book /\ a.state = b.state /\ a.anchor = 0 /\ a.seen = b.seen
    BY <1>1, <1>2, <2>1 DEF Book
  <2> HIDE DEF a
  <2>3. TryBridge(b).book = a /\ TryBridge(b).change = "none"
    BY <1>3, <1>7, ResultFields DEF a, z
  <2>4. GoodBook(a)
    BY <1>6, <1>7, <2>2 DEF GoodBook
  <2> QED
    BY <1>6, <1>7, <2>2, <2>3, <2>4 DEF GoodResult, GoodRow
<1>8. CASE b.anchor # 0 /\ spans # <<>> /\ ~TooNew(spans[1], b.anchor) /\ broken # {}
  <2> DEFINE a == [Invalidated(b) EXCEPT !.pending = <<spans[break]>>]
  <2>1. broken \subseteq Nat /\ broken \subseteq 1 .. Len(spans)
    BY <1>2 DEF Breaks
  <2>2. \E x \in broken : \A y \in broken : x <= y
    BY <1>8, <2>1, LeastNumber
  <2>3. break \in broken
    BY <2>2 DEF Min
  <2>4. spans[break] \in LogSpan
    BY <1>2, <2>1, <2>3
  <2>5. GoodBook(a) /\ a.state = "GAPPED" /\ a.seen = b.seen
    BY <1>1, <2>4, InvalidatedIsGood
  <2> HIDE DEF a
  <2>6. TryBridge(b).book = a /\ TryBridge(b).change = "GAPPED"
    BY <1>3, <1>8, <2>5, ResultFields DEF a
  <2> QED
    BY <1>6, <1>8, <2>5, <2>6 DEF GoodResult, GoodRow
<1>9. CASE b.anchor # 0 /\ spans # <<>> /\ ~TooNew(spans[1], b.anchor) /\ broken = {}
  <2> DEFINE r == Replayed(b, spans)
             none == <<>>
             a == [r EXCEPT !.state = "VALID", !.pending = none, !.anchor = 0]
  <2>1. spans[1].first <= b.prev /\ b.prev <= spans[1].final
    BY <1>1, <1>6, <1>9 DEF TooNew, LogSpan, Span
  <2>2. r \in Book /\ r.levels = Exchange(r.prev) /\ r.seen = b.seen
    BY <1>1, <1>2, <1>6, <1>9, <2>1, ReplayIsExact
  <2> HIDE DEF r
  <2>a. none \in Seq(LogSpan)
    OBVIOUS
  <2>b. TryBridge(b) = Change(a)
    BY <1>3, <1>9 DEF r
  <2> HIDE DEF none
  <2>3. /\ a \in Book /\ a.state = "VALID" /\ a.pending = none /\ a.anchor = 0
        /\ a.levels = r.levels /\ a.prev = r.prev /\ a.seen = r.seen
    BY <2>2, <2>a DEF Book
  <2> HIDE DEF a
  <2>4. TryBridge(b).book = a /\ TryBridge(b).change = "VALID"
    BY <2>b, <2>3, ResultFields
  <2>5. GoodBook(a)
    BY <2>2, <2>3 DEF GoodBook, none
  <2> QED
    BY <1>6, <1>9, <2>2, <2>3, <2>4, <2>5 DEF GoodResult, GoodRow
<1> QED
  BY <1>4, <1>5, <1>7, <1>8, <1>9

\* on_snapshot.
LEMMA SnapshotIsGood ==
  ASSUME NEW b, GoodBook(b), NEW id \in Nat \ {0}
  PROVE  /\ GoodResult(b, BookSnapshot(b, id))
         /\ b.state = "VALID" => BookSnapshot(b, id).book.state = "VALID"
<1> DEFINE e == Exchange(id)
           a == [b EXCEPT !.levels = e, !.prev = id, !.anchor = id]
<1>1. b \in Book /\ e \in [Levels -> Nat]
  BY ExchangeIsBook DEF GoodBook
<1> HIDE DEF e
<1>2. /\ a \in Book /\ a.state = b.state /\ a.pending = b.pending
      /\ a.levels = e /\ a.prev = id /\ a.anchor = id /\ a.seen = b.seen
  BY <1>1 DEF Book
<1> HIDE DEF a
<1>3. GoodBook(a) /\ (Fed(a) => Fed(b))
  BY <1>2 DEF GoodBook, Fed, e
<1>4. BookSnapshot(b, id) = TryBridge(a)
  BY DEF BookSnapshot, a, e
<1>5. GoodResult(a, TryBridge(a))
  BY <1>3, TryBridgeIsGood
<1>6. ASSUME b.state = "VALID" PROVE TryBridge(a).book.state = "VALID"
  <2> DEFINE spans == SubSeq(a.pending, FirstKept(a.anchor, a.pending), Len(a.pending))
             c == [a EXCEPT !.pending = spans]
  <2>1. a.pending = <<>> /\ a.pending \in Seq(LogSpan) /\ a.anchor # 0 /\ a.anchor \in Nat
    BY <1>2, <1>6 DEF GoodBook, Book
  <2>2. spans = <<>>
    BY <2>1, KeptSpans
  <2>3. c.state = "VALID"
    BY <1>2, <1>6 DEF Book
  <2> HIDE DEF c
  <2>4. TryBridge(a) = Same(c)
    BY <2>1, <2>2 DEF TryBridge, c
  <2> QED
    BY <2>3, <2>4, ResultFields
<1> QED
  BY <1>2, <1>3, <1>4, <1>5, <1>6 DEF GoodResult, GoodRow

\* on_diff: a valid book is gapped only by a span that does not continue it.
LEMMA DiffIsGood ==
  ASSUME NEW b, GoodBook(b), NEW span \in LogSpan
  PROVE  LET r == BookDiff(b, span) IN
         /\ GoodRow(b, r)
         /\ r.book.seen \subseteq b.seen \cup {span.final}
         /\ Seen(b, span) => r.book = b
         /\ b.state = "VALID" /\ r.book.state = "GAPPED" => ~Continues(b.prev, span)
<1> DEFINE r == BookDiff(b, span)
           noted == [b EXCEPT !.seen = b.seen \cup {span.final}]
           waiting == [noted EXCEPT !.pending = Append(noted.pending, span)]
<1>1. b \in Book /\ b.prev \in Nat /\ b.pending \in Seq(LogSpan)
  BY DEF GoodBook, Book
<1>2. span.first \in Nat \ {0} /\ span.final \in Nat /\ span.prev \in Nat
      /\ span.first = span.prev + 1 /\ span.first <= span.final
  BY DEF LogSpan, Span
<1>3. r = IF Seen(b, span) THEN Same(b)
          ELSE IF b.state # "VALID"
          THEN IF b.anchor # 0 /\ ~(span.first <= b.anchor /\ b.anchor <= span.final)
               THEN Same(waiting) ELSE TryBridge(waiting)
          ELSE IF Continues(b.prev, span) THEN Same(Applied(noted, span))
          ELSE Change([Invalidated(noted) EXCEPT !.pending = <<span>>])
  BY DEF BookDiff
<1>4. /\ noted \in Book /\ noted.state = b.state /\ noted.levels = b.levels
      /\ noted.prev = b.prev /\ noted.pending = b.pending /\ noted.anchor = b.anchor
      /\ noted.seen = b.seen \cup {span.final}
  BY <1>1, <1>2 DEF Book
<1> HIDE DEF noted
<1>5. /\ waiting \in Book /\ waiting.state = b.state /\ waiting.levels = b.levels
      /\ waiting.prev = b.prev /\ waiting.anchor = b.anchor
      /\ waiting.seen = b.seen \cup {span.final}
  <2> DEFINE longer == Append(noted.pending, span)
  <2>1. longer \in Seq(LogSpan)
    BY <1>1, <1>4
  <2> HIDE DEF longer
  <2>2. LET w == [noted EXCEPT !.pending = longer] IN
        /\ w \in Book /\ w.state = noted.state /\ w.levels = noted.levels
        /\ w.prev = noted.prev /\ w.anchor = noted.anchor /\ w.seen = noted.seen
    BY <1>4, <2>1 DEF Book
  <2> QED
    BY <1>4, <2>2 DEF longer
<1> HIDE DEF waiting
<1>6. CASE Seen(b, span)
  <2>1. r.book = b /\ r.change = "none"
    BY <1>3, <1>6, ResultFields
  <2> HIDE DEF r
  <2> QED
    BY <2>1 DEF GoodRow, r
<1>7. CASE ~Seen(b, span) /\ b.state # "VALID"
  <2>1. GoodBook(waiting)
    BY <1>5, <1>7 DEF GoodBook
  <2>2. GoodRow(waiting, TryBridge(waiting)) /\ TryBridge(waiting).book.seen = waiting.seen
    BY <2>1, TryBridgeIsGood DEF GoodResult
  <2>3. Same(waiting).book = waiting /\ Same(waiting).change = "none"
    BY ResultFields
  <2>4. GoodRow(b, Same(waiting)) /\ GoodRow(b, TryBridge(waiting))
    BY <1>5, <2>1, <2>2, <2>3 DEF GoodRow
  <2>5. r = Same(waiting) \/ r = TryBridge(waiting)
    BY <1>3, <1>7
  <2> HIDE DEF r
  <2> QED
    BY <1>5, <1>7, <2>2, <2>3, <2>4, <2>5 DEF r
<1>8. CASE ~Seen(b, span) /\ b.state = "VALID" /\ Continues(b.prev, span)
  <2> DEFINE a == Applied(noted, span)
  <2>1. noted.levels = Exchange(noted.prev) /\ b.pending = <<>>
    BY <1>4, <1>8 DEF GoodBook
  <2>2. span.first <= noted.prev + 1 /\ noted.prev <= span.final
    BY <1>1, <1>2, <1>4, <1>8 DEF Continues
  <2>3. /\ a \in Book /\ a.levels = Exchange(a.prev) /\ a.state = noted.state
        /\ a.pending = noted.pending /\ a.seen = noted.seen
    BY <1>4, <2>1, <2>2, AppliedIsExact
  <2> HIDE DEF a
  <2>4. GoodBook(a)
    BY <1>4, <1>8, <2>1, <2>3 DEF GoodBook
  <2>5. r.book = a /\ r.change = "none"
    BY <1>3, <1>8, ResultFields DEF a
  <2> HIDE DEF r
  <2> QED
    BY <1>4, <1>8, <2>3, <2>4, <2>5 DEF GoodRow, r
<1>9. CASE ~Seen(b, span) /\ b.state = "VALID" /\ ~Continues(b.prev, span)
  <2> DEFINE a == [Invalidated(noted) EXCEPT !.pending = <<span>>]
  <2>1. GoodBook(a) /\ a.state = "GAPPED" /\ a.seen = noted.seen
    BY <1>4, InvalidatedIsGood
  <2> HIDE DEF a
  <2>2. r.book = a /\ r.change = "GAPPED"
    BY <1>3, <1>9, <2>1, ResultFields DEF a
  <2> HIDE DEF r
  <2> QED
    BY <1>4, <1>9, <2>1, <2>2 DEF GoodRow, r
<1> HIDE DEF r
<1> QED
  BY <1>6, <1>7, <1>8, <1>9 DEF r

\* The book a checkpoint restores: the authority's is kept, and of the others
\* none is valid.
LEMMA RestoredIsGood ==
  ASSUME NEW b, GoodBook(b), ~Refused(b), NEW isAuthority
  PROVE  LET r == Restored(b, isAuthority) IN
         /\ GoodBook(r) /\ (Fed(r) => Fed(b))
         /\ b.state = "VALID" => r.state # "GAPPED"
         /\ r.seen = {}
<1> DEFINE r == Restored(b, isAuthority)
           none == {}
           k == [b EXCEPT !.seen = none]
           kept == SubSeq(b.pending, FirstKept(b.anchor, b.pending), Len(b.pending))
           cut == [b EXCEPT !.pending = kept]
           a == [cut EXCEPT !.seen = none]
<1>1. /\ b \in Book /\ b.pending \in Seq(LogSpan) /\ b.anchor \in Nat
      /\ none \in SUBSET Nat
  BY DEF GoodBook, Book
<1>2. kept \in Seq(LogSpan) /\ (b.pending = <<>> => kept = <<>>)
  BY <1>1, KeptSpans
<1>3. r = IF isAuthority /\ b.state = "VALID" THEN k
          ELSE IF b.anchor # 0 THEN a ELSE NewBook
  BY DEF Restored, FromCheckpoint, FromAnchorCheckpoint, AnchorCheckpoint, Anchored
<1> HIDE DEF none, kept
<1>4. /\ k \in Book /\ k.state = b.state /\ k.levels = b.levels /\ k.prev = b.prev
      /\ k.pending = b.pending /\ k.anchor = b.anchor /\ k.seen = none
  BY <1>1 DEF Book
<1>5. /\ cut \in Book /\ cut.state = b.state /\ cut.levels = b.levels /\ cut.prev = b.prev
      /\ cut.pending = kept /\ cut.anchor = b.anchor
  BY <1>1, <1>2 DEF Book
<1> HIDE DEF cut
<1>6. /\ a \in Book /\ a.state = cut.state /\ a.levels = cut.levels /\ a.prev = cut.prev
      /\ a.pending = cut.pending /\ a.anchor = cut.anchor /\ a.seen = none
  BY <1>1, <1>5 DEF Book
<1> HIDE DEF a, k
<1>7. CASE isAuthority /\ b.state = "VALID"
  <2>1. r = k
    BY <1>3, <1>7
  <2>2. GoodBook(k) /\ (Fed(k) => Fed(b))
    BY <1>4 DEF GoodBook, Fed
  <2> HIDE DEF r
  <2> QED
    BY <1>4, <1>7, <2>1, <2>2 DEF r, none
<1>8. CASE ~(isAuthority /\ b.state = "VALID") /\ b.anchor # 0
  <2>1. r = a /\ b.state # "VALID"
    BY <1>3, <1>8 DEF Refused, Anchored
  <2>2. GoodBook(a) /\ (Fed(a) => Fed(b))
    BY <1>2, <1>5, <1>6, <2>1 DEF GoodBook, Fed
  <2> HIDE DEF r
  <2> QED
    BY <1>6, <1>8, <2>1, <2>2 DEF r, none
<1>9. CASE ~(isAuthority /\ b.state = "VALID") /\ b.anchor = 0
  <2>1. r = NewBook
    BY <1>3, <1>9
  <2>2. NewBook.state = "UNANCHORED" /\ NewBook.seen = {}
    BY DEF NewBook
  <2> HIDE DEF r
  <2> QED
    BY <1>9, <2>1, <2>2, NewBookIsGood DEF r
<1> QED
  BY <1>7, <1>8, <1>9

(***************************************************************************)
(* The books of a day.                                                     *)
(***************************************************************************)

LEMMA LogSpans == \A i \in 1 .. Len(Log) : Log[i] \in LogSpan
<1>1. ASSUME NEW i \in 1 .. Len(Log) PROVE Log[i] \in LogSpan
  <2>1. Log \in Seq(Span)
    BY LogAssumption DEF Span
  <2>2. Log[i] \in Span
    BY <2>1
  <2>3. Log[i].first <= Log[i].final /\ Log[i].first = Log[i].prev + 1
    BY LogAssumption
  <2> QED
    BY <2>2, <2>3 DEF LogSpan
<1> QED
  BY <1>1

\* Every book is good, and what has fed it was received.
BookInv ==
  /\ books \in [Connections -> Book] /\ pos \in [Connections -> 0 .. Len(Log)]
  /\ \A c \in Connections : GoodBook(books[c]) /\ (Fed(books[c]) => pos[c] > 0)

\* The times: gaps are active while they are open, but for the last moment of a
\* day; an authority is valid and no gap is active; the moments of the
\* intervals, and those since the authority is one, were true.
TimeInv ==
  /\ day \in Nat /\ tick \in Nat /\ validFrom \in Nat
  /\ active \subseteq opened /\ ended \subseteq opened /\ active \cap ended = {}
  /\ ~LastMoment => active = opened \ ended
  /\ lastValid # NoConn => lastValid \in Connections
  /\ authority # NoConn =>
       /\ authority \in Connections /\ books[authority].state = "VALID"
       /\ active = {}
       /\ \A t \in validFrom .. Now - 1 : t \in good
  /\ intervals \in Seq(Nat \X Nat)
  /\ \A i \in 1 .. Len(intervals) :
       \A t \in intervals[i][1] .. intervals[i][2] - 1 : t # DayEnd - 1 => t \in good

L2Inv == BookInv /\ TimeInv

\* The clock.
LEMMA Clock ==
  ASSUME TimeInv
  PROVE  Ticks \in Nat /\ DayStart \in Nat /\ DayEnd \in Nat /\ Now \in Nat
         /\ DayEnd = (day + 1) * Ticks
<1>1. Ticks \in Nat /\ day \in Nat /\ tick \in Nat
  BY L2Assumption DEF TimeInv
<1>2. day * Ticks \in Nat /\ (day + 1) * Ticks = day * Ticks + Ticks
  BY <1>1
<1> QED
  BY <1>1, <1>2 DEF DayStart, DayEnd, Now

\* The intervals with the one under way.
LEMMA ClosedIsTrue ==
  ASSUME TimeInv
  PROVE  /\ Closed(Now) \in Seq(Nat \X Nat)
         /\ \A i \in 1 .. Len(Closed(Now)) :
              \A t \in Closed(Now)[i][1] .. Closed(Now)[i][2] - 1 : t # DayEnd - 1 => t \in good
<1>1. /\ intervals \in Seq(Nat \X Nat) /\ validFrom \in Nat
      /\ \A i \in 1 .. Len(intervals) :
           \A t \in intervals[i][1] .. intervals[i][2] - 1 : t # DayEnd - 1 => t \in good
  BY DEF TimeInv
<1>2. CASE authority = NoConn
  BY <1>1, <1>2 DEF Closed
<1>3. CASE authority # NoConn
  <2> DEFINE n == Now
             d == DayEnd
             pair == <<validFrom, n>>
             s == Append(intervals, pair)
  <2>1. n \in Nat /\ \A t \in validFrom .. n - 1 : t \in good
    BY <1>3, Clock DEF TimeInv
  <2>2. Closed(Now) = s
    BY <1>3 DEF Closed
  <2> HIDE DEF n, d
  <2>3. pair \in Nat \X Nat /\ pair[1] = validFrom /\ pair[2] = n
    BY <1>1, <2>1
  <2> HIDE DEF pair
  <2>4. /\ s \in Seq(Nat \X Nat) /\ Len(s) = Len(intervals) + 1
        /\ \A i \in 1 .. Len(intervals) : s[i] = intervals[i]
        /\ s[Len(intervals) + 1] = pair
    BY <1>1, <2>3
  <2> HIDE DEF s
  <2>5. ASSUME NEW i \in 1 .. Len(s), NEW t \in s[i][1] .. s[i][2] - 1, t # d - 1
        PROVE  t \in good
    <3>1. CASE i \in 1 .. Len(intervals)
      BY <1>1, <2>4, <2>5, <3>1 DEF d
    <3>2. CASE i = Len(intervals) + 1
      BY <2>1, <2>3, <2>4, <2>5, <3>2
    <3> QED
      BY <1>1, <2>4, <3>1, <3>2
  <2> QED
    BY <2>2, <2>4, <2>5 DEF d
<1> QED
  BY <1>2, <1>3

\* A row keeps the books.
LEMMA RowBooks ==
  ASSUME BookInv, NEW c \in Connections, NEW r, Row(c, r), GoodBook(r.book),
         pos' \in [Connections -> 0 .. Len(Log)], Fed(r.book) => pos'[c] > 0,
         \A d \in Connections \ {c} : pos'[d] = pos[d]
  PROVE  BookInv'
<1>1. books' = [books EXCEPT ![c] = r.book] /\ r.book \in Book
  BY DEF Row, GoodBook
<1>2. books' \in [Connections -> Book]
  BY <1>1 DEF BookInv
<1>3. ASSUME NEW d \in Connections
      PROVE  GoodBook(books'[d]) /\ (Fed(books'[d]) => pos'[d] > 0)
  <2>1. CASE d = c
    BY <1>1, <2>1 DEF BookInv
  <2>2. CASE d # c
    BY <1>1, <2>2 DEF BookInv
  <2> QED
    BY <2>1, <2>2
<1> QED
  BY <1>2, <1>3 DEF BookInv, GoodBook, Fed

\* A row keeps the times: its book is the authority only while it is valid.
LEMMA RowTimes ==
  ASSUME BookInv, TimeInv, NEW c \in Connections, NEW r, Row(c, r), GoodRow(books[c], r)
  PROVE  TimeInv'
<1> DEFINE closed == Closed(Now)
<1>1. /\ books' = [books EXCEPT ![c] = r.book]
      /\ UNCHANGED <<day, tick, active, opened, ended, good>>
  BY DEF Row, time, gaps
<1>2. UNCHANGED <<Now, DayEnd, LastMoment>>
  BY <1>1 DEF Now, DayEnd, DayStart, LastMoment
<1>3. /\ closed \in Seq(Nat \X Nat)
      /\ \A i \in 1 .. Len(closed) :
           \A t \in closed[i][1] .. closed[i][2] - 1 : t # DayEnd - 1 => t \in good
  BY ClosedIsTrue
<1>4. Now \in Nat
  BY Clock
<1>5. /\ books'[c] = r.book /\ \A d \in Connections \ {c} : books'[d] = books[d]
  BY <1>1 DEF BookInv
<1>6. /\ r.change = "none" => r.book.state = books[c].state
      /\ r.change # "none" => r.change = r.book.state
      /\ r.change \in {"none", "VALID", "GAPPED"}
  BY DEF GoodRow
<1> HIDE DEF closed
<1>7. CASE r.change = "VALID" /\ active = {}
  <2>1. lastValid' = c /\ intervals' = closed /\ authority' = c /\ validFrom' = Now
    BY <1>7 DEF Row, Unmarked, closed
  <2>2. \A t \in validFrom' .. Now - 1 : t \in good
    BY <1>4, <2>1
  <2>3. books'[c].state = "VALID"
    BY <1>5, <1>6, <1>7
  <2> QED
    BY <1>1, <1>2, <1>3, <1>4, <1>7, <2>1, <2>2, <2>3 DEF TimeInv
<1>8. CASE r.change = "VALID" /\ active # {}
  <2>1. lastValid' = c /\ UNCHANGED <<authority, validFrom, intervals>>
    BY <1>8 DEF Row, Unmarked
  <2>2. authority = NoConn
    BY <1>8 DEF TimeInv
  <2> QED
    BY <1>1, <1>2, <2>1, <2>2 DEF TimeInv
<1>9. CASE r.change = "GAPPED" /\ authority = c
  <2>1. /\ intervals' = closed /\ authority' = NoConn /\ validFrom' = 0
        /\ lastValid' = IF lastValid = c THEN NoConn ELSE lastValid
    BY <1>9 DEF Row, NoAuthority, closed
  <2> QED
    BY <1>1, <1>2, <1>3, <2>1 DEF TimeInv
<1>10. CASE r.change # "VALID" /\ ~(r.change = "GAPPED" /\ authority = c)
  <2>1. UNCHANGED <<authority, validFrom, lastValid, intervals>>
    BY <1>10 DEF Row
  <2>2. authority # NoConn => books'[authority].state = "VALID"
    BY <1>5, <1>6, <1>10 DEF TimeInv
  <2> QED
    BY <1>1, <1>2, <2>1, <2>2 DEF TimeInv
<1> QED
  BY <1>7, <1>8, <1>9, <1>10

(***************************************************************************)
(* The steps.                                                              *)
(***************************************************************************)

\* Rows: an update, one that is there twice, a snapshot.
LEMMA RowStep ==
  ASSUME L2Inv, NEW c \in Connections, Diff(c) \/ Repeat(c) \/ Snapshot(c) PROVE L2Inv'
<1>1. GoodBook(books[c]) /\ pos[c] \in 0 .. Len(Log) /\ (Fed(books[c]) => pos[c] > 0)
  BY DEF L2Inv, BookInv
<1>2. Log \in Seq(Span) /\ Len(Log) \in Nat /\ Len(Log) > 0
  BY LogAssumption DEF Span
<1>3. CASE Diff(c)
  <2> DEFINE span == Log[pos[c] + 1]
             r == BookDiff(books[c], span)
  <2>1. pos[c] < Len(Log) /\ pos' = [pos EXCEPT ![c] = pos[c] + 1]
    BY <1>3 DEF Diff
  <2>2. pos[c] + 1 \in 1 .. Len(Log)
    BY <1>1, <1>2, <2>1
  <2>3. /\ pos'[c] = pos[c] + 1 /\ pos' \in [Connections -> 0 .. Len(Log)]
        /\ \A d \in Connections \ {c} : pos'[d] = pos[d]
    BY <1>2, <2>1, <2>2 DEF L2Inv, BookInv
  <2>4. Row(c, r)
    BY <1>3, <2>3 DEF Diff
  <2>5. span \in LogSpan
    BY <2>2, LogSpans
  <2>6. GoodRow(books[c], r)
    BY <1>1, <2>5, DiffIsGood
  <2>7. pos'[c] > 0
    BY <1>1, <2>3
  <2> HIDE DEF r
  <2> QED
    BY <2>3, <2>4, <2>6, <2>7, RowBooks, RowTimes DEF L2Inv, GoodRow
<1>4. CASE Repeat(c)
  <2> DEFINE span == Log[pos[c]]
             r == BookDiff(books[c], span)
  <2>1. pos[c] > 0 /\ pos' = pos /\ Row(c, r) /\ Seen(books[c], span)
    BY <1>4 DEF Repeat, Seen
  <2>2. span \in LogSpan
    BY <1>1, <1>2, <2>1, LogSpans
  <2>3. GoodRow(books[c], r)
    BY <1>1, <2>2, DiffIsGood
  <2>4. pos' \in [Connections -> 0 .. Len(Log)] /\ \A d \in Connections \ {c} : pos'[d] = pos[d]
    BY <2>1 DEF L2Inv, BookInv
  <2> HIDE DEF r
  <2> QED
    BY <2>1, <2>3, <2>4, RowBooks, RowTimes DEF L2Inv, GoodRow
<1>5. CASE Snapshot(c)
  <2> DEFINE last == Log[Min({pos[c] + 1, Len(Log)})].final
  <2>1. PICK id \in 1 .. last : Row(c, BookSnapshot(books[c], id))
    BY <1>5 DEF Snapshot
  <2> DEFINE r == BookSnapshot(books[c], id)
  <2>2. last \in Nat
    <3> DEFINE T == {pos[c] + 1, Len(Log)}
    <3>1. T \subseteq Nat /\ T # {} /\ T \subseteq 1 .. Len(Log) + 1
      BY <1>1, <1>2
    <3>2. \E x \in T : \A y \in T : x <= y
      BY <3>1, LeastNumber
    <3>3. Min(T) \in T /\ \A y \in T : Min(T) <= y
      BY <3>2 DEF Min
    <3> HIDE DEF T
    <3>4. Min(T) <= Len(Log)
      BY <3>3 DEF T
    <3>5. Min(T) \in 1 .. Len(Log)
      <4>1. Min(T) \in 1 .. Len(Log) + 1
        BY <3>1, <3>3
      <4> QED
        BY <1>2, <3>4, <4>1
    <3>6. Log[Min(T)] \in Span
      BY <1>2, <3>5
    <3>7. Log[Min(T)].final \in Nat
      BY <3>6 DEF Span
    <3> QED
      BY <3>7 DEF T
  <2> HIDE DEF last
  <2>3. id \in Nat \ {0}
    BY <2>2
  <2>4. GoodResult(books[c], r)
    BY <1>1, <2>3, SnapshotIsGood
  <2>5. pos' = pos
    BY <1>5 DEF Snapshot
  <2>6. pos' \in [Connections -> 0 .. Len(Log)] /\ \A d \in Connections \ {c} : pos'[d] = pos[d]
    BY <2>5 DEF L2Inv, BookInv
  <2> HIDE DEF r
  <2> QED
    BY <1>1, <2>1, <2>4, <2>5, <2>6, RowBooks, RowTimes DEF L2Inv, GoodResult, GoodRow, r
<1> QED
  BY <1>3, <1>4, <1>5

\* What only the collector and the exchange know of.
LEMMA QuietStep ==
  ASSUME L2Inv, (\E c \in Connections : Lose(c) \/ Timeout(c)) \/ CheckpointRefused \/ UNCHANGED vars
  PROVE  L2Inv'
<1>1. UNCHANGED <<time, books, run, gaps, good>>
  BY DEF Lose, Timeout, CheckpointRefused, vars
<1>2. UNCHANGED <<day, tick, books, authority, validFrom, lastValid, active, intervals, opened, ended,
                  good, Now, DayEnd, LastMoment>>
  BY <1>1 DEF time, run, gaps, Now, DayEnd, DayStart, LastMoment
<1>3. TimeInv'
  BY <1>2 DEF L2Inv, TimeInv
<1>4. CASE UNCHANGED pos
  BY <1>2, <1>3, <1>4 DEF L2Inv, BookInv
<1>5. ASSUME NEW c \in Connections, Lose(c) PROVE BookInv'
  <2>1. pos[c] < Len(Log) /\ pos' = [pos EXCEPT ![c] = pos[c] + 1]
    BY <1>5 DEF Lose
  <2>2. pos \in [Connections -> 0 .. Len(Log)] /\ Len(Log) \in Nat
    BY LogAssumption DEF L2Inv, BookInv
  <2>3. pos[c] + 1 \in 0 .. Len(Log)
    BY <2>1, <2>2
  <2>4. pos' \in [Connections -> 0 .. Len(Log)] /\ \A d \in Connections : pos[d] > 0 => pos'[d] > 0
    BY <2>1, <2>2, <2>3
  <2> QED
    BY <1>2, <2>4 DEF L2Inv, BookInv
<1> QED
  BY <1>3, <1>4, <1>5 DEF L2Inv, Timeout, CheckpointRefused, vars

\* Gap facts: an OPEN fact invalidates every book.
LEMMA GapStep ==
  ASSUME L2Inv, RollOver \/ \E g \in Gaps : Open(g) \/ Close(g) PROVE L2Inv'
<1>1. UNCHANGED <<Now, DayEnd, LastMoment, day, tick, pos, good>>
  BY DEF RollOver, Open, Close, time, Now, DayEnd, DayStart, LastMoment
<1>2. Now \in Nat
  BY Clock DEF L2Inv
<1>3. ASSUME NEW g \in Gaps, Open(g) PROVE L2Inv'
  <2> DEFINE closed == Closed(Now)
  <2>1. /\ books' = [c \in Connections |-> Invalidated(books[c])]
        /\ intervals' = closed /\ authority' = NoConn /\ validFrom' = 0 /\ lastValid' = NoConn
        /\ active' = active \cup {g} /\ opened' = opened \cup {g} /\ g \notin opened
        /\ ended' = ended /\ ~LastMoment
    BY <1>3 DEF Open, GapEndsValidity, NoAuthority
  <2>2. /\ closed \in Seq(Nat \X Nat)
        /\ \A i \in 1 .. Len(closed) :
             \A t \in closed[i][1] .. closed[i][2] - 1 : t # DayEnd - 1 => t \in good
    BY ClosedIsTrue DEF L2Inv
  <2> HIDE DEF closed
  <2>3. /\ active' \subseteq opened' /\ ended' \subseteq opened' /\ active' \cap ended' = {}
        /\ active' = opened' \ ended'
    BY <2>1 DEF L2Inv, TimeInv
  <2>4. TimeInv'
    BY <1>1, <2>1, <2>2, <2>3 DEF L2Inv, TimeInv
  <2>5. ASSUME NEW c \in Connections
        PROVE  GoodBook(books'[c]) /\ ~Fed(books'[c]) /\ books'[c] \in Book
    BY <2>1, InvalidatedIsGood DEF L2Inv, BookInv, GoodBook
  <2>6. books' \in [Connections -> Book]
    BY <2>1, <2>5
  <2>7. BookInv'
    BY <1>1, <2>5, <2>6 DEF L2Inv, BookInv
  <2> QED
    BY <2>4, <2>7 DEF L2Inv
<1>4. ASSUME active' \subseteq active, UNCHANGED <<books, lastValid, intervals, opened>>,
             ended \subseteq ended', ended' \subseteq opened, active' \cap ended' = {},
             ~LastMoment => active' = opened \ ended', LastGapClosed
      PROVE  L2Inv'
  <2>1. BookInv'
    BY <1>1, <1>4 DEF L2Inv, BookInv
  <2>2. /\ \A t \in Now .. Now - 1 : t \in good
        /\ active' \subseteq opened'
    BY <1>2, <1>4 DEF L2Inv, TimeInv
  <2>3. CASE active' = {} /\ lastValid # NoConn /\ books[lastValid].state = "VALID"
    <3>1. authority' = lastValid /\ validFrom' = Now
      BY <1>4, <2>3 DEF LastGapClosed
    <3> QED
      BY <1>1, <1>2, <1>4, <2>1, <2>2, <2>3, <3>1 DEF L2Inv, TimeInv
  <2>4. CASE ~(active' = {} /\ lastValid # NoConn /\ books[lastValid].state = "VALID")
    <3>1. UNCHANGED <<authority, validFrom>>
      BY <1>4, <2>4 DEF LastGapClosed
    <3>2. authority # NoConn => active' = {}
      BY <1>4 DEF L2Inv, TimeInv
    <3> QED
      BY <1>1, <1>4, <2>1, <2>2, <3>1, <3>2 DEF L2Inv, TimeInv
  <2> QED
    BY <2>3, <2>4
<1>5. ASSUME NEW g \in Gaps, Close(g) PROVE L2Inv'
  BY <1>4, <1>5 DEF Close, L2Inv, TimeInv
<1>6. CASE RollOver
  BY <1>4, <1>6 DEF RollOver, L2Inv, TimeInv
<1> QED
  BY <1>3, <1>5, <1>6

\* A moment passes: the book of an authority is true.
LEMMA TickStep == ASSUME L2Inv, Tick PROVE L2Inv'
<1>1. /\ tick' = tick + 1 /\ good' = Passed /\ ~LastMoment
      /\ UNCHANGED <<day, pos, books, authority, validFrom, lastValid, active, intervals, opened, ended>>
  BY DEF Tick, run, gaps
<1>2. Now \in Nat /\ Now' = Now + 1 /\ DayEnd' = DayEnd
  <2>1. DayStart \in Nat /\ DayStart' = DayStart /\ tick \in Nat /\ Now = DayStart + tick
    BY <1>1, Clock DEF L2Inv, TimeInv, DayStart, Now
  <2> QED
    BY <1>1, <2>1 DEF Now, DayEnd
<1>3. active = opened \ ended /\ ended \subseteq opened
  BY <1>1 DEF L2Inv, TimeInv
<1>4. ASSUME authority # NoConn PROVE TrueNow
  <2>1. authority \in Connections /\ books[authority].state = "VALID" /\ active = {}
    BY <1>4 DEF L2Inv, TimeInv
  <2>2. GoodBook(books[authority])
    BY <2>1 DEF L2Inv, BookInv
  <2> QED
    BY <1>3, <1>4, <2>1, <2>2 DEF TrueNow, GoodBook
<1>5. good \subseteq good' /\ (authority # NoConn => Now \in good')
  BY <1>1, <1>4 DEF Passed
<1>6. ASSUME authority # NoConn, NEW t \in validFrom .. Now' - 1 PROVE t \in good'
  <2>1. validFrom \in Nat /\ \A x \in validFrom .. Now - 1 : x \in good
    BY <1>6 DEF L2Inv, TimeInv
  <2>2. t = Now \/ t \in validFrom .. Now - 1
    BY <1>2, <2>1
  <2> QED
    BY <1>5, <1>6, <2>1, <2>2
<1>7. BookInv'
  BY <1>1 DEF L2Inv, BookInv
<1>8. tick' \in Nat
  BY <1>1 DEF L2Inv, TimeInv
<1> QED
  BY <1>1, <1>2, <1>3, <1>5, <1>6, <1>7, <1>8 DEF L2Inv, TimeInv

\* The checkpoint of the next day.
LEMMA MidnightStep == ASSUME L2Inv, Midnight PROVE L2Inv'
<1> DEFINE restored == [c \in Connections |-> Restored(books[c], c = authority)]
<1>1. /\ day' = day + 1 /\ tick' = 0 /\ intervals' = <<>> /\ active' = opened \ ended
      /\ UNCHANGED <<pos, opened, ended>>
      /\ \A c \in Connections : ~Refused(books[c])
  BY DEF Midnight, Resumed, Continuing
<1>2. /\ Continuing = {} => /\ books' = restored /\ authority' = authority /\ lastValid' = authority
                            /\ validFrom' = IF authority = NoConn THEN 0 ELSE DayEnd
      /\ Continuing # {} => /\ books' = [c \in Connections |-> Invalidated(restored[c])]
                            /\ authority' = NoConn /\ validFrom' = 0 /\ lastValid' = NoConn
  BY DEF Midnight, Resumed, NoAuthority
<1>3. ASSUME NEW c \in Connections
      PROVE  /\ GoodBook(restored[c]) /\ restored[c] \in Book
             /\ Fed(restored[c]) => pos[c] > 0
             /\ c = authority /\ books[c].state = "VALID" => restored[c].state = "VALID"
  <2>1. GoodBook(books[c]) /\ (Fed(books[c]) => pos[c] > 0)
    BY DEF L2Inv, BookInv
  <2>2. restored[c] = Restored(books[c], c = authority)
    OBVIOUS
  <2> HIDE DEF restored
  <2>3. GoodBook(restored[c]) /\ (Fed(restored[c]) => Fed(books[c]))
    BY <1>1, <2>1, <2>2, RestoredIsGood
  <2>4. ASSUME c = authority, books[c].state = "VALID" PROVE restored[c].state = "VALID"
    <3>1. restored[c] = FromCheckpoint(books[c])
      BY <2>2, <2>4 DEF Restored
    <3>2. books[c] \in Book
      BY <2>1 DEF GoodBook
    <3> QED
      BY <2>4, <3>1, <3>2 DEF FromCheckpoint, Book
  <2> QED
    BY <2>1, <2>3, <2>4 DEF GoodBook
<1>4. Now' = DayEnd /\ DayEnd \in Nat /\ day' \in Nat
  <2>1. day \in Nat /\ Ticks \in Nat /\ DayEnd \in Nat /\ DayEnd = (day + 1) * Ticks
    BY Clock DEF L2Inv, TimeInv
  <2>2. (day + 1) * Ticks + 0 = (day + 1) * Ticks
    BY <2>1
  <2> QED
    BY <1>1, <2>1, <2>2 DEF Now, DayStart
<1>5. active' \subseteq opened' /\ ended' \subseteq opened' /\ active' \cap ended' = {}
      /\ active' = opened' \ ended'
  BY <1>1 DEF L2Inv, TimeInv
<1>6. intervals' \in Seq(Nat \X Nat) /\ Len(intervals') = 0
  BY <1>1
<1> HIDE DEF restored
<1>7. CASE Continuing = {}
  <2>1. BookInv'
    <3>1. books' \in [Connections -> Book]
      BY <1>2, <1>3, <1>7 DEF restored
    <3> QED
      BY <1>1, <1>2, <1>3, <1>7, <3>1 DEF L2Inv, BookInv
  <2>2. authority # NoConn => /\ authority \in Connections
                              /\ books'[authority].state = "VALID"
    BY <1>2, <1>3, <1>7 DEF L2Inv, TimeInv
  <2>3. authority' # NoConn => \A t \in validFrom' .. Now' - 1 : t \in good'
    BY <1>2, <1>4, <1>7
  <2>4. validFrom' \in Nat /\ active' = {}
    BY <1>1, <1>2, <1>4, <1>7 DEF Continuing
  <2> QED
    BY <1>1, <1>2, <1>4, <1>5, <1>6, <1>7, <2>1, <2>2, <2>3, <2>4 DEF L2Inv, TimeInv
<1>8. CASE Continuing # {}
  <2>1. ASSUME NEW c \in Connections
        PROVE  GoodBook(books'[c]) /\ ~Fed(books'[c]) /\ books'[c] \in Book
    BY <1>2, <1>3, <1>8, InvalidatedIsGood DEF GoodBook
  <2>2. BookInv'
    <3>1. books' \in [Connections -> Book]
      BY <1>2, <1>8, <2>1
    <3> QED
      BY <1>1, <2>1, <3>1 DEF L2Inv, BookInv
  <2> QED
    BY <1>1, <1>2, <1>4, <1>5, <1>6, <1>8, <2>2 DEF L2Inv, TimeInv
<1> QED
  BY <1>7, <1>8

\* L2Inv is an inductive invariant.
THEOREM BooksAndTimes == Spec => []L2Inv
<1>1. Init => L2Inv
  <2> SUFFICES ASSUME Init PROVE L2Inv
    OBVIOUS
  <2>1. BookInv
    <3>1. books = [c \in Connections |-> NewBook] /\ pos = [c \in Connections |-> 0]
      BY DEF Init
    <3>2. NewBook \in Book /\ Len(Log) \in Nat
      BY NewBookIsGood, LogAssumption DEF GoodBook
    <3> QED
      BY <3>1, <3>2, NewBookIsGood DEF BookInv
  <2>2. TimeInv
    BY DEF Init, TimeInv
  <2> QED
    BY <2>1, <2>2 DEF L2Inv
<1>2. L2Inv /\ [Next]_vars => L2Inv'
  BY RowStep, QuietStep, GapStep, TickStep, MidnightStep DEF Next
<1> QED
  BY <1>1, <1>2, PTL DEF Spec

\* A book the reconstruction calls valid is the exchange's, after any losses,
\* repetitions, snapshots, gaps and checkpoints.
THEOREM BooksAreExact == Spec => []BookIsExact
<1>1. L2Inv => BookIsExact
  BY DEF L2Inv, BookInv, GoodBook, BookIsExact
<1> QED
  BY <1>1, BooksAndTimes, PTL

\* The validity that is written for a day holds, but for its last moment, only
\* moments at which the authority's book was true and no gap open.
THEOREM ValidTimesAreTrue == Spec => []ValidTimeIsTrue
<1>1. ASSUME L2Inv PROVE ValidTimeIsTrue
  <2> DEFINE s == Closed(Now)
             last == DayEnd - 1
  <2>1. /\ s \in Seq(Nat \X Nat)
        /\ \A i \in 1 .. Len(s) : \A t \in s[i][1] .. s[i][2] - 1 : t # last => t \in good
    BY <1>1, ClosedIsTrue DEF L2Inv
  <2> HIDE DEF s, last
  <2>2. ASSUME NEW t \in Points(ToSet(s)), t # last PROVE t \in good
    <3>1. PICK i \in ToSet(s) : t \in i[1] .. i[2] - 1
      BY DEF Points
    <3>2. PICK k \in 1 .. Len(s) : i = s[k]
      BY <2>1 DEF ToSet
    <3> QED
      BY <2>1, <2>2, <3>1, <3>2
  <2> QED
    BY <2>2 DEF ValidTimeIsTrue, s, last
<1> QED
  BY <1>1, BooksAndTimes, PTL

\* A valid book is gapped only by a span that does not follow the one before
\* it.  A repeated row, a late snapshot or a checkpoint never gaps one.
THEOREM NoGapIsFalse == Spec => NoFalseGap
<1> DEFINE Gapped(c) == /\ books[c].state = "VALID" /\ books[c].anchor = 0
                        /\ books'[c].state = "GAPPED" /\ active' = active
           Owed(c) == pos'[c] > pos[c] /\ books[c].prev # Log[pos[c]].final
           NoneIsFalse == \A c \in Connections :
             (/\ books[c].state = "VALID" /\ books[c].anchor = 0 /\ books'[c].state = "GAPPED"
              /\ active' = active)
               => pos'[c] > pos[c] /\ books[c].prev # Log[pos[c]].final
<1>1. ASSUME L2Inv, [Next]_vars, NEW c \in Connections, Gapped(c) PROVE Owed(c)
  <2>1. /\ GoodBook(books[c]) /\ books[c].state = "VALID" /\ books'[c].state = "GAPPED"
        /\ active' = active /\ pos[c] \in 1 .. Len(Log)
    BY <1>1, LogAssumption DEF L2Inv, BookInv, Fed
  <2>2. books' # books
    BY <2>1
  <2>3. ASSUME NEW d \in Connections, NEW r, Row(d, r)
        PROVE  d = c /\ books'[c] = r.book
    <3>1. books' = [books EXCEPT ![d] = r.book]
      BY <2>3 DEF Row
    <3> QED
      BY <1>1, <2>1, <3>1 DEF L2Inv, BookInv
  <2>4. ASSUME NEW d \in Connections, Diff(d) PROVE Owed(c)
    <3> DEFINE span == Log[pos[d] + 1]
               r == BookDiff(books[d], span)
    <3>1. pos[d] < Len(Log) /\ pos' = [pos EXCEPT ![d] = pos[d] + 1]
      BY <2>4 DEF Diff
    <3>2. pos \in [Connections -> 0 .. Len(Log)] /\ Len(Log) \in Nat
      BY <1>1, LogAssumption DEF L2Inv, BookInv
    <3>3. pos'[d] = pos[d] + 1 /\ pos[d] + 1 \in 1 .. Len(Log)
      BY <3>1, <3>2
    <3>4. Row(d, r)
      BY <2>4, <3>3 DEF Diff
    <3>5. d = c /\ books'[c] = r.book
      <4> HIDE DEF r
      <4> QED
        BY <2>3, <3>4
    <3>6. span \in LogSpan
      BY <3>3, LogSpans
    <3>7. ~Continues(books[c].prev, span)
      BY <2>1, <3>5, <3>6, DiffIsGood
    <3>8. span.prev = Log[pos[c]].final
      <4> DEFINE j == pos[c] + 1
      <4>1. j \in 1 .. Len(Log) /\ j # 1 /\ j - 1 = pos[c] /\ span = Log[j]
        BY <2>1, <3>2, <3>3, <3>5
      <4> HIDE DEF j
      <4>2. Log[j].prev = Log[j - 1].final
        BY <4>1, LogAssumption
      <4> QED
        BY <4>1, <4>2
    <3> QED
      BY <2>1, <3>2, <3>3, <3>5, <3>7, <3>8 DEF Continues
  <2>5. ASSUME NEW d \in Connections, Repeat(d) PROVE FALSE
    <3> DEFINE r == BookDiff(books[d], Log[pos[d]])
    <3>1. Row(d, r) /\ Seen(books[d], Log[pos[d]])
      BY <2>5 DEF Repeat, Seen
    <3>2. r.book = books[d]
      BY <3>1, ResultFields DEF BookDiff
    <3> HIDE DEF r
    <3>3. d = c /\ books'[c] = r.book
      BY <2>3, <3>1
    <3> QED
      BY <2>1, <3>2, <3>3
  <2>6. ASSUME NEW d \in Connections, Snapshot(d) PROVE FALSE
    <3>1. PICK id \in 1 .. Log[Min({pos[d] + 1, Len(Log)})].final :
            Row(d, BookSnapshot(books[d], id))
      BY <2>6 DEF Snapshot
    <3> DEFINE r == BookSnapshot(books[d], id)
    <3>2. d = c /\ books'[c] = r.book
      <4> HIDE DEF r
      <4>1. Row(d, r)
        BY <3>1 DEF r
      <4> QED
        BY <2>3, <4>1
    <3>3. id \in Nat \ {0}
      OBVIOUS
    <3>4. r.book.state = "VALID"
      BY <2>1, <3>2, <3>3, SnapshotIsGood
    <3> QED
      BY <2>1, <3>2, <3>4
  <2>7. ASSUME NEW g \in Gaps, Open(g) PROVE FALSE
    BY <1>1, <2>1, <2>7 DEF Open, L2Inv, TimeInv
  <2>8. CASE Midnight
    <3>1. active = {} /\ active' = Continuing /\ ~Refused(books[c])
      BY <1>1, <2>8 DEF Midnight, Resumed, DayIsOver
    <3>2. books'[c] = Restored(books[c], c = authority)
      BY <1>1, <2>1, <2>8, <3>1 DEF Midnight, Resumed
    <3>3. books'[c].state # "GAPPED"
      BY <2>1, <3>1, <3>2, RestoredIsGood
    <3> QED
      BY <2>1, <3>3
  <2>9. ~(Tick \/ CheckpointRefused \/ RollOver \/ UNCHANGED vars)
    BY <2>2 DEF Tick, CheckpointRefused, RollOver, vars
  <2>10. \A d \in Connections : ~Lose(d) /\ ~Timeout(d)
    BY <2>2 DEF Lose, Timeout
  <2>11. \A g \in Gaps : ~Close(g)
    BY <2>2 DEF Close
  <2> QED
    BY <1>1, <2>4, <2>5, <2>6, <2>7, <2>8, <2>9, <2>10, <2>11 DEF Next
<1>2. L2Inv /\ [Next]_vars => [NoneIsFalse]_vars
  BY <1>1
<1> QED
  BY <1>2, BooksAndTimes, PTL DEF Spec, NoFalseGap

(***************************************************************************)
(* The checkpoint.                                                         *)
(***************************************************************************)

KeptOf(id, spans) == SubSeq(spans, FirstKept(id, spans), Len(spans))

LEMMA LogSpansAreSpans == ASSUME NEW s \in Seq(LogSpan) PROVE s \in Seq(Span)
<1>1. \A k \in 1 .. Len(s) : s[k] \in Span
  BY DEF LogSpan
<1> QED
  BY <1>1

\* No other position is the first that is not older than the snapshot.
LEMMA FirstKeptIs ==
  ASSUME NEW spans \in Seq(LogSpan), NEW id \in Nat, NEW i \in 1 .. Len(spans) + 1,
         i <= Len(spans) => spans[i].final >= id,
         \A j \in 1 .. i - 1 : spans[j].final < id
  PROVE  FirstKept(id, spans) = i
<1> DEFINE k == FirstKept(id, spans)
<1>1. /\ k \in 1 .. Len(spans) + 1 /\ (k <= Len(spans) => spans[k].final >= id)
      /\ \A j \in 1 .. k - 1 : spans[j].final < id
  BY LogSpansAreSpans, FirstKeptIsFirst
<1>2. Len(spans) \in Nat /\ \A j \in 1 .. Len(spans) : spans[j].final \in Nat
  <2>1. \A j \in 1 .. Len(spans) : spans[j] \in LogSpan
    OBVIOUS
  <2> QED
    BY <2>1, LogSpanIs
<1> HIDE DEF k
<1>3. ~(k < i)
  <2>1. ASSUME k < i PROVE k \in 1 .. i - 1 /\ k \in 1 .. Len(spans)
    BY <1>1, <1>2, <2>1
  <2> QED
    BY <1>1, <1>2, <2>1
<1>4. ~(i < k)
  <2>1. ASSUME i < k PROVE i \in 1 .. k - 1 /\ i \in 1 .. Len(spans)
    BY <1>1, <1>2, <2>1
  <2> QED
    BY <1>1, <1>2, <2>1
<1> QED
  BY <1>1, <1>2, <1>3, <1>4 DEF k

\* What is kept of a buffer with one more span.
LEMMA KeptOfLonger ==
  ASSUME NEW spans \in Seq(LogSpan), NEW id \in Nat, NEW span \in LogSpan, id <= span.final
  PROVE  KeptOf(id, Append(spans, span)) = Append(KeptOf(id, spans), span)
<1> DEFINE i == FirstKept(id, spans)
           n == Len(spans)
           e == SubSeq(spans, i, n)
           longer == Append(spans, span)
           left == SubSeq(longer, i, n + 1)
           right == Append(e, span)
<1>1. /\ i \in 1 .. n + 1 /\ (i <= n => spans[i].final >= id)
      /\ \A j \in 1 .. i - 1 : spans[j].final < id
  BY LogSpansAreSpans, FirstKeptIsFirst
<1>2. n \in Nat /\ \A k \in 1 .. n : spans[k] \in LogSpan
  OBVIOUS
<1> HIDE DEF i
<1>3. /\ longer \in Seq(LogSpan) /\ Len(longer) = n + 1 /\ longer[n + 1] = span
      /\ \A k \in 1 .. n : longer[k] = spans[k]
  BY AppendProperties
<1> HIDE DEF longer, n
<1>4. FirstKept(id, longer) = i
  <2>1. i \in 1 .. Len(longer) + 1
    BY <1>1, <1>2, <1>3
  <2>2. ASSUME i <= Len(longer) PROVE longer[i].final >= id
    <3>1. CASE i <= n
      <4>1. i \in 1 .. n
        BY <1>1, <1>2, <3>1
      <4> QED
        BY <1>1, <1>3, <3>1, <4>1
    <3>2. CASE i = n + 1
      BY <1>3, <3>2 DEF LogSpan, Span
    <3> QED
      BY <1>1, <1>2, <3>1, <3>2
  <2>3. ASSUME NEW j \in 1 .. i - 1 PROVE longer[j].final < id
    <3>1. j \in 1 .. n
      BY <1>1, <1>2
    <3> QED
      BY <1>1, <1>3, <3>1
  <2> QED
    BY <1>3, <2>1, <2>2, <2>3, FirstKeptIs
<1>5. KeptOf(id, longer) = left /\ KeptOf(id, spans) = e
  BY <1>3, <1>4 DEF KeptOf, i, n
<1>6. /\ e \in Seq(LogSpan) /\ Len(e) = n - i + 1
      /\ \A k \in 1 .. n - i + 1 : e[k] = spans[i + k - 1]
  <2>1. \A k \in i .. n : spans[k] \in LogSpan
    BY <1>1, <1>2
  <2>2. /\ e \in Seq(LogSpan) /\ Len(e) = IF i <= n THEN n - i + 1 ELSE 0
        /\ \A k \in 1 .. n - i + 1 : e[k] = spans[i + k - 1]
    BY <1>1, <1>2, <2>1, SubSeqProperties
  <2> HIDE DEF e
  <2> QED
    BY <1>1, <1>2, <2>2
<1>7. /\ left \in Seq(LogSpan) /\ Len(left) = n - i + 2
      /\ \A k \in 1 .. n - i + 2 : left[k] = longer[i + k - 1]
  <2>1. \A k \in i .. n + 1 : longer[k] \in LogSpan
    BY <1>1, <1>2, <1>3
  <2>2. /\ left \in Seq(LogSpan) /\ Len(left) = IF i <= n + 1 THEN (n + 1) - i + 1 ELSE 0
        /\ \A k \in 1 .. (n + 1) - i + 1 : left[k] = longer[i + k - 1]
    BY <1>1, <1>2, <2>1, SubSeqProperties
  <2>3. (n + 1) - i + 1 = n - i + 2 /\ i <= n + 1
    BY <1>1, <1>2
  <2> HIDE DEF left
  <2> QED
    BY <2>2, <2>3
<1> HIDE DEF e, left
<1>8. /\ right \in Seq(LogSpan) /\ Len(right) = n - i + 2 /\ right[n - i + 2] = span
      /\ \A k \in 1 .. n - i + 1 : right[k] = e[k]
  <2>1. /\ right \in Seq(LogSpan) /\ Len(right) = Len(e) + 1 /\ right[Len(e) + 1] = span
        /\ \A k \in 1 .. Len(e) : right[k] = e[k]
    BY <1>6, AppendProperties
  <2>2. Len(e) + 1 = n - i + 2
    BY <1>1, <1>2, <1>6
  <2> HIDE DEF right
  <2> QED
    BY <1>6, <2>1, <2>2
<1> HIDE DEF right
<1>9. ASSUME NEW k \in 1 .. n - i + 2 PROVE left[k] = right[k]
  <2>1. CASE k \in 1 .. n - i + 1
    <3>1. i + k - 1 \in 1 .. n
      BY <1>1, <1>2, <2>1
    <3> QED
      BY <1>3, <1>6, <1>7, <1>8, <2>1, <3>1
  <2>2. CASE k = n - i + 2
    <3>1. i + k - 1 = n + 1
      BY <1>1, <1>2, <2>2
    <3> QED
      BY <1>3, <1>7, <1>8, <2>2, <3>1
  <2> QED
    BY <1>1, <1>2, <2>1, <2>2
<1>10. left = right
  BY <1>7, <1>8, <1>9, SeqEqual
<1> QED
  BY <1>5, <1>10 DEF longer, right

\* Keeping twice is keeping once.
LEMMA KeptOfKept ==
  ASSUME NEW spans \in Seq(LogSpan), NEW id \in Nat
  PROVE  KeptOf(id, KeptOf(id, spans)) = KeptOf(id, spans) /\ KeptOf(id, spans) \in Seq(LogSpan)
<1> DEFINE e == KeptOf(id, spans)
<1>1. e \in Seq(LogSpan) /\ (e # <<>> => Len(e) > 0 /\ e[1].final >= id)
  BY KeptSpans DEF KeptOf
<1> HIDE DEF e
<1>2. FirstKept(id, e) = 1
  <2>1. Len(e) \in Nat /\ 1 \in 1 .. Len(e) + 1 /\ 1 .. 1 - 1 = {}
    BY <1>1
  <2>2. 1 <= Len(e) => e[1].final >= id
    BY <1>1
  <2> QED
    BY <1>1, <2>1, <2>2, FirstKeptIs
<1>3. SubSeq(e, 1, Len(e)) = e
  BY <1>1
<1> QED
  BY <1>1, <1>2, <1>3 DEF KeptOf, e

\* What _try_bridge makes of what it keeps of the buffer.
BridgeChange(id, spans) ==
  IF spans = <<>> \/ TooNew(spans[1], id) THEN "none"
  ELSE IF Breaks(spans) # {} THEN "GAPPED" ELSE "VALID"

BridgePrev(id, spans) ==
  IF spans = <<>> THEN id
  ELSE IF TooNew(spans[1], id) \/ Breaks(spans) # {} THEN 0 ELSE spans[Len(spans)].final

\* A result: its change, and a book that is the exchange's after an update.
Gives(r, change, id) == r.change = change /\ r.book.prev = id /\ r.book.levels = Exchange(id)

LEMMA SameGives ==
  ASSUME NEW a, NEW id, a.prev = id, a.levels = Exchange(id)
  PROVE  Gives(Same(a), "none", id)
BY ResultFields DEF Gives

LEMMA ChangeGives ==
  ASSUME NEW a, NEW id, a.prev = id, a.levels = Exchange(id)
  PROVE  Gives(Change(a), a.state, id)
BY ResultFields DEF Gives

LEMMA TryBridgeGives ==
  ASSUME NEW b, GoodBook(b), b.state # "VALID", b.anchor # 0
  PROVE  LET spans == KeptOf(b.anchor, b.pending) IN
         Gives(TryBridge(b), BridgeChange(b.anchor, spans), BridgePrev(b.anchor, spans))
<1> DEFINE spans == KeptOf(b.anchor, b.pending)
           broken == Breaks(spans)
           break == Min(broken)
<1>1. /\ b \in Book /\ b.pending \in Seq(LogSpan) /\ b.anchor \in Nat /\ b.prev = b.anchor
      /\ b.levels = Exchange(b.prev)
  BY DEF GoodBook, Book
<1>2. /\ spans \in Seq(LogSpan)
      /\ spans # <<>> => Len(spans) > 0 /\ spans[1].final >= b.anchor
  BY <1>1, KeptSpans DEF KeptOf
<1>3. TryBridge(b) =
        IF spans = <<>> THEN Same([b EXCEPT !.pending = spans])
        ELSE IF TooNew(spans[1], b.anchor)
        THEN Same([b EXCEPT !.levels = Exchange(0), !.prev = 0, !.anchor = 0, !.pending = spans])
        ELSE IF broken # {}
        THEN Change([Invalidated(b) EXCEPT !.pending = <<spans[break]>>])
        ELSE Change([Replayed(b, spans) EXCEPT !.state = "VALID", !.pending = <<>>, !.anchor = 0])
  BY DEF TryBridge, BrokenAt, KeptOf
<1> HIDE DEF spans
<1> DEFINE Given == Gives(TryBridge(b), BridgeChange(b.anchor, spans), BridgePrev(b.anchor, spans))
<1>4. ASSUME spans = <<>> PROVE Given
  <2> DEFINE a == [b EXCEPT !.pending = spans]
  <2>1. a.prev = b.prev /\ a.levels = b.levels
    BY <1>1 DEF Book
  <2> HIDE DEF a
  <2>2. TryBridge(b) = Same(a)
    BY <1>3, <1>4 DEF a
  <2>3. BridgeChange(b.anchor, spans) = "none" /\ BridgePrev(b.anchor, spans) = b.anchor
    BY <1>4 DEF BridgeChange, BridgePrev
  <2> QED
    BY <1>1, <2>1, <2>2, <2>3, SameGives
<1>5. ASSUME spans # <<>> /\ TooNew(spans[1], b.anchor) PROVE Given
  <2> DEFINE z == Exchange(0)
             a == [b EXCEPT !.levels = z, !.prev = 0, !.anchor = 0, !.pending = spans]
  <2> HIDE DEF z
  <2>1. a.prev = 0 /\ a.levels = z
    BY <1>1 DEF Book
  <2> HIDE DEF a
  <2>2. TryBridge(b) = Same(a)
    BY <1>3, <1>5 DEF a, z
  <2>3. BridgeChange(b.anchor, spans) = "none" /\ BridgePrev(b.anchor, spans) = 0
    BY <1>5 DEF BridgeChange, BridgePrev
  <2> QED
    BY <2>1, <2>2, <2>3, SameGives DEF z
<1>6. ASSUME spans # <<>> /\ ~TooNew(spans[1], b.anchor) /\ broken # {} PROVE Given
  <2> DEFINE v == Invalidated(b)
             one == <<spans[break]>>
             a == [v EXCEPT !.pending = one]
  <2>1. v \in Book /\ v.state = "GAPPED" /\ v.prev = 0 /\ v.levels = Exchange(0)
    BY <1>1, InvalidatedIsGood DEF GoodBook, Invalidated, NewBook
  <2> HIDE DEF v, one
  <2>2. a.prev = v.prev /\ a.levels = v.levels /\ a.state = v.state
    BY <2>1 DEF Book
  <2> HIDE DEF a
  <2>3. TryBridge(b) = Change(a)
    BY <1>3, <1>6 DEF a, v, one
  <2>4. BridgeChange(b.anchor, spans) = "GAPPED" /\ BridgePrev(b.anchor, spans) = 0
    BY <1>6 DEF BridgeChange, BridgePrev
  <2> QED
    BY <2>1, <2>2, <2>3, <2>4, ChangeGives
<1>7. ASSUME spans # <<>> /\ ~TooNew(spans[1], b.anchor) /\ broken = {} PROVE Given
  <2> DEFINE v == Replayed(b, spans)
             none == <<>>
             a == [v EXCEPT !.state = "VALID", !.pending = none, !.anchor = 0]
  <2>1. spans[1] \in LogSpan /\ Len(spans) > 0 /\ b.prev <= spans[1].final
    BY <1>1, <1>2, <1>7, LogSpanIs
  <2>2. spans[1].first <= b.prev
    BY <1>1, <1>7, <2>1, LogSpanIs DEF TooNew
  <2>3. v \in Book /\ v.levels = Exchange(v.prev) /\ v.prev = spans[Len(spans)].final
    BY <1>1, <1>2, <1>7, <2>1, <2>2, ReplayIsExact
  <2> HIDE DEF v, none
  <2>4. a.prev = v.prev /\ a.levels = v.levels /\ a.state = "VALID"
    BY <2>3 DEF Book
  <2> HIDE DEF a
  <2>5. TryBridge(b) = Change(a)
    BY <1>3, <1>7 DEF a, v, none
  <2>6. /\ BridgeChange(b.anchor, spans) = "VALID"
        /\ BridgePrev(b.anchor, spans) = spans[Len(spans)].final
    BY <1>7 DEF BridgeChange, BridgePrev
  <2> QED
    BY <2>3, <2>4, <2>5, <2>6, ChangeGives
<1>8. Given
  BY <1>4, <1>5, <1>6, <1>7
<1> QED
  BY <1>8 DEF spans

\* What on_diff makes of a new span.
Covers(span, id) == span.first <= id /\ id <= span.final

DiffChange(b, span) ==
  IF b.state = "VALID" THEN (IF Continues(b.prev, span) THEN "none" ELSE "GAPPED")
  ELSE IF Covers(span, b.anchor)
  THEN BridgeChange(b.anchor, KeptOf(b.anchor, Append(b.pending, span))) ELSE "none"

DiffPrev(b, span) ==
  IF b.state = "VALID" THEN (IF Continues(b.prev, span) THEN span.final ELSE 0)
  ELSE IF Covers(span, b.anchor)
  THEN BridgePrev(b.anchor, KeptOf(b.anchor, Append(b.pending, span))) ELSE b.prev

LEMMA DiffGives ==
  ASSUME NEW b, GoodBook(b), b.state = "VALID" \/ b.anchor # 0,
         NEW span \in LogSpan, ~Seen(b, span)
  PROVE  Gives(BookDiff(b, span), DiffChange(b, span), DiffPrev(b, span))
<1> DEFINE r == BookDiff(b, span)
           noted == [b EXCEPT !.seen = b.seen \cup {span.final}]
           waiting == [noted EXCEPT !.pending = Append(noted.pending, span)]
<1>1. b \in Book /\ b.prev \in Nat /\ b.pending \in Seq(LogSpan) /\ b.levels = Exchange(b.prev)
  BY DEF GoodBook, Book
<1>2. /\ span.first \in Nat \ {0} /\ span.final \in Nat /\ span.prev \in Nat
      /\ span.first <= span.prev + 1 /\ span.prev < span.final
  BY LogSpanIs
<1>3. r = IF b.state # "VALID"
          THEN IF b.anchor # 0 /\ ~Covers(span, b.anchor)
               THEN Same(waiting) ELSE TryBridge(waiting)
          ELSE IF Continues(b.prev, span) THEN Same(Applied(noted, span))
          ELSE Change([Invalidated(noted) EXCEPT !.pending = <<span>>])
  BY DEF BookDiff, Covers
<1>4. /\ noted \in Book /\ noted.state = b.state /\ noted.levels = b.levels
      /\ noted.prev = b.prev /\ noted.pending = b.pending /\ noted.anchor = b.anchor
  BY <1>1, <1>2 DEF Book
<1> HIDE DEF noted
<1>5. /\ waiting \in Book /\ waiting.state = b.state /\ waiting.levels = b.levels
      /\ waiting.prev = b.prev /\ waiting.anchor = b.anchor
      /\ waiting.pending = Append(b.pending, span)
  <2> DEFINE longer == Append(noted.pending, span)
  <2>1. longer \in Seq(LogSpan)
    BY <1>1, <1>4
  <2> HIDE DEF longer
  <2>2. LET w == [noted EXCEPT !.pending = longer] IN
        /\ w \in Book /\ w.state = noted.state /\ w.levels = noted.levels
        /\ w.prev = noted.prev /\ w.anchor = noted.anchor /\ w.pending = longer
    BY <1>4, <2>1 DEF Book
  <2> QED
    BY <1>4, <2>2 DEF longer
<1> HIDE DEF waiting
<1>6. ASSUME b.state # "VALID" /\ ~Covers(span, b.anchor)
      PROVE  Gives(BookDiff(b, span), DiffChange(b, span), DiffPrev(b, span))
  <2>1. r = Same(waiting) /\ DiffChange(b, span) = "none" /\ DiffPrev(b, span) = b.prev
    BY <1>3, <1>6 DEF DiffChange, DiffPrev
  <2> HIDE DEF r
  <2> QED
    BY <1>1, <1>5, <2>1, SameGives DEF r
<1>7. ASSUME b.state # "VALID" /\ Covers(span, b.anchor)
      PROVE  Gives(BookDiff(b, span), DiffChange(b, span), DiffPrev(b, span))
  <2> DEFINE kept == KeptOf(b.anchor, Append(b.pending, span))
  <2>1. r = TryBridge(waiting)
    BY <1>3, <1>7
  <2>2. GoodBook(waiting)
    BY <1>5, <1>7 DEF GoodBook
  <2>3. Gives(TryBridge(waiting), BridgeChange(b.anchor, kept), BridgePrev(b.anchor, kept))
    BY <1>5, <1>7, <2>2, TryBridgeGives
  <2> HIDE DEF r, kept
  <2>4. DiffChange(b, span) = BridgeChange(b.anchor, kept)
        /\ DiffPrev(b, span) = BridgePrev(b.anchor, kept)
    BY <1>7 DEF DiffChange, DiffPrev, kept
  <2> QED
    BY <2>1, <2>3, <2>4 DEF r
<1>8. ASSUME b.state = "VALID" /\ Continues(b.prev, span)
      PROVE  Gives(BookDiff(b, span), DiffChange(b, span), DiffPrev(b, span))
  <2> DEFINE a == Applied(noted, span)
  <2>1. noted.levels = Exchange(noted.prev)
    BY <1>1, <1>4
  <2>2. span.first <= noted.prev + 1 /\ noted.prev <= span.final
    BY <1>1, <1>2, <1>4, <1>8 DEF Continues
  <2>3. a.levels = Exchange(a.prev) /\ a.prev = span.final
    BY <1>4, <2>1, <2>2, AppliedIsExact
  <2> HIDE DEF a
  <2>4. r = Same(a) /\ DiffChange(b, span) = "none" /\ DiffPrev(b, span) = span.final
    BY <1>3, <1>8 DEF a, DiffChange, DiffPrev
  <2> HIDE DEF r
  <2> QED
    BY <2>3, <2>4, SameGives DEF r
<1>9. ASSUME b.state = "VALID" /\ ~Continues(b.prev, span)
      PROVE  Gives(BookDiff(b, span), DiffChange(b, span), DiffPrev(b, span))
  <2> DEFINE v == Invalidated(noted)
             one == <<span>>
             a == [v EXCEPT !.pending = one]
  <2>1. v \in Book /\ v.state = "GAPPED" /\ v.prev = 0 /\ v.levels = Exchange(0)
    BY <1>4, InvalidatedIsGood DEF GoodBook, Invalidated, NewBook
  <2> HIDE DEF v, one
  <2>2. a.prev = v.prev /\ a.levels = v.levels /\ a.state = v.state
    BY <2>1 DEF Book
  <2> HIDE DEF a
  <2>3. r = Change(a) /\ DiffChange(b, span) = "GAPPED" /\ DiffPrev(b, span) = 0
    BY <1>3, <1>9 DEF a, v, one, DiffChange, DiffPrev
  <2> HIDE DEF r
  <2> QED
    BY <2>1, <2>2, <2>3, ChangeGives DEF r
<1> QED
  BY <1>6, <1>7, <1>8, <1>9

\* What is left of a book takes a span as the book does.
LEMMA RestoredGives ==
  ASSUME NEW b, GoodBook(b), ~Refused(b), NEW isAuthority \in BOOLEAN,
         isAuthority => b.state = "VALID", isAuthority \/ Anchored(b), NEW span \in LogSpan
  PROVE  LET r == Restored(b, isAuthority) IN
         /\ r.state = "VALID" \/ r.anchor # 0
         /\ DiffChange(r, span) = DiffChange(b, span) /\ DiffPrev(r, span) = DiffPrev(b, span)
<1> DEFINE r == Restored(b, isAuthority)
<1>1. b \in Book /\ b.pending \in Seq(LogSpan) /\ b.anchor \in Nat
  BY DEF GoodBook, Book
<1>2. ASSUME isAuthority
      PROVE  /\ r.state = "VALID" \/ r.anchor # 0
             /\ DiffChange(r, span) = DiffChange(b, span) /\ DiffPrev(r, span) = DiffPrev(b, span)
  <2>1. r = FromCheckpoint(b)
    BY <1>2 DEF Restored
  <2>2. FromCheckpoint(b).state = b.state /\ FromCheckpoint(b).prev = b.prev
    BY <1>1 DEF FromCheckpoint, Book
  <2> HIDE DEF r
  <2> QED
    BY <1>2, <2>1, <2>2 DEF DiffChange, DiffPrev
<1>3. ASSUME ~isAuthority
      PROVE  /\ r.state = "VALID" \/ r.anchor # 0
             /\ DiffChange(r, span) = DiffChange(b, span) /\ DiffPrev(r, span) = DiffPrev(b, span)
  <2> DEFINE kept == KeptOf(b.anchor, b.pending)
             cut == [b EXCEPT !.pending = kept]
             none == {}
             a == [cut EXCEPT !.seen = none]
  <2>1. b.anchor # 0 /\ b.state # "VALID"
    BY <1>3 DEF Refused, Anchored
  <2>2. r = a
    BY <1>3, <2>1 DEF Restored, Anchored, FromAnchorCheckpoint, AnchorCheckpoint, KeptOf
  <2>3. kept \in Seq(LogSpan) /\ KeptOf(b.anchor, kept) = kept
    BY <1>1, KeptOfKept
  <2> HIDE DEF r, kept, none
  <2>4. /\ cut \in Book /\ cut.state = b.state /\ cut.prev = b.prev /\ cut.anchor = b.anchor
        /\ cut.pending = kept
    BY <1>1, <2>3 DEF Book
  <2> HIDE DEF cut
  <2>5. a.state = b.state /\ a.prev = b.prev /\ a.anchor = b.anchor /\ a.pending = kept
    BY <2>4 DEF Book
  <2> HIDE DEF a
  <2>6. CASE Covers(span, b.anchor)
    <3>1. b.anchor <= span.final
      BY <2>6 DEF Covers
    <3>2. KeptOf(b.anchor, Append(kept, span)) = Append(kept, span)
      BY <1>1, <2>3, <3>1, KeptOfLonger
    <3>3. KeptOf(b.anchor, Append(b.pending, span)) = Append(kept, span)
      BY <1>1, <3>1, KeptOfLonger DEF kept
    <3> QED
      BY <2>1, <2>2, <2>5, <2>6, <3>2, <3>3 DEF DiffChange, DiffPrev
  <2>7. CASE ~Covers(span, b.anchor)
    BY <2>1, <2>2, <2>5, <2>7 DEF DiffChange, DiffPrev
  <2> QED
    BY <2>6, <2>7
<1> QED
  BY <1>2, <1>3

\* seen_diffs has only spans of the connection's past.
SeenBefore(ids, n) == \A x \in ids : n > 0 /\ x <= Log[n].final

SeenInv == \A c \in Connections : SeenBefore(books[c].seen, pos[c])

LEMMA SeenLater ==
  ASSUME NEW ids \in SUBSET Nat, NEW n \in 0 .. Len(Log), n < Len(Log), SeenBefore(ids, n)
  PROVE  /\ SeenBefore(ids \cup {Log[n + 1].final}, n + 1) /\ SeenBefore(ids, n + 1)
         /\ Log[n + 1].final \notin ids
<1> DEFINE m == n + 1
<1>1. m \in 1 .. Len(Log) /\ m > 0 /\ Len(Log) \in Nat
  BY LogAssumption
<1>2. Log[m].final \in Nat /\ Log[m].prev < Log[m].final
  <2>1. Log[m] \in LogSpan
    BY <1>1, LogSpans
  <2> HIDE DEF m
  <2> QED
    BY <2>1, LogSpanIs
<1>3. ASSUME NEW x \in ids PROVE x < Log[m].final
  <2>1. n > 0 /\ x <= Log[n].final /\ x \in Nat
    BY DEF SeenBefore
  <2>2. m # 1 /\ m - 1 = n /\ n \in 1 .. Len(Log)
    BY <1>1, <2>1
  <2>3. Log[n] \in LogSpan
    BY <2>2, LogSpans
  <2>4. Log[n].final \in Nat
    BY <2>3, LogSpanIs
  <2> HIDE DEF m
  <2>5. Log[m].prev = Log[m - 1].final
    BY <1>1, <2>2, LogAssumption
  <2> QED
    BY <1>2, <2>1, <2>2, <2>4, <2>5
<1> HIDE DEF m
<1>4. SeenBefore(ids \cup {Log[m].final}, m) /\ SeenBefore(ids, m) /\ Log[m].final \notin ids
  BY <1>1, <1>2, <1>3 DEF SeenBefore
<1> QED
  BY <1>4 DEF m

LEMMA SeenStep == ASSUME L2Inv, SeenInv, [Next]_vars PROVE SeenInv'
<1>1. /\ books \in [Connections -> Book] /\ pos \in [Connections -> 0 .. Len(Log)]
      /\ Len(Log) \in Nat
      /\ \A c \in Connections : GoodBook(books[c]) /\ books[c].seen \in SUBSET Nat
  BY LogAssumption DEF L2Inv, BookInv, Book
<1>2. ASSUME NEW c \in Connections, NEW r, Row(c, r), NEW n \in Nat,
             pos' = [pos EXCEPT ![c] = n], SeenBefore(r.book.seen, n)
      PROVE  SeenInv'
  <2>1. books' = [books EXCEPT ![c] = r.book]
    BY <1>2 DEF Row
  <2>2. ASSUME NEW d \in Connections PROVE SeenBefore(books'[d].seen, pos'[d])
    <3>1. CASE d = c
      BY <1>1, <1>2, <2>1, <3>1
    <3>2. CASE d # c
      BY <1>1, <1>2, <2>1, <3>2 DEF SeenInv
    <3> QED
      BY <3>1, <3>2
  <2> QED
    BY <2>2 DEF SeenInv, SeenBefore
<1>3. ASSUME NEW c \in Connections, Diff(c) PROVE SeenInv'
  <2> DEFINE n == pos[c] + 1
             r == BookDiff(books[c], Log[n])
  <2>1. pos[c] < Len(Log) /\ pos' = [pos EXCEPT ![c] = n] /\ n \in 1 .. Len(Log)
    BY <1>1, <1>3 DEF Diff
  <2>2. Row(c, r)
    <3>1. pos'[c] = n
      BY <1>1, <2>1
    <3> QED
      BY <1>3, <3>1 DEF Diff
  <2>3. SeenBefore(books[c].seen \cup {Log[n].final}, n)
    BY <1>1, <2>1, SeenLater DEF SeenInv
  <2>4. r.book.seen \subseteq books[c].seen \cup {Log[n].final}
    BY <1>1, <2>1, LogSpans, DiffIsGood
  <2> HIDE DEF r
  <2>5. SeenBefore(r.book.seen, n)
    BY <2>3, <2>4 DEF SeenBefore
  <2>6. n \in Nat
    BY <2>1
  <2> HIDE DEF n
  <2> QED
    BY <1>2, <2>1, <2>2, <2>5, <2>6
<1>4. ASSUME NEW c \in Connections, Lose(c) PROVE SeenInv'
  <2>1. pos[c] < Len(Log) /\ pos' = [pos EXCEPT ![c] = pos[c] + 1] /\ books' = books
    BY <1>4 DEF Lose
  <2>2. ASSUME NEW d \in Connections PROVE SeenBefore(books'[d].seen, pos'[d])
    <3>1. CASE d = c
      BY <1>1, <2>1, <3>1, SeenLater DEF SeenInv
    <3>2. CASE d # c
      BY <1>1, <2>1, <3>2 DEF SeenInv
    <3> QED
      BY <3>1, <3>2
  <2> QED
    BY <2>2 DEF SeenInv, SeenBefore
<1>5. ASSUME NEW c \in Connections, Repeat(c) PROVE SeenInv'
  <2> DEFINE r == BookDiff(books[c], Log[pos[c]])
  <2>1. Row(c, r) /\ Seen(books[c], Log[pos[c]]) /\ pos' = pos
    BY <1>5 DEF Repeat, Seen
  <2>2. r.book = books[c]
    BY <2>1, ResultFields DEF BookDiff
  <2> HIDE DEF r
  <2>3. pos' = [pos EXCEPT ![c] = pos[c]] /\ pos[c] \in Nat
    BY <1>1, <2>1
  <2>4. SeenBefore(r.book.seen, pos[c])
    BY <2>2 DEF SeenInv
  <2> QED
    BY <1>2, <2>1, <2>3, <2>4
<1>6. ASSUME NEW c \in Connections, Snapshot(c) PROVE SeenInv'
  <2>1. PICK id \in 1 .. Log[Min({pos[c] + 1, Len(Log)})].final :
          Row(c, BookSnapshot(books[c], id))
    BY <1>6 DEF Snapshot
  <2> DEFINE r == BookSnapshot(books[c], id)
  <2>2. id \in Nat \ {0} /\ pos' = [pos EXCEPT ![c] = pos[c]] /\ pos[c] \in Nat
    BY <1>1, <1>6 DEF Snapshot
  <2>3. r.book.seen = books[c].seen
    BY <1>1, <2>2, SnapshotIsGood DEF GoodResult
  <2>4. Row(c, r)
    BY <2>1
  <2> HIDE DEF r
  <2> QED
    BY <1>2, <2>2, <2>3, <2>4 DEF SeenInv
<1>7. ASSUME NEW g \in Gaps, Open(g) PROVE SeenInv'
  <2>1. pos' = pos /\ books' = [c \in Connections |-> Invalidated(books[c])]
    BY <1>7 DEF Open
  <2>2. \A c \in Connections : books'[c].seen = books[c].seen
    BY <1>1, <2>1, InvalidatedIsGood
  <2> QED
    BY <2>1, <2>2 DEF SeenInv, SeenBefore
<1>8. ASSUME Midnight PROVE SeenInv'
  <2> DEFINE restored == [c \in Connections |-> Restored(books[c], c = authority)]
  <2>1. /\ \A c \in Connections : ~Refused(books[c])
        /\ books' = restored \/ books' = [c \in Connections |-> Invalidated(restored[c])]
    BY <1>8 DEF Midnight, Resumed
  <2>2. ASSUME NEW c \in Connections PROVE restored[c] \in Book /\ restored[c].seen = {}
    <3>1. restored[c] = Restored(books[c], c = authority)
      OBVIOUS
    <3> HIDE DEF restored
    <3> QED
      BY <1>1, <2>1, <3>1, RestoredIsGood DEF GoodBook
  <2> HIDE DEF restored
  <2>3. ASSUME NEW c \in Connections PROVE books'[c].seen = {}
    BY <2>1, <2>2, InvalidatedIsGood
  <2> QED
    BY <2>3 DEF SeenInv, SeenBefore
<1>9. ASSUME books' = books, pos' = pos PROVE SeenInv'
  BY <1>9 DEF SeenInv, SeenBefore
<1>10. ASSUME Tick \/ CheckpointRefused \/ RollOver \/ UNCHANGED vars
       PROVE  books' = books /\ pos' = pos
  BY <1>10 DEF Tick, CheckpointRefused, RollOver, vars
<1>11. ASSUME NEW c \in Connections, Timeout(c) PROVE books' = books /\ pos' = pos
  BY <1>11 DEF Timeout
<1>12. ASSUME NEW g \in Gaps, Close(g) PROVE books' = books /\ pos' = pos
  BY <1>12 DEF Close
<1> QED
  BY <1>3, <1>4, <1>5, <1>6, <1>7, <1>8, <1>9, <1>10, <1>11, <1>12 DEF Next

\* The last step of a day.
LEMMA DayEnds == ASSUME L2Inv, Next, day' > day PROVE Midnight
<1>1. day \in Nat
  BY DEF L2Inv, TimeInv
<1>2. day' # day
  BY <1>1
<1>3. \A c, r : ~Row(c, r)
  BY <1>2 DEF Row, time
<1>4. ~(Tick \/ CheckpointRefused \/ RollOver)
  BY <1>2 DEF Tick, CheckpointRefused, RollOver, time
<1>5. \A c \in Connections : ~(Diff(c) \/ Lose(c) \/ Repeat(c) \/ Snapshot(c) \/ Timeout(c))
  BY <1>2, <1>3 DEF Diff, Lose, Repeat, Snapshot, Timeout, time
<1>6. \A g \in Gaps : ~(Open(g) \/ Close(g))
  BY <1>2 DEF Open, Close, time
<1> QED
  BY <1>4, <1>5, <1>6 DEF Next

\* The checkpoint of a day is enough: over any midnight at which no gap
\* continues, what is restored of the authority's book and of an anchored one
\* takes the connection's next span as the book itself would have.
THEOREM CheckpointsAreEnough == Spec => CheckpointIsEnough
<1> DEFINE Enough ==
             (day' > day /\ opened = ended) =>
               \A c \in {d \in Connections : d = authority \/ Anchored(books[d])} :
                 pos[c] < Len(Log) =>
                   LET span == Log[pos[c] + 1]
                       before == BookDiff(books[c], span)
                       after == BookDiff(books'[c], span)
                   IN /\ before.change = after.change /\ before.book.levels = after.book.levels
                      /\ before.book.prev = after.book.prev
<1>1. ASSUME L2Inv, SeenInv, Midnight, opened = ended,
             NEW c \in Connections, c = authority \/ Anchored(books[c]), pos[c] < Len(Log)
      PROVE  LET span == Log[pos[c] + 1]
                 before == BookDiff(books[c], span)
                 after == BookDiff(books'[c], span)
             IN /\ before.change = after.change /\ before.book.levels = after.book.levels
                /\ before.book.prev = after.book.prev
  <2> DEFINE n == pos[c] + 1
             span == Log[n]
             b == books[c]
             r == Restored(b, c = authority)
  <2>1. /\ GoodBook(b) /\ ~Refused(b) /\ b.seen \in SUBSET Nat
        /\ c = authority => b.state = "VALID"
        /\ pos[c] \in 0 .. Len(Log) /\ Len(Log) \in Nat
    <3>1. authority = c => authority # NoConn
      BY <1>1, ConnectionAssumption
    <3> QED
      BY <1>1, <3>1, LogAssumption DEF L2Inv, BookInv, TimeInv, Midnight, Book
  <2>2. books'[c] = r
    BY <1>1 DEF Midnight, Resumed, Continuing
  <2>3. n \in 1 .. Len(Log) /\ Log[n].final \notin b.seen
    <3>1. SeenBefore(books[c].seen, pos[c])
      BY <1>1 DEF SeenInv
    <3>2. pos[c] < Len(Log) /\ n \in 1 .. Len(Log)
      BY <1>1, <2>1
    <3> QED
      BY <2>1, <3>1, <3>2, SeenLater
  <2>4. span \in LogSpan
    BY <2>3, LogSpans
  <2>5. ~Seen(b, span)
    BY <2>3 DEF Seen
  <2> HIDE DEF n, span, b
  <2>6. GoodBook(r) /\ r.seen = {}
    BY <2>1, RestoredIsGood
  <2>7. /\ r.state = "VALID" \/ r.anchor # 0
        /\ DiffChange(r, span) = DiffChange(b, span) /\ DiffPrev(r, span) = DiffPrev(b, span)
    <3>1. (c = authority) \in BOOLEAN /\ ((c = authority) \/ Anchored(b))
      BY <1>1 DEF b
    <3> QED
      BY <2>1, <2>4, <3>1, RestoredGives
  <2> HIDE DEF r
  <2>8. ~Seen(r, span)
    BY <2>6 DEF Seen
  <2>9. b.state = "VALID" \/ b.anchor # 0
    BY <1>1, <2>1 DEF Anchored, b
  <2>10. /\ Gives(BookDiff(b, span), DiffChange(b, span), DiffPrev(b, span))
         /\ Gives(BookDiff(r, span), DiffChange(r, span), DiffPrev(r, span))
    BY <2>1, <2>4, <2>5, <2>6, <2>7, <2>8, <2>9, DiffGives
  <2>11. /\ BookDiff(b, span).change = BookDiff(r, span).change
         /\ BookDiff(b, span).book.levels = BookDiff(r, span).book.levels
         /\ BookDiff(b, span).book.prev = BookDiff(r, span).book.prev
    BY <2>7, <2>10 DEF Gives
  <2> QED
    BY <2>2, <2>11 DEF n, span, b
<1>2. L2Inv /\ SeenInv /\ [Next]_vars => [Enough]_vars
  BY <1>1, DayEnds
<1>3. Init => SeenInv
  BY DEF Init, SeenInv, SeenBefore, NewBook
<1>4. L2Inv /\ SeenInv /\ [Next]_vars => SeenInv'
  BY SeenStep
<1> QED
  BY <1>2, <1>3, <1>4, BooksAndTimes, PTL DEF Spec, CheckpointIsEnough

(***************************************************************************)
(* The durations.                                                          *)
(***************************************************************************)

\* The greater and the lesser of two.
LEMMA MaxOfTwo == ASSUME NEW a \in Int, NEW b \in Int PROVE Max({a, b}) = IF a >= b THEN a ELSE b
BY DEF Max

LEMMA MinOfTwo == ASSUME NEW a \in Int, NEW b \in Int PROVE Min({a, b}) = IF a <= b THEN a ELSE b
BY DEF Min

\* Pairs have a latest.
LEMMA LatestIsLast ==
  ASSUME NEW n \in Nat, NEW s, s \subseteq (0 .. n) \X (0 .. n), s # {}
  PROVE  Latest(s) \in s /\ \A j \in s \ {Latest(s)} : Earlier(j, Latest(s))
<1> DEFINE firsts == {i[1] : i \in s}
           m == Max(firsts)
           seconds == {j[2] : j \in {i \in s : i[1] = m}}
           l == Max(seconds)
<1>1. \A i \in s : i[1] \in 0 .. n /\ i[2] \in 0 .. n /\ i = <<i[1], i[2]>>
  OBVIOUS
<1>2. firsts \subseteq 0 .. n /\ firsts # {}
  BY <1>1
<1>3. m \in firsts /\ \A y \in firsts : y <= m
  BY <1>2, MaxIsGreatest
<1> HIDE DEF m
<1>4. seconds \subseteq 0 .. n /\ seconds # {}
  BY <1>1, <1>3
<1>5. l \in seconds /\ \A y \in seconds : y <= l
  BY <1>4, MaxIsGreatest
<1> HIDE DEF l
<1>6. PICK i \in s : i[1] = m /\ i[2] = l
  BY <1>5
<1>7. ASSUME NEW j \in s \ {i} PROVE Earlier(j, i)
  <2>1. j[1] <= m /\ j[1] \in 0 .. n /\ i[1] \in 0 .. n /\ j[2] \in 0 .. n /\ i[2] \in 0 .. n
    BY <1>1, <1>3
  <2>2. CASE j[1] = m
    <3>1. j[2] <= l
      BY <1>5, <2>2
    <3>2. j[2] # l
      BY <1>1, <1>6, <1>7, <2>2
    <3> QED
      BY <1>6, <2>1, <2>2, <3>1, <3>2 DEF Earlier
  <2>3. CASE j[1] # m
    BY <1>6, <2>1, <2>3 DEF Earlier
  <2> QED
    BY <2>2, <2>3
<1> QED
  BY <1>7 DEF Latest

\* What UnionDuration iterates: a run for each set of at most k intervals, from
\* that of the set without its latest.
Smaller(C, k) == {s \in SUBSET C : Cardinality(s) <= k}

Runs(g, C, k) ==
  g = [s \in Smaller(C, k) |->
         IF s = {} THEN NoRun ELSE Joined(g[s \ {Latest(s)}], Latest(s))]

LEMMA SmallerIs ==
  ASSUME NEW C, IsFiniteSet(C), NEW k \in Nat, NEW s \in Smaller(C, k), s # {}, NEW x \in s
  PROVE  k > 0 /\ s \ {x} \in Smaller(C, k - 1)
<1>1. IsFiniteSet(s) /\ Cardinality(s) \in Nat /\ Cardinality(s) <= k
  BY FS_Subset, FS_CardinalityType DEF Smaller
<1>2. Cardinality(s) # 0
  BY <1>1, FS_EmptySet
<1>3. Cardinality(s \ {x}) = Cardinality(s) - 1
  BY <1>1, FS_RemoveElement
<1> QED
  BY <1>1, <1>2, <1>3 DEF Smaller

LEMMA RunsExist ==
  ASSUME NEW n \in Nat, NEW C, C \subseteq (0 .. n) \X (0 .. n), IsFiniteSet(C), NEW m \in Nat
  PROVE  \E g : Runs(g, C, m)
<1> DEFINE T == {k \in Nat : ~\E g : Runs(g, C, k)}
<1>1. SUFFICES ASSUME m \in T PROVE FALSE
  OBVIOUS
<1>2. PICK k \in T : \A j \in T : k <= j
  BY <1>1, LeastNumber
<1>3. \A s \in Smaller(C, k) : s # {} => Latest(s) \in s
  BY LatestIsLast DEF Smaller
<1>4. k # 0
  <2>1. SUFFICES ASSUME k = 0 PROVE FALSE
    OBVIOUS
  <2> DEFINE g == [s \in Smaller(C, 0) |-> NoRun]
  <2>2. ASSUME NEW s \in Smaller(C, 0) PROVE s = {}
    <3>1. 0 \in Nat /\ ~(0 > 0)
      OBVIOUS
    <3> QED
      BY <2>1, <2>2, <1>3, <3>1, SmallerIs
  <2>3. g = [s \in Smaller(C, 0) |->
               IF s = {} THEN NoRun ELSE Joined(g[s \ {Latest(s)}], Latest(s))]
    BY <2>2
  <2>4. Runs(g, C, 0)
    BY <2>3 DEF Runs
  <2> QED
    BY <2>1, <2>4
<1>5. k - 1 \in Nat /\ ~(k <= k - 1)
  BY <1>4
<1>6. PICK h : Runs(h, C, k - 1)
  BY <1>2, <1>5
<1> DEFINE g == [s \in Smaller(C, k) |->
                   IF s = {} THEN NoRun ELSE Joined(h[s \ {Latest(s)}], Latest(s))]
<1>7. ASSUME NEW t \in Smaller(C, k - 1) PROVE g[t] = h[t]
  <2>1. t \in Smaller(C, k)
    <3>1. IsFiniteSet(t) /\ Cardinality(t) \in Nat
      BY FS_Subset, FS_CardinalityType DEF Smaller
    <3> QED
      BY <3>1, <1>5 DEF Smaller
  <2>2. h[t] = IF t = {} THEN NoRun ELSE Joined(h[t \ {Latest(t)}], Latest(t))
    BY <1>6 DEF Runs
  <2> QED
    BY <2>1, <2>2
<1>8. ASSUME NEW s \in Smaller(C, k)
      PROVE  g[s] = IF s = {} THEN NoRun ELSE Joined(g[s \ {Latest(s)}], Latest(s))
  <2>1. CASE s = {}
    BY <2>1
  <2>2. CASE s # {}
    <3>1. s \ {Latest(s)} \in Smaller(C, k - 1)
      BY <1>3, <2>2, SmallerIs
    <3>2. g[s \ {Latest(s)}] = h[s \ {Latest(s)}]
      BY <1>7, <3>1
    <3> QED
      BY <2>2, <3>2
  <2> QED
    BY <2>1, <2>2
<1>9. Runs(g, C, k)
  <2>1. g = [s \in Smaller(C, k) |-> g[s]]
    OBVIOUS
  <2> HIDE DEF g
  <2> QED
    BY <1>8, <2>1 DEF Runs
<1> QED
  BY <1>9

\* UnionDuration is that of a run for the whole set, joined from its subsets.
Joins(g, C) ==
  \A s \in SUBSET C : g[s] = IF s = {} THEN NoRun ELSE Joined(g[s \ {Latest(s)}], Latest(s))

Length(r) == IF r.end = -1 THEN 0 ELSE r.total + r.end - r.start

LEMMA FoldJoins ==
  ASSUME NEW n \in Nat, NEW S, NEW from, NEW to, NEW C, C = Clipped(S, from, to),
         C \subseteq (0 .. n) \X (0 .. n), IsFiniteSet(C)
  PROVE  \E g : Joins(g, C) /\ UnionDuration(S, from, to) = Length(g[C])
<1> DEFINE it == CHOOSE g : g = [s \in SUBSET C |->
                   IF s = {} THEN NoRun ELSE Joined(g[s \ {Latest(s)}], Latest(s))]
<1>1. UnionDuration(S, from, to) = Length(it[C])
  BY DEF UnionDuration, MapThenFoldSet, Length
<1>2. \E g : g = [s \in SUBSET C |->
                   IF s = {} THEN NoRun ELSE Joined(g[s \ {Latest(s)}], Latest(s))]
  <2> DEFINE m == Cardinality(C)
  <2>1. m \in Nat
    BY FS_CardinalityType
  <2>2. Smaller(C, m) = SUBSET C
    BY FS_Subset DEF Smaller
  <2> HIDE DEF m
  <2>3. PICK g : Runs(g, C, m)
    BY <2>1, RunsExist
  <2>4. g = [s \in SUBSET C |->
               IF s = {} THEN NoRun ELSE Joined(g[s \ {Latest(s)}], Latest(s))]
    BY <2>2, <2>3 DEF Runs
  <2> QED
    BY <2>4
<1>3. it = [s \in SUBSET C |->
              IF s = {} THEN NoRun ELSE Joined(it[s \ {Latest(s)}], Latest(s))]
  BY <1>2
<1> HIDE DEF it
<1>4. Joins(it, C)
  BY <1>3 DEF Joins
<1> QED
  BY <1>1, <1>4

\* A run measures a set of intervals: it begins where one of them does, and its
\* total counts the moments of the runs before it, which are apart from it.
Measures(r, s) ==
  /\ DOMAIN r = {"total", "start", "end"}
  /\ r.total \in Nat /\ r.start \in Nat /\ r.end \in Nat /\ r.start < r.end
  /\ \E j \in s : j[1] = r.start
  /\ \E older : /\ IsFiniteSet(older) /\ Cardinality(older) = r.total
                /\ \A t \in older : t \in Nat /\ t < r.start
                /\ Points(s) = older \cup (r.start .. r.end - 1)

LEMMA PointsAre == ASSUME NEW s, NEW t PROVE t \in Points(s) <=> \E i \in s : t \in i[1] .. i[2] - 1
BY DEF Points

\* The first interval.
LEMMA FirstRun ==
  ASSUME NEW a \in Nat, NEW b \in Nat, a < b
  PROVE  Measures(Joined(NoRun, <<a, b>>), {<<a, b>>})
<1> DEFINE r == Joined(NoRun, <<a, b>>)
<1>1. r = [total |-> 0, start |-> a, end |-> b]
  BY DEF Joined, NoRun
<1>2. /\ DOMAIN r = {"total", "start", "end"} /\ r.total = 0 /\ r.start = a /\ r.end = b
  BY <1>1
<1> HIDE DEF r
<1>3. \E j \in {<<a, b>>} : j[1] = r.start
  BY <1>2
<1>4. Points({<<a, b>>}) = {} \cup (a .. b - 1)
  BY DEF Points
<1>5. IsFiniteSet({}) /\ Cardinality({}) = 0
  BY FS_EmptySet
<1> QED
  BY <1>2, <1>3, <1>4, <1>5 DEF Measures, r

\* One more, which is later.
LEMMA NextRun ==
  ASSUME NEW s, NEW r, Measures(r, s), NEW a \in Nat, NEW b \in Nat, a < b,
         \A j \in s : Earlier(j, <<a, b>>)
  PROVE  Measures(Joined(r, <<a, b>>), s \cup {<<a, b>>})
<1> DEFINE i == <<a, b>>
           q == Joined(r, i)
           all == s \cup {i}
<1>1. /\ r.total \in Nat /\ r.start \in Nat /\ r.end \in Nat /\ r.start < r.end
      /\ DOMAIN r = {"total", "start", "end"}
  BY DEF Measures
<1>2. PICK j \in s : j[1] = r.start
  BY DEF Measures
<1>3. PICK older : /\ IsFiniteSet(older) /\ Cardinality(older) = r.total
                   /\ \A t \in older : t \in Nat /\ t < r.start
                   /\ Points(s) = older \cup (r.start .. r.end - 1)
  BY DEF Measures
<1>4. r.start <= a
  <2>1. Earlier(j, i)
    BY <1>2
  <2> QED
    BY <1>1, <1>2, <2>1 DEF Earlier
<1>5. i[1] = a /\ i[2] = b
  OBVIOUS
<1>6. Points(all) = Points(s) \cup (a .. b - 1)
  <2>1. ASSUME NEW t PROVE t \in Points(all) <=> t \in Points(s) \/ t \in a .. b - 1
    <3> HIDE DEF i
    <3> QED
      BY <1>5, PointsAre
  <2> QED
    BY <2>1
<1>7. r.end # -1
  BY <1>1
<1>8. ASSUME a <= r.end PROVE Measures(q, all)
  <2> DEFINE e == Max({r.end, b})
  <2>1. e = IF r.end >= b THEN r.end ELSE b
    BY <1>1, MaxOfTwo
  <2> HIDE DEF e
  <2>2. q = [r EXCEPT !.end = e]
    BY <1>5, <1>7, <1>8 DEF Joined, e
  <2>3. q.total = r.total /\ q.start = r.start /\ q.end = e /\ DOMAIN q = {"total", "start", "end"}
    BY <1>1, <2>2
  <2> HIDE DEF q
  <2>4. e \in Nat /\ r.start < e
    BY <1>1, <2>1
  <2>5. (r.start .. r.end - 1) \cup (a .. b - 1) = r.start .. e - 1
    BY <1>1, <1>4, <1>8, <2>1
  <2>6. Points(all) = older \cup (r.start .. e - 1)
    BY <1>3, <1>6, <2>5
  <2>7. j \in all
    OBVIOUS
  <2> HIDE DEF all
  <2> QED
    BY <1>1, <1>2, <1>3, <2>3, <2>4, <2>6, <2>7 DEF Measures
<1>9. ASSUME ~(a <= r.end) PROVE Measures(q, all)
  <2> DEFINE next == older \cup (r.start .. r.end - 1)
             total == r.total + r.end - r.start
  <2>1. q = [total |-> total, start |-> a, end |-> b]
    BY <1>5, <1>7, <1>9 DEF Joined
  <2>2. IsFiniteSet(r.start .. r.end - 1) /\ Cardinality(r.start .. r.end - 1) = r.end - r.start
    <3>1. r.start \in Int /\ r.end - 1 \in Int /\ ~(r.start > r.end - 1)
          /\ (r.end - 1) - r.start + 1 = r.end - r.start
      BY <1>1
    <3> QED
      BY <3>1, FS_Interval
  <2>3. older \cap (r.start .. r.end - 1) = {}
    BY <1>1, <1>3
  <2>4. IsFiniteSet(next) /\ Cardinality(next) = total
    <3>1. Cardinality({}) = 0
      BY FS_EmptySet
    <3> DEFINE latest == r.start .. r.end - 1
    <3>2. IsFiniteSet(latest) /\ Cardinality(latest) = r.end - r.start /\ older \cap latest = {}
      BY <2>2, <2>3
    <3> HIDE DEF latest
    <3>3. /\ IsFiniteSet(older \cup latest)
          /\ Cardinality(older \cup latest) =
               Cardinality(older) + Cardinality(latest) - Cardinality(older \cap latest)
      BY <1>3, <3>2, FS_Union
    <3>4. Cardinality(older \cup latest) = r.total + (r.end - r.start) - 0
      BY <1>3, <3>1, <3>2, <3>3
    <3> QED
      BY <1>1, <3>3, <3>4 DEF latest
  <2>5. \A t \in next : t \in Nat /\ t < a
    BY <1>1, <1>3, <1>9
  <2>6. Points(all) = next \cup (a .. b - 1)
    BY <1>3, <1>6
  <2>7. total \in Nat
    BY <1>1
  <2> HIDE DEF next, total
  <2>8. q.total = total /\ q.start = a /\ q.end = b /\ DOMAIN q = {"total", "start", "end"}
    BY <2>1
  <2> HIDE DEF q
  <2>9. i \in all /\ i[1] = a
    OBVIOUS
  <2> HIDE DEF i, all
  <2> QED
    BY <2>4, <2>5, <2>6, <2>7, <2>8, <2>9 DEF Measures
<1> QED
  BY <1>8, <1>9

\* The run of a set of proper intervals measures it.
LEMMA RunMeasures ==
  ASSUME NEW n \in Nat, NEW C, C \subseteq (0 .. n) \X (0 .. n), IsFiniteSet(C),
         \A i \in C : i[1] < i[2], NEW g, Joins(g, C)
  PROVE  \A s \in SUBSET C : s # {} => Measures(g[s], s)
<1> DEFINE T == {k \in Nat : \E s \in SUBSET C : Cardinality(s) = k /\ s # {} /\ ~Measures(g[s], s)}
<1>1. ASSUME NEW s \in SUBSET C PROVE IsFiniteSet(s) /\ Cardinality(s) \in Nat
  BY FS_Subset, FS_CardinalityType
<1>2. SUFFICES ASSUME T # {} PROVE FALSE
  BY <1>1
<1>3. PICK k \in T : \A j \in T : k <= j
  BY <1>2, LeastNumber
<1>4. PICK s \in SUBSET C : Cardinality(s) = k /\ s # {} /\ ~Measures(g[s], s)
  BY <1>3
<1> DEFINE i == Latest(s)
           t == s \ {i}
<1>5. i \in s /\ \A j \in t : Earlier(j, i)
  BY <1>4, LatestIsLast
<1>6. g[s] = Joined(g[t], i)
  BY <1>4 DEF Joins
<1>7. Cardinality(t) = k - 1 /\ k - 1 \in Nat /\ ~(k <= k - 1)
  <2>1. Cardinality(s) # 0
    BY <1>1, <1>4, FS_EmptySet
  <2>2. Cardinality(s \ {i}) = Cardinality(s) - 1
    BY <1>1, <1>5, FS_RemoveElement
  <2> QED
    BY <1>4, <2>1, <2>2
<1> HIDE DEF i
<1>8. i[1] \in Nat /\ i[2] \in Nat /\ i[1] < i[2] /\ i = <<i[1], i[2]>>
  BY <1>4, <1>5
<1>9. s = t \cup {i}
  BY <1>5
<1> HIDE DEF t
<1>10. t \in SUBSET C
  BY <1>4, <1>9
<1>11. CASE t = {}
  <2>1. g[t] = NoRun
    BY <1>10, <1>11 DEF Joins
  <2>2. s = {i}
    BY <1>9, <1>11
  <2>3. Measures(Joined(NoRun, i), {i})
    <3> DEFINE a == i[1]
               b == i[2]
    <3>1. a \in Nat /\ b \in Nat /\ a < b /\ i = <<a, b>>
      BY <1>8
    <3> HIDE DEF a, b
    <3> QED
      BY <3>1, FirstRun
  <2> QED
    BY <1>4, <1>6, <2>1, <2>2, <2>3
<1>12. CASE t # {}
  <2>1. Measures(g[t], t)
    BY <1>3, <1>7, <1>10, <1>12
  <2> DEFINE a == i[1]
             b == i[2]
  <2>2. a \in Nat /\ b \in Nat /\ a < b /\ i = <<a, b>>
    BY <1>8
  <2> HIDE DEF a, b
  <2>3. Measures(Joined(g[t], i), t \cup {i})
    BY <1>5, <2>1, <2>2, NextRun
  <2> QED
    BY <1>4, <1>6, <1>9, <2>3
<1> QED
  BY <1>11, <1>12

\* _union_duration counts the moments of the clipped intervals, whatever overlaps.
LEMMA UnionIsCount ==
  ASSUME NEW n \in Nat, NEW S, S \subseteq (0 .. n) \X (0 .. n),
         NEW from \in 0 .. n, NEW to \in 0 .. n
  PROVE  /\ UnionDuration(S, from, to) = Cardinality(Points(Clipped(S, from, to)))
         /\ IsFiniteSet(Points(Clipped(S, from, to)))
<1> DEFINE C == Clipped(S, from, to)
<1>1. \A i \in S : i[1] \in 0 .. n /\ i[2] \in 0 .. n
  OBVIOUS
<1>2. \A i \in S : Max({i[1], from}) \in 0 .. n /\ Min({i[2], to}) \in 0 .. n
  <2>1. ASSUME NEW a \in 0 .. n, NEW b \in 0 .. n
        PROVE  Max({a, b}) \in 0 .. n /\ Min({a, b}) \in 0 .. n
    BY MaxOfTwo, MinOfTwo
  <2> QED
    BY <1>1, <2>1
<1>3. C \subseteq (0 .. n) \X (0 .. n) /\ \A c \in C : c[1] < c[2]
  <2> DEFINE first(i) == Max({i[1], from})
             last(i) == Min({i[2], to})
  <2>1. C = {c \in {<<first(i), last(i)>> : i \in S} : c[1] < c[2]}
    BY DEF Clipped
  <2>2. \A i \in S : first(i) \in 0 .. n /\ last(i) \in 0 .. n
    BY <1>2
  <2> HIDE DEF C, first, last
  <2> QED
    BY <2>1, <2>2
<1>4. IsFiniteSet(C)
  <2>1. IsFiniteSet(0 .. n)
    BY FS_Interval
  <2>2. IsFiniteSet((0 .. n) \X (0 .. n))
    BY <2>1, FS_Product
  <2> QED
    BY <1>3, <2>2, FS_Subset
<1>5. C = Clipped(S, from, to)
  OBVIOUS
<1> HIDE DEF C
<1>6. \E g : Joins(g, C) /\ UnionDuration(S, from, to) = Length(g[C])
  <2>1. C \subseteq (0 .. n) \X (0 .. n)
    BY <1>3
  <2> QED
    BY <1>4, <1>5, <2>1, FoldJoins
<1>7. PICK g : Joins(g, C) /\ UnionDuration(S, from, to) = Length(g[C])
  BY <1>6
<1>8. CASE C = {}
  <2>1. g[C] = NoRun
    BY <1>7, <1>8 DEF Joins
  <2>2. UnionDuration(S, from, to) = 0
    BY <1>7, <2>1 DEF Length, NoRun
  <2>3. Points(C) = {}
    BY <1>8 DEF Points
  <2> QED
    BY <2>2, <2>3, FS_EmptySet DEF C
<1>9. CASE C # {}
  <2> DEFINE r == g[C]
  <2>1. Measures(r, C)
    BY <1>3, <1>4, <1>7, <1>9, RunMeasures
  <2>2. UnionDuration(S, from, to) = IF r.end = -1 THEN 0 ELSE r.total + r.end - r.start
    BY <1>7 DEF Length
  <2> HIDE DEF r
  <2>3. /\ r.total \in Nat /\ r.start \in Nat /\ r.end \in Nat /\ r.start < r.end
    BY <2>1 DEF Measures
  <2>4. PICK older : /\ IsFiniteSet(older) /\ Cardinality(older) = r.total
                     /\ \A t \in older : t \in Nat /\ t < r.start
                     /\ Points(C) = older \cup (r.start .. r.end - 1)
    BY <2>1 DEF Measures
  <2> DEFINE latest == r.start .. r.end - 1
  <2>5. IsFiniteSet(latest) /\ Cardinality(latest) = r.end - r.start
    <3>1. r.start \in Int /\ r.end - 1 \in Int /\ ~(r.start > r.end - 1)
          /\ (r.end - 1) - r.start + 1 = r.end - r.start
      BY <2>3
    <3> QED
      BY <3>1, FS_Interval
  <2>6. older \cap latest = {} /\ Cardinality({}) = 0
    BY <2>3, <2>4, FS_EmptySet
  <2> HIDE DEF latest
  <2>7. /\ IsFiniteSet(older \cup latest)
        /\ Cardinality(older \cup latest) =
             Cardinality(older) + Cardinality(latest) - Cardinality(older \cap latest)
    BY <2>4, <2>5, FS_Union
  <2>8. Points(C) = older \cup latest
    BY <2>4 DEF latest
  <2>9. Cardinality(Points(C)) = r.total + (r.end - r.start) - 0
    BY <2>4, <2>5, <2>6, <2>7, <2>8
  <2> QED
    BY <2>2, <2>3, <2>7, <2>8, <2>9 DEF C
<1> QED
  BY <1>8, <1>9

\* Clipping keeps the moments of the window.
LEMMA ClippedPoints ==
  ASSUME NEW n \in Nat, NEW S, S \subseteq (0 .. n) \X (0 .. n),
         NEW from \in 0 .. n, NEW to \in 0 .. n
  PROVE  Points(Clipped(S, from, to)) = Points(S) \cap (from .. to - 1)
<1>1. \A i \in S : i[1] \in 0 .. n /\ i[2] \in 0 .. n
  OBVIOUS
<1> DEFINE first(i) == Max({i[1], from})
           last(i) == Min({i[2], to})
<1>2. ASSUME NEW i \in S
      PROVE  /\ first(i) = IF i[1] >= from THEN i[1] ELSE from
             /\ last(i) = IF i[2] <= to THEN i[2] ELSE to
  <2>1. ASSUME NEW a \in 0 .. n, NEW b \in 0 .. n
        PROVE  Max({a, b}) = (IF a >= b THEN a ELSE b) /\ Min({a, b}) = (IF a <= b THEN a ELSE b)
    BY MaxOfTwo, MinOfTwo
  <2> QED
    BY <1>1, <2>1
<1>3. Clipped(S, from, to) = {c \in {<<first(i), last(i)>> : i \in S} : c[1] < c[2]}
  BY DEF Clipped
<1> HIDE DEF first, last
<1>4. ASSUME NEW t \in Points(Clipped(S, from, to)) PROVE t \in Points(S) \cap (from .. to - 1)
  <2>1. PICK c \in Clipped(S, from, to) : t \in c[1] .. c[2] - 1
    BY PointsAre
  <2>2. PICK i \in S : c = <<first(i), last(i)>>
    BY <1>3, <2>1
  <2>3. t \in first(i) .. last(i) - 1
    BY <2>1, <2>2
  <2>4. t \in i[1] .. i[2] - 1 /\ t \in from .. to - 1
    BY <1>1, <1>2, <2>3
  <2> QED
    BY <2>4, PointsAre
<1>5. ASSUME NEW t \in Points(S), t \in from .. to - 1 PROVE t \in Points(Clipped(S, from, to))
  <2>1. PICK i \in S : t \in i[1] .. i[2] - 1
    BY PointsAre
  <2> DEFINE c == <<first(i), last(i)>>
  <2>2. t \in first(i) .. last(i) - 1 /\ first(i) < last(i)
    BY <1>1, <1>2, <1>5, <2>1
  <2>3. c \in Clipped(S, from, to) /\ t \in c[1] .. c[2] - 1
    BY <1>3, <2>2
  <2> HIDE DEF c
  <2> QED
    BY <2>3, PointsAre
<1> QED
  BY <1>4, <1>5

\* What FoldLeft iterates when it keeps those of the first n intervals that are
\* not empty: a sequence for each set of positions.
Keeps(g, ivals, n) ==
  g = [s \in SUBSET (1 .. n) |->
         IF s = {} THEN <<>> ELSE Nonempty(g[s \ {Max(s)}], ivals[Max(s)])]

\* There is such a function.
LEMMA KeepExists ==
  ASSUME NEW ivals, NEW m \in Nat PROVE \E g : Keeps(g, ivals, m)
<1> DEFINE T == {n \in Nat : ~\E g : Keeps(g, ivals, n)}
<1>1. SUFFICES ASSUME m \in T PROVE FALSE
  OBVIOUS
<1>2. PICK n \in T : \A k \in T : n <= k
  BY <1>1, LeastNumber
<1>3. n # 0
  <2> DEFINE g == [s \in SUBSET (1 .. 0) |-> <<>>]
  <2>1. SUBSET (1 .. 0) = {{}}
    <3>1. 1 .. 0 = {}
      OBVIOUS
    <3> QED
      BY <3>1
  <2>2. g = [s \in SUBSET (1 .. 0) |->
               IF s = {} THEN <<>> ELSE Nonempty(g[s \ {Max(s)}], ivals[Max(s)])]
    BY <2>1
  <2>3. Keeps(g, ivals, 0)
    BY <2>2 DEF Keeps
  <2> QED
    BY <2>3
<1>4. n - 1 \in Nat /\ ~(n <= n - 1)
  BY <1>3
<1>5. PICK h : Keeps(h, ivals, n - 1)
  BY <1>2, <1>4
<1> DEFINE g == [s \in SUBSET (1 .. n) |->
                   IF n \in s THEN Nonempty(h[s \ {n}], ivals[n]) ELSE h[s]]
<1>6. \A s \in SUBSET (1 .. n - 1) :
        h[s] = IF s = {} THEN <<>> ELSE Nonempty(h[s \ {Max(s)}], ivals[Max(s)])
  BY <1>5 DEF Keeps
<1>7. ASSUME NEW s \in SUBSET (1 .. n)
      PROVE  g[s] = IF s = {} THEN <<>> ELSE Nonempty(g[s \ {Max(s)}], ivals[Max(s)])
  <2> n \in Nat
    OBVIOUS
  <2>1. CASE n \in s
    <3>1. s \subseteq 0 .. n /\ \A y \in s : y <= n
      OBVIOUS
    <3>2. Max(s) = n
      BY <2>1, <3>1, MaxIs
    <3>3. s \ {n} \in SUBSET (1 .. n) /\ n \notin s \ {n}
      OBVIOUS
    <3>4. g[s \ {n}] = h[s \ {n}]
      BY <3>3
    <3>5. g[s] = Nonempty(h[s \ {n}], ivals[n])
      BY <2>1
    <3> QED
      BY <2>1, <3>2, <3>4, <3>5
  <2>2. CASE n \notin s
    <3>1. s \in SUBSET (1 .. n - 1)
      BY <2>2
    <3>2. g[s] = h[s]
      BY <2>2
    <3>3. s \ {Max(s)} \in SUBSET (1 .. n) /\ n \notin s \ {Max(s)}
      BY <2>2
    <3>4. g[s \ {Max(s)}] = h[s \ {Max(s)}]
      BY <3>3
    <3> HIDE DEF g
    <3> QED
      BY <1>6, <3>1, <3>2, <3>4
  <2> QED
    BY <2>1, <2>2
<1>8. Keeps(g, ivals, n)
  <2>1. g = [s \in SUBSET (1 .. n) |-> g[s]]
    OBVIOUS
  <2> HIDE DEF g
  <2> QED
    BY <1>7, <2>1 DEF Keeps
<1> QED
  BY <1>8

\* Proper looks at the intervals one after the other.
LEMMA FoldKeeps ==
  ASSUME NEW S, NEW ivals \in Seq(S)
  PROVE  \E f : /\ f[0] = <<>>
                /\ \A k \in 1 .. Len(ivals) : f[k] = Nonempty(f[k - 1], ivals[k])
                /\ Proper(ivals) = f[Len(ivals)]
<1> DEFINE n == Len(ivals)
           it == CHOOSE g : g = [s \in SUBSET DOMAIN ivals |->
                   IF s = {} THEN <<>> ELSE Nonempty(g[s \ {Max(s)}], ivals[Max(s)])]
           f == [k \in 0 .. n |-> it[1 .. k]]
<1>1. Proper(ivals) = it[DOMAIN ivals]
  BY DEF Proper, FoldLeft, MapThenFoldSet
<1>2. DOMAIN ivals = 1 .. n /\ n \in Nat
  OBVIOUS
<1>3. \E g : g = [s \in SUBSET DOMAIN ivals |->
                   IF s = {} THEN <<>> ELSE Nonempty(g[s \ {Max(s)}], ivals[Max(s)])]
  <2>1. PICK g : Keeps(g, ivals, n)
    BY <1>2, KeepExists
  <2>2. g = [s \in SUBSET DOMAIN ivals |->
               IF s = {} THEN <<>> ELSE Nonempty(g[s \ {Max(s)}], ivals[Max(s)])]
    BY <1>2, <2>1 DEF Keeps
  <2> QED
    BY <2>2
<1>4. it = [s \in SUBSET DOMAIN ivals |->
              IF s = {} THEN <<>> ELSE Nonempty(it[s \ {Max(s)}], ivals[Max(s)])]
  BY <1>3
<1> HIDE DEF it, n
<1>5. f[0] = <<>>
  <2>1. 0 \in 0 .. n /\ 1 .. 0 = {} /\ {} \in SUBSET DOMAIN ivals
    BY <1>2
  <2> QED
    BY <1>4, <2>1
<1>6. ASSUME NEW k \in 1 .. n PROVE f[k] = Nonempty(f[k - 1], ivals[k])
  <2> DEFINE s == 1 .. k
  <2>1. k \in Nat /\ k \in s /\ s \in SUBSET (1 .. n) /\ s # {} /\ s \subseteq 0 .. k
        /\ \A y \in s : y <= k
    BY <1>2
  <2>2. Max(s) = k
    BY <2>1, MaxIs
  <2>3. s \ {k} = 1 .. k - 1
    BY <2>1
  <2>4. it[s] = Nonempty(it[s \ {Max(s)}], ivals[Max(s)])
    BY <1>2, <1>4, <2>1
  <2>5. f[k] = it[1 .. k] /\ f[k - 1] = it[1 .. k - 1]
    BY <1>2
  <2> QED
    BY <2>2, <2>3, <2>4, <2>5
<1>7. f[n] = it[1 .. n]
  BY <1>2
<1> QED
  BY <1>1, <1>2, <1>5, <1>6, <1>7 DEF n

LEMMA ToSetIs ==
  ASSUME NEW A, NEW s \in Seq(A), NEW x
  PROVE  x \in ToSet(s) <=> \E k \in 1 .. Len(s) : x = s[k]
BY DEF ToSet

LEMMA NonemptyIs ==
  ASSUME NEW s \in Seq(Nat \X Nat), NEW i \in Nat \X Nat
  PROVE  /\ Nonempty(s, i) \in Seq(Nat \X Nat)
         /\ \A x : x \in ToSet(Nonempty(s, i)) <=> x \in ToSet(s) \/ (x = i /\ i[1] < i[2])
<1>1. i[1] \in Nat /\ i[2] \in Nat
  OBVIOUS
<1>2. CASE i[2] > i[1]
  <2> DEFINE a == Append(s, i)
  <2>1. /\ a \in Seq(Nat \X Nat) /\ Len(a) = Len(s) + 1 /\ a[Len(s) + 1] = i /\ Len(s) \in Nat
        /\ \A k \in 1 .. Len(s) : a[k] = s[k]
    BY AppendProperties
  <2>2. Nonempty(s, i) = a
    BY <1>2 DEF Nonempty
  <2> HIDE DEF a
  <2>3. ASSUME NEW x PROVE x \in ToSet(a) <=> x \in ToSet(s) \/ x = i
    <3>1. x \in ToSet(a) <=> \E k \in 1 .. Len(s) + 1 : x = a[k]
      BY <2>1, ToSetIs
    <3>2. x \in ToSet(s) <=> \E k \in 1 .. Len(s) : x = s[k]
      BY ToSetIs
    <3>3. 1 .. Len(s) + 1 = (1 .. Len(s)) \cup {Len(s) + 1}
      BY <2>1
    <3> QED
      BY <2>1, <3>1, <3>2, <3>3
  <2> QED
    BY <1>1, <1>2, <2>1, <2>2, <2>3
<1>3. CASE ~(i[2] > i[1])
  BY <1>1, <1>3 DEF Nonempty
<1> QED
  BY <1>2, <1>3

\* Proper leaves out the empty ones.
LEMMA ProperIs ==
  ASSUME NEW s \in Seq(Nat \X Nat)
  PROVE  \A x : x \in ToSet(Proper(s)) <=> x \in ToSet(s) /\ x[1] < x[2]
<1>1. PICK f : /\ f[0] = <<>>
               /\ \A k \in 1 .. Len(s) : f[k] = Nonempty(f[k - 1], s[k])
               /\ Proper(s) = f[Len(s)]
  BY FoldKeeps
<1>2. Len(s) \in Nat /\ \A k \in 1 .. Len(s) : s[k] \in Nat \X Nat
  OBVIOUS
<1> DEFINE Stays(x, k) == \E j \in 1 .. k : x = s[j] /\ x[1] < x[2]
           Good(k) == f[k] \in Seq(Nat \X Nat) /\ \A x : x \in ToSet(f[k]) <=> Stays(x, k)
           T == {k \in Nat : k \in 0 .. Len(s) /\ ~Good(k)}
<1>3. Good(0)
  <2>1. f[0] \in Seq(Nat \X Nat) /\ 1 .. 0 = {} /\ Len(f[0]) = 0
    BY <1>1
  <2>2. \A x : x \notin ToSet(f[0])
    BY <2>1, ToSetIs
  <2> QED
    BY <2>1, <2>2
<1> HIDE DEF Good
<1>4. T = {}
  <2>1. SUFFICES ASSUME T # {} PROVE FALSE
    OBVIOUS
  <2>2. PICK k \in T : \A j \in T : k <= j
    BY <2>1, LeastNumber
  <2>3. k \in 1 .. Len(s)
    BY <1>2, <1>3, <2>2
  <2>4. k - 1 \in 0 .. Len(s) /\ k - 1 \in Nat /\ ~(k <= k - 1) /\ k \in Nat
    BY <1>2, <2>3
  <2>5. Good(k - 1)
    BY <2>2, <2>4
  <2>6. f[k] = Nonempty(f[k - 1], s[k]) /\ s[k] \in Nat \X Nat
    BY <1>1, <1>2, <2>3
  <2>7. f[k - 1] \in Seq(Nat \X Nat)
    BY <2>5 DEF Good
  <2>8. /\ f[k] \in Seq(Nat \X Nat)
        /\ \A x : x \in ToSet(f[k]) <=> x \in ToSet(f[k - 1]) \/ (x = s[k] /\ s[k][1] < s[k][2])
    <3> DEFINE p == f[k - 1]
               i == s[k]
    <3>1. p \in Seq(Nat \X Nat) /\ i \in Nat \X Nat /\ f[k] = Nonempty(p, i)
      BY <2>6, <2>7
    <3> HIDE DEF p, i
    <3>2. /\ Nonempty(p, i) \in Seq(Nat \X Nat)
          /\ \A x : x \in ToSet(Nonempty(p, i)) <=> x \in ToSet(p) \/ (x = i /\ i[1] < i[2])
      BY <3>1, NonemptyIs
    <3> QED
      BY <3>1, <3>2 DEF p, i
  <2>9. ASSUME NEW x
        PROVE  Stays(x, k) <=> Stays(x, k - 1) \/ (x = s[k] /\ s[k][1] < s[k][2])
    <3>1. 1 .. k = (1 .. k - 1) \cup {k}
      BY <2>4, <2>3
    <3> QED
      BY <3>1
  <2> HIDE DEF Stays
  <2>10. Good(k)
    BY <2>5, <2>8, <2>9 DEF Good
  <2> QED
    BY <2>2, <2>10
<1>5. Good(Len(s))
  BY <1>2, <1>4
<1>6. ASSUME NEW x PROVE x \in ToSet(s) <=> \E k \in 1 .. Len(s) : x = s[k]
  BY ToSetIs
<1>7. ASSUME NEW x PROVE Stays(x, Len(s)) <=> x \in ToSet(s) /\ x[1] < x[2]
  BY <1>6
<1> HIDE DEF Stays
<1> QED
  BY <1>1, <1>5, <1>7 DEF Good

(***************************************************************************)
(* The validity and the facts of a day.                                    *)
(***************************************************************************)

\* The intervals are those of the day so far, and so is the one under way.
DayInv ==
  /\ tick < Ticks
  /\ \A i \in 1 .. Len(intervals) : DayStart <= intervals[i][1] /\ intervals[i][2] <= Now
  /\ authority # NoConn => DayStart <= validFrom /\ validFrom <= Now

\* A gap has one OPEN fact a day, the first of it; a gap that continues has no
\* CLOSED fact but that of the rollover.
FactInv ==
  /\ \A f \in facts : /\ f.at \in Nat /\ f.at <= Now /\ f.gap \in opened
                      /\ f.state = "CLOSED" =>
                           f.gap \in ended \/ (f.cont /\ f.at = DayEnd - 1)
                      /\ f.state # "CLOSED" => f.state = "OPEN"
  /\ \A f, h \in facts : f.state = "OPEN" /\ h.state = "OPEN" /\ f.gap = h.gap => f = h
  /\ \A g \in opened \ ended : \E f \in facts : f.gap = g /\ f.state = "OPEN"

\* What the day's intervals are once the validity ends at a moment.
LEMMA ClosedIs ==
  ASSUME TimeInv, NEW at \in Nat
  PROVE  /\ Closed(at) \in Seq(Nat \X Nat)
         /\ \A x : x \in ToSet(Closed(at)) <=>
                     x \in ToSet(intervals) \/ (authority # NoConn /\ x = <<validFrom, at>>)
<1>1. intervals \in Seq(Nat \X Nat) /\ validFrom \in Nat
  BY DEF TimeInv
<1>2. CASE authority = NoConn
  BY <1>1, <1>2 DEF Closed
<1>3. CASE authority # NoConn
  <2> DEFINE pair == <<validFrom, at>>
             a == Append(intervals, pair)
  <2>1. pair \in Nat \X Nat
    BY <1>1
  <2>2. Closed(at) = a
    BY <1>3 DEF Closed
  <2> HIDE DEF pair
  <2>3. /\ a \in Seq(Nat \X Nat) /\ Len(a) = Len(intervals) + 1 /\ a[Len(intervals) + 1] = pair
        /\ \A k \in 1 .. Len(intervals) : a[k] = intervals[k]
    BY <1>1, <2>1, AppendProperties
  <2> HIDE DEF a
  <2>4. ASSUME NEW x PROVE x \in ToSet(a) <=> x \in ToSet(intervals) \/ x = pair
    <3>1. x \in ToSet(a) <=> \E k \in 1 .. Len(intervals) + 1 : x = a[k]
      BY <2>3, ToSetIs
    <3>2. x \in ToSet(intervals) <=> \E k \in 1 .. Len(intervals) : x = intervals[k]
      BY <1>1, ToSetIs
    <3>3. 1 .. Len(intervals) + 1 = (1 .. Len(intervals)) \cup {Len(intervals) + 1}
      BY <1>1
    <3> QED
      BY <2>3, <3>1, <3>2, <3>3
  <2> QED
    BY <1>3, <2>2, <2>3, <2>4 DEF pair
<1> QED
  BY <1>2, <1>3

LEMMA ClosedSpan ==
  ASSUME TimeInv, DayInv, NEW at \in Nat, Now <= at
  PROVE  /\ Closed(at) \in Seq(Nat \X Nat)
         /\ \A x \in ToSet(Closed(at)) : DayStart <= x[1] /\ x[2] <= at
         /\ \A i \in 1 .. Len(Closed(at)) : DayStart <= Closed(at)[i][1] /\ Closed(at)[i][2] <= at
<1>1. intervals \in Seq(Nat \X Nat) /\ Now \in Nat /\ DayStart \in Nat
  BY Clock DEF TimeInv
<1>2. ASSUME NEW x \in ToSet(Closed(at)) PROVE DayStart <= x[1] /\ x[2] <= at
  <2>1. CASE x \in ToSet(intervals)
    <3>1. PICK k \in 1 .. Len(intervals) : x = intervals[k]
      BY <1>1, <2>1, ToSetIs
    <3>2. intervals[k] \in Nat \X Nat
      BY <1>1
    <3>3. x[2] \in Nat /\ DayStart <= x[1] /\ x[2] <= Now
      BY <3>1, <3>2 DEF DayInv
    <3> QED
      BY <1>1, <3>3
  <2>2. CASE authority # NoConn /\ x = <<validFrom, at>>
    BY <2>2 DEF DayInv
  <2> QED
    BY <2>1, <2>2, ClosedIs
<1>3. Closed(at) \in Seq(Nat \X Nat)
  BY ClosedIs
<1>4. \A i \in 1 .. Len(Closed(at)) : Closed(at)[i] \in ToSet(Closed(at))
  BY <1>3, ToSetIs
<1> QED
  BY <1>2, <1>3, <1>4

LEMMA DayStep == ASSUME L2Inv, DayInv, [Next]_vars PROVE DayInv'
<1>1. /\ TimeInv /\ DayStart \in Nat /\ Now \in Nat /\ DayEnd \in Nat /\ Ticks \in Nat
      /\ tick \in Nat /\ Now = DayStart + tick
  BY Clock DEF L2Inv, TimeInv, Now
<1>2. /\ Closed(Now) \in Seq(Nat \X Nat)
      /\ \A i \in 1 .. Len(Closed(Now)) :
           DayStart <= Closed(Now)[i][1] /\ Closed(Now)[i][2] <= Now
  BY <1>1, ClosedSpan
<1> DEFINE closed == Closed(Now)
<1> HIDE DEF closed
<1>3. ASSUME UNCHANGED <<day, tick>>, intervals' = closed \/ intervals' = intervals,
             \/ authority' = NoConn
             \/ validFrom' = Now
             \/ UNCHANGED <<authority, validFrom>>
      PROVE  DayInv'
  <2>1. UNCHANGED <<Now, DayStart>>
    BY <1>3 DEF Now, DayStart
  <2>2. \A i \in 1 .. Len(closed) : DayStart <= closed[i][1] /\ closed[i][2] <= Now
    BY <1>2 DEF closed
  <2>3. DayStart <= Now /\ Now <= Now
    BY <1>1
  <2>4. \A i \in 1 .. Len(intervals') : DayStart <= intervals'[i][1] /\ intervals'[i][2] <= Now
    BY <1>3, <2>2 DEF DayInv
  <2>5. authority' # NoConn => DayStart <= validFrom' /\ validFrom' <= Now
    BY <1>3, <2>3 DEF DayInv
  <2>6. tick' < Ticks
    BY <1>3 DEF DayInv
  <2> QED
    BY <2>1, <2>4, <2>5, <2>6 DEF DayInv
<1>4. ASSUME NEW c, NEW r, Row(c, r) PROVE DayInv'
  <2>1. UNCHANGED <<day, tick>>
    BY <1>4 DEF Row, time
  <2>2. \/ intervals' = closed /\ (authority' = NoConn \/ validFrom' = Now)
        \/ UNCHANGED <<authority, validFrom, intervals>>
    BY <1>4 DEF Row, NoAuthority, closed
  <2> QED
    BY <1>3, <2>1, <2>2
<1>5. ASSUME NEW c \in Connections, Diff(c) \/ Repeat(c) \/ Snapshot(c) PROVE DayInv'
  BY <1>4, <1>5 DEF Diff, Repeat, Snapshot
<1>6. ASSUME (\E c \in Connections : Lose(c) \/ Timeout(c)) \/ CheckpointRefused \/ UNCHANGED vars
      PROVE  DayInv'
  <2>1. UNCHANGED <<day, tick, intervals, authority, validFrom>>
    BY <1>6 DEF Lose, Timeout, CheckpointRefused, vars, run, time
  <2> QED
    BY <1>3, <2>1
<1>7. ASSUME NEW g \in Gaps, Open(g) PROVE DayInv'
  <2>1. UNCHANGED <<day, tick>> /\ intervals' = closed /\ authority' = NoConn
    BY <1>7 DEF Open, GapEndsValidity, NoAuthority, time, closed
  <2> QED
    BY <1>3, <2>1
<1>8. ASSUME RollOver \/ \E g \in Gaps : Close(g) PROVE DayInv'
  <2>1. UNCHANGED <<day, tick, intervals>> /\ LastGapClosed
    BY <1>8 DEF RollOver, Close, time
  <2>2. validFrom' = Now \/ UNCHANGED <<authority, validFrom>>
    BY <2>1 DEF LastGapClosed
  <2> QED
    BY <1>3, <2>1, <2>2
<1>9. CASE Tick
  <2>1. tick' = tick + 1 /\ tick # Ticks - 1 /\ UNCHANGED <<day, intervals, authority, validFrom>>
    BY <1>9 DEF Tick, LastMoment, run
  <2>2. DayStart' = DayStart /\ Now' = Now + 1
    BY <1>1, <2>1 DEF DayStart, Now
  <2>3. tick' < Ticks
    BY <1>1, <2>1 DEF DayInv
  <2>4. intervals \in Seq(Nat \X Nat) /\ validFrom \in Nat
    BY <1>1 DEF TimeInv
  <2>5. \A i \in 1 .. Len(intervals) : intervals[i] \in Nat \X Nat
    BY <2>4
  <2>6. ASSUME NEW i \in 1 .. Len(intervals)
        PROVE  DayStart <= intervals[i][1] /\ intervals[i][2] <= Now + 1
    <3>1. intervals[i][2] \in Nat
      BY <2>5
    <3>2. DayStart <= intervals[i][1] /\ intervals[i][2] <= Now
      BY DEF DayInv
    <3> QED
      BY <1>1, <3>1, <3>2
  <2>7. authority # NoConn => DayStart <= validFrom /\ validFrom <= Now + 1
    BY <1>1, <2>4 DEF DayInv
  <2> QED
    BY <2>1, <2>2, <2>3, <2>6, <2>7 DEF DayInv
<1>10. CASE Midnight
  <2>1. /\ day' = day + 1 /\ tick' = 0 /\ intervals' = <<>>
        /\ authority' # NoConn => validFrom' = DayEnd
    BY <1>10 DEF Midnight, Resumed, NoAuthority
  <2>2. DayStart' = DayEnd /\ Now' = DayEnd
    <3>1. DayEnd = (day + 1) * Ticks
      BY <1>1, Clock
    <3>2. DayStart' = DayEnd
      BY <2>1, <3>1 DEF DayStart
    <3> QED
      BY <1>1, <2>1, <3>2 DEF Now
  <2>3. 0 < Ticks
    BY L2Assumption
  <2> QED
    BY <1>1, <2>1, <2>2, <2>3 DEF DayInv
<1> QED
  BY <1>5, <1>6, <1>7, <1>8, <1>9, <1>10 DEF Next

LEMMA FactStep == ASSUME L2Inv, DayInv, FactInv, [Next]_vars PROVE FactInv'
<1>1. /\ TimeInv /\ DayStart \in Nat /\ Now \in Nat /\ DayEnd \in Nat /\ Ticks \in Nat
      /\ tick \in Nat /\ Now = DayStart + tick /\ DayEnd = DayStart + Ticks
      /\ active \subseteq opened /\ ended \subseteq opened /\ active \cap ended = {}
  BY Clock DEF L2Inv, TimeInv, Now, DayEnd
<1>2. /\ \A f \in facts : /\ f.at \in Nat /\ f.at <= Now /\ f.gap \in opened
                          /\ f.state = "CLOSED" => f.gap \in ended \/ (f.cont /\ f.at = DayEnd - 1)
                          /\ f.state # "CLOSED" => f.state = "OPEN"
      /\ \A f, h \in facts : f.state = "OPEN" /\ h.state = "OPEN" /\ f.gap = h.gap => f = h
      /\ \A g \in opened \ ended : \E f \in facts : f.gap = g /\ f.state = "OPEN"
  BY DEF FactInv
<1>3. ASSUME UNCHANGED <<day, tick, opened, ended, facts>> PROVE FactInv'
  <2>1. UNCHANGED <<Now, DayEnd>>
    BY <1>3 DEF Now, DayEnd, DayStart
  <2> QED
    BY <1>3, <2>1 DEF FactInv
<1>4. ASSUME NEW c \in Connections, Diff(c) \/ Repeat(c) \/ Snapshot(c) PROVE FactInv'
  <2>1. \E r : Row(c, r)
    BY <1>4 DEF Diff, Repeat, Snapshot
  <2>2. UNCHANGED <<day, tick, opened, ended, facts>>
    BY <2>1 DEF Row, time, gaps
  <2> QED
    BY <1>3, <2>2
<1>5. ASSUME (\E c \in Connections : Lose(c) \/ Timeout(c)) \/ CheckpointRefused \/ UNCHANGED vars
      PROVE  FactInv'
  <2>1. UNCHANGED <<day, tick, opened, ended, facts>>
    BY <1>5 DEF Lose, Timeout, CheckpointRefused, vars, gaps, time
  <2> QED
    BY <1>3, <2>1
<1>6. ASSUME NEW g \in Gaps, Open(g) PROVE FactInv'
  <2> DEFINE o == Fact(g, "OPEN", Now, FALSE)
  <2>1. /\ g \notin opened /\ opened' = opened \cup {g} /\ ended' = ended /\ facts' = facts \cup {o}
        /\ UNCHANGED <<Now, DayEnd>>
    BY <1>6 DEF Open, time, Now, DayEnd, DayStart
  <2>2. o.gap = g /\ o.state = "OPEN" /\ o.at = Now
    BY DEF Fact
  <2> HIDE DEF o
  <2>3. \A f \in facts' : /\ f.at \in Nat /\ f.at <= Now /\ f.gap \in opened'
                          /\ f.state = "CLOSED" => f.gap \in ended \/ (f.cont /\ f.at = DayEnd - 1)
                          /\ f.state # "CLOSED" => f.state = "OPEN"
    <3>1. Now <= Now
      BY <1>1
    <3> QED
      BY <1>1, <1>2, <2>1, <2>2, <3>1
  <2>4. \A f, h \in facts' : f.state = "OPEN" /\ h.state = "OPEN" /\ f.gap = h.gap => f = h
    BY <1>2, <2>1, <2>2
  <2>5. \A k \in opened' \ ended' : \E f \in facts' : f.gap = k /\ f.state = "OPEN"
    BY <1>2, <2>1, <2>2
  <2> QED
    BY <2>1, <2>3, <2>4, <2>5 DEF FactInv
<1>7. ASSUME NEW g \in Gaps, Close(g) PROVE FactInv'
  <2> DEFINE e == Fact(g, "CLOSED", Now, FALSE)
  <2>1. /\ g \in active /\ opened' = opened /\ ended' = ended \cup {g} /\ facts' = facts \cup {e}
        /\ UNCHANGED <<Now, DayEnd>>
    BY <1>7 DEF Close, time, Now, DayEnd, DayStart
  <2>2. e.gap = g /\ e.state = "CLOSED" /\ e.at = Now
    BY DEF Fact
  <2> HIDE DEF e
  <2>3. \A f \in facts' : /\ f.at \in Nat /\ f.at <= Now /\ f.gap \in opened
                          /\ f.state = "CLOSED" => f.gap \in ended' \/ (f.cont /\ f.at = DayEnd - 1)
                          /\ f.state # "CLOSED" => f.state = "OPEN"
    <3>1. Now <= Now
      BY <1>1
    <3> QED
      BY <1>1, <1>2, <2>1, <2>2, <3>1
  <2>4. \A f, h \in facts' : f.state = "OPEN" /\ h.state = "OPEN" /\ f.gap = h.gap => f = h
    BY <1>2, <2>1, <2>2
  <2>5. \A k \in opened' \ ended' : \E f \in facts' : f.gap = k /\ f.state = "OPEN"
    BY <1>2, <2>1
  <2> QED
    BY <2>1, <2>3, <2>4, <2>5 DEF FactInv
<1>8. CASE RollOver
  <2> DEFINE es == {Fact(g, "CLOSED", Now, TRUE) : g \in active}
  <2>1. /\ opened' = opened /\ ended' = ended /\ facts' = facts \cup es
        /\ UNCHANGED <<Now, DayEnd>> /\ Now = DayEnd - 1
    <3>1. tick = Ticks - 1
      BY <1>8 DEF RollOver, LastMoment
    <3>2. Now = DayEnd - 1
      BY <1>1, <3>1
    <3> QED
      BY <1>8, <3>2 DEF RollOver, time, Now, DayEnd, DayStart
  <2>2. \A e \in es : e.gap \in opened /\ e.state = "CLOSED" /\ e.at = Now /\ e.cont
    BY <1>1 DEF Fact
  <2> HIDE DEF es
  <2>3. \A f \in facts' : /\ f.at \in Nat /\ f.at <= Now /\ f.gap \in opened
                          /\ f.state = "CLOSED" => f.gap \in ended \/ (f.cont /\ f.at = DayEnd - 1)
                          /\ f.state # "CLOSED" => f.state = "OPEN"
    <3>1. Now <= Now
      BY <1>1
    <3> QED
      BY <1>1, <1>2, <2>1, <2>2, <3>1
  <2>4. \A f, h \in facts' : f.state = "OPEN" /\ h.state = "OPEN" /\ f.gap = h.gap => f = h
    BY <1>2, <2>1, <2>2
  <2>5. \A k \in opened' \ ended' : \E f \in facts' : f.gap = k /\ f.state = "OPEN"
    BY <1>2, <2>1
  <2> QED
    BY <2>1, <2>3, <2>4, <2>5 DEF FactInv
<1>9. CASE Tick
  <2>1. tick' = tick + 1 /\ UNCHANGED <<day, opened, ended, facts>>
    BY <1>9 DEF Tick, gaps
  <2>2. DayEnd' = DayEnd /\ Now' = Now + 1
    BY <1>1, <2>1 DEF DayEnd, DayStart, Now
  <2>3. \A f \in facts : f.at <= Now + 1
    BY <1>1, <1>2
  <2> QED
    BY <1>2, <2>1, <2>2, <2>3 DEF FactInv
<1>10. CASE Midnight
  <2> DEFINE os == {Fact(g, "OPEN", DayEnd, FALSE) : g \in Continuing}
  <2>1. day' = day + 1 /\ tick' = 0 /\ facts' = os /\ UNCHANGED <<opened, ended>>
    BY <1>10 DEF Midnight, Resumed
  <2>2. Now' = DayEnd
    <3>1. DayEnd = (day + 1) * Ticks
      BY <1>1, Clock
    <3>2. DayStart' = DayEnd
      BY <2>1, <3>1 DEF DayStart
    <3> QED
      BY <1>1, <2>1, <3>2 DEF Now
  <2>3. \A f \in os : f.gap \in opened /\ f.state = "OPEN" /\ f.at = DayEnd
    BY DEF Fact, Continuing
  <2>4. ASSUME NEW f \in os, NEW h \in os, f.gap = h.gap PROVE f = h
    <3>1. PICK g : f = Fact(g, "OPEN", DayEnd, FALSE)
      OBVIOUS
    <3>2. PICK k : h = Fact(k, "OPEN", DayEnd, FALSE)
      OBVIOUS
    <3>3. f.gap = g /\ h.gap = k
      BY <3>1, <3>2 DEF Fact
    <3> QED
      BY <2>4, <3>1, <3>2, <3>3
  <2>5. \A g \in opened \ ended : \E f \in os : f.gap = g /\ f.state = "OPEN"
    <3>1. \A g \in opened \ ended : Fact(g, "OPEN", DayEnd, FALSE) \in os
      BY DEF Continuing
    <3> QED
      BY <3>1 DEF Fact
  <2> HIDE DEF os
  <2>6. DayEnd <= DayEnd
    BY <1>1
  <2> QED
    BY <1>1, <2>1, <2>2, <2>3, <2>4, <2>5, <2>6 DEF FactInv
<1> QED
  BY <1>4, <1>5, <1>6, <1>7, <1>8, <1>9, <1>10 DEF Next

LEMMA DayFacts == Spec => [](DayInv /\ FactInv)
<1>1. Init => DayInv /\ FactInv
  <2> SUFFICES ASSUME Init PROVE DayInv /\ FactInv
    OBVIOUS
  <2>1. 0 < Ticks /\ tick = 0 /\ authority = NoConn /\ Len(intervals) = 0
    BY L2Assumption DEF Init
  <2>2. facts = {} /\ opened = {}
    BY DEF Init
  <2> QED
    BY <2>1, <2>2 DEF DayInv, FactInv
<1>2. L2Inv /\ (DayInv /\ FactInv) /\ [Next]_vars => (DayInv /\ FactInv)'
  BY DayStep, FactStep
<1> QED
  BY <1>1, <1>2, BooksAndTimes, PTL DEF Spec

\* The explicit gaps of a window are within it.
LEMMA ExplicitSpan ==
  ASSUME L2Inv, DayInv, FactInv, NEW from \in DayStart .. DayEnd,
         NEW valid, \A v \in valid : v[1] \in Nat /\ v[2] \in Nat /\ v[1] <= DayEnd
  PROVE  \A i \in ExplicitInvalid(facts, valid, from, DayEnd) :
           i \in Nat \X Nat /\ from <= i[1] /\ i[1] <= DayEnd /\ i[2] <= DayEnd
<1> DEFINE to == DayEnd
           marked == Clipped(Intervals(facts, to), from, to)
<1>1. DayStart \in Nat /\ to \in Nat /\ Now \in Nat /\ Now + 1 <= to
  <2>1. Ticks \in Nat /\ tick \in Nat /\ tick < Ticks /\ DayStart \in Nat
    BY Clock DEF L2Inv, TimeInv, DayInv
  <2> QED
    BY <2>1 DEF DayEnd, Now
<1>2. \A f \in facts : f.at \in Nat /\ f.at <= Now
  BY DEF FactInv
<1> HIDE DEF to
<1>3. ASSUME NEW i \in Intervals(facts, to) PROVE i \in Nat \X Nat
  <2>1. \A f \in facts : EndOf(f) \in Nat
    BY <1>2 DEF EndOf
  <2> QED
    BY <1>1, <1>2, <2>1 DEF Intervals
<1>4. ASSUME NEW c \in marked
      PROVE  c \in Nat \X Nat /\ from <= c[1] /\ c[1] <= to /\ c[2] <= to
  <2>1. PICK i \in Intervals(facts, to) :
          c = <<Max({i[1], from}), Min({i[2], to})>> /\ c[1] < c[2]
    BY DEF Clipped
  <2> DEFINE a == i[1]
             b == i[2]
  <2>2. a \in Nat /\ b \in Nat /\ from \in Nat
    BY <1>1, <1>3
  <2>3. c = <<Max({a, from}), Min({b, to})>>
    BY <2>1
  <2> HIDE DEF a, b
  <2>4. /\ Max({a, from}) = IF a >= from THEN a ELSE from
        /\ Min({b, to}) = IF b <= to THEN b ELSE to
    BY <1>1, <2>2, MaxOfTwo, MinOfTwo
  <2> DEFINE x == Max({a, from})
             y == Min({b, to})
  <2>5. x \in Nat /\ y \in Nat /\ from <= x /\ y <= to
    BY <1>1, <2>2, <2>4
  <2>6. c = <<x, y>> /\ c[1] < c[2]
    BY <2>1, <2>3
  <2> HIDE DEF x, y
  <2>7. x < y
    BY <2>6
  <2> QED
    BY <1>1, <2>5, <2>6, <2>7
<1> HIDE DEF marked
<1>5. ASSUME NEW e \in ExtendedUntilValid(marked, valid, to)
      PROVE  e \in Nat \X Nat /\ from <= e[1] /\ e[1] <= to /\ e[2] <= to
  <2> DEFINE later(i) == {v[1] : v \in {w \in valid : w[1] >= i[2]}}
  <2>1. PICK i \in marked : e = i \/ e = <<i[1], IF later(i) = {} THEN to ELSE Min(later(i))>>
    BY DEF ExtendedUntilValid
  <2>2. \A v \in later(i) : v \in Nat /\ v <= to
    BY DEF to
  <2> DEFINE l == later(i)
  <2> HIDE DEF later
  <2>3. ASSUME l # {} PROVE Min(l) \in Nat /\ Min(l) <= to
    <3>1. l \subseteq Nat
      BY <2>2
    <3> HIDE DEF l
    <3>2. \E x \in l : \A y \in l : x <= y
      BY <2>3, <3>1, LeastNumber
    <3>3. Min(l) \in l
      BY <3>2 DEF Min
    <3> QED
      BY <2>2, <3>1, <3>3 DEF l
  <2> QED
    BY <1>1, <1>4, <2>1, <2>3
<1> QED
  BY <1>5 DEF ExplicitInvalid, marked, to

\* The durations of the quality verdict count moments: those of the validity and
\* the explicit gaps together, on any day of any run (_union_duration).
THEOREM CoverageCountsMoments == Spec => []CoverageIsExact
<1>1. ASSUME L2Inv, DayInv, FactInv PROVE CoverageIsExact
  <2> DEFINE valid == ToSet(Proper(Closed(Now)))
             from == DayStart
             to == DayEnd
             all == valid \cup ExplicitInvalid(facts, valid, from, to)
  <2>1. Now \in Nat /\ from \in Nat /\ to \in Nat /\ from <= to /\ Now <= to /\ Now <= Now
    <3>1. Ticks \in Nat /\ tick \in Nat /\ tick < Ticks /\ DayStart \in Nat
      BY <1>1, Clock DEF L2Inv, TimeInv, DayInv
    <3> QED
      BY <3>1 DEF DayEnd, Now
  <2>2. /\ Closed(Now) \in Seq(Nat \X Nat)
        /\ \A x \in ToSet(Closed(Now)) : from <= x[1] /\ x[2] <= Now
    BY <1>1, <2>1, ClosedSpan DEF L2Inv
  <2>3. ASSUME NEW v \in valid
        PROVE  v \in Nat \X Nat /\ from <= v[1] /\ v[1] <= to /\ v[2] <= to
    <3>1. v \in ToSet(Closed(Now)) /\ v[1] < v[2]
      BY <2>2, ProperIs
    <3>2. v \in Nat \X Nat
      BY <2>2, <3>1, ToSetIs
    <3>3. v[1] \in Nat /\ v[2] \in Nat /\ from <= v[1] /\ v[2] <= Now
      BY <2>2, <3>1, <3>2
    <3> QED
      BY <2>1, <3>1, <3>2, <3>3
  <2> HIDE DEF valid
  <2>4. \A i \in ExplicitInvalid(facts, valid, from, to) :
          i \in Nat \X Nat /\ from <= i[1] /\ i[1] <= to /\ i[2] <= to
    <3>1. \A v \in valid : v[1] \in Nat /\ v[2] \in Nat /\ v[1] <= DayEnd
      BY <2>3
    <3>2. from \in DayStart .. DayEnd
      BY <2>1
    <3> QED
      BY <1>1, <3>1, <3>2, ExplicitSpan
  <2> HIDE DEF from, to
  <2>5. \A i \in all : i \in Nat \X Nat /\ from <= i[1] /\ i[1] <= to /\ i[2] <= to
    BY <2>3, <2>4
  <2>6. CoverageIsExact <=> UnionDuration(all, from, to) = Cardinality(Points(all))
    BY DEF CoverageIsExact, valid, from, to
  <2> HIDE DEF all
  <2>7. all \subseteq (0 .. to) \X (0 .. to)
    <3>1. ASSUME NEW i \in all PROVE i \in (0 .. to) \X (0 .. to)
      <4>1. i \in Nat \X Nat /\ i[1] <= to /\ i[2] <= to
        BY <2>5
      <4> QED
        BY <2>1, <4>1
    <3> QED
      BY <3>1
  <2>8. Points(Clipped(all, from, to)) = Points(all) \cap (from .. to - 1)
    BY <2>1, <2>7, ClippedPoints
  <2>9. Points(all) \subseteq from .. to - 1
    <3>1. ASSUME NEW t \in Points(all) PROVE t \in from .. to - 1
      <4>1. PICK i \in all : t \in i[1] .. i[2] - 1
        BY PointsAre
      <4>2. i \in Nat \X Nat /\ from <= i[1] /\ i[2] <= to
        BY <2>5
      <4> QED
        BY <2>1, <4>1, <4>2
    <3> QED
      BY <3>1
  <2>10. Points(Clipped(all, from, to)) = Points(all)
    BY <2>8, <2>9
  <2>11. UnionDuration(all, from, to) = Cardinality(Points(Clipped(all, from, to)))
    BY <2>1, <2>7, UnionIsCount
  <2> QED
    BY <2>6, <2>10, <2>11
<1> QED
  BY <1>1, BooksAndTimes, DayFacts, PTL

\* The gap that continues into the next day is an interval to the end of this
\* one, whatever is valid.
LEMMA ContinuingIsMarked ==
  ASSUME L2Inv, DayInv, FactInv, LastMoment, NEW g \in opened \ ended,
         NEW from \in Nat, from < DayEnd,
         NEW valid, \A v \in valid : v[1] \in Nat /\ v[2] \in Nat /\ v[1] < v[2] /\ v[2] <= DayEnd
  PROVE  \E i \in ExplicitInvalid(facts, valid, from, DayEnd) :
           i[1] \in Nat /\ i[1] < DayEnd /\ i[2] = DayEnd
<1> DEFINE to == DayEnd
<1>1. to \in Nat /\ Now \in Nat /\ Now = to - 1
  <2>1. Ticks \in Nat /\ tick = Ticks - 1 /\ DayStart \in Nat /\ DayEnd \in Nat /\ Now \in Nat
    BY Clock, L2Assumption DEF L2Inv, TimeInv, LastMoment
  <2> QED
    BY <2>1 DEF DayEnd, Now
<1>2. PICK f \in facts : f.gap = g /\ f.state = "OPEN"
  BY DEF FactInv
<1>3. f.at \in Nat /\ f.at <= Now
  BY DEF FactInv
<1>4. <<f.at, to>> \in Intervals(facts, to)
  <2>1. CASE NextFact(facts, f) = {}
    BY <1>2, <2>1 DEF Intervals
  <2>2. CASE NextFact(facts, f) # {}
    <3>1. PICK h \in facts : h \in NextFact(facts, f) /\ Before(f, h)
      BY <2>2 DEF NextFact
    <3>2. h.gap = g /\ f.at < h.at
      BY <1>2, <3>1 DEF Before
    <3>3. h.at \in Nat
      BY DEF FactInv
    <3>4. h.state = "CLOSED"
      <4>1. ASSUME h.state = "OPEN" PROVE FALSE
        <5>1. f = h
          BY <1>2, <3>2, <4>1 DEF FactInv
        <5> QED
          BY <1>3, <3>2, <5>1
      <4> QED
        BY <4>1 DEF FactInv
    <3>5. h.cont /\ h.at = DayEnd - 1
      BY <3>2, <3>4 DEF FactInv
    <3>6. EndOf(h) = to
      BY <1>1, <3>5 DEF EndOf
    <3> DEFINE p == <<f, h>>
               pairs == {q \in facts \X facts : /\ q[1].state = "OPEN" /\ q[2].state = "CLOSED"
                                                /\ q[2] \in NextFact(facts, q[1])}
    <3>7. p \in pairs /\ p[1] = f /\ p[2] = h
      BY <1>2, <3>1, <3>4
    <3> HIDE DEF p, pairs
    <3>8. <<p[1].at, EndOf(p[2])>> \in {<<q[1].at, EndOf(q[2])>> : q \in pairs}
      BY <3>7
    <3>9. <<f.at, to>> \in {<<q[1].at, EndOf(q[2])>> : q \in pairs}
      BY <3>6, <3>7, <3>8
    <3> QED
      BY <3>9 DEF Intervals, pairs
  <2> QED
    BY <2>1, <2>2
<1> DEFINE first == Max({f.at, from})
           c == <<first, to>>
           marked == Clipped(Intervals(facts, to), from, to)
<1> HIDE DEF to
<1>5. first \in Nat /\ first < to
  BY <1>1, <1>3, MaxOfTwo DEF to
<1>6. c \in marked
  <2> DEFINE i == <<f.at, to>>
  <2>1. i \in Intervals(facts, to) /\ i[1] = f.at /\ i[2] = to
    BY <1>4
  <2>2. Min({to, to}) = to
    BY <1>1, MinOfTwo
  <2> HIDE DEF i
  <2>3. c = <<Max({i[1], from}), Min({i[2], to})>>
    BY <2>1, <2>2
  <2>4. c[1] < c[2]
    BY <1>5
  <2> HIDE DEF c
  <2> QED
    BY <2>1, <2>3, <2>4 DEF Clipped
<1>7. c[1] = first /\ c[2] = to
  OBVIOUS
<1> HIDE DEF c, first, marked
<1> DEFINE later == {v[1] : v \in {w \in valid : w[1] >= c[2]}}
           e == <<c[1], IF later = {} THEN to ELSE Min(later)>>
<1>8. ~\E v \in valid : v[1] <= c[2] /\ c[2] < v[2]
  BY <1>1, <1>7 DEF to
<1>9. later = {}
  BY <1>1, <1>7 DEF to
<1>10. e \in ExtendedUntilValid(marked, valid, to)
  BY <1>6, <1>8 DEF ExtendedUntilValid
<1>11. e = <<first, to>>
  BY <1>7, <1>9
<1> HIDE DEF e
<1>12. e[1] \in Nat /\ e[1] < to /\ e[2] = to
  BY <1>5, <1>11
<1> QED
  BY <1>10, <1>12 DEF ExplicitInvalid, marked, to

LEMMA TimesGrow ==
  ASSUME NEW a \in Nat, NEW b \in Nat, NEW u \in Nat, a <= b PROVE a * u <= b * u
<1>1. (b - a) * u \in Nat /\ b - a \in Nat
  OBVIOUS
<1>2. b * u = a * u + (b - a) * u
  OBVIOUS
<1>3. a * u \in Nat /\ b * u \in Nat
  OBVIOUS
<1> QED
  BY <1>1, <1>2, <1>3

\* What is valid at the end of a day was true, or a gap is marked there too.
LEMMA ValidAtEnd ==
  ASSUME L2Inv, DayInv, FactInv, LastMoment, NEW from \in Nat, from < DayEnd,
         NEW valid, \A x : x \in valid <=> x \in ToSet(Closed(DayEnd)) /\ x[1] < x[2],
         NEW t \in Points(valid), t \in from .. DayEnd - 1, t \notin Passed
  PROVE  DayEnd - 1 \in Points(Intersections(valid, ExplicitInvalid(facts, valid, from, DayEnd)))
<1> DEFINE to == DayEnd
<1>1. to \in Nat /\ Now \in Nat /\ Now = to - 1 /\ Now <= to
  <2>1. Ticks \in Nat /\ tick = Ticks - 1 /\ DayStart \in Nat /\ DayEnd \in Nat /\ Now \in Nat
    BY Clock, L2Assumption DEF L2Inv, TimeInv, LastMoment
  <2> QED
    BY <2>1 DEF DayEnd, Now
<1>2. /\ Closed(to) \in Seq(Nat \X Nat)
      /\ \A x \in ToSet(Closed(to)) : x[2] <= to
      /\ \A x : x \in ToSet(Closed(to)) <=>
                  x \in ToSet(intervals) \/ (authority # NoConn /\ x = <<validFrom, to>>)
  BY <1>1, ClosedSpan, ClosedIs DEF L2Inv
<1>3. ASSUME NEW v \in valid PROVE v \in Nat \X Nat /\ v[1] < v[2] /\ v[2] <= to
  <2>1. v \in ToSet(Closed(to)) /\ v[1] < v[2]
    OBVIOUS
  <2>2. v \in Nat \X Nat
    BY <1>2, <2>1, ToSetIs
  <2> QED
    BY <1>2, <2>1, <2>2
<1>4. PICK v \in valid : t \in v[1] .. v[2] - 1
  BY PointsAre
<1>5. v \notin ToSet(intervals)
  <2>1. SUFFICES ASSUME v \in ToSet(intervals) PROVE FALSE
    OBVIOUS
  <2>2. intervals \in Seq(Nat \X Nat)
    BY DEF L2Inv, TimeInv
  <2>3. PICK k \in 1 .. Len(intervals) : v = intervals[k]
    BY <2>1, <2>2, ToSetIs
  <2>4. v[2] <= Now
    BY <2>3 DEF DayInv
  <2>5. t # to - 1
    BY <1>1, <1>3, <1>4, <2>4
  <2>6. t \in good
    BY <1>4, <2>3, <2>5 DEF L2Inv, TimeInv
  <2> QED
    BY <2>6 DEF Passed
<1>6. authority # NoConn /\ v = <<validFrom, to>>
  BY <1>2, <1>5
<1>7. v[2] = to /\ v[1] = validFrom /\ validFrom \in Nat
  BY <1>6 DEF L2Inv, TimeInv
<1>8. t = Now
  <2>1. SUFFICES ASSUME t # Now PROVE FALSE
    OBVIOUS
  <2>2. t \in validFrom .. Now - 1
    BY <1>1, <1>4, <1>7, <2>1
  <2>3. t \in good
    BY <1>6, <2>2 DEF L2Inv, TimeInv
  <2> QED
    BY <2>3 DEF Passed
<1>9. opened # ended
  <2>1. SUFFICES ASSUME opened = ended PROVE FALSE
    OBVIOUS
  <2>2. authority \in Connections /\ books[authority].state = "VALID"
    BY <1>6 DEF L2Inv, TimeInv
  <2>3. GoodBook(books[authority])
    BY <2>2 DEF L2Inv, BookInv
  <2>4. TrueNow
    BY <1>6, <2>1, <2>2, <2>3 DEF TrueNow, GoodBook
  <2> QED
    BY <1>8, <2>4 DEF Passed
<1>10. PICK g \in opened \ ended : TRUE
  BY <1>9 DEF L2Inv, TimeInv
<1>11. PICK i \in ExplicitInvalid(facts, valid, from, to) :
         i[1] \in Nat /\ i[1] < to /\ i[2] = to
  <2>1. \A x \in valid : x[1] \in Nat /\ x[2] \in Nat /\ x[1] < x[2] /\ x[2] <= DayEnd
    BY <1>3
  <2> QED
    BY <2>1, ContinuingIsMarked
<1> DEFINE invalid == ExplicitInvalid(facts, valid, from, to)
           p == <<v, i>>
           first(q) == Max({q[1][1], q[2][1]})
           last(q) == Min({q[1][2], q[2][2]})
           c == <<first(p), last(p)>>
<1>12. Intersections(valid, invalid) =
         {x \in {<<first(q), last(q)>> : q \in valid \X invalid} : x[1] < x[2]}
  BY DEF Intersections
<1>13. p \in valid \X invalid /\ p[1] = v /\ p[2] = i
  BY <1>4, <1>11
<1> HIDE DEF invalid, p
<1>14. last(p) = to
  BY <1>1, <1>7, <1>11, <1>13, MinOfTwo
<1>15. first(p) \in Nat /\ first(p) < to
  <2> DEFINE a == v[1]
             b == i[1]
  <2>1. a \in Nat /\ b \in Nat /\ a < to /\ b < to
    BY <1>1, <1>3, <1>7, <1>11
  <2>2. first(p) = Max({a, b})
    BY <1>13
  <2> HIDE DEF a, b
  <2>3. Max({a, b}) = IF a >= b THEN a ELSE b
    BY <2>1, MaxOfTwo
  <2> QED
    BY <2>1, <2>2, <2>3
<1> HIDE DEF first, last
<1>16. c \in Intersections(valid, invalid)
  <2>1. c[1] < c[2]
    BY <1>14, <1>15
  <2>2. c \in {<<first(q), last(q)>> : q \in valid \X invalid}
    BY <1>13
  <2> HIDE DEF c
  <2> QED
    BY <1>12, <2>1, <2>2
<1>17. to - 1 \in c[1] .. c[2] - 1
  BY <1>1, <1>14, <1>15
<1> HIDE DEF c
<1> QED
  BY <1>16, <1>17, PointsAre DEF invalid

\* The window of a day.
LEMMA WindowIs ==
  ASSUME TimeInv
  PROVE  WindowStart \in Nat /\ DayStart <= WindowStart /\ WindowStart < DayEnd
<1>1. /\ Ticks \in Nat /\ FormalStart \in Nat /\ FormalStart < Ticks
      /\ DayStart \in Nat /\ DayEnd = DayStart + Ticks
  BY Clock, L2Assumption DEF DayEnd
<1> QED
  BY <1>1 DEF WindowStart

LEMMA IntersectionsSpan ==
  ASSUME NEW n \in Nat, NEW A, NEW B, A \subseteq (0 .. n) \X (0 .. n), B \subseteq (0 .. n) \X (0 .. n)
  PROVE  Intersections(A, B) \subseteq (0 .. n) \X (0 .. n)
<1> DEFINE first(q) == Max({q[1][1], q[2][1]})
           last(q) == Min({q[1][2], q[2][2]})
<1>1. Intersections(A, B) = {x \in {<<first(q), last(q)>> : q \in A \X B} : x[1] < x[2]}
  BY DEF Intersections
<1>2. ASSUME NEW q \in A \X B PROVE first(q) \in 0 .. n /\ last(q) \in 0 .. n
  <2>1. ASSUME NEW a \in 0 .. n, NEW b \in 0 .. n
        PROVE  Max({a, b}) \in 0 .. n /\ Min({a, b}) \in 0 .. n
    BY MaxOfTwo, MinOfTwo
  <2>2. q[1] \in (0 .. n) \X (0 .. n) /\ q[2] \in (0 .. n) \X (0 .. n)
    OBVIOUS
  <2>3. q[1][1] \in 0 .. n /\ q[1][2] \in 0 .. n /\ q[2][1] \in 0 .. n /\ q[2][2] \in 0 .. n
    BY <2>2
  <2> QED
    BY <2>1, <2>3
<1> HIDE DEF first, last
<1> QED
  BY <1>1, <1>2

\* A day that is processed is what its marker says, whatever was lost, repeated
\* or marked on it: at each moment of its window the book was true or a gap
\* stands for it, and enough moments are the former (finalize_day).
THEOREM ProcessedDaysAreTrue == Spec => ProcessedDayIsTrue
<1> DEFINE True ==
             (day' > day /\ verdict' = "processed") =>
               LET window == WindowStart .. DayEnd - 1
                   valid == ToSet(Proper(Closed(DayEnd)))
                   marked == Points(ExplicitInvalid(facts, valid, WindowStart, DayEnd)) IN
               /\ window \subseteq Passed \cup marked
               /\ Cardinality(window \cap Passed) * RatioUnder >= Cardinality(window) * RatioOver
<1>1. ASSUME L2Inv, DayInv, FactInv, Midnight, verdict' = "processed"
      PROVE  LET window == WindowStart .. DayEnd - 1
                 valid == ToSet(Proper(Closed(DayEnd)))
                 marked == Points(ExplicitInvalid(facts, valid, WindowStart, DayEnd)) IN
             /\ window \subseteq Passed \cup marked
             /\ Cardinality(window \cap Passed) * RatioUnder >= Cardinality(window) * RatioOver
  <2> DEFINE from == WindowStart
             to == DayEnd
             window == from .. to - 1
             valid == ToSet(Proper(Closed(to)))
             invalid == ExplicitInvalid(facts, valid, from, to)
             both == Intersections(valid, invalid)
             duration(s) == UnionDuration(s, from, to)
  <2>1. /\ duration(valid) * RatioUnder < (to - from) * RatioOver => verdict' = "rejected"
                                                                     \/ verdict' = "refused"
        /\ duration(valid \cup invalid) # to - from => verdict' = "rejected" \/ verdict' = "refused"
        /\ duration(both) # 0 => verdict' = "rejected" \/ verdict' = "refused"
    BY <1>1 DEF Midnight, Judged, Verdict
  <2>2. /\ from \in Nat /\ to \in Nat /\ Now \in Nat /\ DayStart \in Nat
        /\ from < to /\ DayStart <= from /\ Now <= to /\ LastMoment
    <3>1. Ticks \in Nat /\ tick \in Nat /\ tick < Ticks /\ DayStart \in Nat /\ LastMoment
      BY <1>1, Clock DEF L2Inv, TimeInv, DayInv, Midnight, DayIsOver
    <3>2. Now \in Nat /\ DayEnd \in Nat /\ Now <= DayEnd
      BY <3>1 DEF DayEnd, Now
    <3> QED
      BY <1>1, <3>1, <3>2, WindowIs DEF L2Inv
  <2>3. /\ Closed(to) \in Seq(Nat \X Nat) /\ \A x \in ToSet(Closed(to)) : x[2] <= to
        /\ \A x : x \in valid <=> x \in ToSet(Closed(to)) /\ x[1] < x[2]
    <3>1. /\ Closed(to) \in Seq(Nat \X Nat) /\ \A x \in ToSet(Closed(to)) : x[2] <= to
      BY <1>1, <2>2, ClosedSpan DEF L2Inv
    <3> QED
      BY <3>1, ProperIs
  <2> HIDE DEF valid
  <2>4. ASSUME NEW v \in valid
        PROVE  v \in Nat \X Nat /\ v[1] \in Nat /\ v[2] \in Nat /\ v[1] <= to /\ v[2] <= to
    <3>1. v \in ToSet(Closed(to)) /\ v[1] < v[2]
      BY <2>3
    <3>2. v \in Nat \X Nat
      BY <2>3, <3>1, ToSetIs
    <3> QED
      BY <2>2, <2>3, <3>1, <3>2
  <2>5. \A i \in invalid : i \in Nat \X Nat /\ i[1] <= to /\ i[2] <= to
    <3>1. from \in DayStart .. DayEnd
      BY <2>2
    <3>2. \A v \in valid : v[1] \in Nat /\ v[2] \in Nat /\ v[1] <= DayEnd
      BY <2>4
    <3> QED
      BY <1>1, <3>1, <3>2, ExplicitSpan
  <2>6. /\ valid \subseteq (0 .. to) \X (0 .. to) /\ invalid \subseteq (0 .. to) \X (0 .. to)
        /\ from \in 0 .. to /\ to \in 0 .. to
    <3>1. ASSUME NEW i \in Nat \X Nat, i[1] <= to, i[2] <= to PROVE i \in (0 .. to) \X (0 .. to)
      BY <2>2, <3>1
    <3> HIDE DEF invalid
    <3> QED
      BY <2>2, <2>4, <2>5, <3>1
  <2>7. ASSUME NEW t \in Points(valid), t \in window, t \notin Passed
        PROVE  to - 1 \in Points(both)
    BY <1>1, <2>2, <2>3, <2>7, ValidAtEnd
  <2> HIDE DEF from, to, invalid
  <2>8. both \subseteq (0 .. to) \X (0 .. to)
    BY <2>2, <2>6, IntersectionsSpan
  <2> HIDE DEF both
  <2>9. ASSUME NEW s, s \subseteq (0 .. to) \X (0 .. to)
        PROVE  duration(s) = Cardinality(Points(s) \cap window)
    <3>1. Points(Clipped(s, from, to)) = Points(s) \cap window
      BY <2>2, <2>6, <2>9, ClippedPoints
    <3>2. UnionDuration(s, from, to) = Cardinality(Points(Clipped(s, from, to)))
      BY <2>2, <2>6, <2>9, UnionIsCount
    <3> QED
      BY <3>1, <3>2
  <2>10. IsFiniteSet(window) /\ Cardinality(window) = to - from
    <3>1. from \in Int /\ to - 1 \in Int /\ ~(from > to - 1) /\ (to - 1) - from + 1 = to - from
      BY <2>2
    <3> QED
      BY <3>1, FS_Interval
  <2>11. ASSUME NEW s PROVE IsFiniteSet(s \cap window) /\ Cardinality(s \cap window) \in Nat
    BY <2>10, FS_Intersection, FS_CardinalityType
  <2> HIDE DEF duration
  <2>12. window \subseteq Points(valid) \cup Points(invalid)
    <3>1. duration(valid \cup invalid) = to - from
      BY <1>1, <2>1
    <3>2. (valid \cup invalid) \subseteq (0 .. to) \X (0 .. to)
      BY <2>6
    <3>3. Cardinality(Points(valid \cup invalid) \cap window) = Cardinality(window)
      BY <2>9, <2>10, <3>1, <3>2
    <3> DEFINE part == Points(valid \cup invalid) \cap window
    <3>4. part \in SUBSET window
      OBVIOUS
    <3>5. part = window
      BY <2>10, <3>3, <3>4, FS_Subset
    <3>6. Points(valid \cup invalid) = Points(valid) \cup Points(invalid)
      BY PointsAre
    <3> QED
      BY <3>5, <3>6
  <2>13. Points(valid) \cap window \subseteq Passed
    <3>1. duration(both) = 0
      BY <1>1, <2>1
    <3>2. Cardinality(Points(both) \cap window) = 0
      BY <2>8, <2>9, <3>1
    <3>3. Points(both) \cap window = {}
      BY <2>11, <3>2, FS_EmptySet
    <3>4. to - 1 \in window
      BY <2>2
    <3> QED
      BY <2>7, <3>3, <3>4
  <2>14. Cardinality(window \cap Passed) * RatioUnder >= Cardinality(window) * RatioOver
    <3> DEFINE a == Cardinality(Points(valid) \cap window)
               b == Cardinality(Passed \cap window)
    <3>1. a \in Nat /\ b \in Nat
      BY <2>11
    <3>2. a <= b
      <4> DEFINE u == Points(valid) \cap window
                 w == Passed \cap window
      <4>1. u \in SUBSET w /\ IsFiniteSet(w)
        BY <2>11, <2>13
      <4> QED
        BY <4>1, FS_Subset
    <3>3. ~(duration(valid) * RatioUnder < (to - from) * RatioOver) /\ duration(valid) = a
      BY <1>1, <2>1, <2>6, <2>9
    <3>4. window \cap Passed = Passed \cap window
      OBVIOUS
    <3> HIDE DEF a, b, window
    <3>5. a * RatioUnder <= b * RatioUnder
      BY <3>1, <3>2, TimesGrow, QualityAssumption
    <3>6. a * RatioUnder \in Nat /\ b * RatioUnder \in Nat /\ (to - from) * RatioOver \in Nat
      <4>1. to - from \in Nat
        BY <2>2
      <4> QED
        BY <3>1, <4>1, QualityAssumption
    <3>7. ~(a * RatioUnder < (to - from) * RatioOver)
      BY <3>3
    <3>8. b * RatioUnder >= (to - from) * RatioOver
      BY <3>5, <3>6, <3>7
    <3> QED
      BY <2>10, <3>4, <3>8 DEF b
  <2>15. window \subseteq Passed \cup Points(invalid)
    BY <2>12, <2>13
  <2> QED
    BY <2>14, <2>15 DEF from, to, valid, invalid
<1>2. L2Inv /\ (DayInv /\ FactInv) /\ [Next]_vars => [True]_vars
  BY <1>1, DayEnds
<1> QED
  BY <1>2, BooksAndTimes, DayFacts, PTL DEF Spec, ProcessedDayIsTrue
=============================================================================
