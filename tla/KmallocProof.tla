---------------------------- MODULE KmallocProof ----------------------------
(***************************************************************************)
(* Proofs about the memory of the kernel, for any number of pages, any     *)
(* usable areas, and any sizes that are asked for.                         *)
(*                                                                         *)
(* First the first-fit page allocator of DefaultPmm, with the kernel heap  *)
(* of Kmalloc and any others as its callers: the list describes the free   *)
(* pages as maximal blocks, and requests are met with the lowest pages     *)
(* that fit. Then the heap: its ring links the free blocks in order, and   *)
(* with the blocks given out they share its pages out among them.          *)
(***************************************************************************)
EXTENDS Kmalloc, SequenceTheorems, FiniteSetTheorems, WellFoundedInduction, TLAPS

Sorted(s) == \A i, j \in DOMAIN s : i < j => s[i] < s[j]
FreePages == ToSet(free_list)

\* n is the length of the maximal run of pages of S that p begins.
IsRun(S, p, n) == n \in 1 .. NPAGE /\ Run(p, n) \subseteq S /\ p + n \notin S

PmmTypeOK ==
  /\ free_list \in Seq(Page)
  /\ property \in [Page -> Nat]
  /\ held \subseteq [base : Page, n : 1 .. NPAGE]

\* What is in the properties of the pages that are free
PropertiesExact ==
  \A p \in FreePages : IF p \in Heads(FreePages) THEN IsRun(FreePages, p, property[p])
                       ELSE property[p] = 0

\* A page is free, or in at most one run of a caller; only the first page of a
\* run may have come with a property, which is stale by then.
HeldApart ==
  /\ \A r \in held : Run(r.base, r.n) \subseteq Page \ FreePages
  /\ \A r, q \in held : r # q => Run(r.base, r.n) \cap Run(q.base, q.n) = {}
StaleInFront ==
  \A r \in held : \A p \in Run(r.base, r.n) : p # r.base => property[p] = 0

\* The inductive invariant of the allocator
PmmInv ==
  /\ PmmTypeOK
  /\ Sorted(free_list) /\ PropertiesExact /\ nr_free = Cardinality(FreePages)
  /\ HeldApart /\ StaleInFront

\* The heap keeps the pages of its big blocks.
HeapRuns ==
  /\ bigblocks \in Seq(ToSet(bigblocks))
  /\ \A i \in DOMAIN bigblocks : PagesOf(i) \in held
  /\ \A i, j \in DOMAIN bigblocks : bigblocks[i].pages = bigblocks[j].pages => i = j

KmallocInv == PmmInv /\ HeapRuns

----------------------------------------------------------------------------
(* Numbers and sets of numbers                                             *)

LEMMA Least ==
  ASSUME NEW T \in SUBSET Nat, T # {}
  PROVE  \E x \in T : \A y \in T : x <= y
<1> DEFINE R == OpToRel(<, Nat)
<1>1. IsWellFoundedOn(R, Nat) BY NatLessThanWellFounded
<1>2. \A x, y \in Nat : y < x => <<y, x>> \in R BY DEF OpToRel
<1> HIDE DEF R
<1>3. PICK x \in T : \A y \in T : ~(<<y, x>> \in R) BY <1>1, WFMin
<1>4. ASSUME NEW y \in T PROVE x <= y
  <2>1. ~(y < x) BY <1>2, <1>3
  <2> QED BY <2>1
<1> QED BY <1>4

LEMMA MinIs ==
  ASSUME NEW T \in SUBSET Nat, T # {}
  PROVE  Min(T) \in T /\ \A y \in T : Min(T) <= y
BY Least DEF Min

LEMMA PageIs == \A p : p \in Page <=> p \in Nat /\ p <= NPAGE - 1
BY PageAssumption DEF Page

LEMMA RunExists ==
  ASSUME NEW S \in SUBSET Page, NEW p \in S
  PROVE  \E n : IsRun(S, p, n)
<1> DEFINE T == {m \in Nat : p + m \notin S}
<1>1. p \in Nat /\ NPAGE \in Nat BY PageIs, PageAssumption
<1>2. NPAGE \in T BY <1>1, PageIs
<1>3. PICK n \in T : \A m \in T : n <= m
  <2>1. T \in SUBSET Nat /\ T # {} BY <1>2
  <2> HIDE DEF T
  <2> QED BY <2>1, Least
<1>4. n # 0 /\ n <= NPAGE BY <1>1, <1>2, <1>3
<1>5. \A m \in 0 .. n - 1 : p + m \in S BY <1>3
<1>6. Run(p, n) \subseteq S
  <2>1. ASSUME NEW q \in Run(p, n) PROVE q \in S
    <3>1. q - p \in 0 .. n - 1 /\ p + (q - p) = q BY <1>1, <1>3 DEF Run
    <3> QED BY <1>5, <3>1
  <2> QED BY <2>1
<1> QED BY <1>1, <1>3, <1>4, <1>6 DEF IsRun

LEMMA RunIs ==
  ASSUME NEW S \in SUBSET Page, NEW p \in S, NEW n, IsRun(S, p, n)
  PROVE  RunLength(S, p) = n
<1>1. p \in Nat /\ NPAGE \in Nat BY PageIs, PageAssumption
<1>2. ASSUME NEW m \in 1 .. NPAGE, Run(p, m) \subseteq S, p + m \notin S PROVE m = n
  <2>1. ~(m < n) BY <1>1, <1>2 DEF IsRun, Run
  <2>2. ~(n < m) BY <1>1, <1>2 DEF IsRun, Run
  <2> QED BY <1>1, <2>1, <2>2 DEF IsRun
<1> QED BY <1>2 DEF RunLength, IsRun

\* The maximal run that a page is in
LEMMA HeadOf ==
  ASSUME NEW S \in SUBSET Page, NEW q \in S
  PROVE  \E h \in Heads(S) : h <= q /\ h .. q \subseteq S
<1> DEFINE T == {h \in Nat : h <= q /\ h .. q \subseteq S}
<1>1. q \in Nat BY PageIs
<1>2. q \in T BY <1>1
<1>3. PICK h \in T : \A m \in T : h <= m
  <2>1. T \in SUBSET Nat /\ T # {} BY <1>2
  <2> HIDE DEF T
  <2> QED BY <2>1, Least
<1>4. h \in Nat /\ h \in S BY <1>1, <1>3
<1>5. h - 1 \notin S
  <2> SUFFICES ASSUME h - 1 \in S PROVE FALSE OBVIOUS
  <2>1. h - 1 \in Nat BY PageIs
  <2>2. (h - 1) .. q \subseteq S BY <1>1, <1>3, <1>4, <2>1
  <2>3. h - 1 \in T BY <1>1, <1>3, <1>4, <2>1, <2>2
  <2> QED BY <1>3, <1>4, <2>3
<1> QED BY <1>3, <1>4, <1>5 DEF Heads

\* A property of a head tells what is free from it on.
LEMMA OneLength ==
  ASSUME NEW S \in SUBSET Page, NEW p \in S, NEW n, NEW m, IsRun(S, p, n), IsRun(S, p, m)
  PROVE  n = m
BY RunIs

\* n free pages that follow each other are in a maximal run at least as long.
LEMMA InRun ==
  ASSUME NEW S \in SUBSET Page, NEW q \in Page, NEW n \in Nat \ {0}, Run(q, n) \subseteq S
  PROVE  \E h \in Heads(S) : h <= q /\ \A m : IsRun(S, h, m) => m >= n
<1>1. q \in S BY PageIs DEF Run
<1>2. PICK h \in Heads(S) : h <= q /\ h .. q \subseteq S BY <1>1, HeadOf
<1>3. h \in Nat /\ q \in Nat BY <1>2, PageIs DEF Heads
<1>4. ASSUME NEW m, IsRun(S, h, m) PROVE m >= n
  <2>1. m \in Nat BY <1>4, PageAssumption DEF IsRun
  <2>2. h + m \notin S BY <1>4 DEF IsRun
  <2>3. h + m \notin h .. q /\ h + m \notin q .. q + n - 1 BY <1>2, <2>2 DEF Run
  <2> QED BY <1>2, <1>3, <2>1, <2>3
<1> QED BY <1>2, <1>4

\* The first n pages of a maximal run are taken.
LEMMA TakeFront ==
  ASSUME NEW S \in SUBSET Page, NEW p \in Heads(S), NEW L, IsRun(S, p, L), NEW n \in 1 .. L
  PROVE  LET R == S \ Run(p, n) IN
         /\ n = L => p + n \notin R
         /\ n < L => p + n \in Heads(R) /\ IsRun(R, p + n, L - n)
         /\ \A q \in R : q # p + n =>
              /\ q \in Heads(R) <=> q \in Heads(S)
              /\ \A m : q \in Heads(S) /\ IsRun(S, q, m) => IsRun(R, q, m)
<1> DEFINE R == S \ Run(p, n)
<1>1. /\ p \in Nat /\ NPAGE \in Nat /\ L \in 1 .. NPAGE /\ n \in Nat /\ 1 <= n /\ n <= L
      /\ p \in S /\ p - 1 \notin S /\ Run(p, L) \subseteq S /\ p + L \notin S
  BY PageIs, PageAssumption DEF Heads, IsRun
<1>2. n = L => p + n \notin R BY <1>1
<1>3. ASSUME n < L PROVE p + n \in Heads(R) /\ IsRun(R, p + n, L - n)
  <2>1. p + n \in Run(p, L) /\ p + n \notin Run(p, n) /\ p + n - 1 \in Run(p, n)
    BY <1>1, <1>3 DEF Run
  <2>2. p + n \in Heads(R) BY <1>1, <2>1 DEF Heads
  <2>3. Run(p + n, L - n) \subseteq R BY <1>1, <1>3 DEF Run
  <2>4. p + n + (L - n) \notin R BY <1>1
  <2> QED BY <1>1, <1>3, <2>2, <2>3, <2>4 DEF IsRun
<1>4. ASSUME NEW q \in R, q # p + n PROVE q \in Heads(R) <=> q \in Heads(S)
  <2>1. q \in Nat /\ q \in S BY PageIs
  <2>2. q - 1 \notin Run(p, n) BY <1>1, <1>4, <2>1 DEF Run
  <2> QED BY <2>1, <2>2 DEF Heads
<1>5. ASSUME NEW q \in R, q # p + n, NEW m, q \in Heads(S), IsRun(S, q, m)
      PROVE IsRun(R, q, m)
  <2>1. /\ q \in Nat /\ q \in S /\ q \notin Run(p, n)
        /\ m \in 1 .. NPAGE /\ Run(q, m) \subseteq S /\ q + m \notin S
    BY <1>5, PageIs DEF IsRun
  <2>2. Run(q, m) \cap Run(p, n) = {}
    <3>1. CASE q < p
      <4>1. p - 1 \notin Run(q, m) BY <1>1, <2>1
      <4> QED BY <1>1, <2>1, <3>1, <4>1 DEF Run
    <3>2. CASE q > p BY <1>1, <2>1, <3>2 DEF Run
    <3>3. q # p BY <1>1, <2>1 DEF Run
    <3> QED BY <1>1, <2>1, <3>1, <3>2, <3>3
  <2> QED BY <2>1, <2>2 DEF IsRun
<1> HIDE DEF R
<1>6. R = S \ Run(p, n) BY DEF R
<1> QED BY <1>2, <1>3, <1>4, <1>5, <1>6

\* n pages are put back from b on.
LEMMA PutBackHeads ==
  ASSUME NEW S \in SUBSET Page, NEW b \in Page, NEW n \in Nat \ {0},
         Run(b, n) \subseteq Page \ S
  PROVE  LET T == S \cup Run(b, n) IN
         /\ \A q \in Run(b, n) : q # b => q \notin Heads(T)
         /\ b + n \in S => b + n \in Heads(S) /\ b + n \notin Heads(T)
         /\ b \in Heads(T) <=> b - 1 \notin S
         /\ \A q \in S : q # b + n => (q \in Heads(T) <=> q \in Heads(S))
<1> DEFINE T == S \cup Run(b, n)
<1>1. b \in Nat /\ b \in Run(b, n) BY PageIs DEF Run
<1>2. ASSUME NEW q \in Run(b, n), q # b PROVE q \notin Heads(T)
  <2>1. q - 1 \in Run(b, n) BY <1>1, <1>2 DEF Run
  <2> QED BY <2>1 DEF Heads
<1>3. ASSUME b + n \in S PROVE b + n \in Heads(S) /\ b + n \notin Heads(T)
  <2>1. b + n - 1 \in Run(b, n) BY <1>1 DEF Run
  <2> QED BY <1>1, <1>3, <2>1 DEF Heads
<1>4. b \in Heads(T) <=> b - 1 \notin S
  <2>1. b - 1 \notin Run(b, n) BY <1>1 DEF Run
  <2> QED BY <1>1, <2>1 DEF Heads
<1>5. ASSUME NEW q \in S, q # b + n PROVE q \in Heads(T) <=> q \in Heads(S)
  <2>1. q \in Nat /\ q \notin Run(b, n) BY PageIs
  <2>2. q - 1 \notin Run(b, n) BY <1>1, <1>5, <2>1 DEF Run
  <2> QED BY <2>2 DEF Heads
<1> QED BY <1>2, <1>3, <1>4, <1>5

LEMMA PutBackRuns ==
  ASSUME NEW S \in SUBSET Page, NEW b \in Page, NEW n \in Nat \ {0},
         Run(b, n) \subseteq Page \ S,
         NEW m \in Nat, IF b + n \in S THEN IsRun(S, b + n, m - n) ELSE m = n
  PROVE  LET T == S \cup Run(b, n) IN
         /\ IsRun(T, b, m)
         /\ \A h \in Heads(S) : h < b /\ h .. b - 1 \subseteq S => IsRun(T, h, b - h + m)
         /\ \A q \in S, k \in Nat : IsRun(S, q, k) /\ q + k # b => IsRun(T, q, k)
<1> DEFINE T == S \cup Run(b, n)
<1>1. b \in Nat /\ b \in Run(b, n) /\ NPAGE \in Nat /\ b + n <= NPAGE
  <2>1. b \in Nat /\ b + n - 1 \in Run(b, n) BY PageIs DEF Run
  <2> QED BY <2>1, PageIs, PageAssumption DEF Run
<1>2. m >= n /\ Run(b, m) \subseteq T /\ b + m \notin T /\ b + m <= NPAGE
  <2>1. CASE b + n \in S
    <3>1. /\ m - n \in 1 .. NPAGE /\ Run(b + n, m - n) \subseteq S
          /\ b + n + (m - n) \notin S
      BY <2>1 DEF IsRun
    <3>2. Run(b, m) \subseteq T BY <1>1, <3>1 DEF Run
    <3>3. b + m \notin T BY <1>1, <3>1 DEF Run
    <3>4. b + m - 1 \in Run(b + n, m - n) BY <1>1, <3>1 DEF Run
    <3>5. b + m - 1 \in Page BY <3>1, <3>4
    <3> QED BY <1>1, <3>1, <3>2, <3>3, <3>5 DEF Page
  <2>2. CASE b + n \notin S BY <1>1, <2>2 DEF Run
  <2> QED BY <2>1, <2>2
<1>3. IsRun(T, b, m) BY <1>1, <1>2 DEF IsRun
<1>4. ASSUME NEW h \in Heads(S), h < b, h .. b - 1 \subseteq S
      PROVE IsRun(T, h, b - h + m)
  <2>1. h \in Nat BY PageIs DEF Heads
  <2>2. Run(h, b - h + m) \subseteq T
    <3>1. ASSUME NEW q \in Run(h, b - h + m) PROVE q \in h .. b - 1 \/ q \in Run(b, m)
      BY <1>1, <2>1, <3>1 DEF Run
    <3> QED BY <1>2, <1>4, <3>1
  <2>3. h + (b - h + m) = b + m /\ b - h + m \in 1 .. NPAGE BY <1>1, <1>2, <1>4, <2>1
  <2> QED BY <1>2, <2>2, <2>3 DEF IsRun
<1>5. ASSUME NEW q \in S, NEW k \in Nat, IsRun(S, q, k), q + k # b PROVE IsRun(T, q, k)
  <2>1. /\ q \in Nat /\ k \in 1 .. NPAGE /\ Run(q, k) \subseteq S /\ q + k \notin S
    BY <1>5, PageIs DEF IsRun
  <2>2. q + k \notin Run(b, n)
    <3> SUFFICES ASSUME q + k \in Run(b, n) PROVE FALSE OBVIOUS
    <3>1. q + k - 1 \in Run(b, n) BY <1>1, <1>5, <2>1 DEF Run
    <3>2. q + k - 1 \in Run(q, k) BY <2>1 DEF Run
    <3> QED BY <2>1, <3>1, <3>2
  <2> QED BY <2>1, <2>2 DEF IsRun
<1> QED BY <1>3, <1>4, <1>5

----------------------------------------------------------------------------
(* The list of free pages                                                  *)

LEMMA InList ==
  ASSUME NEW A, NEW s \in Seq(A)
  PROVE  /\ Len(s) \in Nat /\ DOMAIN s = 1 .. Len(s)
         /\ ToSet(s) = {s[i] : i \in 1 .. Len(s)} /\ ToSet(s) \subseteq A
BY DEF ToSet

\* In a sorted list, numbers that follow each other are next to each other.
LEMMA SortedStep ==
  ASSUME NEW s \in Seq(Nat), Sorted(s), NEW m \in 1 .. Len(s), NEW j \in 1 .. Len(s),
         s[m] + 1 = s[j]
  PROVE  j = m + 1
<1>1. Len(s) \in Nat /\ \A x \in 1 .. Len(s) : s[x] \in Nat BY InList
<1>2. \A x, y \in 1 .. Len(s) : x < y => s[x] < s[y] BY InList DEF Sorted
<1>3. s[m] \in Nat /\ s[j] \in Nat BY <1>1
<1>4. ~(j < m) /\ j # m
  <2>1. ~(s[j] < s[m]) /\ s[j] # s[m] BY <1>3
  <2> QED BY <1>2, <2>1
<1>5. ASSUME m + 1 < j PROVE FALSE
  <2>1. PICK x \in 1 .. Len(s) : x = m + 1 BY <1>1, <1>5
  <2>2. m < x /\ x < j BY <1>5, <2>1
  <2>3. s[m] < s[x] /\ s[x] < s[j] BY <1>2, <2>2
  <2>4. s[x] \in Nat BY <1>1
  <2> QED BY <1>3, <2>3, <2>4
<1> QED BY <1>1, <1>4, <1>5

LEMMA SortedRun ==
  ASSUME NEW s \in Seq(Nat), Sorted(s), NEW i \in 1 .. Len(s), NEW n \in Nat,
         Run(s[i], n) \subseteq ToSet(s)
  PROVE  \A k \in 0 .. n - 1 : i + k <= Len(s) /\ s[i + k] = s[i] + k
<1> DEFINE Good(k) == i + k <= Len(s) /\ s[i + k] = s[i] + k
           T == {k \in 0 .. n - 1 : ~Good(k)}
<1>1. Len(s) \in Nat /\ DOMAIN s = 1 .. Len(s) /\ \A j \in 1 .. Len(s) : s[j] \in Nat
  BY InList
<1>2. Good(0) BY <1>1
<1>3. ASSUME NEW k \in 1 .. n - 1, Good(k - 1) PROVE Good(k)
  <2>1. s[i] + k \in ToSet(s) BY <1>1 DEF Run
  <2>2. PICK j \in 1 .. Len(s) : s[j] = s[i] + k BY <2>1, InList
  <2>3. PICK m \in 1 .. Len(s) : m = i + (k - 1) /\ s[m] = s[i] + (k - 1) BY <1>1, <1>3
  <2>4. s[m] + 1 = s[j] BY <1>1, <2>2, <2>3
  <2>5. j = m + 1 BY <2>4, SortedStep
  <2>6. i + k = j BY <1>1, <2>3, <2>5
  <2> QED BY <2>2, <2>6
<1>4. T = {}
  <2> SUFFICES ASSUME T # {} PROVE FALSE OBVIOUS
  <2>1. T \in SUBSET Nat OBVIOUS
  <2> HIDE DEF T
  <2>2. PICK k \in T : \A m \in T : k <= m BY <2>1, Least
  <2>3. k \in 0 .. n - 1 /\ ~Good(k) BY <2>2 DEF T
  <2>4. k # 0 BY <1>2, <2>3
  <2>5. k - 1 \in 0 .. n - 1 /\ k - 1 \notin T BY <2>2, <2>3, <2>4
  <2>6. Good(k - 1) BY <2>5 DEF T
  <2> HIDE DEF Good
  <2> QED BY <1>3, <2>3, <2>4, <2>6
<1> QED BY <1>4

\* n elements are taken out of a sequence, from the i-th on.
LEMMA CutAt ==
  ASSUME NEW A, NEW s \in Seq(A), NEW i \in 1 .. Len(s), NEW n \in Nat, i + n <= Len(s) + 1
  PROVE  LET t == SubSeq(s, 1, i - 1) \o SubSeq(s, i + n, Len(s)) IN
         /\ t \in Seq(A) /\ Len(t) = Len(s) - n
         /\ \A j \in 1 .. Len(t) : t[j] = IF j < i THEN s[j] ELSE s[j + n]
<1>1. Len(s) \in Nat /\ \A j \in 1 .. Len(s) : s[j] \in A BY InList
<1> DEFINE low == SubSeq(s, 1, i - 1)
           high == SubSeq(s, i + n, Len(s))
<1>2. /\ low \in Seq(A) /\ Len(low) = i - 1
      /\ \A j \in 1 .. i - 1 : low[j] = s[j]
  <2>1. \A j \in 1 .. i - 1 : s[j] \in A BY <1>1
  <2>2. \A j \in 1 .. (i - 1) - 1 + 1 : low[j] = s[1 + j - 1] BY <1>1, <2>1, SubSeqProperties
  <2> QED BY <1>1, <2>1, <2>2, SubSeqProperties
<1>3. /\ high \in Seq(A) /\ Len(high) = Len(s) - (i + n) + 1
      /\ \A j \in 1 .. Len(s) - (i + n) + 1 : high[j] = s[i + n + j - 1]
  <2>1. \A j \in i + n .. Len(s) : s[j] \in A BY <1>1
  <2> QED BY <1>1, <2>1, SubSeqProperties
<1> HIDE DEF low, high
<1>4. /\ low \o high \in Seq(A) /\ Len(low \o high) = Len(s) - n
      /\ \A j \in 1 .. Len(s) - n :
           (low \o high)[j] = IF j <= i - 1 THEN low[j] ELSE high[j - (i - 1)]
  BY <1>1, <1>2, <1>3, ConcatProperties
<1>5. ASSUME NEW j \in 1 .. Len(s) - n
      PROVE  (low \o high)[j] = IF j < i THEN s[j] ELSE s[j + n]
  <2>1. CASE j < i BY <1>2, <1>4, <2>1
  <2>2. CASE j >= i
    <3>1. j - (i - 1) \in 1 .. Len(s) - (i + n) + 1 BY <1>1, <2>2
    <3>2. i + n + (j - (i - 1)) - 1 = j + n BY <1>1
    <3> QED BY <1>1, <1>3, <1>4, <2>2, <3>1, <3>2
  <2>3. j < i \/ j >= i BY <1>1
  <2> QED BY <2>1, <2>2, <2>3
<1> QED BY <1>4, <1>5 DEF low, high

LEMMA CutRun ==
  ASSUME NEW s \in Seq(Nat), Sorted(s), NEW i \in 1 .. Len(s), NEW n \in Nat \ {0},
         Run(s[i], n) \subseteq ToSet(s)
  PROVE  LET t == SubSeq(s, 1, i - 1) \o SubSeq(s, i + n, Len(s)) IN
         /\ i + n <= Len(s) + 1
         /\ Sorted(t) /\ ToSet(t) = ToSet(s) \ Run(s[i], n)
<1> DEFINE t == SubSeq(s, 1, i - 1) \o SubSeq(s, i + n, Len(s))
<1>1. /\ Len(s) \in Nat /\ \A x \in 1 .. Len(s) : s[x] \in Nat
      /\ ToSet(s) = {s[x] : x \in 1 .. Len(s)}
  BY InList
<1>2. \A x, y \in 1 .. Len(s) : x < y => s[x] < s[y] BY InList DEF Sorted
<1>3. \A k \in 0 .. n - 1 : i + k <= Len(s) /\ s[i + k] = s[i] + k BY SortedRun
<1>4. i + n <= Len(s) + 1
  <2>1. n - 1 \in 0 .. n - 1 OBVIOUS
  <2>2. i + (n - 1) <= Len(s) BY <1>3, <2>1
  <2> QED BY <1>1, <2>2
<1>5. /\ t \in Seq(Nat) /\ Len(t) = Len(s) - n
      /\ \A j \in 1 .. Len(t) : t[j] = IF j < i THEN s[j] ELSE s[j + n]
  BY <1>4, CutAt
<1> HIDE DEF t
<1>6. ASSUME NEW j \in 1 .. Len(t)
      PROVE  \E x \in 1 .. Len(s) : t[j] = s[x] /\ (IF j < i THEN x = j ELSE x = j + n)
  <2>1. CASE j < i BY <1>1, <1>5, <2>1
  <2>2. CASE j >= i BY <1>1, <1>5, <2>2
  <2>3. j < i \/ j >= i BY <1>1, <1>5
  <2> QED BY <2>1, <2>2, <2>3
<1>7. Sorted(t)
  <2>1. ASSUME NEW j \in 1 .. Len(t), NEW k \in 1 .. Len(t), j < k PROVE t[j] < t[k]
    <3>1. PICK x \in 1 .. Len(s) : t[j] = s[x] /\ (IF j < i THEN x = j ELSE x = j + n) BY <1>6
    <3>2. PICK y \in 1 .. Len(s) : t[k] = s[y] /\ (IF k < i THEN y = k ELSE y = k + n) BY <1>6
    <3>3. x < y
      <4>1. i \in Nat /\ n \in Nat /\ j \in Nat /\ k \in Nat BY <1>1, <1>5
      <4>2. x = IF j < i THEN j ELSE j + n BY <3>1
      <4>3. y = IF k < i THEN k ELSE k + n BY <3>2
      <4> QED BY <2>1, <4>1, <4>2, <4>3
    <3> QED BY <1>2, <3>1, <3>2, <3>3
  <2> QED BY <1>5, <2>1, InList DEF Sorted
<1>8. \A x \in 1 .. Len(s) : s[x] \in Run(s[i], n) <=> i <= x /\ x < i + n
  <2> TAKE x \in 1 .. Len(s)
  <2>1. ASSUME i <= x, x < i + n PROVE s[x] \in Run(s[i], n)
    <3>1. PICK k \in 0 .. n - 1 : x = i + k
      <4>1. x - i \in 0 .. n - 1 /\ x = i + (x - i) BY <1>1, <2>1
      <4> QED BY <4>1
    <3>2. s[x] = s[i] + k BY <1>3, <3>1
    <3> QED BY <1>1, <3>2 DEF Run
  <2>2. ASSUME x < i PROVE s[x] \notin Run(s[i], n)
    <3>1. s[x] < s[i] BY <1>2, <2>2
    <3> QED BY <1>1, <3>1 DEF Run
  <2>3. ASSUME x >= i + n PROVE s[x] \notin Run(s[i], n)
    <3>1. PICK y \in 1 .. Len(s) : y = i + (n - 1) BY <1>1, <1>4
    <3>2. n - 1 \in 0 .. n - 1 OBVIOUS
    <3>3. s[y] = s[i] + (n - 1) BY <1>3, <3>1, <3>2
    <3>4. y < x BY <1>1, <2>3, <3>1
    <3>5. s[y] < s[x] BY <1>2, <3>4
    <3> QED BY <1>1, <3>3, <3>5 DEF Run
  <2> QED BY <1>1, <2>1, <2>2, <2>3
<1>9. ASSUME NEW x \in 1 .. Len(s), x < i \/ x >= i + n PROVE s[x] \in ToSet(t)
  <2>1. PICK j \in 1 .. Len(t) : IF x < i THEN j = x ELSE j + n = x
    <3>1. CASE x < i
      <4>1. x \in 1 .. Len(t) BY <1>1, <1>4, <1>5, <3>1
      <4> QED BY <3>1, <4>1
    <3>2. CASE x >= i + n
      <4>1. x - n \in 1 .. Len(t) /\ x - n + n = x /\ ~(x < i) BY <1>1, <1>5, <3>2
      <4> QED BY <4>1
    <3> QED BY <1>9, <3>1, <3>2
  <2>2. t[j] = s[x]
    <3>1. CASE x < i BY <1>5, <2>1, <3>1
    <3>2. CASE x >= i + n
      <4>1. ~(x < i) /\ ~(j < i) /\ j + n = x BY <1>1, <1>5, <2>1, <3>2
      <4> QED BY <1>5, <4>1
    <3> QED BY <1>9, <3>1, <3>2
  <2>3. ToSet(t) = {t[z] : z \in 1 .. Len(t)} BY <1>5, InList
  <2> QED BY <2>2, <2>3
<1>10. ToSet(t) = ToSet(s) \ Run(s[i], n)
  <2>1. ToSet(t) = {t[z] : z \in 1 .. Len(t)} BY <1>5, InList
  <2>2. ASSUME NEW j \in 1 .. Len(t) PROVE t[j] \in ToSet(s) /\ t[j] \notin Run(s[i], n)
    <3>1. PICK x \in 1 .. Len(s) : t[j] = s[x] /\ (IF j < i THEN x = j ELSE x = j + n) BY <1>6
    <3>2. i \in Nat /\ n \in Nat /\ j \in Nat /\ x \in Nat BY <1>1, <1>5
    <3>3. x = IF j < i THEN j ELSE j + n BY <3>1
    <3>4. ~(i <= x /\ x < i + n) BY <3>2, <3>3
    <3> QED BY <1>1, <1>8, <3>1, <3>4
  <2>3. ASSUME NEW x \in 1 .. Len(s), s[x] \notin Run(s[i], n) PROVE s[x] \in ToSet(t)
    <3>1. x < i \/ x >= i + n BY <1>1, <1>8, <2>3
    <3> QED BY <1>9, <3>1
  <2> QED BY <1>1, <2>1, <2>2, <2>3
<1> QED BY <1>4, <1>7, <1>10 DEF t

\* n elements are put into a sequence, before the k-th.
LEMMA PutAt ==
  ASSUME NEW A, NEW s \in Seq(A), NEW k \in 1 .. Len(s) + 1, NEW u \in Seq(A)
  PROVE  LET t == SubSeq(s, 1, k - 1) \o u \o SubSeq(s, k, Len(s)) IN
         /\ t \in Seq(A) /\ Len(t) = Len(s) + Len(u)
         /\ \A j \in 1 .. Len(t) : t[j] = IF j < k THEN s[j]
                                          ELSE IF j < k + Len(u) THEN u[j - k + 1]
                                          ELSE s[j - Len(u)]
<1>1. Len(s) \in Nat /\ Len(u) \in Nat /\ \A j \in 1 .. Len(s) : s[j] \in A BY InList
<1> DEFINE low == SubSeq(s, 1, k - 1)
           high == SubSeq(s, k, Len(s))
<1>2. /\ low \in Seq(A) /\ Len(low) = k - 1
      /\ \A j \in 1 .. k - 1 : low[j] = s[j]
  <2>1. \A j \in 1 .. k - 1 : s[j] \in A BY <1>1
  <2>2. \A j \in 1 .. (k - 1) - 1 + 1 : low[j] = s[1 + j - 1] BY <1>1, <2>1, SubSeqProperties
  <2> QED BY <1>1, <2>1, <2>2, SubSeqProperties
<1>3. /\ high \in Seq(A) /\ Len(high) = Len(s) - k + 1
      /\ \A j \in 1 .. Len(s) - k + 1 : high[j] = s[k + j - 1]
  <2>1. \A j \in k .. Len(s) : s[j] \in A BY <1>1
  <2> QED BY <1>1, <2>1, SubSeqProperties
<1> HIDE DEF low, high
<1>4. /\ low \o u \in Seq(A) /\ Len(low \o u) = k - 1 + Len(u)
      /\ \A j \in 1 .. k - 1 + Len(u) :
           (low \o u)[j] = IF j <= k - 1 THEN low[j] ELSE u[j - (k - 1)]
  BY <1>1, <1>2, ConcatProperties
<1> DEFINE front == low \o u
<1> HIDE DEF front
<1>5. /\ front \o high \in Seq(A) /\ Len(front \o high) = Len(s) + Len(u)
      /\ \A j \in 1 .. Len(s) + Len(u) :
           (front \o high)[j] = IF j <= k - 1 + Len(u) THEN front[j]
                                ELSE high[j - (k - 1 + Len(u))]
  <2>1. front \in Seq(A) /\ Len(front) = k - 1 + Len(u) BY <1>4 DEF front
  <2>2. Len(front) + Len(high) = Len(s) + Len(u) BY <1>1, <1>3, <2>1
  <2>3. /\ front \o high \in Seq(A) /\ Len(front \o high) = Len(front) + Len(high)
        /\ \A j \in 1 .. Len(front) + Len(high) :
             (front \o high)[j] = IF j <= Len(front) THEN front[j]
                                  ELSE high[j - Len(front)]
    <3>1. front \in Seq(A) /\ high \in Seq(A) BY <1>3, <2>1
    <3> QED BY <3>1, ConcatProperties
  <2> QED BY <2>1, <2>2, <2>3
<1>6. ASSUME NEW j \in 1 .. Len(s) + Len(u)
      PROVE  (front \o high)[j] = IF j < k THEN s[j]
                                  ELSE IF j < k + Len(u) THEN u[j - k + 1]
                                  ELSE s[j - Len(u)]
  <2>1. CASE j < k
    <3>1. front[j] = s[j] BY <1>1, <1>2, <1>4, <2>1 DEF front
    <3> QED BY <1>1, <1>5, <2>1, <3>1
  <2>2. CASE j >= k /\ j < k + Len(u)
    <3>1. j \in 1 .. k - 1 + Len(u) /\ ~(j <= k - 1) /\ j - (k - 1) = j - k + 1 BY <1>1, <2>2
    <3>2. front[j] = u[j - k + 1] BY <1>4, <3>1 DEF front
    <3> QED BY <1>1, <1>5, <2>2, <3>2
  <2>3. CASE j >= k + Len(u)
    <3>1. j - (k - 1 + Len(u)) \in 1 .. Len(s) - k + 1 /\ ~(j <= k - 1 + Len(u)) BY <1>1, <2>3
    <3>2. k + (j - (k - 1 + Len(u))) - 1 = j - Len(u) BY <1>1
    <3>3. (front \o high)[j] = s[j - Len(u)] BY <1>3, <1>5, <3>1, <3>2
    <3>4. ~(j < k) /\ ~(j < k + Len(u)) BY <1>1, <2>3
    <3> QED BY <3>3, <3>4
  <2>4. j < k \/ (j >= k /\ j < k + Len(u)) \/ j >= k + Len(u) BY <1>1
  <2> QED BY <2>1, <2>2, <2>3, <2>4
<1> QED BY <1>5, <1>6 DEF front, low, high

LEMMA PutRun ==
  ASSUME NEW s \in Seq(Nat), NEW b \in Nat, NEW n \in Nat \ {0}, NEW k \in 1 .. Len(s) + 1
  PROVE  LET t == SubSeq(s, 1, k - 1) \o [i \in 1..n |-> b + i - 1] \o SubSeq(s, k, Len(s)) IN
         /\ Sorted(s) /\ Run(b, n) \cap ToSet(s) = {}
         /\ (\A j \in 1 .. k - 1 : s[j] < b) /\ (\A j \in k .. Len(s) : s[j] > b)
         => t \in Seq(Nat) /\ Sorted(t) /\ ToSet(t) = ToSet(s) \cup Run(b, n)
<1>1. /\ Len(s) \in Nat /\ \A x \in 1 .. Len(s) : s[x] \in Nat
      /\ ToSet(s) = {s[x] : x \in 1 .. Len(s)}
  BY InList
<1> DEFINE u == [i \in 1..n |-> b + i - 1]
<1>2. u \in Seq(Nat) /\ Len(u) = n /\ \A i \in 1 .. n : u[i] = b + i - 1 OBVIOUS
<1> HIDE DEF u
<1> DEFINE t == SubSeq(s, 1, k - 1) \o u \o SubSeq(s, k, Len(s))
<1>3. /\ t \in Seq(Nat) /\ Len(t) = Len(s) + n
      /\ \A j \in 1 .. Len(t) : t[j] = IF j < k THEN s[j]
                                       ELSE IF j < k + n THEN u[j - k + 1]
                                       ELSE s[j - n]
  <2> HIDE DEF t
  <2>1. LET v == SubSeq(s, 1, k - 1) \o u \o SubSeq(s, k, Len(s)) IN
        /\ v \in Seq(Nat) /\ Len(v) = Len(s) + Len(u)
        /\ \A j \in 1 .. Len(v) : v[j] = IF j < k THEN s[j]
                                         ELSE IF j < k + Len(u) THEN u[j - k + 1]
                                         ELSE s[j - Len(u)]
    <3>1. u \in Seq(Nat) BY <1>2
    <3> QED BY <3>1, PutAt
  <2> QED BY <1>2, <2>1 DEF t
<1> HIDE DEF t
<1>4. SUFFICES ASSUME Sorted(s), Run(b, n) \cap ToSet(s) = {},
                      \A j \in 1 .. k - 1 : s[j] < b, \A j \in k .. Len(s) : s[j] > b
               PROVE  Sorted(t) /\ ToSet(t) = ToSet(s) \cup Run(b, n)
  BY <1>3 DEF t, u
<1>5. \A x, y \in 1 .. Len(s) : x < y => s[x] < s[y] BY <1>4, InList DEF Sorted
<1>6. \A x \in 1 .. Len(s) : IF x < k THEN s[x] < b ELSE s[x] >= b + n
  <2> TAKE x \in 1 .. Len(s)
  <2>1. s[x] \in Nat /\ s[x] \notin Run(b, n) /\ (x < k => s[x] < b) /\ (x >= k => s[x] > b)
    BY <1>1, <1>4
  <2> QED BY <2>1, <1>1 DEF Run
<1>7. ASSUME NEW j \in 1 .. Len(t)
      PROVE  \/ j < k /\ \E x \in 1 .. Len(s) : x = j /\ t[j] = s[x]
             \/ j >= k /\ j < k + n /\ t[j] = b + (j - k)
             \/ j >= k + n /\ \E x \in 1 .. Len(s) : x + n = j /\ t[j] = s[x]
  <2>1. CASE j < k
    <3>1. j \in 1 .. Len(s) BY <1>1, <2>1
    <3>2. t[j] = s[j] BY <1>3, <2>1
    <3> QED BY <2>1, <3>1, <3>2
  <2>2. CASE j >= k /\ j < k + n
    <3>0. j \in Nat /\ k \in Nat BY <1>1, <1>3
    <3>1. j - k + 1 \in 1 .. n /\ b + (j - k + 1) - 1 = b + (j - k) BY <3>0, <2>2
    <3>2. ~(j < k) BY <1>1, <1>3, <2>2
    <3> QED BY <1>2, <1>3, <2>2, <3>1, <3>2
  <2>3. CASE j >= k + n
    <3>1. j - n \in 1 .. Len(s) /\ j - n + n = j /\ ~(j < k) /\ ~(j < k + n)
      BY <1>1, <1>3, <2>3
    <3> QED BY <1>3, <2>3, <3>1
  <2>4. j < k \/ (j >= k /\ j < k + n) \/ j >= k + n BY <1>1, <1>3
  <2> QED BY <2>1, <2>2, <2>3, <2>4
<1>8. Sorted(t)
  <2>1. ASSUME NEW i \in 1 .. Len(t), NEW j \in 1 .. Len(t), i < j PROVE t[i] < t[j]
    <3>0. i \in Nat /\ j \in Nat /\ k \in Nat BY <1>1, <1>3
    <3>1. CASE i < k
      <4>1. PICK x \in 1 .. Len(s) : x = i /\ t[i] = s[x] BY <1>7, <3>0, <3>1
      <4>2. s[x] < b /\ s[x] \in Nat BY <1>1, <1>6, <3>1, <4>1
      <4>3. CASE j < k
        <5>1. PICK y \in 1 .. Len(s) : y = j /\ t[j] = s[y] BY <1>7, <3>0, <4>3
        <5> QED BY <1>5, <2>1, <4>1, <5>1
      <4>4. CASE j >= k /\ j < k + n
        <5>1. t[j] = b + (j - k) BY <1>7, <3>0, <4>4
        <5> QED BY <3>0, <4>1, <4>2, <4>4, <5>1
      <4>5. CASE j >= k + n
        <5>1. PICK y \in 1 .. Len(s) : y + n = j /\ t[j] = s[y] BY <1>7, <3>0, <4>5
        <5>2. ~(y < k) BY <3>0, <4>5, <5>1
        <5>3. s[y] >= b + n /\ s[y] \in Nat BY <1>1, <1>6, <5>2
        <5> QED BY <4>1, <4>2, <5>1, <5>3
      <4> QED BY <3>0, <4>3, <4>4, <4>5
    <3>2. CASE i >= k /\ i < k + n
      <4>1. t[i] = b + (i - k) BY <1>7, <3>0, <3>2
      <4>2. CASE j < k + n
        <5>1. t[j] = b + (j - k) BY <1>7, <2>1, <3>0, <3>2, <4>2
        <5> QED BY <2>1, <3>0, <4>1, <5>1
      <4>3. CASE j >= k + n
        <5>1. PICK y \in 1 .. Len(s) : y + n = j /\ t[j] = s[y] BY <1>7, <3>0, <4>3
        <5>2. ~(y < k) BY <3>0, <4>3, <5>1
        <5>3. s[y] >= b + n /\ s[y] \in Nat BY <1>1, <1>6, <5>2
        <5> QED BY <3>0, <3>2, <4>1, <5>1, <5>3
      <4> QED BY <3>0, <4>2, <4>3
    <3>3. CASE i >= k + n
      <4>1. PICK x \in 1 .. Len(s) : x + n = i /\ t[i] = s[x] BY <1>7, <3>0, <3>3
      <4>2. PICK y \in 1 .. Len(s) : y + n = j /\ t[j] = s[y] BY <1>7, <2>1, <3>0, <3>3
      <4>3. x < y BY <2>1, <4>1, <4>2
      <4> QED BY <1>5, <4>1, <4>2, <4>3
    <3> QED BY <3>0, <3>1, <3>2, <3>3
  <2> QED BY <1>3, <2>1, InList DEF Sorted
<1>9. ToSet(t) = ToSet(s) \cup Run(b, n)
  <2>1. ToSet(t) = {t[z] : z \in 1 .. Len(t)} BY <1>3, InList
  <2>2. ASSUME NEW j \in 1 .. Len(t) PROVE t[j] \in ToSet(s) \cup Run(b, n)
    <3>1. j \in Nat /\ k \in Nat BY <1>1, <1>3
    <3>2. ASSUME j >= k, j < k + n, t[j] = b + (j - k) PROVE t[j] \in Run(b, n)
      BY <3>1, <3>2 DEF Run
    <3> QED BY <1>1, <1>7, <3>2
  <2>3. ASSUME NEW x \in 1 .. Len(s) PROVE s[x] \in ToSet(t)
    <3>1. CASE x < k
      <4>1. PICK j \in 1 .. Len(t) : j = x BY <1>1, <1>3
      <4>2. t[j] = s[x] BY <1>3, <3>1, <4>1
      <4> QED BY <2>1, <4>2
    <3>2. CASE x >= k
      <4>1. PICK j \in 1 .. Len(t) : j = x + n BY <1>1, <1>3
      <4>2. ~(j < k) /\ ~(j < k + n) /\ j - n = x BY <1>1, <3>2, <4>1
      <4>3. t[j] = s[x] BY <1>3, <4>2
      <4> QED BY <2>1, <4>3
    <3> QED BY <1>1, <3>1, <3>2
  <2>4. ASSUME NEW q \in Run(b, n) PROVE q \in ToSet(t)
    <3>1. PICK i \in 0 .. n - 1 : q = b + i
      <4>1. q - b \in 0 .. n - 1 /\ q = b + (q - b) BY DEF Run
      <4> QED BY <4>1
    <3>2. PICK j \in 1 .. Len(t) : j = k + i BY <1>1, <1>3
    <3>3. ~(j < k) /\ j < k + n /\ j - k + 1 = i + 1 /\ i + 1 \in 1 .. n BY <1>1, <3>2
    <3>4. t[j] = u[i + 1] BY <1>3, <3>3
    <3>5. t[j] = q BY <1>2, <3>1, <3>3, <3>4
    <3> QED BY <2>1, <3>5
  <2> QED BY <1>1, <2>1, <2>2, <2>3, <2>4
<1> QED BY <1>8, <1>9

LEMMA SeqOver ==
  ASSUME NEW A, NEW B, NEW s \in Seq(A), ToSet(s) \subseteq B
  PROVE  s \in Seq(B)
<1>1. Len(s) \in Nat /\ s \in [1 .. Len(s) -> A] /\ \A i \in 1 .. Len(s) : s[i] \in B
  BY LenProperties, InList
<1>2. s \in [1 .. Len(s) -> B] BY <1>1
<1> QED BY <1>1, <1>2

LEMMA PagesFinite ==
  ASSUME NEW S \in SUBSET Page
  PROVE  IsFiniteSet(S) /\ Cardinality(S) \in Nat
<1>1. IsFiniteSet(Page)
  <2>1. 0 \in Int /\ NPAGE - 1 \in Int BY PageAssumption
  <2> QED BY <2>1, FS_Interval DEF Page
<1> QED BY <1>1, FS_Subset, FS_CardinalityType

LEMMA RunSize ==
  ASSUME NEW b \in Nat, NEW n \in Nat
  PROVE  IsFiniteSet(Run(b, n)) /\ Cardinality(Run(b, n)) = n
<1>1. b \in Int /\ b + n - 1 \in Int OBVIOUS
<1>2. /\ IsFiniteSet(b .. b + n - 1)
      /\ Cardinality(b .. b + n - 1) = IF b > b + n - 1 THEN 0 ELSE b + n - 1 - b + 1
  BY <1>1, FS_Interval
<1> QED BY <1>2 DEF Run

LEMMA AddLast ==
  ASSUME NEW V \in SUBSET Nat, NEW c \in Nat, NEW s \in [1 .. c -> V], Sorted(s),
         NEW x \in Nat, \A v \in V : v < x
  PROVE  \E t \in [1 .. c + 1 -> V \cup {x}] : Sorted(t)
<1> DEFINE t == [i \in 1 .. c + 1 |-> IF i <= c THEN s[i] ELSE x]
<1>1. t \in [1 .. c + 1 -> V \cup {x}] OBVIOUS
<1>2. ASSUME NEW i \in 1 .. c + 1, NEW j \in 1 .. c + 1, i < j PROVE t[i] < t[j]
  <2>1. i \in 1 .. c /\ t[i] = s[i] BY <1>2
  <2>2. CASE j <= c
    <3>1. j \in 1 .. c /\ t[j] = s[j] BY <2>2
    <3> QED BY <1>2, <2>1, <3>1 DEF Sorted
  <2>3. CASE j > c
    <3>1. t[j] = x /\ s[i] \in V BY <2>1, <2>3
    <3>2. s[i] < x BY <3>1
    <3> QED BY <2>1, <3>1, <3>2
  <2> QED BY <2>2, <2>3
<1> QED BY <1>1, <1>2 DEF Sorted

\* There is such a list of every set of pages.
LEMMA AscendingExists ==
  ASSUME NEW S \in SUBSET Page
  PROVE  \E s \in [1 .. Cardinality(S) -> S] : Sorted(s)
<1> DEFINE U(k) == S \cap (0 .. k - 1)
           Good(k) == \E s \in [1 .. Cardinality(U(k)) -> U(k)] : Sorted(s)
           T == {k \in 0 .. NPAGE : ~Good(k)}
<1>1. NPAGE \in Nat BY PageAssumption
<1>2. Good(0)
  <2>1. U(0) = {} /\ Cardinality({}) = 0 BY FS_EmptySet
  <2>2. Cardinality(U(0)) = 0 BY <2>1
  <2> DEFINE e == [i \in 1 .. 0 |-> i]
  <2>3. e \in [1 .. 0 -> U(0)] BY <2>1
  <2>4. Sorted(e) BY DEF Sorted
  <2> QED BY <2>2, <2>3, <2>4
<1>3. ASSUME NEW k \in 1 .. NPAGE, Good(k - 1) PROVE Good(k)
  <2>0. k \in Nat /\ k - 1 \in Nat BY <1>1
  <2>1. CASE k - 1 \notin S
    <3>1. U(k) = U(k - 1) BY <2>0, <2>1
    <3> QED BY <1>3, <3>1
  <2>2. CASE k - 1 \in S
    <3>1. U(k) = U(k - 1) \cup {k - 1} /\ k - 1 \notin U(k - 1) BY <2>0, <2>2
    <3>2. PICK s \in [1 .. Cardinality(U(k - 1)) -> U(k - 1)] : Sorted(s) BY <1>3
    <3>3. IsFiniteSet(U(k - 1)) /\ Cardinality(U(k - 1)) \in Nat BY PagesFinite
    <3>4. U(k - 1) \in SUBSET Nat /\ \A u \in U(k - 1) : u < k - 1 BY <2>0
    <3> HIDE DEF U
    <3>5. Cardinality(U(k)) = Cardinality(U(k - 1)) + 1 BY <3>1, <3>3, FS_AddElement
    <3>6. \E t \in [1 .. Cardinality(U(k - 1)) + 1 -> U(k - 1) \cup {k - 1}] : Sorted(t)
      BY <2>0, <3>2, <3>3, <3>4, AddLast
    <3> QED BY <3>1, <3>5, <3>6
  <2> QED BY <2>1, <2>2
<1>4. T = {}
  <2> SUFFICES ASSUME T # {} PROVE FALSE OBVIOUS
  <2>1. T \in SUBSET Nat OBVIOUS
  <2> HIDE DEF T
  <2>2. PICK k \in T : \A m \in T : k <= m BY <2>1, Least
  <2>3. k \in 0 .. NPAGE /\ ~Good(k) BY <2>2 DEF T
  <2>4. k # 0 BY <1>2, <2>3
  <2>5. k - 1 \in 0 .. NPAGE /\ k - 1 \notin T BY <1>1, <2>2, <2>3, <2>4
  <2>6. Good(k - 1) BY <2>5 DEF T
  <2>7. k \in 1 .. NPAGE BY <1>1, <2>3, <2>4
  <2> HIDE DEF Good
  <2> QED BY <1>3, <2>3, <2>6, <2>7
<1>5. Good(NPAGE)
  <2>1. NPAGE \in 0 .. NPAGE BY <1>1
  <2> HIDE DEF Good
  <2> QED BY <1>4, <2>1
<1>6. U(NPAGE) = S BY DEF Page
<1> QED BY <1>5, <1>6

LEMMA AscendingIs ==
  ASSUME NEW S \in SUBSET Page
  PROVE  /\ Ascending(S) \in Seq(Page)
         /\ Sorted(Ascending(S)) /\ ToSet(Ascending(S)) = S
<1> DEFINE s == Ascending(S)
           c == Cardinality(S)
<1>1. s \in [1 .. c -> S] /\ Sorted(s)
  <2>1. \E x \in [1 .. c -> S] : \A i, j \in DOMAIN x : i < j => x[i] < x[j]
    BY AscendingExists DEF Sorted
  <2> QED BY <2>1 DEF Ascending, Sorted
<1>2. IsFiniteSet(S) /\ c \in Nat BY PagesFinite
<1> HIDE DEF s, c
<1>3. s \in Injection(1 .. c, S)
  <2>1. \A i \in 1 .. c : s[i] \in Nat BY <1>1, PageIs
  <2>2. \A i, j \in 1 .. c : i < j => s[i] < s[j] BY <1>1 DEF Sorted
  <2>3. ASSUME NEW i \in 1 .. c, NEW j \in 1 .. c, s[i] = s[j] PROVE i = j
    <3>1. ~(s[i] < s[j]) /\ ~(s[j] < s[i]) BY <2>1, <2>3
    <3>2. ~(i < j) /\ ~(j < i) BY <2>2, <3>1
    <3> QED BY <1>2, <3>2
  <2> QED BY <1>1, <2>3 DEF Injection, IsInjective
<1>4. Cardinality(1 .. c) = c BY <1>2, FS_Interval
<1>5. s \in Surjection(1 .. c, S)
  <2>1. Cardinality(1 .. c) = Cardinality(S) BY <1>4 DEF c
  <2> QED BY <1>2, <1>3, <2>1, FS_Injection
<1>6. ToSet(s) = S BY <1>1, <1>5 DEF ToSet, Surjection
<1>7. s \in Seq(Page) BY <1>1, <1>2
<1> QED BY <1>1, <1>6, <1>7 DEF s

----------------------------------------------------------------------------
(* default_alloc_pages                                                     *)

LEMMA ListIs ==
  ASSUME PmmInv
  PROVE  /\ free_list \in Seq(Page) /\ free_list \in Seq(Nat)
         /\ Len(free_list) \in Nat /\ DOMAIN free_list = 1 .. Len(free_list)
         /\ FreePages = {free_list[i] : i \in 1 .. Len(free_list)}
         /\ FreePages \in SUBSET Page /\ FreePages \in SUBSET Nat
<1>1. free_list \in Seq(Page) BY DEF PmmInv, PmmTypeOK
<1>2. Page \subseteq Nat BY PageIs
<1>3. free_list \in Seq(Nat) BY <1>1, <1>2, SeqMonotonic
<1> QED BY <1>1, <1>2, <1>3, InList DEF FreePages

\* Of the free pages, those with a property begin a block.
LEMMA PropertyIs ==
  ASSUME PmmInv, NEW p \in FreePages
  PROVE  /\ p \in Page /\ property[p] \in Nat
         /\ property[p] # 0 <=> p \in Heads(FreePages)
         /\ p \in Heads(FreePages) => IsRun(FreePages, p, property[p])
<1>1. p \in Page BY ListIs
<1>2. property[p] \in Nat BY <1>1 DEF PmmInv, PmmTypeOK
<1>3. IF p \in Heads(FreePages) THEN IsRun(FreePages, p, property[p]) ELSE property[p] = 0
  BY DEF PmmInv, PropertiesExact
<1>4. IsRun(FreePages, p, property[p]) => property[p] # 0 BY PageAssumption DEF IsRun
<1> QED BY <1>1, <1>2, <1>3, <1>4

LEMMA FittingIs ==
  ASSUME PmmInv, NEW n \in Nat \ {0}, NEW i \in Fitting(n)
  PROVE  LET p == free_list[i] IN
         /\ i \in 1 .. Len(free_list) /\ p \in Heads(FreePages) /\ p \in Page
         /\ IsRun(FreePages, p, property[p]) /\ n <= property[p] /\ property[p] \in Nat
         /\ Run(p, n) \subseteq FreePages
<1> DEFINE p == free_list[i]
<1>1. i \in 1 .. Len(free_list) /\ property[p] >= n BY ListIs DEF Fitting
<1>2. p \in FreePages BY <1>1, ListIs
<1> HIDE DEF p
<1>3. p \in Page /\ p \in Nat /\ property[p] \in Nat BY <1>2, PropertyIs, PageIs
<1>4. p \in Heads(FreePages) /\ IsRun(FreePages, p, property[p])
  <2>1. property[p] # 0 BY <1>1, <1>3
  <2> QED BY <1>2, <2>1, PropertyIs
<1>5. Run(p, n) \subseteq FreePages
  <2>1. Run(p, n) \subseteq Run(p, property[p]) BY <1>1, <1>3 DEF Run
  <2> QED BY <1>4, <2>1 DEF IsRun
<1> QED BY <1>1, <1>3, <1>4, <1>5 DEF p

\* Where n free pages follow each other, there is a block that fits.
LEMMA FitFound ==
  ASSUME PmmInv, NEW n \in Nat \ {0}, NEW q \in Page, Run(q, n) \subseteq FreePages
  PROVE  \E i \in Fitting(n) : free_list[i] <= q
<1>1. FreePages \in SUBSET Page BY ListIs
<1>2. PICK h \in Heads(FreePages) : h <= q /\ \A m : IsRun(FreePages, h, m) => m >= n
  BY <1>1, InRun
<1>3. h \in FreePages BY DEF Heads
<1>4. property[h] >= n BY <1>2, <1>3, PropertyIs
<1>5. PICK i \in 1 .. Len(free_list) : free_list[i] = h BY <1>3, ListIs
<1>6. i \in Fitting(n) BY <1>4, <1>5, ListIs DEF Fitting
<1> QED BY <1>2, <1>5, <1>6

\* What default_alloc_pages does when it answers with a page: it takes the lowest
\* n free pages that follow each other, from the front of a block.
AllocStep(n, p) ==
  /\ p \in Heads(FreePages) /\ IsRun(FreePages, p, property[p]) /\ n <= property[p]
  /\ \A q \in Page : Run(q, n) \subseteq FreePages => p <= q
  /\ free_list' \in Seq(Page) /\ Sorted(free_list')
  /\ ToSet(free_list') = FreePages \ Run(p, n)
  /\ property' = IF property[p] > n THEN [property EXCEPT ![p + n] = property[p] - n]
                 ELSE property
  /\ held' = held \cup {[base |-> p, n |-> n]}
  /\ nr_free' = nr_free - n
  /\ asked' = n /\ answer' = p

LEMMA AllocIs ==
  ASSUME PmmInv, NEW n, Alloc(n)
  PROVE  n \in Nat \ {0} /\ \E p \in Page : AllocStep(n, p)
<1>1. n \in Nat \ {0} /\ Fitting(n) # {} BY DEF Alloc, Asserted
<1>2. PICK i : i = Min(Fitting(n)) OBVIOUS
<1>3. i \in Fitting(n) /\ \A j \in Fitting(n) : i <= j
  <2>1. Fitting(n) \in SUBSET Nat BY ListIs DEF Fitting
  <2> QED BY <1>1, <1>2, <2>1, MinIs
<1>4. PICK p : p = free_list[i] OBVIOUS
<1>5. /\ i \in 1 .. Len(free_list) /\ p \in Heads(FreePages) /\ p \in Page
      /\ IsRun(FreePages, p, property[p]) /\ n <= property[p] /\ property[p] \in Nat
      /\ Run(p, n) \subseteq FreePages
  BY <1>1, <1>3, <1>4, FittingIs
<1>6. free_list \in Seq(Nat) /\ Sorted(free_list) BY ListIs DEF PmmInv
<1>7. /\ free_list' = SubSeq(free_list, 1, i - 1)
                        \o SubSeq(free_list, i + n, Len(free_list))
      /\ property' = RestProperty(i, n)
      /\ held' = held \cup {[base |-> p, n |-> n]}
      /\ answer' = p /\ nr_free' = nr_free - n /\ asked' = n
  BY <1>2, <1>4 DEF Alloc
<1>8. /\ i + n <= Len(free_list) + 1
      /\ Sorted(free_list') /\ ToSet(free_list') = FreePages \ Run(p, n)
  BY <1>1, <1>4, <1>5, <1>6, <1>7, CutRun DEF FreePages
<1>9. free_list' \in Seq(Page)
  <2>1. free_list \in Seq(Page) BY ListIs
  <2> QED BY <1>1, <1>5, <1>7, <1>8, <2>1, CutAt
<1>10. ASSUME property[p] > n PROVE free_list[i + n] = p + n
  <2>1. Run(p, property[p]) \subseteq ToSet(free_list) BY <1>5 DEF IsRun, FreePages
  <2>2. n \in 0 .. property[p] - 1 BY <1>1, <1>5, <1>10
  <2> QED BY <1>4, <1>5, <1>6, <2>1, <2>2, SortedRun
<1>11. property' = IF property[p] > n THEN [property EXCEPT ![p + n] = property[p] - n]
                   ELSE property
  BY <1>4, <1>7, <1>10 DEF RestProperty
<1>12. ASSUME NEW q \in Page, Run(q, n) \subseteq FreePages PROVE p <= q
  <2>1. PICK j \in Fitting(n) : free_list[j] <= q BY <1>1, <1>12, FitFound
  <2>2. j \in 1 .. Len(free_list) /\ free_list[j] \in Nat BY <1>1, <2>1, FittingIs, PageIs
  <2>3. i = j \/ i < j BY <1>3, <1>5, <2>2, ListIs
  <2>4. p = free_list[j] \/ p < free_list[j] BY <1>4, <1>5, <1>6, <2>2, <2>3, ListIs DEF Sorted
  <2>5. p \in Nat /\ q \in Nat BY <1>5, PageIs
  <2> QED BY <2>1, <2>2, <2>4, <2>5
<1> QED BY <1>1, <1>5, <1>7, <1>8, <1>9, <1>11, <1>12 DEF AllocStep

LEMMA AllocKeeps ==
  ASSUME PmmInv, NEW n \in Nat \ {0}, NEW p \in Page, AllocStep(n, p)
  PROVE  PmmInv'
<1> DEFINE S == FreePages
           R == S \ Run(p, n)
           L == property[p]
<1>1. /\ S \in SUBSET Page /\ S \in SUBSET Nat /\ p \in Nat /\ p \in Heads(S)
      /\ property \in [Page -> Nat] /\ IsRun(S, p, L) /\ n \in 1 .. L /\ L \in Nat
  <2>1. n <= L /\ L \in Nat BY DEF PmmInv, PmmTypeOK, AllocStep
  <2> QED BY <2>1, ListIs, PageIs DEF PmmInv, PmmTypeOK, AllocStep
<1>2. FreePages' = R /\ R \subseteq S BY DEF AllocStep, FreePages
<1>3. Run(p, n) \subseteq S
  <2>1. Run(p, n) \subseteq Run(p, L) BY <1>1 DEF Run
  <2> QED BY <1>1, <2>1 DEF IsRun
<1>4. /\ n = L => p + n \notin R
      /\ n < L => p + n \in Heads(R) /\ IsRun(R, p + n, L - n)
      /\ \A q \in R : q # p + n =>
           /\ q \in Heads(R) <=> q \in Heads(S)
           /\ \A m : q \in Heads(S) /\ IsRun(S, q, m) => IsRun(R, q, m)
  BY <1>1, TakeFront
<1>5. property' = IF L > n THEN [property EXCEPT ![p + n] = L - n] ELSE property
  BY DEF AllocStep
<1> HIDE DEF R, L
<1>6. n < L => p + n \in Page
  <2>1. Heads(R) \subseteq R BY DEF Heads
  <2> QED BY <1>1, <1>2, <1>4, <2>1
<1>7. PmmTypeOK'
  <2>1. free_list' \in Seq(Page) BY DEF AllocStep
  <2>2. property' \in [Page -> Nat]
    <3>1. CASE L > n
      <4>1. L - n \in Nat BY <1>1, <3>1
      <4> QED BY <1>1, <1>5, <3>1, <4>1
    <3>2. CASE ~(L > n) BY <1>1, <1>5, <3>2
    <3> QED BY <3>1, <3>2
  <2>3. held' \subseteq [base : Page, n : 1 .. NPAGE]
    <3>1. n \in 1 .. NPAGE BY <1>1, PageAssumption DEF IsRun
    <3> QED BY <3>1 DEF AllocStep, PmmInv, PmmTypeOK
  <2> QED BY <2>1, <2>2, <2>3 DEF PmmTypeOK
<1>8. PropertiesExact'
  <2>1. ASSUME NEW q \in R
        PROVE  IF q \in Heads(R) THEN IsRun(R, q, property'[q]) ELSE property'[q] = 0
    <3>1. q \in S /\ q \in Page BY <1>1, <1>2
    <3>2. CASE q = p + n
      <4>1. n < L BY <1>1, <1>4, <2>1, <3>2
      <4>2. property'[q] = L - n BY <1>1, <1>5, <1>6, <3>2, <4>1
      <4> QED BY <1>4, <3>2, <4>1, <4>2
    <3>3. CASE q # p + n
      <4>1. property'[q] = property[q] BY <1>1, <1>5, <3>1, <3>3
      <4>2. IF q \in Heads(S) THEN IsRun(S, q, property[q]) ELSE property[q] = 0
        BY <3>1 DEF PmmInv, PropertiesExact
      <4> QED BY <1>4, <2>1, <3>3, <4>1, <4>2
    <3> QED BY <3>2, <3>3
  <2> QED BY <1>2, <2>1 DEF PropertiesExact
<1>9. nr_free' = Cardinality(FreePages')
  <2>1. IsFiniteSet(S) BY <1>1, PagesFinite
  <2>2. Cardinality(R) = Cardinality(S) - Cardinality(S \cap Run(p, n))
    BY <2>1, FS_Difference DEF R
  <2>3. S \cap Run(p, n) = Run(p, n) BY <1>3
  <2>4. Cardinality(Run(p, n)) = n BY <1>1, RunSize
  <2> QED BY <1>2, <2>2, <2>3, <2>4 DEF PmmInv, AllocStep
<1>10. HeldApart'
  <2> DEFINE new == [base |-> p, n |-> n]
  <2>1. held' = held \cup {new} BY DEF AllocStep
  <2>2. Run(new.base, new.n) = Run(p, n) OBVIOUS
  <2> HIDE DEF new
  <2>3. \A r \in held : Run(r.base, r.n) \subseteq Page \ S BY DEF PmmInv, HeldApart
  <2>4. \A r \in held' : Run(r.base, r.n) \subseteq Page \ R
    <3>1. Run(p, n) \subseteq Page \ R BY <1>1, <1>3 DEF R
    <3> QED BY <1>2, <2>1, <2>2, <2>3, <3>1
  <2>5. ASSUME NEW r \in held PROVE Run(r.base, r.n) \cap Run(p, n) = {}
    BY <1>3, <2>3
  <2>6. \A r, q \in held : r # q => Run(r.base, r.n) \cap Run(q.base, q.n) = {}
    BY DEF PmmInv, HeldApart
  <2>7. \A r, q \in held' : r # q => Run(r.base, r.n) \cap Run(q.base, q.n) = {}
    BY <2>1, <2>2, <2>5, <2>6
  <2> QED BY <1>2, <2>4, <2>7 DEF HeldApart
<1>11. StaleInFront'
  <2>1. ASSUME NEW q \in Page, q \notin S PROVE property'[q] = property[q]
    <3>1. n < L => q # p + n
      <4>1. Heads(R) \subseteq S BY <1>2 DEF Heads
      <4> QED BY <1>4, <2>1, <4>1
    <3> QED BY <1>1, <1>5, <2>1, <3>1
  <2>2. ASSUME NEW r \in held, NEW q \in Run(r.base, r.n), q # r.base PROVE property'[q] = 0
    <3>1. q \in Page /\ q \notin S BY DEF PmmInv, HeldApart
    <3> QED BY <2>1, <2>2, <3>1 DEF PmmInv, StaleInFront
  <2>3. ASSUME NEW q \in Run(p, n), q # p PROVE property'[q] = 0
    <3>1. q \in S /\ q \in Page BY <1>1, <1>3
    <3>2. q - 1 \in Run(p, n) BY <1>1, <2>3 DEF Run
    <3>3. q \notin Heads(S) BY <1>3, <3>2 DEF Heads
    <3>4. property[q] = 0 BY <3>1, <3>3 DEF PmmInv, PropertiesExact
    <3>5. q # p + n BY <1>1 DEF Run
    <3> QED BY <1>1, <1>5, <3>1, <3>4, <3>5
  <2>4. held' = held \cup {[base |-> p, n |-> n]} BY DEF AllocStep
  <2> QED BY <2>2, <2>3, <2>4 DEF StaleInFront
<1> QED BY <1>7, <1>8, <1>9, <1>10, <1>11 DEF PmmInv, AllocStep

----------------------------------------------------------------------------
(* default_free_pages                                                      *)

LEMMA PlaceIs ==
  ASSUME PmmInv, NEW b \in Page, b \notin FreePages
  PROVE  /\ Place(b) \in 1 .. Len(free_list) + 1
         /\ \A j \in 1 .. Place(b) - 1 : free_list[j] < b
         /\ \A j \in Place(b) .. Len(free_list) : free_list[j] > b
<1> DEFINE T == {i \in DOMAIN free_list : free_list[i] > b} \cup {Len(free_list) + 1}
<1>1. /\ Len(free_list) \in Nat /\ DOMAIN free_list = 1 .. Len(free_list)
      /\ \A j \in 1 .. Len(free_list) : free_list[j] \in Nat /\ free_list[j] # b
      /\ b \in Nat
  BY ListIs, PageIs
<1>2. \A i, j \in 1 .. Len(free_list) : i < j => free_list[i] < free_list[j]
  BY <1>1 DEF PmmInv, Sorted
<1>3. PICK k : k = Place(b) OBVIOUS
<1>4. k \in T /\ \A j \in T : k <= j
  <2>1. T \in SUBSET Nat /\ T # {} BY <1>1
  <2>2. k = Min(T) BY <1>3 DEF Place
  <2> HIDE DEF T
  <2> QED BY <2>1, <2>2, MinIs
<1>5. k \in 1 .. Len(free_list) + 1 BY <1>1, <1>4
<1>6. ASSUME NEW j \in 1 .. k - 1 PROVE free_list[j] < b
  <2>1. j \in 1 .. Len(free_list) /\ ~(k <= j) BY <1>1, <1>5
  <2>2. ~(free_list[j] > b) BY <1>1, <1>4, <2>1
  <2>3. free_list[j] \in Nat /\ free_list[j] # b BY <1>1, <2>1
  <2> QED BY <1>1, <2>2, <2>3
<1>7. ASSUME NEW j \in k .. Len(free_list) PROVE free_list[j] > b
  <2>1. j \in 1 .. Len(free_list) /\ k \in 1 .. Len(free_list) BY <1>1, <1>5
  <2>2. free_list[k] > b BY <1>1, <1>4, <2>1
  <2>3. k = j \/ k < j BY <1>5, <2>1
  <2>4. k = j \/ free_list[k] < free_list[j] BY <1>2, <2>1, <2>3
  <2>5. free_list[k] \in Nat /\ free_list[j] \in Nat BY <1>1, <2>1
  <2> QED BY <1>1, <2>2, <2>4, <2>5
<1> QED BY <1>3, <1>5, <1>6, <1>7

LEMMA BelowIs ==
  ASSUME PmmInv, NEW b \in Page, b \notin FreePages
  PROVE  /\ ToSet(Below(b)) = {q \in FreePages : q < b}
         /\ Below(b) # <<>> /\ Last(Below(b)) = b - 1 <=> b - 1 \in FreePages
<1> DEFINE below == Below(b)
<1>1. /\ Len(free_list) \in Nat
      /\ FreePages = {free_list[i] : i \in 1 .. Len(free_list)}
      /\ \A j \in 1 .. Len(free_list) : free_list[j] \in Nat
      /\ b \in Nat
  BY ListIs, PageIs
<1>2. \A i, j \in 1 .. Len(free_list) : i < j => free_list[i] < free_list[j]
  BY ListIs DEF PmmInv, Sorted
<1>3. PICK k \in 1 .. Len(free_list) + 1 :
        /\ k = Place(b)
        /\ \A j \in 1 .. k - 1 : free_list[j] < b
        /\ \A j \in k .. Len(free_list) : free_list[j] > b
  BY PlaceIs
<1>4. /\ below \in Seq(Nat) /\ Len(below) = k - 1
      /\ \A j \in 1 .. k - 1 : below[j] = free_list[j]
  <2>1. \A j \in 1 .. k - 1 : free_list[j] \in Nat BY <1>1
  <2>2. k - 1 \in Int /\ 1 \in Int BY <1>1
  <2>3. \A j \in 1 .. (k - 1) - 1 + 1 :
          SubSeq(free_list, 1, k - 1)[j] = free_list[1 + j - 1]
    BY <2>1, <2>2, SubSeqProperties
  <2>4. /\ SubSeq(free_list, 1, k - 1) \in Seq(Nat)
        /\ Len(SubSeq(free_list, 1, k - 1)) = IF 1 <= k - 1 THEN (k - 1) - 1 + 1 ELSE 0
    BY <2>1, <2>2, SubSeqProperties
  <2> QED BY <1>1, <1>3, <2>3, <2>4 DEF Below
<1> HIDE DEF below
<1>5. ToSet(below) = {below[i] : i \in 1 .. k - 1} BY <1>4, InList
<1>6. ToSet(below) = {q \in FreePages : q < b}
  <2>1. ASSUME NEW i \in 1 .. k - 1 PROVE below[i] \in FreePages /\ below[i] < b
    <3>1. i \in 1 .. Len(free_list) BY <1>1
    <3> QED BY <1>1, <1>3, <1>4, <3>1
  <2>2. ASSUME NEW i \in 1 .. Len(free_list), free_list[i] < b PROVE free_list[i] \in ToSet(below)
    <3>1. ~(free_list[i] > b) BY <1>1, <2>2
    <3>2. i \in 1 .. k - 1 BY <1>1, <1>3, <3>1
    <3> QED BY <1>4, <1>5, <3>2
  <2> QED BY <1>1, <1>5, <2>1, <2>2
<1>7. ASSUME below # <<>>, Last(below) = b - 1 PROVE b - 1 \in FreePages
  <2>1. k - 1 \in 1 .. k - 1 BY <1>1, <1>4, <1>7, EmptySeq
  <2>2. Last(below) \in ToSet(below) BY <1>4, <1>5, <2>1 DEF Last
  <2> QED BY <1>6, <1>7, <2>2
<1>8. ASSUME b - 1 \in FreePages PROVE below # <<>> /\ Last(below) = b - 1
  <2>1. PICK i \in 1 .. Len(free_list) : free_list[i] = b - 1 BY <1>1, <1>8
  <2>2. i \in 1 .. k - 1
    <3>1. ~(free_list[i] > b) BY <1>1, <2>1
    <3> QED BY <1>1, <1>3, <3>1
  <2>3. PICK l \in 1 .. Len(free_list) : l = k - 1 BY <1>1, <2>2
  <2>4. free_list[l] < b /\ free_list[l] \in Nat BY <1>1, <1>3, <2>2, <2>3
  <2>5. i = l \/ i < l BY <1>1, <2>2, <2>3
  <2>6. i = l \/ free_list[i] < free_list[l] BY <1>2, <2>5
  <2>7. free_list[l] = b - 1 BY <1>1, <2>1, <2>4, <2>6
  <2>8. Last(below) = b - 1 BY <1>4, <2>2, <2>3, <2>7 DEF Last
  <2>9. below # <<>> BY <1>4, <2>2, EmptySeq
  <2> QED BY <2>8, <2>9
<1> QED BY <1>6, <1>7, <1>8 DEF below

LEMMA AboveIs ==
  ASSUME PmmInv, NEW b \in Page, NEW n \in Nat \ {0}, Run(b, n) \cap FreePages = {}
  PROVE  Above(b) # <<>> /\ Head(Above(b)) = b + n <=> b + n \in FreePages
<1> DEFINE above == Above(b)
<1>0. b \notin FreePages
  <2>1. b \in Run(b, n) BY PageIs DEF Run
  <2> QED BY <2>1
<1>1. /\ Len(free_list) \in Nat
      /\ FreePages = {free_list[i] : i \in 1 .. Len(free_list)}
      /\ \A j \in 1 .. Len(free_list) : free_list[j] \in Nat
      /\ b \in Nat
  BY ListIs, PageIs
<1>2. \A i, j \in 1 .. Len(free_list) : i < j => free_list[i] < free_list[j]
  BY ListIs DEF PmmInv, Sorted
<1>3. PICK k \in 1 .. Len(free_list) + 1 :
        /\ k = Place(b)
        /\ \A j \in 1 .. k - 1 : free_list[j] < b
        /\ \A j \in k .. Len(free_list) : free_list[j] > b
  BY <1>0, PlaceIs
<1>4. /\ above = <<>> <=> k = Len(free_list) + 1
      /\ k <= Len(free_list) => Head(above) = free_list[k]
  <2>1. \A j \in k .. Len(free_list) : free_list[j] \in Nat BY <1>1
  <2>2. k \in Int /\ Len(free_list) \in Int BY <1>1
  <2>3. /\ above \in Seq(Nat)
        /\ Len(above) = IF k <= Len(free_list) THEN Len(free_list) - k + 1 ELSE 0
        /\ \A j \in 1 .. Len(free_list) - k + 1 : above[j] = free_list[k + j - 1]
    BY <1>3, <2>1, <2>2, SubSeqProperties DEF Above
  <2> HIDE DEF above
  <2>4. above = <<>> <=> k = Len(free_list) + 1
    <3>1. above = <<>> <=> Len(above) = 0 BY <2>3, EmptySeq
    <3> QED BY <1>1, <2>3, <3>1
  <2>5. ASSUME k <= Len(free_list) PROVE Head(above) = free_list[k]
    <3>1. 1 \in 1 .. Len(free_list) - k + 1 /\ k + 1 - 1 = k BY <1>1, <2>5
    <3>2. above[1] = free_list[k] BY <2>3, <3>1
    <3>3. above # <<>> BY <1>1, <2>4, <2>5
    <3> QED BY <2>3, <3>2, <3>3
  <2> QED BY <2>4, <2>5
<1> HIDE DEF above
<1>5. ASSUME above # <<>>, Head(above) = b + n PROVE b + n \in FreePages
  BY <1>1, <1>4, <1>5
<1>6. ASSUME b + n \in FreePages PROVE above # <<>> /\ Head(above) = b + n
  <2>1. PICK i \in 1 .. Len(free_list) : free_list[i] = b + n BY <1>1, <1>6
  <2>2. i >= k
    <3>1. ~(free_list[i] < b) BY <1>1, <2>1
    <3> QED BY <1>1, <1>3, <3>1
  <2>3. k \in 1 .. Len(free_list) BY <1>1, <2>2
  <2>4. free_list[k] > b /\ free_list[k] \in Nat /\ free_list[k] \in FreePages
    BY <1>1, <1>3, <2>3
  <2>5. free_list[k] \notin Run(b, n) BY <2>4
  <2>6. free_list[k] >= b + n BY <1>1, <2>4, <2>5 DEF Run
  <2>7. k = i \/ k < i BY <1>1, <2>2
  <2>8. k = i \/ free_list[k] < free_list[i] BY <1>2, <2>3, <2>7
  <2>9. free_list[k] = b + n BY <1>1, <2>1, <2>4, <2>6, <2>8
  <2> QED BY <1>1, <1>4, <2>3, <2>9
<1> QED BY <1>5, <1>6 DEF above

\* What default_free_pages does with the pages from b on: they are in a block of
\* m pages with those behind them, or the block from h on is so much longer.
FreeStep(b, n, m, h) ==
  /\ IF b + n \in FreePages THEN IsRun(FreePages, b + n, m - n) ELSE m = n
  /\ IF b - 1 \in FreePages THEN h \in Heads(FreePages) /\ h < b /\ h .. b - 1 \subseteq FreePages
     ELSE h = b
  /\ free_list' \in Seq(Page) /\ Sorted(free_list')
  /\ ToSet(free_list') = FreePages \cup Run(b, n)
  /\ property' = [q \in Page |-> IF q = h THEN b - h + m
                                 ELSE IF q = b \/ (q = b + n /\ q \in FreePages) THEN 0
                                 ELSE property[q]]
  /\ nr_free' = nr_free + n
  /\ asked' = 0 /\ answer' = NULL

LEMMA FreeIs ==
  ASSUME PmmInv, NEW run \in held, NEW b \in Page, NEW n \in Nat \ {0},
         Run(b, n) \subseteq Run(run.base, run.n), Free(run, b, n)
  PROVE  /\ Run(b, n) \subseteq Page \ FreePages
         /\ held' = (held \ {run}) \cup Without(run, b, n)
         /\ \E m \in Nat, h \in Page : FreeStep(b, n, m, h)
<1>1. Run(b, n) \subseteq Page \ FreePages /\ b \in Nat /\ b \in Run(b, n)
  BY PageIs DEF PmmInv, HeldApart, Run
<1>2. /\ FreePages \in SUBSET Page /\ free_list \in Seq(Page) /\ free_list \in Seq(Nat)
      /\ Sorted(free_list) /\ property \in [Page -> Nat]
  BY ListIs DEF PmmInv, PmmTypeOK
<1>3. /\ free_list' \in Seq(Page) /\ Sorted(free_list')
      /\ ToSet(free_list') = FreePages \cup Run(b, n)
  <2>1. PICK k \in 1 .. Len(free_list) + 1 :
          /\ k = Place(b)
          /\ \A j \in 1 .. k - 1 : free_list[j] < b
          /\ \A j \in k .. Len(free_list) : free_list[j] > b
    BY <1>1, PlaceIs
  <2>2. free_list' = SubSeq(free_list, 1, k - 1) \o [i \in 1..n |-> b + i - 1]
                       \o SubSeq(free_list, k, Len(free_list))
    BY <2>1 DEF Free, Below, Above
  <2>3. Run(b, n) \cap ToSet(free_list) = {} BY <1>1 DEF FreePages
  <2>4. /\ free_list' \in Seq(Nat) /\ Sorted(free_list')
        /\ ToSet(free_list') = ToSet(free_list) \cup Run(b, n)
    BY <1>1, <1>2, <2>1, <2>2, <2>3, PutRun
  <2>5. ToSet(free_list') \subseteq Page BY <1>1, <1>2, <2>4 DEF FreePages
  <2> QED BY <2>4, <2>5, SeqOver DEF FreePages
<1> DEFINE P0 == [property EXCEPT ![b] = n]
           P1 == JoinNext(P0, b, n)
           P2 == JoinPrevious(P1, b)
<1>4. property' = P2 BY DEF Free
<1>5. PICK m : m = IF b + n \in FreePages THEN n + property[b + n] ELSE n OBVIOUS
<1>6. m \in Nat /\ IF b + n \in FreePages THEN IsRun(FreePages, b + n, m - n) ELSE m = n
  <2>1. CASE b + n \in FreePages
    <3>1. b + n \in Page /\ property[b + n] \in Nat BY <1>2, <2>1
    <3>2. b + n \in Heads(FreePages)
      <4>1. b + n - 1 \in Run(b, n) BY <1>1 DEF Run
      <4> QED BY <1>1, <2>1, <4>1 DEF Heads
    <3>3. IsRun(FreePages, b + n, property[b + n]) BY <2>1, <3>2, PropertyIs
    <3>4. m - n = property[b + n] /\ m \in Nat BY <1>5, <2>1, <3>1
    <3> QED BY <2>1, <3>3, <3>4
  <2>2. CASE b + n \notin FreePages BY <1>5, <2>2
  <2> QED BY <2>1, <2>2
<1>7. P0 \in [Page -> Nat] /\ P0[b] = n /\ \A q \in Page : q # b => P0[q] = property[q]
  BY <1>2
<1> HIDE DEF P0
<1>8. /\ P1 \in [Page -> Nat] /\ P1[b] = m
      /\ \A q \in Page : q # b =>
           P1[q] = IF q = b + n /\ q \in FreePages THEN 0 ELSE property[q]
  <2>1. Above(b) # <<>> /\ Head(Above(b)) = b + n <=> b + n \in FreePages
    BY <1>1, AboveIs
  <2>2. CASE b + n \in FreePages
    <3>1. b + n \in Page /\ b + n # b /\ P0[b + n] = property[b + n] BY <1>1, <1>2, <1>7, <2>2
    <3>2. P1 = [P0 EXCEPT ![b] = @ + P0[b + n], ![b + n] = 0] BY <2>1, <2>2 DEF JoinNext
    <3>3. m = n + property[b + n] BY <1>5, <2>2
    <3> QED BY <1>6, <1>7, <2>2, <3>1, <3>2, <3>3
  <2>3. CASE b + n \notin FreePages
    <3>1. P1 = P0 BY <2>1, <2>3 DEF JoinNext
    <3>2. m = n BY <1>5, <2>3
    <3> QED BY <1>7, <2>3, <3>1, <3>2
  <2> QED BY <2>2, <2>3
<1> HIDE DEF P1
<1> DEFINE heads == {p \in ToSet(Below(b)) : P1[p] # 0}
<1>9. heads = {q \in Heads(FreePages) : q < b}
  <2>1. ToSet(Below(b)) = {q \in FreePages : q < b} BY <1>1, BelowIs
  <2>2. ASSUME NEW q \in FreePages, q < b PROVE P1[q] # 0 <=> q \in Heads(FreePages)
    <3>1. q \in Page /\ q # b /\ q # b + n BY <1>1, <1>2, <2>2, PageIs
    <3>2. P1[q] = property[q] BY <1>8, <3>1
    <3> QED BY <3>2, PropertyIs
  <2> HIDE DEF P2
  <2> QED BY <2>1, <2>2 DEF Heads
<1>10. Below(b) # <<>> /\ Last(Below(b)) = b - 1 <=> b - 1 \in FreePages
  BY <1>1, BelowIs
<1> HIDE DEF heads
<1>11. \E h \in Page :
         /\ IF b - 1 \in FreePages
            THEN h \in Heads(FreePages) /\ h < b /\ h .. b - 1 \subseteq FreePages
            ELSE h = b
         /\ property' = [q \in Page |-> IF q = h THEN b - h + m
                                        ELSE IF q = b \/ (q = b + n /\ q \in FreePages) THEN 0
                                        ELSE property[q]]
  <2>1. CASE b - 1 \in FreePages
    <3>1. PICK h \in Heads(FreePages) : h <= b - 1 /\ h .. b - 1 \subseteq FreePages
      BY <1>2, <2>1, HeadOf
    <3>2. /\ h \in Page /\ h \in FreePages /\ h \in Nat /\ h < b /\ b - 1 \in Nat
          /\ h # b /\ h # b + n
      BY <1>1, <1>2, <2>1, <3>1, PageIs DEF Heads
    <3>3. h \in heads BY <1>9, <3>2
    <3>4. ASSUME NEW q \in heads PROVE q <= h
      <4>1. q \in Nat /\ q < b /\ q - 1 \notin FreePages BY <1>2, <1>9, PageIs DEF Heads
      <4>2. q - 1 \notin h .. b - 1 BY <3>1, <4>1
      <4> QED BY <1>1, <3>2, <4>1, <4>2
    <3>5. \A q \in heads : q \in Nat BY <1>2, <1>9, PageIs DEF Heads
    <3>6. Max(heads) = h
      <4>1. ASSUME NEW x \in heads, \A y \in heads : x >= y PROVE x = h
        <5>1. x >= h /\ x <= h /\ x \in Nat BY <3>3, <3>4, <3>5, <4>1
        <5> QED BY <3>2, <5>1
      <4>2. \A y \in heads : h >= y BY <3>2, <3>4, <3>5
      <4> QED BY <3>3, <4>1, <4>2 DEF Max
    <3>7. P2 = [P1 EXCEPT ![h] = @ + P1[b], ![b] = 0]
      BY <1>10, <2>1, <3>3, <3>6 DEF JoinPrevious, heads
    <3>8. P1[h] = property[h] BY <1>8, <3>2
    <3>9. property[h] = b - h
      <4>1. IsRun(FreePages, h, property[h]) BY <3>1, <3>2, PropertyIs
      <4>2. IsRun(FreePages, h, b - h)
        <5>1. b - h \in 1 .. NPAGE BY <3>2, PageIs, PageAssumption
        <5>2. Run(h, b - h) \subseteq FreePages BY <3>1, <3>2, <1>1 DEF Run
        <5>3. h + (b - h) \notin FreePages BY <1>1, <3>2
        <5> QED BY <5>1, <5>2, <5>3 DEF IsRun
      <4> QED BY <1>2, <3>2, <4>1, <4>2, OneLength
    <3> HIDE DEF P2
    <3>10. P2 = [q \in Page |-> IF q = h THEN b - h + m
                                ELSE IF q = b \/ (q = b + n /\ q \in FreePages) THEN 0
                                ELSE property[q]]
      <4>1. P2 = [q \in Page |-> IF q = b THEN 0 ELSE IF q = h THEN P1[h] + P1[b] ELSE P1[q]]
        BY <1>8, <3>2, <3>7
      <4>2. P1[h] + P1[b] = b - h + m BY <1>8, <3>8, <3>9
      <4>3. ASSUME NEW q \in Page, q # b
            PROVE P1[q] = IF q = b + n /\ q \in FreePages THEN 0 ELSE property[q]
        BY <1>8, <4>3
      <4>4. ASSUME NEW q \in Page
            PROVE (IF q = b THEN 0 ELSE IF q = h THEN P1[h] + P1[b] ELSE P1[q])
                    = IF q = h THEN b - h + m
                      ELSE IF q = b \/ (q = b + n /\ q \in FreePages) THEN 0
                      ELSE property[q]
        <5>1. CASE q = h BY <3>2, <4>2, <5>1
        <5>2. CASE q # h /\ q = b BY <5>2
        <5>3. CASE q # h /\ q # b BY <4>3, <5>3
        <5> QED BY <5>1, <5>2, <5>3
      <4> QED BY <4>1, <4>4
    <3> QED BY <1>4, <2>1, <3>1, <3>2, <3>10
  <2>2. CASE b - 1 \notin FreePages
    <3>1. P2 = P1 BY <1>10, <2>2 DEF JoinPrevious
    <3>2. b - b + m = m BY <1>1, <1>6
    <3> HIDE DEF P2
    <3>3. P1 = [q \in Page |-> IF q = b THEN m ELSE P1[q]] BY <1>8
    <3>4. P1 = [q \in Page |-> IF q = b THEN b - b + m
                               ELSE IF q = b \/ (q = b + n /\ q \in FreePages) THEN 0
                               ELSE property[q]]
      BY <1>8, <3>2, <3>3
    <3> QED BY <1>4, <2>2, <3>1, <3>4
  <2> QED BY <2>1, <2>2
<1>12. PICK h \in Page :
         /\ IF b - 1 \in FreePages
            THEN h \in Heads(FreePages) /\ h < b /\ h .. b - 1 \subseteq FreePages
            ELSE h = b
         /\ property' = [q \in Page |-> IF q = h THEN b - h + m
                                        ELSE IF q = b \/ (q = b + n /\ q \in FreePages) THEN 0
                                        ELSE property[q]]
  BY <1>11
<1>13. /\ nr_free' = nr_free + n /\ asked' = 0 /\ answer' = NULL
       /\ held' = (held \ {run}) \cup Without(run, b, n)
  BY DEF Free
<1>14. FreeStep(b, n, m, h) BY <1>3, <1>6, <1>12, <1>13 DEF FreeStep
<1> QED BY <1>1, <1>6, <1>13, <1>14

LEMMA FreeKeepsProperties ==
  ASSUME PmmInv, NEW b \in Page, NEW n \in Nat \ {0}, Run(b, n) \subseteq Page \ FreePages,
         NEW m \in Nat, NEW h \in Page, FreeStep(b, n, m, h),
         \A q \in Run(b, n) : q # b => property[q] = 0
  PROVE  property' \in [Page -> Nat] /\ PropertiesExact'
<1> DEFINE S == FreePages
           T == S \cup Run(b, n)
<1>1. /\ S \in SUBSET Page /\ S \in SUBSET Nat /\ b \in Nat /\ h \in Nat /\ b \in Run(b, n)
      /\ property \in [Page -> Nat]
  BY ListIs, PageIs DEF PmmInv, PmmTypeOK, Run
<1>2. FreePages' = T BY DEF FreeStep, FreePages
<1>3. IF b + n \in S THEN IsRun(S, b + n, m - n) ELSE m = n BY DEF FreeStep
<1>4. IF b - 1 \in S THEN h \in Heads(S) /\ h < b /\ h .. b - 1 \subseteq S ELSE h = b
  BY DEF FreeStep
<1>5. property' = [q \in Page |-> IF q = h THEN b - h + m
                                  ELSE IF q = b \/ (q = b + n /\ q \in S) THEN 0
                                  ELSE property[q]]
  BY DEF FreeStep
<1>6. /\ \A q \in Run(b, n) : q # b => q \notin Heads(T)
      /\ b + n \in S => b + n \in Heads(S) /\ b + n \notin Heads(T)
      /\ b \in Heads(T) <=> b - 1 \notin S
      /\ \A q \in S : q # b + n => (q \in Heads(T) <=> q \in Heads(S))
  BY <1>1, PutBackHeads
<1>7. /\ IsRun(T, b, m)
      /\ \A x \in Heads(S) : x < b /\ x .. b - 1 \subseteq S => IsRun(T, x, b - x + m)
      /\ \A q \in S, k \in Nat : IsRun(S, q, k) /\ q + k # b => IsRun(T, q, k)
  BY <1>1, <1>3, PutBackRuns
<1>8. h <= b /\ b + n # b /\ \A q \in S : q \notin Run(b, n) BY <1>1, <1>4
<1> HIDE DEF T
<1>9. IsRun(T, h, b - h + m) /\ h \in Heads(T)
  <2>1. CASE b - 1 \in S
    <3>1. h \in S /\ h # b + n BY <1>1, <1>4, <2>1 DEF Heads
    <3> QED BY <1>4, <1>6, <1>7, <2>1, <3>1
  <2>2. CASE b - 1 \notin S
    <3>1. b - h + m = m /\ h = b BY <1>1, <1>4, <2>2
    <3> QED BY <1>6, <1>7, <2>2, <3>1
  <2> QED BY <2>1, <2>2
<1>10. ASSUME NEW q \in S, q # h, q # b + n, q \in Heads(S) PROVE IsRun(T, q, property[q])
  <2>1. IsRun(S, q, property[q]) /\ property[q] \in Nat /\ q \in Nat
    BY <1>1, <1>10, PropertyIs
  <2>2. q + property[q] # b
    <3> SUFFICES ASSUME q + property[q] = b PROVE FALSE OBVIOUS
    <3>1. property[q] \in 1 .. NPAGE /\ Run(q, property[q]) \subseteq S BY <2>1 DEF IsRun
    <3>2. b - 1 \in Run(q, property[q]) BY <2>1, <3>1 DEF Run
    <3>3. h \in Heads(S) /\ h < b /\ h .. b - 1 \subseteq S BY <1>4, <3>1, <3>2
    <3>4. ~(q < h)
      <4> SUFFICES ASSUME q < h PROVE FALSE OBVIOUS
      <4>1. h - 1 \in Run(q, property[q]) BY <1>1, <2>1, <3>1, <3>3 DEF Run
      <4> QED BY <3>1, <3>3, <4>1 DEF Heads
    <3>5. ~(h < q)
      <4> SUFFICES ASSUME h < q PROVE FALSE OBVIOUS
      <4>1. q - 1 \in h .. b - 1 BY <1>1, <2>1, <3>1
      <4> QED BY <1>10, <3>3, <4>1 DEF Heads
    <3> QED BY <1>1, <1>10, <2>1, <3>4, <3>5
  <2> QED BY <1>7, <2>1, <2>2
<1>11. property' \in [Page -> Nat]
  <2>1. b - h + m \in Nat BY <1>1, <1>8
  <2> QED BY <1>1, <1>5, <2>1
<1>12. ASSUME NEW q \in T
       PROVE  IF q \in Heads(T) THEN IsRun(T, q, property'[q]) ELSE property'[q] = 0
  <2>1. q \in Page /\ (q \in S \/ q \in Run(b, n)) BY <1>1, <1>12 DEF T
  <2>2. CASE q = h
    <3>1. property'[q] = b - h + m BY <1>5, <2>2
    <3> QED BY <1>9, <2>2, <3>1
  <2>3. CASE q # h /\ q = b
    <3>1. b - 1 \in S BY <1>4, <2>3
    <3>2. q \notin Heads(T) BY <1>6, <2>3, <3>1
    <3>3. property'[q] = 0 BY <1>5, <2>1, <2>3
    <3> QED BY <3>2, <3>3
  <2>4. CASE q # h /\ q # b /\ q \in Run(b, n)
    <3>1. q # b + n /\ q \notin Heads(T) BY <1>1, <1>6, <2>4 DEF Run
    <3>2. property'[q] = 0 BY <1>5, <2>1, <2>4, <3>1
    <3> QED BY <3>1, <3>2
  <2>5. CASE q # h /\ q # b /\ q \in S /\ q = b + n
    <3>1. q \notin Heads(T) BY <1>6, <2>5
    <3>2. property'[q] = 0 BY <1>5, <2>1, <2>5
    <3> QED BY <3>1, <3>2
  <2>6. CASE q # h /\ q # b /\ q \in S /\ q # b + n
    <3>1. property'[q] = property[q] BY <1>5, <2>1, <2>6
    <3>2. q \in Heads(T) <=> q \in Heads(S) BY <1>6, <2>6
    <3>3. CASE q \in Heads(S) BY <1>10, <2>6, <3>1, <3>2, <3>3
    <3>4. CASE q \notin Heads(S)
      <4>1. property[q] = 0 BY <2>6, <3>4 DEF PmmInv, PropertiesExact
      <4> QED BY <3>1, <3>2, <3>4, <4>1
    <3> QED BY <3>3, <3>4
  <2> QED BY <2>1, <2>2, <2>3, <2>4, <2>5, <2>6
<1> QED BY <1>2, <1>11, <1>12 DEF PropertiesExact

LEMMA FreeKeeps ==
  ASSUME PmmInv, NEW run \in held, NEW b \in Page, NEW n \in Nat \ {0},
         Run(b, n) \subseteq Run(run.base, run.n), Free(run, b, n)
  PROVE  PmmInv'
<1>1. /\ Run(b, n) \subseteq Page \ FreePages
      /\ held' = (held \ {run}) \cup Without(run, b, n)
  BY FreeIs
<1>2. PICK m \in Nat, h \in Page : FreeStep(b, n, m, h) BY FreeIs
<1>3. /\ run.base \in Page /\ run.n \in 1 .. NPAGE /\ run.base \in Nat /\ run.n \in Nat
      /\ b \in Nat /\ b \in Run(b, n) /\ b + n - 1 \in Run(b, n) /\ NPAGE \in Nat
      /\ Run(run.base, run.n) \subseteq Page \ FreePages
  BY PageIs, PageAssumption DEF PmmInv, PmmTypeOK, HeldApart, Run
<1>4. run.base <= b /\ b + n <= run.base + run.n
  <2>1. b \in Run(run.base, run.n) /\ b + n - 1 \in Run(run.base, run.n) BY <1>3
  <2> QED BY <1>3, <2>1 DEF Run
<1>5. FreePages' = FreePages \cup Run(b, n) BY <1>2 DEF FreeStep, FreePages
<1>6. ASSUME NEW q \in Run(b, n), q # b PROVE property[q] = 0
  <2>1. q \in Run(run.base, run.n) /\ q # run.base BY <1>3, <1>4, <1>6 DEF Run
  <2> QED BY <2>1 DEF PmmInv, StaleInFront
<1>7. property' \in [Page -> Nat] /\ PropertiesExact'
  BY <1>1, <1>2, <1>6, FreeKeepsProperties
<1>8. ASSUME NEW r \in Without(run, b, n)
      PROVE  /\ r \in [base : Page, n : 1 .. NPAGE]
             /\ Run(r.base, r.n) \subseteq Run(run.base, run.n)
             /\ Run(r.base, r.n) \cap Run(b, n) = {}
             /\ \A q \in Without(run, b, n) : r # q => Run(r.base, r.n) \cap Run(q.base, q.n) = {}
             /\ r.base = run.base \/ r.base = b + n
             /\ run.base \in Run(r.base, r.n) => r.base = run.base
  <2> DEFINE low == [base |-> run.base, n |-> b - run.base]
             high == [base |-> b + n, n |-> run.base + run.n - b - n]
  <2>1. Without(run, b, n) = {x \in {low, high} : x.n > 0} BY DEF Without
  <2>2. low.n > 0 => low \in [base : Page, n : 1 .. NPAGE]
    <3>1. b - run.base <= NPAGE BY <1>3, PageIs
    <3> QED BY <1>3, <1>4, <3>1
  <2>3. high.n > 0 => high \in [base : Page, n : 1 .. NPAGE]
    <3> SUFFICES ASSUME high.n > 0 PROVE high \in [base : Page, n : 1 .. NPAGE] OBVIOUS
    <3>1. b + n \in Run(run.base, run.n) BY <1>3, <1>4 DEF Run
    <3>2. b + n \in Page BY <1>3, <3>1
    <3>3. run.base + run.n - b - n \in 1 .. NPAGE BY <1>3, <1>4
    <3> QED BY <3>2, <3>3
  <2>4. /\ Run(low.base, low.n) \subseteq Run(run.base, run.n)
        /\ Run(low.base, low.n) \cap Run(b, n) = {}
    BY <1>3, <1>4 DEF Run
  <2>5. /\ Run(high.base, high.n) \subseteq Run(run.base, run.n)
        /\ Run(high.base, high.n) \cap Run(b, n) = {}
    BY <1>3, <1>4 DEF Run
  <2>6. Run(low.base, low.n) \cap Run(high.base, high.n) = {} BY <1>3, <1>4 DEF Run
  <2>7. run.base \notin Run(high.base, high.n) BY <1>3, <1>4 DEF Run
  <2>8. low.base = run.base /\ high.base = b + n OBVIOUS
  <2>9. r = low \/ r = high BY <2>1
  <2> HIDE DEF low, high
  <2> QED BY <1>8, <2>1, <2>2, <2>3, <2>4, <2>5, <2>6, <2>7, <2>8, <2>9
<1>9. PmmTypeOK'
  <2>1. held' \subseteq [base : Page, n : 1 .. NPAGE] BY <1>1, <1>8 DEF PmmInv, PmmTypeOK
  <2> QED BY <1>2, <1>7, <2>1 DEF PmmTypeOK, FreeStep
<1>10. nr_free' = Cardinality(FreePages')
  <2>1. IsFiniteSet(FreePages) /\ Cardinality(FreePages) \in Nat BY ListIs, PagesFinite
  <2>2. IsFiniteSet(Run(b, n)) /\ Cardinality(Run(b, n)) = n BY <1>3, RunSize
  <2>3. FreePages \cap Run(b, n) = {} BY <1>1
  <2>4. Cardinality(FreePages \cup Run(b, n)) = Cardinality(FreePages) + n
    <3>1. Cardinality(FreePages \cup Run(b, n)) = Cardinality(FreePages)
            + Cardinality(Run(b, n)) - Cardinality(FreePages \cap Run(b, n))
      BY <2>1, <2>2, FS_Union
    <3>2. Cardinality(FreePages \cap Run(b, n)) = 0 BY <2>3, FS_EmptySet
    <3> QED BY <2>1, <2>2, <3>1, <3>2
  <2> QED BY <1>2, <1>5, <2>4 DEF PmmInv, FreeStep
<1>11. \A r, q \in held : r # q => Run(r.base, r.n) \cap Run(q.base, q.n) = {}
  BY DEF PmmInv, HeldApart
<1>12. HeldApart'
  <2>1. ASSUME NEW r \in held' PROVE Run(r.base, r.n) \subseteq Page \ FreePages'
    <3>1. CASE r \in held /\ r # run
      <4>1. Run(r.base, r.n) \subseteq Page \ FreePages BY <3>1 DEF PmmInv, HeldApart
      <4>2. Run(r.base, r.n) \cap Run(run.base, run.n) = {} BY <1>11, <3>1
      <4>3. Run(r.base, r.n) \cap Run(b, n) = {} BY <4>2
      <4> QED BY <1>5, <4>1, <4>3
    <3>2. CASE r \in Without(run, b, n) BY <1>3, <1>5, <1>8, <3>2
    <3> QED BY <1>1, <3>1, <3>2
  <2>2. ASSUME NEW r \in held \ {run}, NEW q \in Without(run, b, n)
        PROVE  Run(r.base, r.n) \cap Run(q.base, q.n) = {}
    <3>1. Run(r.base, r.n) \cap Run(run.base, run.n) = {} BY <1>11
    <3> QED BY <1>8, <3>1
  <2>3. ASSUME NEW r \in held', NEW q \in held', r # q
        PROVE  Run(r.base, r.n) \cap Run(q.base, q.n) = {}
    <3>1. CASE r \in held \ {run} /\ q \in held \ {run} BY <1>11, <2>3, <3>1
    <3>2. CASE r \in held \ {run} /\ q \in Without(run, b, n) BY <2>2, <3>2
    <3>3. CASE r \in Without(run, b, n) /\ q \in held \ {run}
      <4>1. Run(q.base, q.n) \cap Run(r.base, r.n) = {} BY <2>2, <3>3
      <4> QED BY <4>1
    <3>4. CASE r \in Without(run, b, n) /\ q \in Without(run, b, n) BY <1>8, <2>3, <3>4
    <3> QED BY <1>1, <3>1, <3>2, <3>3, <3>4
  <2> QED BY <2>1, <2>3 DEF HeldApart
<1>13. StaleInFront'
  <2>1. ASSUME NEW r \in held', NEW q \in Run(r.base, r.n), q # r.base
        PROVE  property[q] = 0
    <3>1. CASE r \in held BY <2>1, <3>1 DEF PmmInv, StaleInFront
    <3>2. CASE r \in Without(run, b, n)
      <4>1. q \in Run(run.base, run.n) /\ q # run.base BY <1>8, <2>1, <3>2
      <4> QED BY <4>1 DEF PmmInv, StaleInFront
    <3> QED BY <1>1, <3>1, <3>2
  <2>2. ASSUME NEW r \in held', NEW q \in Run(r.base, r.n) PROVE q \in Page \ FreePages'
    BY <1>12 DEF HeldApart
  <2>3. ASSUME NEW q \in Page \ FreePages' PROVE property'[q] = property[q]
    <3>1. q # b BY <1>3, <1>5
    <3>2. q # h
      <4>1. h \in FreePages' BY <1>2, <1>3, <1>5 DEF FreeStep, Heads
      <4> QED BY <4>1
    <3>3. q \notin FreePages BY <1>5
    <3> QED BY <1>2, <3>1, <3>2, <3>3 DEF FreeStep
  <2> QED BY <2>1, <2>2, <2>3 DEF StaleInFront
<1> QED BY <1>2, <1>7, <1>9, <1>10, <1>12, <1>13 DEF PmmInv, FreeStep

----------------------------------------------------------------------------
(* The calls of the heap and of others                                     *)

\* A step of the allocator's callers is at most one call of it.
AllocCall == \E n \in Nat \ {0}, p \in Page : AllocStep(n, p)
FailCall == \E n : AllocFails(n)
FreeCall(run, b, n) ==
  /\ run \in held /\ b \in Page /\ n \in Nat \ {0}
  /\ Run(b, n) \subseteq Run(run.base, run.n)
  /\ Free(run, b, n)

LEMMA CallKeeps ==
  ASSUME PmmInv,
         \/ AllocCall \/ FailCall \/ UNCHANGED pageVars
         \/ \E run \in held, b \in Page, n \in Nat \ {0} : FreeCall(run, b, n)
  PROVE  PmmInv'
<1>1. CASE AllocCall BY <1>1, AllocKeeps DEF AllocCall
<1>2. CASE \E run \in held, b \in Page, n \in Nat \ {0} : FreeCall(run, b, n)
  BY <1>2, FreeKeeps DEF FreeCall
<1>3. ASSUME UNCHANGED <<free_list, property, nr_free, held>> PROVE PmmInv'
  BY <1>3 DEF PmmInv, PmmTypeOK, FreePages, PropertiesExact, HeldApart, StaleInFront
<1>4. CASE FailCall BY <1>3, <1>4 DEF FailCall, AllocFails
<1>5. CASE UNCHANGED pageVars BY <1>3, <1>5 DEF pageVars
<1> QED BY <1>1, <1>2, <1>4, <1>5

\* The list of big blocks with one more in front, and with one less
LEMMA FrontIs ==
  ASSUME NEW S, NEW s \in Seq(S), NEW new, NEW t, t = <<new>> \o s
  PROVE  /\ t \in Seq(S \cup {new})
         /\ \A x \in DOMAIN t : \/ x = 1 /\ t[x] = new
                                \/ \E i \in DOMAIN s : x = i + 1 /\ t[x] = s[i]
<1> DEFINE A == S \cup {new}
<1>1. s \in Seq(A) BY SeqMonotonic
<1>2. <<new>> \in Seq(A) /\ Len(<<new>>) = 1 /\ <<new>>[1] = new OBVIOUS
<1> HIDE DEF A
<1>3. /\ t \in Seq(A) /\ Len(t) = 1 + Len(s) /\ Len(s) \in Nat
      /\ \A x \in 1 .. 1 + Len(s) : t[x] = IF x <= 1 THEN <<new>>[x] ELSE s[x - 1]
  BY <1>1, <1>2, ConcatProperties, InList
<1>4. DOMAIN t = 1 .. 1 + Len(s) /\ DOMAIN s = 1 .. Len(s) BY <1>1, <1>3, InList
<1>5. ASSUME NEW x \in 1 .. 1 + Len(s)
      PROVE  \/ x = 1 /\ t[x] = new
             \/ \E i \in 1 .. Len(s) : x = i + 1 /\ t[x] = s[i]
  <2>1. CASE x = 1 BY <1>2, <1>3, <2>1
  <2>2. CASE x # 1
    <3>1. x - 1 \in 1 .. Len(s) /\ x = (x - 1) + 1 /\ ~(x <= 1) BY <1>3, <2>2
    <3>2. t[x] = s[x - 1] BY <1>3, <3>1
    <3> QED BY <3>1, <3>2
  <2> QED BY <2>1, <2>2
<1> QED BY <1>3, <1>4, <1>5 DEF A

LEMMA RemovedIs ==
  ASSUME NEW S, NEW s \in Seq(S), NEW i \in DOMAIN s, NEW t, t = RemoveAt(s, i)
  PROVE  /\ t \in Seq(S) /\ \A x \in DOMAIN t : x \in Nat
         /\ \A x \in DOMAIN t : \E j \in DOMAIN s :
              t[x] = s[j] /\ j # i /\ j = IF x < i THEN x ELSE x + 1
<1>1. Len(s) \in Nat /\ DOMAIN s = 1 .. Len(s) /\ i \in 1 .. Len(s) BY InList
<1>2. t = SubSeq(s, 1, i - 1) \o SubSeq(s, i + 1, Len(s)) BY DEF RemoveAt
<1>3. /\ t \in Seq(S) /\ Len(t) = Len(s) - 1
      /\ \A j \in 1 .. Len(t) : t[j] = IF j < i THEN s[j] ELSE s[j + 1]
  <2>1. 1 \in Nat /\ i + 1 <= Len(s) + 1 BY <1>1
  <2>2. LET r == SubSeq(s, 1, i - 1) \o SubSeq(s, i + 1, Len(s)) IN
        /\ r \in Seq(S) /\ Len(r) = Len(s) - 1
        /\ \A j \in 1 .. Len(r) : r[j] = IF j < i THEN s[j] ELSE s[j + 1]
    BY <1>1, <2>1, CutAt
  <2> QED BY <1>2, <2>2
<1>4. DOMAIN t = 1 .. Len(s) - 1 BY <1>3, InList
<1>5. ASSUME NEW x \in 1 .. Len(s) - 1
      PROVE  \E j \in 1 .. Len(s) : t[x] = s[j] /\ j # i /\ j = IF x < i THEN x ELSE x + 1
  <2>1. CASE x < i BY <1>1, <1>3, <2>1
  <2>2. CASE ~(x < i) BY <1>1, <1>3, <2>2
  <2> QED BY <2>1, <2>2
<1> QED BY <1>1, <1>3, <1>4, <1>5

\* The big blocks keep their pages while others call the allocator.
LEMMA RunsKept ==
  ASSUME HeapRuns, UNCHANGED bigblocks, \A i \in DOMAIN bigblocks : PagesOf(i) \in held'
  PROVE  HeapRuns'
<1>1. \A i : PagesOf(i)' = PagesOf(i) BY DEF PagesOf
<1> QED BY <1>1 DEF HeapRuns

LEMMA AllocKeepsRuns ==
  ASSUME HeapRuns, AllocCall \/ FailCall \/ UNCHANGED held, UNCHANGED bigblocks
  PROVE  HeapRuns'
<1>1. held \subseteq held' BY DEF AllocCall, AllocStep, FailCall, AllocFails
<1> QED BY <1>1, RunsKept DEF HeapRuns

\* The pages of a new big block are none of those of another.
LEMMA GetPagesKeepsRuns ==
  ASSUME KmallocInv, GetPages
  PROVE  HeapRuns' /\ (AllocCall \/ FailCall)
<1>1. CASE AllocFails(2 ^ pending.order) /\ UNCHANGED bigblocks
  BY <1>1, AllocKeepsRuns DEF FailCall, KmallocInv
<1>2. ASSUME Alloc(2 ^ pending.order),
             bigblocks' = <<[bb |-> pending.bb, pages |-> answer', order |-> pending.order]>>
                            \o bigblocks
      PROVE  HeapRuns' /\ AllocCall
  <2>1. PICK n : n = 2 ^ pending.order OBVIOUS
  <2>2. n \in Nat \ {0} /\ \E p \in Page : AllocStep(n, p)
    BY <1>2, <2>1, AllocIs DEF KmallocInv
  <2>3. PICK p \in Page : AllocStep(n, p) BY <2>2
  <2>4. p \in FreePages /\ answer' = p /\ held' = held \cup {[base |-> p, n |-> n]}
    BY <2>3 DEF AllocStep, Heads
  <2>5. /\ bigblocks \in Seq(ToSet(bigblocks))
        /\ \A i \in DOMAIN bigblocks : PagesOf(i) \in held
        /\ \A i, j \in DOMAIN bigblocks : bigblocks[i].pages = bigblocks[j].pages => i = j
    BY DEF KmallocInv, HeapRuns
  <2>6. PICK new : new = [bb |-> pending.bb, pages |-> p, order |-> pending.order] OBVIOUS
  <2>7. bigblocks' = <<new>> \o bigblocks /\ new.pages = p /\ new.order = pending.order
    BY <1>2, <2>4, <2>6
  <2>8. /\ bigblocks' \in Seq(ToSet(bigblocks) \cup {new})
        /\ \A x \in DOMAIN bigblocks' :
             \/ x = 1 /\ bigblocks'[x] = new
             \/ \E i \in DOMAIN bigblocks : x = i + 1 /\ bigblocks'[x] = bigblocks[i]
    BY <2>5, <2>7, FrontIs
  <2>9. ASSUME NEW i \in DOMAIN bigblocks PROVE bigblocks[i].pages # p
    <3>1. PagesOf(i) \in held BY <2>5
    <3>2. PagesOf(i).base = bigblocks[i].pages BY DEF PagesOf
    <3>3. PagesOf(i).base \in Run(PagesOf(i).base, PagesOf(i).n)
      BY <3>1, PageIs DEF KmallocInv, PmmInv, PmmTypeOK, Run
    <3>4. PagesOf(i).base \notin FreePages BY <3>1, <3>3 DEF KmallocInv, PmmInv, HeldApart
    <3> QED BY <2>4, <3>2, <3>4
  <2>10. ASSUME NEW x \in DOMAIN bigblocks'
         PROVE  [base |-> bigblocks'[x].pages, n |-> 2 ^ bigblocks'[x].order] \in held'
    <3>1. CASE bigblocks'[x] = new BY <2>1, <2>4, <2>7, <3>1
    <3>2. CASE \E i \in DOMAIN bigblocks : bigblocks'[x] = bigblocks[i]
      BY <2>4, <2>5, <3>2 DEF PagesOf
    <3> QED BY <2>8, <3>1, <3>2
  <2>11. ASSUME NEW x \in DOMAIN bigblocks', NEW y \in DOMAIN bigblocks',
                bigblocks'[x].pages = bigblocks'[y].pages
         PROVE  x = y
    <3>1. CASE x = 1 /\ bigblocks'[x] = new BY <2>7, <2>8, <2>9, <2>11, <3>1
    <3>2. CASE \E i \in DOMAIN bigblocks : x = i + 1 /\ bigblocks'[x] = bigblocks[i]
      <4>1. PICK i \in DOMAIN bigblocks : x = i + 1 /\ bigblocks'[x] = bigblocks[i] BY <3>2
      <4>2. bigblocks'[y] # new BY <2>7, <2>9, <2>11, <4>1
      <4>3. PICK j \in DOMAIN bigblocks : y = j + 1 /\ bigblocks'[y] = bigblocks[j] BY <2>8, <4>2
      <4>4. i = j BY <2>5, <2>11, <4>1, <4>3
      <4> QED BY <4>1, <4>3, <4>4
    <3> QED BY <2>8, <3>1, <3>2
  <2>12. bigblocks' \in Seq(ToSet(bigblocks')) BY <2>8, SeqOver
  <2>13. AllocCall BY <2>2, <2>3 DEF AllocCall
  <2> QED BY <2>10, <2>11, <2>12, <2>13 DEF HeapRuns, PagesOf
<1> QED BY <1>1, <1>2 DEF GetPages

\* kfree gives back the pages of one big block, whole.
LEMMA KfreeKeepsRuns ==
  ASSUME KmallocInv, NEW address, KfreeBig(address)
  PROVE  HeapRuns' /\ \E run \in held, b \in Page, n \in Nat \ {0} : FreeCall(run, b, n)
<1>1. /\ bigblocks \in Seq(ToSet(bigblocks)) /\ Len(bigblocks) \in Nat
      /\ DOMAIN bigblocks = 1 .. Len(bigblocks)
      /\ \A i \in DOMAIN bigblocks : PagesOf(i) \in held
      /\ \A i, j \in DOMAIN bigblocks : bigblocks[i].pages = bigblocks[j].pages => i = j
  BY InList DEF KmallocInv, HeapRuns
<1>2. PICK i : i = Min(Listed(address)) OBVIOUS
<1>3. i \in 1 .. Len(bigblocks)
  <2>1. Listed(address) \in SUBSET Nat BY <1>1 DEF Listed
  <2>2. i \in Listed(address) BY <1>2, <2>1, MinIs DEF KfreeBig
  <2> QED BY <1>1, <2>2 DEF Listed
<1>4. PICK run : run = PagesOf(i) OBVIOUS
<1>5. /\ run \in held /\ run.base \in Page /\ run.n \in Nat \ {0} /\ run.base \in Nat
      /\ run.base = bigblocks[i].pages
  <2>1. run \in held BY <1>1, <1>3, <1>4
  <2>2. run.base = bigblocks[i].pages BY <1>4 DEF PagesOf
  <2> QED BY <2>1, <2>2, PageIs, PageAssumption DEF KmallocInv, PmmInv, PmmTypeOK
<1>6. /\ bigblocks' = RemoveAt(bigblocks, i)
      /\ Free(run, run.base, run.n)
  BY <1>2, <1>4 DEF KfreeBig
<1>7. FreeCall(run, run.base, run.n) BY <1>5, <1>6 DEF FreeCall
<1>8. held \ {run} \subseteq held' BY <1>6 DEF Free
<1>9. /\ bigblocks' \in Seq(ToSet(bigblocks)) /\ \A x \in DOMAIN bigblocks' : x \in Nat
      /\ \A x \in DOMAIN bigblocks' : \E j \in DOMAIN bigblocks :
           bigblocks'[x] = bigblocks[j] /\ j # i /\ j = IF x < i THEN x ELSE x + 1
  BY <1>1, <1>3, <1>6, RemovedIs
<1>10. ASSUME NEW x \in DOMAIN bigblocks'
       PROVE  [base |-> bigblocks'[x].pages, n |-> 2 ^ bigblocks'[x].order] \in held'
  <2>1. PICK j \in DOMAIN bigblocks : bigblocks'[x] = bigblocks[j] /\ j # i BY <1>9
  <2>2. PagesOf(j) \in held /\ PagesOf(j).base = bigblocks[j].pages BY <1>1 DEF PagesOf
  <2>3. PagesOf(j) # run BY <1>1, <1>3, <1>5, <2>1, <2>2
  <2>4. PagesOf(j) \in held' BY <1>8, <2>2, <2>3
  <2> QED BY <2>1, <2>4 DEF PagesOf
<1>11. ASSUME NEW x \in DOMAIN bigblocks', NEW y \in DOMAIN bigblocks',
              bigblocks'[x].pages = bigblocks'[y].pages
       PROVE  x = y
  <2>1. PICK j \in DOMAIN bigblocks :
          bigblocks'[x] = bigblocks[j] /\ j # i /\ j = IF x < i THEN x ELSE x + 1
    BY <1>9
  <2>2. PICK k \in DOMAIN bigblocks :
          bigblocks'[y] = bigblocks[k] /\ k # i /\ k = IF y < i THEN y ELSE y + 1
    BY <1>9
  <2>3. j = k BY <1>1, <1>11, <2>1, <2>2
  <2>4. x \in Nat /\ y \in Nat /\ i \in Nat BY <1>1, <1>3, <1>9
  <2>5. (IF x < i THEN x ELSE x + 1) = (IF y < i THEN y ELSE y + 1) BY <2>1, <2>2, <2>3
  <2> QED BY <2>4, <2>5
<1>12. HeapRuns'
  <2>1. bigblocks' \in Seq(ToSet(bigblocks')) BY <1>9, SeqOver
  <2> QED BY <1>10, <1>11, <2>1 DEF HeapRuns, PagesOf
<1> QED BY <1>5, <1>7, <1>12

\* Others give back, in parts or whole, what the heap does not have.
LEMMA OthersKeepRuns ==
  ASSUME KmallocInv, PageCall(Others), UNCHANGED heapVars
  PROVE  /\ HeapRuns'
         /\ \/ AllocCall \/ FailCall
            \/ \E run \in held, b \in Page, n \in Nat \ {0} : FreeCall(run, b, n)
<1>1. UNCHANGED bigblocks BY DEF heapVars
<1>2. CASE \E n \in 1 .. NPAGE + 1 : Alloc(n) \/ AllocFails(n)
  <2>1. AllocCall \/ FailCall BY <1>2, AllocIs DEF AllocCall, FailCall, KmallocInv
  <2> QED BY <1>1, <2>1, AllocKeepsRuns DEF KmallocInv
<1>3. ASSUME NEW run \in Others, NEW part \in Parts(run), Free(run, part[1], part[2])
      PROVE  HeapRuns' /\ FreeCall(run, part[1], part[2])
  <2>1. FreeCall(run, part[1], part[2])
    BY <1>3, PageAssumption DEF Others, Parts, FreeCall
  <2>2. held \ {run} \subseteq held' BY <1>3 DEF Free
  <2>3. \A i \in DOMAIN bigblocks : PagesOf(i) \in held' BY <2>2 DEF KmallocInv, HeapRuns, Others
  <2> QED BY <1>1, <2>1, <2>3, RunsKept DEF KmallocInv
<1>4. CASE \E run \in Others : \E part \in Parts(run) : Free(run, part[1], part[2])
  <2>1. PICK run \in Others : \E part \in Parts(run) : Free(run, part[1], part[2]) BY <1>4
  <2>2. PICK part \in Parts(run) : Free(run, part[1], part[2]) BY <2>1
  <2> QED BY <1>3, <2>2 DEF FreeCall
<1> QED BY <1>2, <1>4 DEF PageCall

\* What a step of the system is to the page allocator
StepCalls ==
  \/ AllocCall \/ FailCall \/ UNCHANGED pageVars
  \/ \E run \in held, b \in Page, n \in Nat \ {0} : FreeCall(run, b, n)

LEMMA SlobAllocCalls ==
  ASSUME KmallocInv, NEW n, SlobAlloc(n) \/ SlobAllocFails(n), UNCHANGED bigblocks
  PROVE  HeapRuns' /\ StepCalls
<1>1. AllocCall \/ FailCall \/ UNCHANGED pageVars
  BY AllocIs DEF SlobAlloc, SlobAllocFails, AllocCall, FailCall, KmallocInv
<1>2. AllocCall \/ FailCall \/ UNCHANGED held BY <1>1 DEF pageVars
<1> QED BY <1>1, <1>2, AllocKeepsRuns DEF KmallocInv, StepCalls

LEMMA StepIs ==
  ASSUME KmallocInv, [Next]_vars
  PROVE  HeapRuns' /\ StepCalls
<1>1. CASE GetPages BY <1>1, GetPagesKeepsRuns DEF StepCalls
<1>2. ASSUME NEW size, KmallocSmall(size) PROVE HeapRuns' /\ StepCalls
  BY <1>2, SlobAllocCalls DEF KmallocSmall
<1>3. ASSUME NEW size, KmallocBig(size) PROVE HeapRuns' /\ StepCalls
  BY <1>3, SlobAllocCalls DEF KmallocBig
<1>4. ASSUME UNCHANGED <<pageVars, bigblocks>> PROVE HeapRuns' /\ StepCalls
  BY <1>4, AllocKeepsRuns DEF pageVars, StepCalls, KmallocInv
<1>5. ASSUME NEW address, KfreeSmall(address) PROVE HeapRuns' /\ StepCalls
  BY <1>4, <1>5 DEF KfreeSmall
<1>6. ASSUME NEW address, KfreeBig(address) PROVE HeapRuns' /\ StepCalls
  BY <1>6, KfreeKeepsRuns DEF StepCalls
<1>7. CASE PageCall(Others) /\ UNCHANGED heapVars BY <1>7, OthersKeepRuns DEF StepCalls
<1>8. CASE UNCHANGED vars BY <1>4, <1>8 DEF vars, heapVars
<1> QED BY <1>1, <1>2, <1>3, <1>5, <1>6, <1>7, <1>8 DEF Next

----------------------------------------------------------------------------
(* Theorems about the pages                                                *)

LEMMA InitHolds ==
  ASSUME HeapInit
  PROVE  KmallocInv
<1>1. Usable \in SUBSET Page BY PageAssumption DEF Page
<1>2. free_list \in Seq(Page) /\ Sorted(free_list) /\ FreePages = Usable
  BY <1>1, AscendingIs DEF HeapInit, Init, FreePages
<1>3. \A p \in Heads(Usable) : IsRun(Usable, p, RunLength(Usable, p))
  <2>1. ASSUME NEW p \in Heads(Usable) PROVE IsRun(Usable, p, RunLength(Usable, p))
    <3>1. p \in Usable BY DEF Heads
    <3>2. PICK n : IsRun(Usable, p, n) BY <1>1, <3>1, RunExists
    <3>3. RunLength(Usable, p) = n BY <1>1, <3>1, <3>2, RunIs
    <3> QED BY <3>2, <3>3
  <2> QED BY <2>1
<1>4. \A p \in Heads(Usable) : RunLength(Usable, p) \in Nat
  BY <1>3, PageAssumption DEF IsRun
<1>5. property = [p \in Page |-> IF p \in Heads(Usable) THEN RunLength(Usable, p) ELSE 0]
  BY DEF HeapInit, Init
<1>6. property \in [Page -> Nat] BY <1>4, <1>5
<1>7. PropertiesExact BY <1>1, <1>2, <1>3, <1>5 DEF PropertiesExact
<1>8. held = {} /\ nr_free = Cardinality(FreePages) BY <1>2 DEF HeapInit, Init
<1>9. PmmInv
  BY <1>2, <1>6, <1>7, <1>8 DEF PmmInv, PmmTypeOK, HeldApart, StaleInFront
<1>10. HeapRuns
  <2>1. bigblocks = <<>> BY DEF HeapInit
  <2>2. bigblocks \in Seq(ToSet(bigblocks)) /\ DOMAIN bigblocks = {} BY <2>1
  <2> QED BY <2>2 DEF HeapRuns
<1> QED BY <1>9, <1>10 DEF KmallocInv

\* In every reachable state the properties are exact, and whoever has pages has
\* them alone (default_alloc_pages, default_free_pages, __kmalloc, kfree).
THEOREM PagesInvariant == Spec => []KmallocInv
<1>1. HeapInit => KmallocInv BY InitHolds
<1>2. KmallocInv /\ [Next]_vars => KmallocInv'
  BY StepIs, CallKeeps DEF StepCalls, KmallocInv
<1> QED BY <1>1, <1>2, PTL DEF Spec

\* The list of free pages always describes them as blocks that cannot be joined
\* any more, whatever was allocated, split and given back, in any order.
THEOREM BlocksAreMaximal == Spec => []BlocksMaximal
<1>1. ASSUME PmmInv PROVE BlocksMaximal
  <2>1. \A i \in 1 .. Len(free_list) - 1 : free_list[i] < free_list[i + 1]
    <3>1. ASSUME NEW i \in 1 .. Len(free_list) - 1 PROVE free_list[i] < free_list[i + 1]
      <4>1. i \in DOMAIN free_list /\ i + 1 \in DOMAIN free_list /\ i < i + 1 BY <1>1, ListIs
      <4> QED BY <1>1, <4>1 DEF PmmInv, Sorted
    <3> QED BY <3>1
  <2>2. ASSUME NEW p \in FreePages
        PROVE  property[p] = IF p \in Heads(FreePages) THEN RunLength(FreePages, p) ELSE 0
    <3>1. FreePages \in SUBSET Page BY <1>1, ListIs
    <3>2. IF p \in Heads(FreePages) THEN IsRun(FreePages, p, property[p]) ELSE property[p] = 0
      BY <1>1 DEF PmmInv, PropertiesExact
    <3> QED BY <3>1, <3>2, RunIs
  <2> QED BY <1>1, <2>1, <2>2 DEF BlocksMaximal, PmmInv, FreePages
<1>2. KmallocInv => BlocksMaximal BY <1>1 DEF KmallocInv
<1> QED BY <1>2, PagesInvariant, PTL

LEMMA CallServes ==
  ASSUME PmmInv, StepCalls
  PROVE  Contract!SpecNext \/ UNCHANGED <<ToSet(free_list), asked, answer>>
<1>1. CASE UNCHANGED pageVars BY <1>1 DEF pageVars, callVars
<1>2. ASSUME NEW n \in Nat \ {0}, NEW p \in Page, AllocStep(n, p) PROVE Contract!SpecNext
  <2>1. p \in Contract!Fits(n)
    <3>1. n <= property[p] /\ property[p] \in Nat /\ p \in Nat
      BY <1>2, PageIs DEF AllocStep, PmmInv, PmmTypeOK
    <3>2. Run(p, n) \subseteq Run(p, property[p]) BY <3>1 DEF Run
    <3>3. Run(p, n) \subseteq ToSet(free_list) BY <1>2, <3>2 DEF AllocStep, IsRun, FreePages
    <3> QED BY <3>3 DEF Contract!Fits, Contract!Run, Run
  <2>2. \A q \in Contract!Fits(n) : p <= q
    BY <1>2 DEF AllocStep, Contract!Fits, Contract!Run, Run, FreePages
  <2>3. Contract!Grant(n)
    BY <1>2, <2>1, <2>2 DEF Contract!Grant, AllocStep, FreePages, Contract!Run, Run
  <2>4. asked' = n BY <1>2 DEF AllocStep
  <2> QED BY <2>3, <2>4 DEF Contract!SpecNext
<1>3. ASSUME NEW n, AllocFails(n) PROVE Contract!SpecNext
  <2>1. n \in Nat \ {0} /\ (n > nr_free \/ Fitting(n) = {}) BY <1>3 DEF AllocFails, Asserted
  <2>2. ASSUME NEW q \in Contract!Fits(n) PROVE FALSE
    <3>1. q \in Page /\ Run(q, n) \subseteq FreePages
      BY <2>2 DEF Contract!Fits, Contract!Run, Run, FreePages
    <3>2. Fitting(n) # {} BY <2>1, <3>1, FitFound
    <3>3. q \in Nat BY <3>1, PageIs
    <3>4. IsFiniteSet(FreePages) /\ Cardinality(FreePages) \in Nat BY ListIs, PagesFinite
    <3>5. Cardinality(Run(q, n)) <= Cardinality(FreePages) BY <3>1, <3>4, FS_Subset
    <3>6. n <= nr_free /\ nr_free \in Nat BY <2>1, <3>3, <3>4, <3>5, RunSize DEF PmmInv
    <3> QED BY <2>1, <3>2, <3>6
  <2>3. Contract!Refuse(n) BY <1>3, <2>2 DEF Contract!Refuse, AllocFails
  <2>4. asked' = n BY <1>3 DEF AllocFails
  <2> QED BY <2>1, <2>3, <2>4 DEF Contract!SpecNext
<1>4. ASSUME NEW run \in held, NEW b \in Page, NEW n \in Nat \ {0}, FreeCall(run, b, n)
      PROVE  Contract!SpecNext
  <2>1. Run(b, n) \subseteq Page \ FreePages BY <1>4, FreeIs DEF FreeCall
  <2>2. PICK m \in Nat, h \in Page : FreeStep(b, n, m, h) BY <1>4, FreeIs DEF FreeCall
  <2>3. b \in Nat BY PageIs
  <2>4. PICK last : last = b + n - 1 OBVIOUS
  <2>5. last \in Run(b, n) /\ b <= last /\ last - b + 1 = n BY <2>3, <2>4 DEF Run
  <2>6. Contract!Return(b, n)
    BY <2>1, <2>2 DEF Contract!Return, FreeStep, FreePages, Contract!Run, Run
  <2> QED BY <2>1, <2>5, <2>6 DEF Contract!SpecNext
<1> QED BY <1>1, <1>2, <1>3, <1>4 DEF StepCalls, AllocCall, FailCall

\* The allocator implements PageSpec: a request is met whenever enough free pages
\* follow each other, with the lowest of them, and what is given back was not free.
THEOREM ServesFirstFit == Spec => FirstFit
<1>1. HeapInit => Contract!SpecInit
  <2>1. Usable \in SUBSET Page BY PageAssumption DEF Page
  <2> QED BY <2>1, AscendingIs DEF HeapInit, Init, Contract!SpecInit
<1>2. KmallocInv /\ [Next]_vars
        => [Contract!SpecNext]_<<ToSet(free_list), asked, answer>>
  BY StepIs, CallServes DEF KmallocInv
<1> QED BY <1>1, <1>2, PagesInvariant, PTL DEF Spec, FirstFit, Contract!PageSpec

----------------------------------------------------------------------------
(* The kernel heap: its ring                                               *)

\* What links a free block b to the next one, c: no free block is in between, or
\* b is the last one and c the arena.
Follows(D, b, c) ==
  \/ c > b /\ \A x \in D : x <= b \/ c <= x
  \/ c = Arena /\ \A x \in D : x <= b

Ordered(h) ==
  LET D == DOMAIN h.ring IN
  /\ IsFiniteSet(D) /\ D \subseteq Nat \cup {Arena} /\ Arena \in D
  /\ h.ring \in [D -> [units : Nat \ {0}, next : D]]
  /\ h.slobfree \in D /\ h.ring[Arena].units = 1
  /\ \A b \in D : Follows(D, b, h.ring[b].next)
  /\ \A b, c \in D : b < c => b + h.ring[b].units < c

----------------------------------------------------------------------------
(* The walk around the ring                                                *)

Closed(D, r) == \A b \in D : r[b].next \in D

LEMMA WalkExists ==
  ASSUME NEW D, NEW r, Closed(D, r), NEW s \in D, NEW N \in Nat
  PROVE  \E f \in [0 .. N -> D] : f[0] = s /\ \A i \in 1 .. N : f[i] = r[f[i - 1]].next
<1> DEFINE Walk(n, f) == f \in [0 .. n -> D] /\ f[0] = s /\ \A i \in 1 .. n : f[i] = r[f[i - 1]].next
           T == {n \in Nat : ~\E f : Walk(n, f)}
<1>1. \E f : Walk(0, f)
  <2>1. Walk(0, [i \in 0 .. 0 |-> s]) OBVIOUS
  <2> QED BY <2>1
<1>2. ASSUME NEW n \in Nat, NEW f, Walk(n, f) PROVE \E g : Walk(n + 1, g)
  <2> DEFINE g == [i \in 0 .. n + 1 |-> IF i = n + 1 THEN r[f[n]].next ELSE f[i]]
  <2>1. f[n] \in D /\ \A i \in 0 .. n : f[i] \in D BY <1>2
  <2>2. g \in [0 .. n + 1 -> D] BY <2>1 DEF Closed
  <2>3. g[0] = s BY <1>2
  <2>4. ASSUME NEW i \in 1 .. n + 1 PROVE g[i] = r[g[i - 1]].next
    <3>1. i - 1 \in 0 .. n /\ g[i - 1] = f[i - 1] OBVIOUS
    <3>2. CASE i = n + 1 BY <3>1, <3>2
    <3>3. CASE i # n + 1
      <4>1. i \in 1 .. n /\ g[i] = f[i] BY <3>3
      <4> QED BY <1>2, <3>1, <4>1
    <3> QED BY <3>2, <3>3
  <2> QED BY <2>2, <2>3, <2>4
<1>3. T = {}
  <2> SUFFICES ASSUME T # {} PROVE FALSE OBVIOUS
  <2>1. T \in SUBSET Nat OBVIOUS
  <2> HIDE DEF T, Walk
  <2>2. PICK n \in T : \A m \in T : n <= m BY <2>1, Least
  <2>3. n \in Nat /\ ~\E f : Walk(n, f) BY <2>2 DEF T
  <2>4. n # 0 BY <1>1, <2>3
  <2>5. n - 1 \in Nat /\ n - 1 \notin T /\ (n - 1) + 1 = n BY <2>2, <2>3, <2>4
  <2>6. PICK f : Walk(n - 1, f) BY <2>5 DEF T
  <2> QED BY <1>2, <2>3, <2>5, <2>6
<1>4. PICK f : Walk(N, f) BY <1>3
<1> QED BY <1>4

LEMMA AroundIs ==
  ASSUME NEW h, Ordered(h), NEW N, N = Cardinality(DOMAIN h.ring)
  PROVE  /\ N \in Nat /\ N >= 1
         /\ Around(h) \in [0 .. N -> DOMAIN h.ring] /\ Around(h)[0] = h.slobfree
         /\ \A i \in 1 .. N : Around(h)[i] = h.ring[Around(h)[i - 1]].next
<1> DEFINE D == DOMAIN h.ring
           at == Around(h)
<1>1. N \in Nat /\ N >= 1
  <2>1. IsFiniteSet(D) /\ D # {} BY DEF Ordered
  <2>2. N \in Nat BY <2>1, FS_CardinalityType
  <2>3. N # 0 BY <2>1, FS_EmptySet
  <2> QED BY <2>2, <2>3
<1>2. h.slobfree \in D /\ \A b \in D : h.ring[b].next \in D BY DEF Ordered
<1>3. \E f : f = [i \in 0 .. N |-> IF i = 0 THEN h.slobfree ELSE h.ring[f[i - 1]].next]
  <2>1. PICK f \in [0 .. N -> D] :
          f[0] = h.slobfree /\ \A i \in 1 .. N : f[i] = h.ring[f[i - 1]].next
    <3>1. PICK X, r, s : X = D /\ r = h.ring /\ s = h.slobfree OBVIOUS
    <3>2. s \in X /\ Closed(X, r) BY <1>2, <3>1 DEF Closed
    <3>3. N \in Nat BY <1>1
    <3>4. \E f \in [0 .. N -> X] : f[0] = s /\ \A i \in 1 .. N : f[i] = r[f[i - 1]].next
      BY <3>2, <3>3, WalkExists
    <3> QED BY <3>1, <3>4
  <2>2. ASSUME NEW i \in 0 .. N
        PROVE  f[i] = IF i = 0 THEN h.slobfree ELSE h.ring[f[i - 1]].next
    <3>1. CASE i = 0 BY <2>1, <3>1
    <3>2. CASE i # 0
      <4>1. i \in 1 .. N BY <3>2
      <4> QED BY <2>1, <3>2, <4>1
    <3> QED BY <3>1, <3>2
  <2>3. f = [i \in 0 .. N |-> f[i]] OBVIOUS
  <2> QED BY <2>2, <2>3
<1>4. at = [i \in 0 .. N |-> IF i = 0 THEN h.slobfree ELSE h.ring[at[i - 1]].next]
  BY <1>3 DEF Around
<1> HIDE DEF at
<1>5. at[0] = h.slobfree BY <1>1, <1>4
<1>6. \A i \in 1 .. N : at[i] = h.ring[at[i - 1]].next
  <2> TAKE i \in 1 .. N
  <2>1. i \in 0 .. N /\ i # 0 BY <1>1
  <2> QED BY <1>4, <2>1
<1> DEFINE T == {i \in 0 .. N : at[i] \notin D}
<1>7. T = {}
  <2> SUFFICES ASSUME T # {} PROVE FALSE OBVIOUS
  <2>1. T \in SUBSET Nat OBVIOUS
  <2> HIDE DEF T
  <2>2. PICK i \in T : \A j \in T : i <= j BY <2>1, Least
  <2>3. i \in 0 .. N /\ at[i] \notin D BY <2>2 DEF T
  <2>4. i # 0 BY <1>2, <1>5, <2>3
  <2>5. i \in 1 .. N /\ i - 1 \in 0 .. N /\ i - 1 \notin T BY <1>1, <2>2, <2>3, <2>4
  <2>6. at[i - 1] \in D BY <2>5 DEF T
  <2> QED BY <1>2, <1>6, <2>3, <2>5, <2>6
<1>8. at \in [0 .. N -> D]
  <2>1. \A i \in 0 .. N : at[i] \in D BY <1>7
  <2>2. DOMAIN at = 0 .. N /\ at = [i \in 0 .. N |-> at[i]] BY <1>4
  <2> QED BY <2>1, <2>2
<1> QED BY <1>1, <1>5, <1>6, <1>8 DEF at

\* How many blocks lie below one
Rank(D, b) == Cardinality({x \in D : x < b})

LEMMA RankCounts ==
  ASSUME NEW D, IsFiniteSet(D), NEW b \in D, \A x \in D : x \in Int
  PROVE  /\ Rank(D, b) \in Nat
         /\ Cardinality({x \in D : x < b} \cup {b}) = Rank(D, b) + 1
<1>1. {x \in D : x < b} \subseteq D /\ b \notin {x \in D : x < b} OBVIOUS
<1>2. IsFiniteSet({x \in D : x < b}) BY <1>1, FS_Subset
<1> QED BY <1>1, <1>2, FS_CardinalityType, FS_AddElement DEF Rank

LEMMA RankLess ==
  ASSUME NEW D, IsFiniteSet(D), \A x \in D : x \in Int, NEW b \in D, NEW c \in D, b < c
  PROVE  Rank(D, b) < Rank(D, c)
<1>1. {x \in D : x < b} \cup {b} \subseteq {x \in D : x < c} OBVIOUS
<1>2. {x \in D : x < c} \subseteq D OBVIOUS
<1>3. IsFiniteSet({x \in D : x < c}) BY <1>2, FS_Subset
<1>4. Cardinality({x \in D : x < b} \cup {b}) <= Rank(D, c) BY <1>1, <1>3, FS_Subset DEF Rank
<1>5. Rank(D, b) \in Nat /\ Rank(D, c) \in Nat BY RankCounts
<1>6. Rank(D, b) + 1 <= Rank(D, c)
  <2>1. Cardinality({x \in D : x < b} \cup {b}) = Rank(D, b) + 1 BY RankCounts
  <2> QED BY <1>4, <2>1
<1> QED BY <1>5, <1>6

LEMMA RankIs ==
  ASSUME NEW D, IsFiniteSet(D), \A x \in D : x \in Int
  PROVE  /\ \A b \in D : Rank(D, b) \in 0 .. Cardinality(D) - 1
         /\ \A b, c \in D : Rank(D, b) = Rank(D, c) => b = c
<1>1. Cardinality(D) \in Nat BY FS_CardinalityType
<1>2. ASSUME NEW b \in D PROVE Rank(D, b) \in 0 .. Cardinality(D) - 1
  <2>1. {x \in D : x < b} \cup {b} \subseteq D OBVIOUS
  <2>2. Cardinality({x \in D : x < b} \cup {b}) <= Cardinality(D) BY <2>1, FS_Subset
  <2>3. Rank(D, b) \in Nat BY RankCounts
  <2>4. Rank(D, b) + 1 <= Cardinality(D)
    <3>1. Cardinality({x \in D : x < b} \cup {b}) = Rank(D, b) + 1 BY RankCounts
    <3> QED BY <2>2, <3>1
  <2> QED BY <1>1, <2>3, <2>4
<1>3. ASSUME NEW b \in D, NEW c \in D, Rank(D, b) = Rank(D, c) PROVE b = c
  <2>1. Rank(D, b) \in Nat BY RankCounts
  <2>2. ~(b < c) BY <1>3, <2>1, RankLess
  <2>3. ~(c < b) BY <1>3, <2>1, RankLess
  <2>4. b \in Int /\ c \in Int OBVIOUS
  <2> QED BY <2>2, <2>3, <2>4
<1> QED BY <1>2, <1>3

\* The next block is one rank higher, or the lowest of all.
LEMMA RankNext ==
  ASSUME NEW D, IsFiniteSet(D), \A x \in D : x \in Int /\ x >= Arena, Arena \in D,
         NEW b \in D, NEW c \in D, Follows(D, b, c)
  PROVE  Rank(D, c) = Rank(D, b) + 1 \/ (Rank(D, c) = 0 /\ Rank(D, b) = Cardinality(D) - 1)
<1>1. \A x \in D : x \in Int /\ x >= Arena OBVIOUS
<1>2. /\ Rank(D, b) \in Nat
      /\ Cardinality({x \in D : x < b} \cup {b}) = Rank(D, b) + 1
  BY RankCounts
<1>3. CASE c > b /\ \A x \in D : x <= b \/ c <= x
  <2>1. {x \in D : x < c} = {x \in D : x < b} \cup {b}
    <3>1. \A x \in D : x < c <=> x < b \/ x = b BY <1>1, <1>3
    <3> QED BY <3>1
  <2> QED BY <1>2, <2>1 DEF Rank
<1>4. CASE c = Arena /\ \A x \in D : x <= b
  <2>1. D = {x \in D : x < b} \cup {b}
    <3>1. \A x \in D : x < b \/ x = b BY <1>1, <1>4
    <3> QED BY <3>1
  <2>2. {x \in D : x < c} = {}
    <3>1. \A x \in D : ~(x < c) BY <1>1, <1>4
    <3> QED BY <3>1
  <2>3. Rank(D, c) = 0 BY <2>2, FS_EmptySet DEF Rank
  <2>4. Cardinality(D) = Rank(D, b) + 1 BY <1>2, <2>1
  <2> QED BY <1>2, <2>3, <2>4
<1> QED BY <1>3, <1>4 DEF Follows

\* The walk passes every block, behind where it starts and up to there.
LEMMA AroundAll ==
  ASSUME NEW h, Ordered(h), NEW N, N = Cardinality(DOMAIN h.ring), NEW b \in DOMAIN h.ring
  PROVE  /\ \E i \in 0 .. N - 1 : Around(h)[i] = b
         /\ \E i \in 1 .. N : Around(h)[i] = b
<1> DEFINE D == DOMAIN h.ring
           at == Around(h)
           rank(x) == Rank(D, x)
           s == h.slobfree
           Turned(i) == rank(at[i]) = rank(s) + i \/ rank(at[i]) = rank(s) + i - N
           T == {i \in 0 .. N : ~Turned(i)}
<1>1. /\ N \in Nat /\ N >= 1 /\ at \in [0 .. N -> D] /\ at[0] = s
      /\ \A i \in 1 .. N : at[i] = h.ring[at[i - 1]].next
  BY AroundIs
<1>2. /\ IsFiniteSet(D) /\ D \subseteq Nat \cup {Arena} /\ Arena \in D /\ s \in D
      /\ \A x \in D : h.ring[x].next \in D /\ Follows(D, x, h.ring[x].next)
      /\ \A x \in D : x \in Int /\ x >= Arena
  BY DEF Ordered, Arena
<1> HIDE DEF D, at, s
<1>3. /\ \A x \in D : rank(x) \in 0 .. N - 1
      /\ \A x, y \in D : rank(x) = rank(y) => x = y
  BY <1>2, RankIs DEF D
<1>4. \A x \in D : rank(h.ring[x].next) = rank(x) + 1 \/
                   (rank(h.ring[x].next) = 0 /\ rank(x) = N - 1)
  BY <1>2, RankNext DEF D
<1> HIDE DEF rank
<1>5. T = {}
  <2> SUFFICES ASSUME T # {} PROVE FALSE OBVIOUS
  <2>1. T \in SUBSET Nat OBVIOUS
  <2> HIDE DEF T
  <2>2. PICK i \in T : \A j \in T : i <= j BY <2>1, Least
  <2>3. i \in 0 .. N /\ ~Turned(i) BY <2>2 DEF T
  <2>4. rank(s) \in 0 .. N - 1 BY <1>2, <1>3
  <2>5. i # 0 BY <1>1, <2>3, <2>4
  <2>6. i \in 1 .. N /\ i - 1 \in 0 .. N /\ i - 1 \notin T BY <1>1, <2>2, <2>3, <2>5
  <2>7. Turned(i - 1) BY <2>6 DEF T
  <2>8. at[i - 1] \in D /\ at[i] = h.ring[at[i - 1]].next BY <1>1, <2>6
  <2>9. rank(at[i]) = rank(at[i - 1]) + 1 \/ (rank(at[i]) = 0 /\ rank(at[i - 1]) = N - 1)
    BY <1>4, <2>8
  <2>10. rank(at[i - 1]) \in 0 .. N - 1 BY <1>3, <2>8
  <2> QED BY <1>1, <2>3, <2>4, <2>6, <2>7, <2>9, <2>10
<1>6. ASSUME NEW i \in 0 .. N PROVE at[i] \in D /\ Turned(i) BY <1>1, <1>5
<1>7. rank(b) \in 0 .. N - 1 /\ rank(s) \in 0 .. N - 1 /\ b \in D BY <1>2, <1>3 DEF D
<1>8. PICK i \in 0 .. N - 1 : i = rank(b) - rank(s) \/ i = rank(b) - rank(s) + N
  <2>1. CASE rank(b) >= rank(s)
    <3>1. rank(b) - rank(s) \in 0 .. N - 1 BY <1>1, <1>7, <2>1
    <3> QED BY <3>1
  <2>2. CASE rank(b) < rank(s)
    <3>1. rank(b) - rank(s) + N \in 0 .. N - 1 BY <1>1, <1>7, <2>2
    <3> QED BY <3>1
  <2> QED BY <1>7, <2>1, <2>2
<1>9. ASSUME NEW j \in 0 .. N, j = i \/ j = i + N PROVE at[j] = b
  <2>1. at[j] \in D /\ Turned(j) BY <1>6
  <2>2. rank(at[j]) \in 0 .. N - 1 BY <1>3, <2>1
  <2>3. rank(at[j]) = rank(b)
    <3>1. PICK x, y, z : x = rank(at[j]) /\ y = rank(b) /\ z = rank(s) OBVIOUS
    <3>2. x \in 0 .. N - 1 /\ y \in 0 .. N - 1 /\ z \in 0 .. N - 1 /\ N \in Nat
      BY <1>1, <1>7, <2>2, <3>1
    <3>3. x = z + j \/ x = z + j - N BY <2>1, <3>1
    <3>4. i = y - z \/ i = y - z + N BY <1>8, <3>1
    <3>5. i \in 0 .. N - 1 /\ j \in 0 .. N OBVIOUS
    <3>6. x = y
      <4>1. CASE j = i BY <3>2, <3>3, <3>4, <3>5, <4>1
      <4>2. CASE j = i + N BY <3>2, <3>3, <3>4, <3>5, <4>2
      <4> QED BY <1>9, <4>1, <4>2
    <3> QED BY <3>1, <3>6
  <2> QED BY <1>3, <1>7, <2>1, <2>3
<1>10. \E j \in 0 .. N - 1 : at[j] = b
  <2>1. i \in 0 .. N BY <1>1
  <2> QED BY <1>9, <2>1
<1>11. \E j \in 1 .. N : at[j] = b
  <2>1. CASE i # 0
    <3>1. i \in 1 .. N /\ i \in 0 .. N BY <1>1, <2>1
    <3> QED BY <1>9, <3>1
  <2>2. CASE i = 0
    <3>1. N \in 1 .. N /\ N \in 0 .. N /\ N = i + N BY <1>1, <2>2
    <3> QED BY <1>9, <3>1
  <2> QED BY <2>1, <2>2
<1> QED BY <1>10, <1>11 DEF at

----------------------------------------------------------------------------
(* slob_alloc                                                              *)

LEMMA OrderedIs ==
  ASSUME NEW h, Ordered(h)
  PROVE  LET D == DOMAIN h.ring IN
         /\ Arena \in D /\ Arena = -2 /\ h.ring[Arena].units = 1
         /\ \A b \in D : b \in Int /\ (b = Arena \/ b \in Nat)
         /\ \A b \in D : h.ring[b].units \in Nat \ {0}
         /\ \A b, c \in D : b < c => b + h.ring[b].units < c
BY DEF Ordered, Arena

LEMMA LinksIs ==
  ASSUME NEW h, Ordered(h)
  PROVE  LET D == DOMAIN h.ring IN
         /\ \A b \in D : h.ring[b].next \in D
         /\ \A b \in D : Follows(D, b, h.ring[b].next)
BY DEF Ordered

LEMMA RecordIs ==
  ASSUME NEW h, Ordered(h), NEW b \in DOMAIN h.ring
  PROVE  \E u \in Nat \ {0}, c \in DOMAIN h.ring : h.ring[b] = [units |-> u, next |-> c]
<1>1. h.ring[b] \in [units : Nat \ {0}, next : DOMAIN h.ring] BY DEF Ordered
<1> QED BY <1>1

LEMMA RestIs ==
  ASSUME NEW h, Ordered(h), NEW b \in DOMAIN h.ring, NEW n
  PROVE  Rest(h.ring[b], n) = [units |-> h.ring[b].units - n, next |-> h.ring[b].next]
<1>1. PICK u, c : h.ring[b] = [units |-> u, next |-> c] BY RecordIs
<1> QED BY <1>1 DEF Rest

Well(h, D) ==
  /\ DOMAIN h.ring = D /\ IsFiniteSet(D) /\ D \subseteq Nat \cup {Arena} /\ Arena \in D
  /\ h.ring \in [D -> [units : Nat \ {0}, next : D]]
  /\ h.slobfree \in D /\ h.ring[Arena].units = 1
  /\ \A b \in D : Follows(D, b, h.ring[b].next)
  /\ \A b, c \in D : b < c => b + h.ring[b].units < c

LEMMA WellOrdered ==
  ASSUME NEW h, NEW D, Well(h, D)
  PROVE  Ordered(h)
BY DEF Ordered, Well

\* The search ends at a block that is long enough, behind the one it comes from.
LEMMA FoundIs ==
  ASSUME NEW h, Ordered(h), NEW n, CanTake(h, n)
  PROVE  \E prev \in DOMAIN h.ring, cur \in DOMAIN h.ring :
           /\ cur = h.ring[prev].next /\ cur = Found(h, n) /\ h.ring[cur].units >= n
           /\ Taken(h, n) =
                [ring |-> IF h.ring[cur].units = n
                          THEN Link(Drop(h.ring, cur), prev, h.ring[cur].next)
                          ELSE Link(With(Drop(h.ring, cur), cur + n, Rest(h.ring[cur], n)),
                                    prev, cur + n),
                 slobfree |-> prev]
<1>1. PICK N : N = Cardinality(DOMAIN h.ring) OBVIOUS
<1>2. PICK i : i = Min(Candidates(h, n)) OBVIOUS
<1>3. /\ N \in Nat /\ Around(h) \in [0 .. N -> DOMAIN h.ring]
      /\ \A j \in 1 .. N : Around(h)[j] = h.ring[Around(h)[j - 1]].next
  BY <1>1, AroundIs
<1>4. i \in 1 .. N /\ h.ring[Around(h)[i]].units >= n
  <2>1. Candidates(h, n) \in SUBSET Nat BY <1>1, <1>3 DEF Candidates
  <2>2. i \in Candidates(h, n) BY <1>2, <2>1, MinIs DEF CanTake
  <2> QED BY <1>1, <2>2 DEF Candidates
<1>5. PICK prev, cur : prev = Around(h)[i - 1] /\ cur = Around(h)[i] OBVIOUS
<1>6. prev \in DOMAIN h.ring /\ cur \in DOMAIN h.ring /\ cur = h.ring[prev].next
  <2>1. i \in 0 .. N /\ i - 1 \in 0 .. N BY <1>3, <1>4
  <2> QED BY <1>3, <1>4, <1>5, <2>1
<1>7. cur = Found(h, n) BY <1>2, <1>5 DEF Found
<1>8. Taken(h, n) =
        [ring |-> IF h.ring[cur].units = n
                  THEN Link(Drop(h.ring, cur), prev, h.ring[cur].next)
                  ELSE Link(With(Drop(h.ring, cur), cur + n, Rest(h.ring[cur], n)),
                            prev, cur + n),
         slobfree |-> prev]
  <2>1. CASE h.ring[cur].units = n BY <1>2, <1>5, <2>1 DEF Taken
  <2>2. CASE h.ring[cur].units # n BY <1>2, <1>5, <2>2 DEF Taken
  <2> QED BY <2>1, <2>2
<1> QED BY <1>4, <1>5, <1>6, <1>7, <1>8

\* The blocks before and behind one that is taken
LEMMA BetweenIs ==
  ASSUME NEW h, Ordered(h), NEW prev \in DOMAIN h.ring, NEW cur \in DOMAIN h.ring,
         cur = h.ring[prev].next, cur # Arena
  PROVE  LET D == DOMAIN h.ring IN
         /\ cur \in Nat /\ prev < cur /\ \A x \in D : x <= prev \/ cur <= x
         /\ \A b \in D : b # prev => h.ring[b].next # cur
         /\ h.ring[cur].next # cur
<1> DEFINE D == DOMAIN h.ring
<1>1. /\ \A b \in D : b \in Int /\ (b = Arena \/ b \in Nat)
      /\ \A b \in D : h.ring[b].next \in D /\ Follows(D, b, h.ring[b].next)
  BY OrderedIs, LinksIs
<1>2. \A b \in D : h.ring[b].next = cur => cur > b /\ \A x \in D : x <= b \/ cur <= x
  BY <1>1 DEF Follows
<1>3. prev < cur /\ \A x \in D : x <= prev \/ cur <= x BY <1>1, <1>2
<1>4. ASSUME NEW b \in D, h.ring[b].next = cur PROVE b = prev
  <2>1. b < cur /\ (prev <= b \/ cur <= prev) BY <1>2, <1>4
  <2>2. b <= prev \/ cur <= b BY <1>3
  <2> QED BY <1>1, <1>3, <2>1, <2>2
<1>5. h.ring[cur].next # cur BY <1>1, <1>3, <1>4
<1> QED BY <1>1, <1>3, <1>4, <1>5

\* The ring r is that of h on the blocks of E, with prev linked to c.
Relinked(h, E, prev, c, r) ==
  /\ DOMAIN r = E /\ \E S : r \in [E -> S]
  /\ \A b \in E : r[b] = [units |-> h.ring[b].units,
                          next |-> IF b = prev THEN c ELSE h.ring[b].next]

LEMMA DropIs ==
  ASSUME NEW h, Ordered(h), NEW prev \in DOMAIN h.ring, NEW cur \in DOMAIN h.ring, prev # cur,
         NEW c, NEW r, r = Link(Drop(h.ring, cur), prev, c)
  PROVE  Relinked(h, DOMAIN h.ring \ {cur}, prev, c, r)
<1> DEFINE E == DOMAIN h.ring \ {cur}
<1>1. PICK o : o = Drop(h.ring, cur) OBVIOUS
<1>2. o = [b \in E |-> h.ring[b]] BY <1>1 DEF Drop
<1>3. r = [o EXCEPT ![prev].next = c] BY <1>1 DEF Link
<1>4. prev \in E OBVIOUS
<1>5. \A b \in E : b \in DOMAIN h.ring OBVIOUS
<1> HIDE DEF E
<1>6. r = [b \in E |-> IF b = prev THEN [h.ring[b] EXCEPT !.next = c] ELSE h.ring[b]]
  BY <1>2, <1>3, <1>4
<1>7. ASSUME NEW b \in E
      PROVE  r[b] = [units |-> h.ring[b].units, next |-> IF b = prev THEN c ELSE h.ring[b].next]
  <2>1. PICK u, x : h.ring[b] = [units |-> u, next |-> x] BY <1>5, RecordIs
  <2>2. CASE b = prev BY <1>6, <2>1, <2>2
  <2>3. CASE b # prev BY <1>6, <2>1, <2>3
  <2> QED BY <2>2, <2>3
<1>8. DOMAIN r = E /\ \E S : r \in [E -> S]
  <2>1. r = [b \in E |-> r[b]] BY <1>6
  <2>2. r \in [E -> {r[b] : b \in E}] BY <2>1
  <2> QED BY <2>2
<1>9. Relinked(h, E, prev, c, r) BY <1>7, <1>8 DEF Relinked
<1> QED BY <1>9 DEF E

LEMMA FollowsAfter ==
  ASSUME NEW D, NEW cur \in D, NEW prev \in D, NEW c \in D, \A x \in D : x \in Int,
         cur # Arena, Follows(D, prev, cur), Follows(D, cur, c)
  PROVE  Follows(D \ {cur}, prev, c)
<1>1. prev < cur /\ \A x \in D : x <= prev \/ cur <= x BY DEF Follows
<1>2. \A x \in D \ {cur} : x \in D /\ x # cur OBVIOUS
<1>3. CASE c > cur /\ \A x \in D : x <= cur \/ c <= x
  <2>1. c > prev BY <1>1, <1>3
  <2>2. ASSUME NEW x \in D \ {cur} PROVE x <= prev \/ c <= x BY <1>1, <1>2, <1>3
  <2> QED BY <2>1, <2>2 DEF Follows
<1>4. CASE c = Arena /\ \A x \in D : x <= cur
  <2>1. ASSUME NEW x \in D \ {cur} PROVE x <= prev BY <1>1, <1>2, <1>4
  <2> QED BY <1>4, <2>1 DEF Follows
<1> QED BY <1>3, <1>4 DEF Follows

LEMMA FollowsIn ==
  ASSUME NEW D, NEW E, \A x \in E : x \in D, NEW b, NEW c, Follows(D, b, c)
  PROVE  Follows(E, b, c)
BY DEF Follows

\* The block cur, which prev links, goes.
Drops(h, prev, cur, g) ==
  /\ prev \in DOMAIN h.ring /\ cur \in DOMAIN h.ring /\ cur = h.ring[prev].next /\ cur # Arena
  /\ g.ring = Link(Drop(h.ring, cur), prev, h.ring[cur].next) /\ g.slobfree = prev

IsDropped(h, cur, g) ==
  /\ Ordered(g) /\ DOMAIN g.ring = DOMAIN h.ring \ {cur}
  /\ \A b \in DOMAIN g.ring : g.ring[b].units = h.ring[b].units

LEMMA DropKeepsOrder ==
  ASSUME NEW h, Ordered(h), NEW prev, NEW cur, NEW g, Drops(h, prev, cur, g)
  PROVE  IsDropped(h, cur, g)
<1> DEFINE D == DOMAIN h.ring
           E == D \ {cur}
<1>10. cur \in D /\ prev \in D /\ cur = h.ring[prev].next /\ cur # Arena BY DEF Drops
<1>1. Arena \in D /\ h.ring[Arena].units = 1 BY OrderedIs
<1>2. \A b \in D : b \in Int /\ (b = Arena \/ b \in Nat) BY OrderedIs
<1>3. \A b \in D : h.ring[b].units \in Nat \ {0} BY OrderedIs
<1>4. \A b \in D : h.ring[b].next \in D BY LinksIs
<1>5. \A b \in D : Follows(D, b, h.ring[b].next) BY LinksIs
<1>6. \A b, c \in D : b < c => b + h.ring[b].units < c BY OrderedIs
<1>7. prev # cur
  <2>1. prev < cur /\ prev \in Int BY <1>2, <1>10, BetweenIs
  <2> QED BY <2>1
<1>8. /\ h.ring[cur].next # cur
      /\ \A b \in D : b # prev => h.ring[b].next # cur
  BY <1>10, BetweenIs
<1>9. /\ DOMAIN g.ring = E /\ \E S : g.ring \in [E -> S]
      /\ \A b \in E : g.ring[b] = [units |-> h.ring[b].units,
                                   next |-> IF b = prev THEN h.ring[cur].next ELSE h.ring[b].next]
  <2>1. PICK c : c = h.ring[cur].next OBVIOUS
  <2>2. g.ring = Link(Drop(h.ring, cur), prev, c) BY <2>1 DEF Drops
  <2>3. Relinked(h, E, prev, c, g.ring) BY <1>7, <1>10, <2>2, DropIs
  <2> QED BY <2>1, <2>3 DEF Relinked
<1>11. \A x : x \in E <=> x \in D /\ x # cur OBVIOUS
<1> HIDE DEF D, E
<1>12. ASSUME NEW b \in E
       PROVE  /\ g.ring[b].units = h.ring[b].units
              /\ g.ring[b].next = IF b = prev THEN h.ring[cur].next ELSE h.ring[b].next
  <2>1. PICK u, c : /\ g.ring[b] = [units |-> u, next |-> c] /\ u = h.ring[b].units
                    /\ c = IF b = prev THEN h.ring[cur].next ELSE h.ring[b].next
    BY <1>9
  <2> QED BY <2>1
<1>13. ASSUME NEW b \in E PROVE g.ring[b].next \in E
  <2>1. CASE b = prev BY <1>4, <1>8, <1>10, <1>11, <1>12, <2>1
  <2>2. CASE b # prev
    <3>1. b \in D /\ g.ring[b].next = h.ring[b].next BY <1>11, <1>12, <2>2
    <3>2. h.ring[b].next \in D /\ h.ring[b].next # cur BY <1>4, <1>8, <2>2, <3>1
    <3> QED BY <1>11, <3>1, <3>2
  <2> QED BY <2>1, <2>2
<1>14. ASSUME NEW b \in E PROVE Follows(E, b, g.ring[b].next)
  <2>1. CASE b = prev
    <3>1. Follows(D, prev, cur) /\ Follows(D, cur, h.ring[cur].next) BY <1>5, <1>10
    <3>2. h.ring[cur].next \in D BY <1>4, <1>10
    <3>3. Follows(D \ {cur}, prev, h.ring[cur].next) BY <1>2, <1>10, <3>1, <3>2, FollowsAfter
    <3> QED BY <1>12, <2>1, <3>3 DEF E
  <2>2. CASE b # prev
    <3>1. b \in D /\ \A x \in E : x \in D BY <1>11
    <3>2. Follows(E, b, h.ring[b].next) BY <1>5, <3>1, FollowsIn
    <3> QED BY <1>12, <2>2, <3>2
  <2> QED BY <2>1, <2>2
<1>15. IsFiniteSet(E)
  <2>1. IsFiniteSet(DOMAIN h.ring) /\ E \subseteq DOMAIN h.ring BY DEF Ordered, E, D
  <2> QED BY <2>1, FS_Subset
<1>16. g.ring \in [E -> [units : Nat \ {0}, next : E]]
  <2>1. ASSUME NEW b \in E PROVE g.ring[b] \in [units : Nat \ {0}, next : E]
    <3>1. \E c : g.ring[b] = [units |-> h.ring[b].units, next |-> c] BY <1>9
    <3>2. h.ring[b].units \in Nat \ {0} /\ g.ring[b].next \in E BY <1>3, <1>11, <1>13
    <3> QED BY <3>1, <3>2
  <2> QED BY <1>9, <2>1
<1>17. Ordered(g)
  <2>1. E \subseteq Nat \cup {Arena} BY <1>2, <1>11
  <2>2. \A b, c \in E : b < c => b + g.ring[b].units < c BY <1>6, <1>11, <1>12
  <2>3. Arena \in E BY <1>1, <1>10, <1>11
  <2>4. g.ring[Arena].units = 1 BY <1>1, <1>12, <2>3
  <2>5. prev \in E BY <1>7, <1>10, <1>11
  <2>6. DOMAIN g.ring = E /\ g.slobfree = prev BY <1>9 DEF Drops
  <2>7. Well(g, E) BY <1>14, <1>15, <1>16, <2>1, <2>2, <2>3, <2>4, <2>5, <2>6 DEF Well
  <2> QED BY <2>7, WellOrdered
<1> QED BY <1>9, <1>12, <1>17 DEF D, E, IsDropped

\* The ring r is that of h on the blocks of E, with prev linked to one more, b.
Inserted(h, E, prev, b, block, r) ==
  /\ DOMAIN r = E \cup {b} /\ \E S : r \in [E \cup {b} -> S]
  /\ r[b] = block
  /\ \A x \in E : r[x] = [units |-> h.ring[x].units,
                          next |-> IF x = prev THEN b ELSE h.ring[x].next]

LEMMA InsertIs ==
  ASSUME NEW h, Ordered(h), NEW E, E \subseteq DOMAIN h.ring, NEW prev \in E, NEW b, b \notin E,
         NEW block, NEW o, o = [x \in E |-> h.ring[x]],
         NEW r, r = Link(With(o, b, block), prev, b)
  PROVE  Inserted(h, E, prev, b, block, r)
<1>1. PICK p : p = With(o, b, block) OBVIOUS
<1>2. p = [x \in E \cup {b} |-> IF x = b THEN block ELSE h.ring[x]] BY <1>1 DEF With
<1>3. r = [p EXCEPT ![prev].next = b] BY <1>1 DEF Link
<1>4. prev # b /\ prev \in E \cup {b} OBVIOUS
<1>5. r = [x \in E \cup {b} |-> IF x = prev THEN [h.ring[x] EXCEPT !.next = b]
                                ELSE IF x = b THEN block ELSE h.ring[x]]
  BY <1>2, <1>3, <1>4
<1>6. ASSUME NEW x \in E
      PROVE  r[x] = [units |-> h.ring[x].units, next |-> IF x = prev THEN b ELSE h.ring[x].next]
  <2>1. PICK u, c : h.ring[x] = [units |-> u, next |-> c] BY RecordIs
  <2>2. x # b /\ x \in E \cup {b} OBVIOUS
  <2>3. CASE x = prev BY <1>5, <2>1, <2>2, <2>3
  <2>4. CASE x # prev BY <1>5, <2>1, <2>2, <2>4
  <2> QED BY <2>3, <2>4
<1>7. r[b] = block BY <1>4, <1>5
<1>8. DOMAIN r = E \cup {b} /\ \E S : r \in [E \cup {b} -> S]
  <2>1. r = [x \in E \cup {b} |-> r[x]] BY <1>5
  <2>2. r \in [E \cup {b} -> {r[x] : x \in E \cup {b}}] BY <2>1
  <2> QED BY <2>2
<1> QED BY <1>6, <1>7, <1>8 DEF Inserted

LEMMA FollowsRest ==
  ASSUME NEW D, NEW prev \in D, NEW cur \in D, NEW c \in D, \A x \in D : x \in Int,
         Arena \in Int, cur # Arena, Follows(D, prev, cur), Follows(D, cur, c),
         NEW rest \in Int, cur < rest, \A x \in D : cur < x => rest < x
  PROVE  LET E == (D \ {cur}) \cup {rest} IN
         /\ Follows(E, prev, rest) /\ Follows(E, rest, c)
         /\ \A b \in D, x \in D : Follows(D, b, x) /\ b # cur /\ x # cur => Follows(E, b, x)
<1> DEFINE E == (D \ {cur}) \cup {rest}
<1>1. prev < cur /\ \A x \in D : x <= prev \/ cur <= x BY DEF Follows
<1>2. \A x \in E : x = rest \/ (x \in D /\ x # cur) OBVIOUS
<1> HIDE DEF E
<1>3. Follows(E, prev, rest)
  <2>1. rest > prev BY <1>1
  <2>2. ASSUME NEW x \in E PROVE x <= prev \/ rest <= x BY <1>1, <1>2
  <2> QED BY <2>1, <2>2 DEF Follows
<1>4. Follows(E, rest, c)
  <2>1. CASE c > cur /\ \A x \in D : x <= cur \/ c <= x
    <3>1. c > rest BY <2>1
    <3>2. ASSUME NEW x \in E PROVE x <= rest \/ c <= x BY <1>2, <2>1
    <3> QED BY <3>1, <3>2 DEF Follows
  <2>2. CASE c = Arena /\ \A x \in D : x <= cur
    <3>1. ASSUME NEW x \in E PROVE x <= rest
      <4>1. CASE x = rest BY <4>1
      <4>2. CASE x \in D
        <5>1. x \in Int /\ cur \in Int /\ x <= cur BY <2>2, <4>2
        <5> QED BY <5>1
      <4> QED BY <1>2, <4>1, <4>2
    <3> QED BY <2>2, <3>1 DEF Follows
  <2> QED BY <2>1, <2>2 DEF Follows
<1>5. ASSUME NEW b \in D, NEW y \in D, Follows(D, b, y), b # cur, y # cur
      PROVE  Follows(E, b, y)
  <2>1. CASE y > b /\ \A x \in D : x <= b \/ y <= x
    <3>1. cur < b \/ y < cur BY <1>5, <2>1
    <3>2. rest <= b \/ y <= rest BY <3>1
    <3>3. ASSUME NEW x \in E PROVE x <= b \/ y <= x BY <1>2, <2>1, <3>2
    <3> QED BY <2>1, <3>3 DEF Follows
  <2>2. CASE y = Arena /\ \A x \in D : x <= b
    <3>1. rest <= b BY <1>5, <2>2
    <3>2. ASSUME NEW x \in E PROVE x <= b BY <1>2, <2>2, <3>1
    <3> QED BY <2>2, <3>2 DEF Follows
  <2> QED BY <1>5, <2>1, <2>2 DEF Follows
<1> QED BY <1>3, <1>4, <1>5 DEF E

\* The front of a block is taken.
Splits(h, prev, cur, n, g) ==
  /\ prev \in DOMAIN h.ring /\ cur \in DOMAIN h.ring /\ cur = h.ring[prev].next /\ cur # Arena
  /\ n \in Nat \ {0} /\ n < h.ring[cur].units
  /\ g.ring = Link(With(Drop(h.ring, cur), cur + n, Rest(h.ring[cur], n)), prev, cur + n)
  /\ g.slobfree = prev

IsSplit(h, cur, n, g) ==
  /\ Ordered(g) /\ cur + n \notin DOMAIN h.ring
  /\ DOMAIN g.ring = (DOMAIN h.ring \ {cur}) \cup {cur + n}
  /\ g.ring[cur + n].units = h.ring[cur].units - n
  /\ \A b \in DOMAIN h.ring \ {cur} : g.ring[b].units = h.ring[b].units

LEMMA SplitKeepsOrder ==
  ASSUME NEW h, Ordered(h), NEW prev, NEW cur, NEW n, NEW g, Splits(h, prev, cur, n, g)
  PROVE  IsSplit(h, cur, n, g)
<1> DEFINE D == DOMAIN h.ring
           E == D \ {cur}
           F == E \cup {cur + n}
<1>9. cur \in D /\ prev \in D /\ cur = h.ring[prev].next /\ cur # Arena BY DEF Splits
<1>26. n \in Nat \ {0} /\ n < h.ring[cur].units BY DEF Splits
<1>1. Arena \in D /\ Arena = -2 /\ h.ring[Arena].units = 1 BY OrderedIs
<1>2. \A b \in D : b \in Int /\ (b = Arena \/ b \in Nat) BY OrderedIs
<1>3. \A b \in D : h.ring[b].units \in Nat \ {0} BY OrderedIs
<1>4. \A b \in D : h.ring[b].next \in D BY LinksIs
<1>5. \A b \in D : Follows(D, b, h.ring[b].next) BY LinksIs
<1>6. \A b, c \in D : b < c => b + h.ring[b].units < c BY OrderedIs
<1>7. prev # cur
  <2>1. prev < cur /\ prev \in Int BY <1>2, <1>9, BetweenIs
  <2> QED BY <2>1
<1>8. /\ h.ring[cur].next # cur /\ cur \in Nat
      /\ \A b \in D : b # prev => h.ring[b].next # cur
  BY <1>9, BetweenIs
<1>10. PICK rest, u : rest = cur + n /\ u = h.ring[cur].units OBVIOUS
<1>11. u \in Nat /\ rest \in Nat /\ cur < rest /\ rest < cur + u
  BY <1>3, <1>8, <1>9, <1>10, <1>26
<1>12. \A x \in D : cur < x => cur + u < x BY <1>6, <1>9, <1>10
<1>13. rest \notin D
  <2>1. rest \in D => cur + u < rest BY <1>11, <1>12
  <2>2. cur \in Nat BY <1>8
  <2> QED BY <1>11, <2>1, <2>2
<1>14. Inserted(h, E, prev, rest, [units |-> u - n, next |-> h.ring[cur].next], g.ring)
  <2>1. PICK o : o = Drop(h.ring, cur) OBVIOUS
  <2>2. o = [b \in E |-> h.ring[b]] BY <2>1 DEF Drop
  <2>3. PICK block : block = Rest(h.ring[cur], n) OBVIOUS
  <2>4. block = [units |-> u - n, next |-> h.ring[cur].next] BY <1>9, <1>10, <2>3, RestIs
  <2>5. g.ring = Link(With(o, rest, block), prev, rest) BY <1>10, <2>1, <2>3 DEF Splits
  <2>6. E \subseteq DOMAIN h.ring /\ prev \in E /\ rest \notin E BY <1>7, <1>9, <1>13
  <2> HIDE DEF E
  <2>7. Inserted(h, E, prev, rest, block, g.ring) BY <2>2, <2>5, <2>6, InsertIs
  <2> QED BY <2>4, <2>7
<1>15. /\ \A x : x \in E <=> x \in D /\ x # cur
       /\ \A x : x \in F <=> x \in E \/ x = rest
  BY <1>10
<1> HIDE DEF D, E, F
<1>16. DOMAIN g.ring = F /\ \E S : g.ring \in [F -> S] BY <1>10, <1>14 DEF Inserted, F
<1>17. /\ g.ring[rest] = [units |-> u - n, next |-> h.ring[cur].next]
       /\ g.ring[rest].units = u - n /\ g.ring[rest].next = h.ring[cur].next
  BY <1>14 DEF Inserted
<1>18. ASSUME NEW b \in E
       PROVE  /\ \E c : g.ring[b] = [units |-> h.ring[b].units, next |-> c]
              /\ g.ring[b].units = h.ring[b].units
              /\ g.ring[b].next = IF b = prev THEN rest ELSE h.ring[b].next
  <2>1. PICK v, c : /\ g.ring[b] = [units |-> v, next |-> c] /\ v = h.ring[b].units
                    /\ c = IF b = prev THEN rest ELSE h.ring[b].next
    BY <1>14 DEF Inserted
  <2>2. g.ring[b].units = v /\ g.ring[b].next = c BY <2>1
  <2> QED BY <2>1, <2>2
<1>19. ASSUME NEW b \in F PROVE g.ring[b].next \in F
  <2>1. CASE b = rest BY <1>4, <1>8, <1>9, <1>15, <1>17, <2>1
  <2>2. CASE b \in E /\ b = prev BY <1>15, <1>18, <2>2
  <2>3. CASE b \in E /\ b # prev
    <3>1. b \in D /\ g.ring[b].next = h.ring[b].next BY <1>15, <1>18, <2>3
    <3>2. h.ring[b].next \in D /\ h.ring[b].next # cur BY <1>4, <1>8, <2>3, <3>1
    <3> QED BY <1>15, <3>1, <3>2
  <2> QED BY <1>15, <2>1, <2>2, <2>3
<1>20. /\ Follows(F, prev, rest) /\ Follows(F, rest, h.ring[cur].next)
       /\ \A b \in D, x \in D : Follows(D, b, x) /\ b # cur /\ x # cur => Follows(F, b, x)
  <2>1. Follows(D, prev, cur) /\ Follows(D, cur, h.ring[cur].next) BY <1>5, <1>9
  <2>2. h.ring[cur].next \in D BY <1>4, <1>9
  <2>3. Arena \in Int /\ rest \in Int /\ \A x \in D : x \in Int BY <1>1, <1>2, <1>11
  <2>4. \A x \in D : cur < x => rest < x BY <1>8, <1>11, <1>12, <2>3
  <2>5. F = (D \ {cur}) \cup {rest} BY <1>10 DEF E, F
  <2>6. PICK c : c = h.ring[cur].next OBVIOUS
  <2>7. c \in D /\ Follows(D, cur, c) BY <2>1, <2>2, <2>6
  <2>8. LET X == (D \ {cur}) \cup {rest} IN
        /\ Follows(X, prev, rest) /\ Follows(X, rest, c)
        /\ \A b \in D, x \in D : Follows(D, b, x) /\ b # cur /\ x # cur => Follows(X, b, x)
    BY <1>9, <1>11, <2>1, <2>3, <2>4, <2>7, FollowsRest
  <2> QED BY <2>5, <2>6, <2>8
<1>21. ASSUME NEW b \in F PROVE Follows(F, b, g.ring[b].next)
  <2>1. CASE b = rest BY <1>17, <1>20, <2>1
  <2>2. CASE b \in E /\ b = prev BY <1>18, <1>20, <2>2
  <2>3. CASE b \in E /\ b # prev
    <3>1. b \in D /\ b # cur /\ g.ring[b].next = h.ring[b].next BY <1>15, <1>18, <2>3
    <3>2. /\ h.ring[b].next \in D /\ h.ring[b].next # cur /\ Follows(D, b, h.ring[b].next)
      BY <1>4, <1>5, <1>8, <2>3, <3>1
    <3> QED BY <1>20, <3>1, <3>2
  <2> QED BY <1>15, <2>1, <2>2, <2>3
<1>22. IsFiniteSet(F)
  <2>1. IsFiniteSet(DOMAIN h.ring) /\ E \subseteq DOMAIN h.ring BY DEF Ordered, E, D
  <2>2. IsFiniteSet(E) BY <2>1, FS_Subset
  <2> QED BY <2>2, FS_AddElement DEF F
<1>23. g.ring \in [F -> [units : Nat \ {0}, next : F]]
  <2>1. ASSUME NEW b \in F PROVE g.ring[b] \in [units : Nat \ {0}, next : F]
    <3>1. g.ring[b].next \in F BY <1>19
    <3>2. CASE b = rest
      <4>1. u - n \in Nat \ {0} BY <1>10, <1>11, <1>26
      <4> QED BY <1>17, <3>1, <3>2, <4>1
    <3>3. CASE b \in E
      <4>1. PICK c : g.ring[b] = [units |-> h.ring[b].units, next |-> c] BY <1>18, <3>3
      <4>2. c \in F BY <3>1, <4>1
      <4>3. h.ring[b].units \in Nat \ {0} BY <1>3, <1>15, <3>3
      <4> QED BY <4>1, <4>2, <4>3
    <3> QED BY <1>15, <3>2, <3>3
  <2> QED BY <1>16, <2>1
<1>24. ASSUME NEW b \in F, NEW c \in F, b < c PROVE b + g.ring[b].units < c
  <2>1. CASE b \in E /\ c \in E
    <3>1. b \in D /\ c \in D /\ g.ring[b].units = h.ring[b].units BY <1>15, <1>18, <2>1
    <3> QED BY <1>6, <1>24, <3>1
  <2>2. CASE b = rest /\ c \in E
    <3>1. c \in D /\ c \in Int BY <1>2, <1>15, <2>2
    <3>2. cur + u < c BY <1>8, <1>11, <1>12, <1>24, <2>2, <3>1
    <3>3. b + g.ring[b].units = cur + u BY <1>8, <1>10, <1>11, <1>17, <1>26, <2>2
    <3> QED BY <3>2, <3>3
  <2>3. CASE b \in E /\ c = rest
    <3>1. b \in D /\ b \in Int /\ b # cur /\ g.ring[b].units = h.ring[b].units
      BY <1>2, <1>15, <1>18, <2>3
    <3>2. h.ring[b].units \in Nat BY <1>3, <3>1
    <3>3. b < cur
      <4>1. ~(cur < b) BY <1>8, <1>11, <1>12, <1>24, <2>3, <3>1
      <4> QED BY <1>8, <3>1, <4>1
    <3>4. b + h.ring[b].units < cur BY <1>6, <1>9, <3>1, <3>3
    <3> QED BY <1>8, <1>11, <2>3, <3>1, <3>2, <3>4
  <2>4. CASE b = rest /\ c = rest BY <1>11, <1>24, <2>4
  <2> QED BY <1>15, <2>1, <2>2, <2>3, <2>4
<1>25. Ordered(g)
  <2>1. F \subseteq Nat \cup {Arena} BY <1>2, <1>11, <1>15
  <2>2. Arena \in E /\ Arena \in F BY <1>1, <1>9, <1>15
  <2>3. g.ring[Arena].units = 1 BY <1>1, <1>18, <2>2
  <2>4. prev \in F BY <1>7, <1>9, <1>15
  <2>5. g.slobfree = prev BY DEF Splits
  <2>6. DOMAIN g.ring = F /\ g.slobfree \in F BY <1>16, <2>4, <2>5
  <2>7. \A b \in F : Follows(F, b, g.ring[b].next) BY <1>21
  <2>8. \A b, c \in F : b < c => b + g.ring[b].units < c BY <1>24
  <2>9. Well(g, F) BY <1>22, <1>23, <2>1, <2>2, <2>3, <2>6, <2>7, <2>8 DEF Well
  <2> QED BY <2>9, WellOrdered
<1> QED BY <1>10, <1>13, <1>16, <1>17, <1>18, <1>25 DEF D, E, F, IsSplit

\* The units that are free: the arena's own is none of them.
FreeArea(h) == UNION {Reach(b, h.ring[b].units) : b \in DOMAIN h.ring \ {Arena}}
Covers(h, b, x) == b \in DOMAIN h.ring /\ b # Arena /\ x \in Reach(b, h.ring[b].units)

LEMMA AreaIs ==
  ASSUME NEW h, NEW x
  PROVE  x \in FreeArea(h) <=> \E b : Covers(h, b, x)
BY DEF FreeArea, Covers

LEMMA CoveredOnce ==
  ASSUME NEW h, Ordered(h), NEW b, NEW c, NEW x, Covers(h, b, x), Covers(h, c, x)
  PROVE  b = c
<1>1. /\ b \in DOMAIN h.ring /\ c \in DOMAIN h.ring /\ x \in Int
      /\ b <= x /\ x < b + h.ring[b].units /\ c <= x /\ x < c + h.ring[c].units
  <2>1. b \in Int /\ h.ring[b].units \in Nat /\ c \in Int /\ h.ring[c].units \in Nat
    BY OrderedIs DEF Covers
  <2> QED BY <2>1 DEF Covers, Reach
<1>2. b \in Int /\ c \in Int /\ h.ring[b].units \in Nat /\ h.ring[c].units \in Nat
  BY <1>1, OrderedIs
<1>3. ~(b < c)
  <2>1. b < c => b + h.ring[b].units < c BY <1>1, OrderedIs
  <2> QED BY <1>1, <1>2, <2>1
<1>4. ~(c < b)
  <2>1. c < b => c + h.ring[c].units < b BY <1>1, OrderedIs
  <2> QED BY <1>1, <1>2, <2>1
<1> QED BY <1>2, <1>3, <1>4

\* What slob_alloc takes out of the ring was free, and is no more.
LEMMA TakenKeeps ==
  ASSUME NEW h, Ordered(h), NEW n \in Nat, n >= 2, CanTake(h, n)
  PROVE  /\ Ordered(Taken(h, n)) /\ Found(h, n) \in Nat
         /\ Reach(Found(h, n), n) \subseteq FreeArea(h)
         /\ FreeArea(Taken(h, n)) = FreeArea(h) \ Reach(Found(h, n), n)
<1>1. PICK prev \in DOMAIN h.ring, cur \in DOMAIN h.ring :
        /\ cur = h.ring[prev].next /\ cur = Found(h, n) /\ h.ring[cur].units >= n
        /\ Taken(h, n) =
             [ring |-> IF h.ring[cur].units = n
                       THEN Link(Drop(h.ring, cur), prev, h.ring[cur].next)
                       ELSE Link(With(Drop(h.ring, cur), cur + n, Rest(h.ring[cur], n)),
                                 prev, cur + n),
              slobfree |-> prev]
  BY FoundIs
<1>2. PICK g, u : g = Taken(h, n) /\ u = h.ring[cur].units OBVIOUS
<1>3. u \in Nat /\ u >= n BY <1>1, <1>2, OrderedIs
<1>4. cur # Arena /\ cur \in Nat
  <2>1. cur # Arena
    <3>1. h.ring[Arena].units = 1 BY OrderedIs
    <3> QED BY <1>2, <1>3, <3>1
  <2> QED BY <2>1, OrderedIs
<1>5. /\ Ordered(g)
      /\ DOMAIN g.ring = (DOMAIN h.ring \ {cur}) \cup (IF u = n THEN {} ELSE {cur + n})
      /\ u # n => cur + n \notin DOMAIN h.ring /\ g.ring[cur + n].units = u - n
      /\ \A b \in DOMAIN h.ring \ {cur} : g.ring[b].units = h.ring[b].units
  <2>3. cur = h.ring[prev].next BY <1>1
  <2>1. CASE u = n
    <3>1. g.ring = Link(Drop(h.ring, cur), prev, h.ring[cur].next) /\ g.slobfree = prev
      BY <1>1, <1>2, <2>1
    <3>2. Drops(h, prev, cur, g) BY <1>4, <2>3, <3>1 DEF Drops
    <3>3. IsDropped(h, cur, g) BY <3>2, DropKeepsOrder
    <3> QED BY <2>1, <3>3 DEF IsDropped
  <2>2. CASE u # n
    <3>1. /\ g.ring = Link(With(Drop(h.ring, cur), cur + n, Rest(h.ring[cur], n)), prev, cur + n)
          /\ g.slobfree = prev
      BY <1>1, <1>2, <2>2
    <3>2. n \in Nat \ {0} /\ n < h.ring[cur].units BY <1>2, <1>3, <2>2
    <3>3. Splits(h, prev, cur, n, g) BY <1>4, <2>3, <3>1, <3>2 DEF Splits
    <3>4. IsSplit(h, cur, n, g) BY <3>3, SplitKeepsOrder
    <3> QED BY <1>2, <2>2, <3>4 DEF IsSplit
  <2> QED BY <2>1, <2>2
<1>6. Reach(cur, n) \subseteq FreeArea(h)
  <2>1. ASSUME NEW x \in Reach(cur, n) PROVE Covers(h, cur, x)
    BY <1>2, <1>3, <1>4 DEF Covers, Reach
  <2> QED BY <2>1, AreaIs
<1>7. ASSUME NEW x \in FreeArea(h), x \notin Reach(cur, n) PROVE x \in FreeArea(g)
  <2>1. PICK b : Covers(h, b, x) BY AreaIs
  <2>2. CASE b # cur
    <3>1. Covers(g, b, x) BY <1>5, <2>1, <2>2 DEF Covers
    <3> QED BY <3>1, AreaIs
  <2>3. CASE b = cur
    <3>1. x \in cur .. cur + u - 1 /\ x \notin cur .. cur + n - 1
      BY <1>2, <1>7, <2>1, <2>3 DEF Covers, Reach
    <3>2. u # n /\ x \in cur + n .. (cur + n) + (u - n) - 1 BY <1>3, <1>4, <3>1
    <3>3. cur + n # Arena BY <1>4 DEF Arena
    <3>4. Covers(g, cur + n, x) BY <1>5, <3>2, <3>3 DEF Covers, Reach
    <3> QED BY <3>4, AreaIs
  <2> QED BY <2>2, <2>3
<1>8. ASSUME NEW x \in FreeArea(g) PROVE x \in FreeArea(h) /\ x \notin Reach(cur, n)
  <2>1. PICK b : Covers(g, b, x) BY AreaIs
  <2>2. CASE b \in DOMAIN h.ring \ {cur}
    <3>1. Covers(h, b, x) BY <1>5, <2>1, <2>2 DEF Covers
    <3>2. x \in Reach(cur, n) => Covers(h, cur, x) BY <1>2, <1>3, <1>4 DEF Covers, Reach
    <3>3. x \notin Reach(cur, n) BY <2>2, <3>1, <3>2, CoveredOnce
    <3> QED BY <3>1, <3>3, AreaIs
  <2>3. CASE b = cur + n /\ u # n
    <3>1. x \in cur + n .. (cur + n) + (u - n) - 1
      BY <1>5, <2>1, <2>3 DEF Covers, Reach
    <3>2. x \in cur .. cur + u - 1 /\ x \notin cur .. cur + n - 1 BY <1>3, <1>4, <3>1
    <3>3. Covers(h, cur, x) BY <1>2, <1>4, <3>2 DEF Covers, Reach
    <3> QED BY <3>2, <3>3, AreaIs DEF Reach
  <2>4. b \in DOMAIN g.ring BY <2>1 DEF Covers
  <2> QED BY <1>5, <2>2, <2>3, <2>4
<1>9. FreeArea(g) = FreeArea(h) \ Reach(cur, n) BY <1>7, <1>8
<1> QED BY <1>1, <1>2, <1>4, <1>5, <1>6, <1>9

\* A block that is long enough is found.
LEMMA CanTakeIf ==
  ASSUME NEW h, Ordered(h), NEW b \in DOMAIN h.ring, NEW n, h.ring[b].units >= n
  PROVE  CanTake(h, n)
<1>1. PICK N : N = Cardinality(DOMAIN h.ring) OBVIOUS
<1>2. PICK i \in 1 .. N : Around(h)[i] = b BY <1>1, AroundAll
<1> QED BY <1>1, <1>2 DEF CanTake, Candidates

----------------------------------------------------------------------------
(* slob_free                                                               *)

Apart(h, b, n) == Reach(b, n) \cap FreeArea(h) = {}

\* A block of n units at b lies behind cur and before what cur links.
Sits(h, cur, b, n) ==
  LET D == DOMAIN h.ring
      next == h.ring[cur].next
  IN /\ cur \in D /\ cur < b /\ cur + h.ring[cur].units <= b
     /\ \/ next > cur /\ b + n <= next /\ \A x \in D : x <= cur \/ next <= x
        \/ next = Arena /\ \A x \in D : x <= cur

LEMMA StartsFree ==
  ASSUME NEW h, Ordered(h), NEW c \in DOMAIN h.ring, c # Arena
  PROVE  c \in FreeArea(h)
<1>1. c \in Nat /\ h.ring[c].units \in Nat \ {0} BY OrderedIs
<1>2. Covers(h, c, c) BY <1>1 DEF Covers, Reach
<1> QED BY <1>2, AreaIs

LEMMA PrecedesIs ==
  ASSUME NEW h, Ordered(h), NEW b \in Nat, NEW n \in Nat \ {0}, Apart(h, b, n),
         NEW cur \in DOMAIN h.ring
  PROVE  Precedes(h, cur, b) => Sits(h, cur, b, n)
<1> DEFINE D == DOMAIN h.ring
<1> SUFFICES ASSUME Precedes(h, cur, b) PROVE Sits(h, cur, b, n) OBVIOUS
<1>1. PICK u, next : u = h.ring[cur].units /\ next = h.ring[cur].next OBVIOUS
<1>2. Follows(D, cur, next) /\ next \in D BY <1>1, LinksIs
<1>3. /\ Arena = -2 /\ cur \in Int /\ (cur = Arena \/ cur \in Nat)
      /\ next \in Int /\ (next = Arena \/ next \in Nat) /\ u \in Nat \ {0}
  BY <1>1, <1>2, OrderedIs
<1>4. (cur < b /\ b < next) \/ (cur >= next /\ (b > cur \/ b < next)) BY <1>1 DEF Precedes
<1>5. cur < b /\ ((next > cur /\ b < next /\ \A x \in D : x <= cur \/ next <= x)
                  \/ (next = Arena /\ \A x \in D : x <= cur))
  BY <1>2, <1>3, <1>4 DEF Follows
<1>6. cur + u <= b
  <2>1. CASE cur = Arena
    <3>1. u = 1 BY <1>1, <2>1, OrderedIs
    <3> QED BY <1>3, <2>1, <3>1
  <2>2. CASE cur # Arena
    <3> SUFFICES ASSUME ~(cur + u <= b) PROVE FALSE OBVIOUS
    <3>1. b \in cur .. cur + u - 1 BY <1>3, <1>5
    <3>2. Covers(h, cur, b) BY <1>1, <2>2, <3>1 DEF Covers, Reach
    <3>3. b \in FreeArea(h) BY <3>2, AreaIs
    <3>4. b \in Reach(b, n) BY DEF Reach
    <3> QED BY <3>3, <3>4 DEF Apart
  <2> QED BY <2>1, <2>2
<1>7. next > cur => b + n <= next
  <2> SUFFICES ASSUME next > cur, ~(b + n <= next) PROVE FALSE OBVIOUS
  <2>1. b < next /\ next # Arena BY <1>3, <1>5
  <2>2. next \in FreeArea(h) BY <1>2, <2>1, StartsFree
  <2>3. next \in Reach(b, n) BY <1>3, <2>1 DEF Reach
  <2> QED BY <2>2, <2>3 DEF Apart
<1> QED BY <1>1, <1>5, <1>6, <1>7 DEF Sits

LEMMA PrecedesSome ==
  ASSUME NEW h, Ordered(h), NEW b \in Nat, NEW n \in Nat \ {0}, Apart(h, b, n)
  PROVE  \E cur \in DOMAIN h.ring : Precedes(h, cur, b)
<1> DEFINE D == DOMAIN h.ring
           T == {d \in Nat : \E x \in D : x < b /\ d = b - x}
<1>1. /\ Arena \in D /\ Arena = -2
      /\ \A x \in D : x \in Int /\ (x = Arena \/ x \in Nat)
  BY OrderedIs
<1>2. T \in SUBSET Nat /\ T # {}
  <2>1. b + 2 \in T BY <1>1
  <2> QED BY <2>1
<1> HIDE DEF T
<1>3. PICK d \in T : \A e \in T : d <= e BY <1>2, Least
<1>4. PICK p \in D : p < b /\ d = b - p BY <1>3 DEF T
<1>5. \A x \in D : x < b => x <= p
  <2> SUFFICES ASSUME NEW x \in D, x < b PROVE x <= p OBVIOUS
  <2>1. x \in Int /\ p \in Int BY <1>1
  <2>2. b - x \in T BY <2>1 DEF T
  <2>3. d <= b - x BY <1>3, <2>2
  <2> QED BY <1>4, <2>1, <2>3
<1>6. PICK c \in D : c = h.ring[p].next /\ Follows(D, p, c) BY LinksIs
<1>7. c # b
  <2> SUFFICES ASSUME c = b PROVE FALSE OBVIOUS
  <2>1. c # Arena BY <1>1
  <2>2. c \in FreeArea(h) BY <2>1, StartsFree
  <2>3. c \in Reach(b, n) BY DEF Reach
  <2> QED BY <2>2, <2>3 DEF Apart
<1>8. (p < b /\ b < c) \/ (p >= c /\ (b > p \/ b < c))
  <2>1. p \in Int /\ c \in Int BY <1>1
  <2>2. CASE c > p
    <3>1. ~(c < b) BY <1>5, <2>1, <2>2
    <3> QED BY <1>4, <1>7, <2>1, <3>1
  <2>3. CASE ~(c > p) BY <1>4, <2>1, <2>3
  <2> QED BY <2>2, <2>3
<1>9. Precedes(h, p, b) BY <1>6, <1>8 DEF Precedes
<1> QED BY <1>9

\* The block to be linked behind cur in the ring of the blocks of E: v units at b
\* and the link c, with the block behind it joined to it if they touch.
Remnant(h, E, cur, b, n, v, c) ==
  /\ E \subseteq DOMAIN h.ring /\ cur \in E /\ Arena \in E /\ c \in E /\ v \in Nat \ {0} /\ v >= n
  /\ Follows(E, cur, c)
  /\ \A x \in E : x > cur => b + v < x
  /\ \A x \in E : x # cur => h.ring[x].next \in E
  /\ \A x : x \in Reach(b, v) <=>
            x \in Reach(b, n) \/ \E y : y \notin E /\ Covers(h, y, x)

LEMMA TailJoined ==
  ASSUME NEW h, Ordered(h), NEW b \in Nat, NEW n \in Nat \ {0}, NEW cur, Sits(h, cur, b, n),
         NEW next, next = h.ring[cur].next, b + n = next, NEW E, E = DOMAIN h.ring \ {next}
  PROVE  Remnant(h, E, cur, b, n, n + h.ring[next].units, h.ring[next].next)
<1> DEFINE D == DOMAIN h.ring
<1>1. cur \in D /\ next \in D
  <2>1. cur \in D BY DEF Sits
  <2> QED BY <2>1, LinksIs
<1>2. PICK u, c : u = h.ring[next].units /\ c = h.ring[next].next OBVIOUS
<1>3. cur \in Int /\ next \in Nat /\ u \in Nat \ {0} /\ next # Arena /\ Arena \in D
  BY <1>1, <1>2, OrderedIs
<1>4. cur < b /\ next > cur /\ next # cur BY <1>3 DEF Sits
<1>5. c \in D /\ c # next /\ \A x \in D : x # cur => h.ring[x].next # next
  <2>1. c \in D BY <1>1, <1>2, LinksIs
  <2>2. h.ring[next].next # next /\ \A x \in D : x # cur => h.ring[x].next # next
    BY <1>1, <1>3, BetweenIs
  <2> QED BY <1>2, <2>1, <2>2
<1>6. Follows(E, cur, c)
  <2>1. Follows(D, cur, next) /\ Follows(D, next, c) BY <1>1, <1>2, LinksIs
  <2>2. \A x \in D : x \in Int BY OrderedIs
  <2>3. Follows(D \ {next}, cur, c) BY <1>1, <1>3, <1>5, <2>1, <2>2, FollowsAfter
  <2> QED BY <2>3
<1>7. ASSUME NEW x \in E, x > cur PROVE b + (n + u) < x
  <2>1. x \in D /\ x \in Int /\ x # next BY OrderedIs
  <2>2. Follows(D, cur, next) BY <1>1, LinksIs
  <2>3. next <= x BY <1>3, <1>4, <1>7, <2>1, <2>2 DEF Follows
  <2>4. next < x BY <1>3, <2>1, <2>3
  <2>5. next + u < x BY <1>1, <1>2, <2>1, <2>4, OrderedIs
  <2> QED BY <1>3, <2>5
<1>8. ASSUME NEW x \in E, x # cur PROVE h.ring[x].next \in E
  <2>1. h.ring[x].next \in D BY LinksIs
  <2> QED BY <1>5, <1>8, <2>1
<1>9. ASSUME NEW x PROVE x \in Reach(b, n + u) <=>
                         x \in Reach(b, n) \/ \E y : y \notin E /\ Covers(h, y, x)
  <2>1. \A y : y \notin E /\ Covers(h, y, x) <=> y = next /\ x \in Reach(next, u)
    BY <1>1, <1>2, <1>3 DEF Covers
  <2>2. x \in Reach(b, n + u) <=> x \in Reach(b, n) \/ x \in Reach(next, u)
    BY <1>3 DEF Reach
  <2> QED BY <2>1, <2>2
<1>10. E \subseteq D /\ cur \in E /\ Arena \in E /\ c \in E BY <1>1, <1>3, <1>4, <1>5
<1>11. n + u \in Nat \ {0} /\ n + u >= n BY <1>3
<1>12. Remnant(h, E, cur, b, n, n + u, c) BY <1>6, <1>7, <1>8, <1>9, <1>10, <1>11 DEF Remnant
<1> QED BY <1>2, <1>12

LEMMA TailAlone ==
  ASSUME NEW h, Ordered(h), NEW b \in Nat, NEW n \in Nat \ {0}, NEW cur, Sits(h, cur, b, n),
         NEW next, next = h.ring[cur].next, b + n # next
  PROVE  Remnant(h, DOMAIN h.ring, cur, b, n, n, next)
<1> DEFINE D == DOMAIN h.ring
<1>1. cur \in D /\ next \in D
  <2>1. cur \in D BY DEF Sits
  <2> QED BY <2>1, LinksIs
<1>2. cur \in Int /\ next \in Int /\ (next = Arena \/ next \in Nat) /\ Arena \in D /\ Arena = -2
  BY <1>1, OrderedIs
<1>3. Follows(D, cur, next) BY <1>1, LinksIs
<1>4. ASSUME NEW x \in D, x > cur PROVE b + n < x
  <2>1. x \in Int BY OrderedIs
  <2>2. ~(x <= cur) BY <1>2, <1>4, <2>1
  <2>3. next > cur /\ b + n <= next /\ next <= x BY <2>2 DEF Sits
  <2> QED BY <1>2, <2>1, <2>3
<1>5. \A x \in D : h.ring[x].next \in D BY LinksIs
<1>6. \A x : ~\E y : y \notin D /\ Covers(h, y, x) BY DEF Covers
<1> QED BY <1>1, <1>2, <1>3, <1>4, <1>5, <1>6 DEF Remnant

\* slob_free puts the block behind one that it belongs behind.
Placed(h, b, n, cur, E, v, c, o, g) ==
  /\ Sits(h, cur, b, n) /\ Remnant(h, E, cur, b, n, v, c) /\ o = [x \in E |-> h.ring[x]]
  /\ g.slobfree = cur
  /\ g.ring = IF cur + h.ring[cur].units = b
              THEN [o EXCEPT ![cur] = [units |-> o[cur].units + v, next |-> c]]
              ELSE Link(With(o, b, [units |-> v, next |-> c]), cur, b)

LEMMA GivenIs ==
  ASSUME NEW h, Ordered(h), NEW b \in Nat, NEW n \in Nat \ {0}, Apart(h, b, n),
         NEW g, g = Given(h, b, n)
  PROVE  \E cur, E, v, c, o : Placed(h, b, n, cur, E, v, c, o, g)
<1>1. PICK N : N = Cardinality(DOMAIN h.ring) OBVIOUS
<1> DEFINE S == {i \in 0 .. N - 1 : Precedes(h, Around(h)[i], b)}
<1>2. S \in SUBSET Nat /\ S # {}
  <2>1. PICK p \in DOMAIN h.ring : Precedes(h, p, b) BY PrecedesSome
  <2>2. PICK j \in 0 .. N - 1 : Around(h)[j] = p BY <1>1, AroundAll
  <2>3. j \in S BY <2>1, <2>2
  <2> QED BY <2>3
<1>3. PICK i : i = Min(S) OBVIOUS
<1>4. i \in 0 .. N - 1 /\ Precedes(h, Around(h)[i], b)
  <2> HIDE DEF S
  <2>1. i \in S BY <1>2, <1>3, MinIs
  <2> QED BY <2>1 DEF S
<1>5. PICK cur, next : cur = Around(h)[i] /\ next = h.ring[cur].next OBVIOUS
<1>6. cur \in DOMAIN h.ring
  <2>1. N \in Nat /\ Around(h) \in [0 .. N -> DOMAIN h.ring] BY <1>1, AroundIs
  <2> QED BY <1>4, <1>5, <2>1
<1>7. Sits(h, cur, b, n) BY <1>4, <1>5, <1>6, PrecedesIs
<1>8. PICK E, v, c :
        /\ E = IF b + n = next THEN DOMAIN h.ring \ {next} ELSE DOMAIN h.ring
        /\ v = IF b + n = next THEN n + h.ring[next].units ELSE n
        /\ c = IF b + n = next THEN h.ring[next].next ELSE next
  OBVIOUS
<1>9. Remnant(h, E, cur, b, n, v, c)
  <2>1. CASE b + n = next BY <1>5, <1>7, <1>8, <2>1, TailJoined
  <2>2. CASE b + n # next BY <1>5, <1>7, <1>8, <2>2, TailAlone
  <2> QED BY <2>1, <2>2
<1>10. PICK o : o = IF b + n = next THEN Drop(h.ring, next) ELSE h.ring OBVIOUS
<1>11. o = [x \in E |-> h.ring[x]]
  <2>1. CASE b + n = next BY <1>8, <1>10, <2>1 DEF Drop
  <2>2. CASE b + n # next
    <3>1. h.ring \in [DOMAIN h.ring -> [units : Nat \ {0}, next : DOMAIN h.ring]] BY DEF Ordered
    <3> QED BY <1>8, <1>10, <2>2, <3>1
  <2> QED BY <2>1, <2>2
<1>12. PICK block : block = IF b + n = next
                            THEN [units |-> n + h.ring[next].units, next |-> h.ring[next].next]
                            ELSE [units |-> n, next |-> next]
  OBVIOUS
<1>13. block = [units |-> v, next |-> c] BY <1>8, <1>12
<1>14. /\ g.slobfree = cur
       /\ g.ring = IF cur + h.ring[cur].units = b
                   THEN [o EXCEPT ![cur] = [units |-> @.units + block.units, next |-> block.next]]
                   ELSE Link(With(o, b, block), cur, b)
  <2> HIDE DEF S
  <2>1. g = [ring |-> IF cur + h.ring[cur].units = b
                      THEN [o EXCEPT ![cur] = [units |-> @.units + block.units,
                                               next |-> block.next]]
                      ELSE Link(With(o, b, block), cur, b),
             slobfree |-> cur]
    BY <1>1, <1>3, <1>5, <1>10, <1>12 DEF Given, S
  <2> QED BY <2>1
<1>15. g.ring = IF cur + h.ring[cur].units = b
                THEN [o EXCEPT ![cur] = [units |-> o[cur].units + v, next |-> c]]
                ELSE Link(With(o, b, [units |-> v, next |-> c]), cur, b)
  <2>1. block.units = v /\ block.next = c BY <1>13
  <2> QED BY <1>13, <1>14, <2>1
<1>16. Placed(h, b, n, cur, E, v, c, o, g) BY <1>7, <1>9, <1>11, <1>14, <1>15 DEF Placed
<1> QED BY <1>16

\* What slob_free gives back is free, behind it as before it.
IsGiven(h, b, n, g) ==
  /\ Ordered(g) /\ FreeArea(g) = FreeArea(h) \cup Reach(b, n)
  /\ \E c \in DOMAIN g.ring : g.ring[c].units >= n

LEMMA TailIs ==
  ASSUME NEW h, Ordered(h), NEW E, NEW cur, NEW b, NEW n, NEW v, NEW c,
         Remnant(h, E, cur, b, n, v, c)
  PROVE  /\ cur \in E /\ Arena \in E /\ c \in E /\ v \in Nat \ {0} /\ v >= n /\ Arena = -2
         /\ Follows(E, cur, c) /\ IsFiniteSet(E) /\ E \subseteq DOMAIN h.ring
         /\ \A x \in E : x > cur => b + v < x
         /\ \A x \in E : x # cur => h.ring[x].next \in E /\ Follows(E, x, h.ring[x].next)
         /\ \A x \in E : x \in Int /\ (x = Arena \/ x \in Nat) /\ h.ring[x].units \in Nat \ {0}
         /\ \A x, y \in E : x < y => x + h.ring[x].units < y
         /\ h.ring[Arena].units = 1
<1> DEFINE D == DOMAIN h.ring
<1>1. /\ cur \in E /\ Arena \in E /\ c \in E /\ v \in Nat \ {0} /\ v >= n /\ Follows(E, cur, c)
      /\ \A x \in E : x > cur => b + v < x
      /\ \A x \in E : x # cur => h.ring[x].next \in E
      /\ E \subseteq D
  BY DEF Remnant
<1>2. IsFiniteSet(E)
  <2>1. IsFiniteSet(D) BY DEF Ordered
  <2> QED BY <1>1, <2>1, FS_Subset
<1>3. ASSUME NEW x \in E PROVE Follows(E, x, h.ring[x].next)
  <2>1. x \in D /\ \A y \in E : y \in D BY <1>1
  <2>2. Follows(D, x, h.ring[x].next) BY <2>1, LinksIs
  <2> QED BY <2>1, <2>2, FollowsIn
<1>4. ASSUME NEW x \in E
      PROVE  /\ x \in Int /\ (x = Arena \/ x \in Nat) /\ h.ring[x].units \in Nat \ {0}
             /\ \A y \in E : x < y => x + h.ring[x].units < y
  BY <1>1, OrderedIs
<1>5. Arena = -2 /\ h.ring[Arena].units = 1 BY OrderedIs
<1> QED BY <1>1, <1>2, <1>3, <1>4, <1>5

CoversTail(g, h, E, b, v) ==
  \A x : (\E y : Covers(g, y, x)) <=> x \in Reach(b, v) \/ \E y : y \in E /\ Covers(h, y, x)

LEMMA AreaGrows ==
  ASSUME NEW h, NEW b, NEW n, NEW v, NEW cur, NEW E, NEW c, NEW g, Remnant(h, E, cur, b, n, v, c),
         CoversTail(g, h, E, b, v)
  PROVE  FreeArea(g) = FreeArea(h) \cup Reach(b, n)
<1> SUFFICES ASSUME NEW x
             PROVE  x \in FreeArea(g) <=> x \in FreeArea(h) \/ x \in Reach(b, n)
  OBVIOUS
<1>1. x \in FreeArea(g) <=> x \in Reach(b, v) \/ \E y : y \in E /\ Covers(h, y, x)
  BY AreaIs DEF CoversTail
<1>2. x \in Reach(b, v) <=> x \in Reach(b, n) \/ \E y : y \notin E /\ Covers(h, y, x) BY DEF Remnant
<1>3. x \in FreeArea(h) <=> \E y : Covers(h, y, x) BY AreaIs
<1> QED BY <1>1, <1>2, <1>3

LEMMA PlacedJoins ==
  ASSUME NEW h, Ordered(h), NEW b \in Nat, NEW n \in Nat \ {0}, NEW cur, NEW E, NEW v, NEW c,
         NEW o, NEW g, Placed(h, b, n, cur, E, v, c, o, g), cur + h.ring[cur].units = b
  PROVE  IsGiven(h, b, n, g)
<1>1. Remnant(h, E, cur, b, n, v, c) /\ g.slobfree = cur BY DEF Placed
<1>2. /\ cur \in E /\ Arena \in E /\ c \in E /\ v \in Nat \ {0} /\ v >= n /\ Arena = -2
      /\ IsFiniteSet(E)
      /\ \A x \in E : x \in Int /\ (x = Arena \/ x \in Nat)
  BY <1>1, TailIs
<1>3. E \subseteq DOMAIN h.ring /\ \A x \in E : h.ring[x].units \in Nat \ {0} BY <1>1, TailIs
<1>4. h.ring[Arena].units = 1 BY <1>1, TailIs
<1>5. /\ Follows(E, cur, c)
      /\ \A x \in E : x # cur => h.ring[x].next \in E /\ Follows(E, x, h.ring[x].next)
  BY <1>1, TailIs
<1>6. \A x \in E : x > cur => b + v < x BY <1>1, TailIs
<1>7. \A x, y \in E : x < y => x + h.ring[x].units < y BY <1>1, TailIs
<1>8. PICK u : u = h.ring[cur].units OBVIOUS
<1>9. u \in Nat \ {0} /\ cur + u = b BY <1>2, <1>3, <1>8
<1>10. cur # Arena BY <1>2, <1>4, <1>8, <1>9
<1>11. g.ring = [x \in E |-> IF x = cur THEN [units |-> u + v, next |-> c] ELSE h.ring[x]]
  <2>1. o = [x \in E |-> h.ring[x]] BY DEF Placed
  <2>2. g.ring = [o EXCEPT ![cur] = [units |-> o[cur].units + v, next |-> c]] BY DEF Placed
  <2>3. o[cur].units = u BY <1>2, <1>8, <2>1
  <2>4. g.ring = [o EXCEPT ![cur] = [units |-> u + v, next |-> c]] BY <2>2, <2>3
  <2> QED BY <1>2, <2>1, <2>4
<1>12. DOMAIN g.ring = E /\ \E S : g.ring \in [E -> S]
  <2>1. g.ring = [x \in E |-> g.ring[x]] BY <1>11
  <2>2. g.ring \in [E -> {g.ring[x] : x \in E}] BY <2>1
  <2> QED BY <1>11, <2>2
<1>13. g.ring[cur] = [units |-> u + v, next |-> c] /\ g.ring[cur].units = u + v /\ g.ring[cur].next = c
  BY <1>2, <1>11
<1>14. ASSUME NEW x \in E, x # cur
       PROVE  /\ \E d : g.ring[x] = [units |-> h.ring[x].units, next |-> d]
              /\ g.ring[x].units = h.ring[x].units /\ g.ring[x].next = h.ring[x].next
  <2>1. g.ring[x] = h.ring[x] BY <1>11, <1>14
  <2>2. x \in DOMAIN h.ring BY <1>3
  <2>3. PICK w, d : h.ring[x] = [units |-> w, next |-> d] BY <2>2, RecordIs
  <2>4. h.ring[x].units = w BY <2>3
  <2> QED BY <2>1, <2>3, <2>4
<1>15. ASSUME NEW x \in E PROVE g.ring[x] \in [units : Nat \ {0}, next : E]
  <2>1. CASE x = cur
    <3>1. u + v \in Nat \ {0} BY <1>2, <1>9
    <3> QED BY <1>2, <1>13, <2>1, <3>1
  <2>2. CASE x # cur
    <3>1. PICK d : g.ring[x] = [units |-> h.ring[x].units, next |-> d] BY <1>14, <2>2
    <3>2. d \in E
      <4>1. g.ring[x].next = d BY <3>1
      <4> QED BY <1>5, <1>14, <2>2, <4>1
    <3> QED BY <1>3, <3>1, <3>2
  <2> QED BY <2>1, <2>2
<1>16. ASSUME NEW x \in E PROVE Follows(E, x, g.ring[x].next)
  <2>1. CASE x = cur BY <1>5, <1>13, <2>1
  <2>2. CASE x # cur BY <1>5, <1>14, <2>2
  <2> QED BY <2>1, <2>2
<1>17. ASSUME NEW x \in E, NEW y \in E, x < y PROVE x + g.ring[x].units < y
  <2>1. CASE x = cur
    <3>1. b + v < y BY <1>2, <1>6, <1>17, <2>1
    <3>2. cur \in Int /\ y \in Int BY <1>2
    <3> QED BY <1>2, <1>9, <1>13, <2>1, <3>1, <3>2
  <2>2. CASE x # cur BY <1>7, <1>14, <1>17, <2>2
  <2> QED BY <2>1, <2>2
<1>18. Ordered(g)
  <2>1. E \subseteq Nat \cup {Arena} BY <1>2
  <2>2. g.ring[Arena].units = 1 BY <1>2, <1>4, <1>10, <1>14
  <2>3. g.ring \in [E -> [units : Nat \ {0}, next : E]] BY <1>12, <1>15
  <2>4. \A x \in E : Follows(E, x, g.ring[x].next) BY <1>16
  <2>5. \A x, y \in E : x < y => x + g.ring[x].units < y BY <1>17
  <2>6. Well(g, E) BY <1>1, <1>2, <1>12, <2>1, <2>2, <2>3, <2>4, <2>5 DEF Well
  <2> QED BY <2>6, WellOrdered
<1>19. ASSUME NEW x
       PROVE  (\E y : Covers(g, y, x)) <=>
              x \in Reach(b, v) \/ \E y : y \in E /\ Covers(h, y, x)
  <2>1. \A y : y # cur => (Covers(g, y, x) <=> y \in E /\ Covers(h, y, x))
    BY <1>3, <1>12, <1>14 DEF Covers
  <2>2. Covers(g, cur, x) <=> x \in Reach(b, v) \/ Covers(h, cur, x)
    <3>1. cur \in Int BY <1>2
    <3>2. Covers(g, cur, x) <=> x \in cur .. cur + (u + v) - 1
      BY <1>2, <1>10, <1>12, <1>13 DEF Covers, Reach
    <3>3. Covers(h, cur, x) <=> x \in cur .. cur + u - 1
      BY <1>2, <1>3, <1>8, <1>10 DEF Covers, Reach
    <3>4. x \in Reach(b, v) <=> x \in cur + u .. (cur + u) + v - 1 BY <1>9 DEF Reach
    <3>5. x \in cur .. cur + (u + v) - 1 <=>
          x \in cur + u .. (cur + u) + v - 1 \/ x \in cur .. cur + u - 1
      BY <1>2, <1>9, <3>1
    <3> QED BY <3>2, <3>3, <3>4, <3>5
  <2> QED BY <1>2, <2>1, <2>2
<1>20. FreeArea(g) = FreeArea(h) \cup Reach(b, n)
  <2>1. CoversTail(g, h, E, b, v) BY <1>19 DEF CoversTail
  <2> QED BY <1>1, <2>1, AreaGrows
<1>21. g.ring[cur].units >= n BY <1>2, <1>9, <1>13
<1> QED BY <1>2, <1>12, <1>18, <1>20, <1>21 DEF IsGiven

LEMMA FollowsInserted ==
  ASSUME NEW E, NEW cur \in E, NEW c \in E, Arena \in E, Arena = -2,
         \A x \in E : x \in Int /\ x >= Arena, Follows(E, cur, c),
         NEW b \in Nat, cur < b, \A x \in E : x > cur => b < x
  PROVE  LET F == E \cup {b} IN
         /\ Follows(F, cur, b) /\ Follows(F, b, c)
         /\ \A x \in E, y \in E : Follows(E, x, y) /\ x # cur => Follows(F, x, y)
<1> DEFINE F == E \cup {b}
<1>1. \A x \in F : x = b \/ x \in E OBVIOUS
<1>2. ASSUME NEW x \in E PROVE x \in Int /\ (x <= cur \/ b < x)
  <2>1. x \in Int /\ cur \in Int OBVIOUS
  <2> QED BY <2>1
<1>3. cur \in Int /\ b \in Int /\ c \in Int OBVIOUS
<1> HIDE DEF F
<1>4. Follows(F, cur, b)
  <2>1. ASSUME NEW x \in F PROVE x <= cur \/ b <= x
    <3>1. CASE x = b BY <1>3, <3>1
    <3>2. CASE x \in E BY <1>2, <1>3, <3>2
    <3> QED BY <1>1, <3>1, <3>2
  <2> QED BY <2>1 DEF Follows
<1>5. Follows(F, b, c)
  <2>1. CASE c > cur /\ \A x \in E : x <= cur \/ c <= x
    <3>1. c > b BY <2>1
    <3>2. ASSUME NEW x \in F PROVE x <= b \/ c <= x
      <4>1. CASE x = b BY <1>3, <4>1
      <4>2. CASE x \in E
        <5>1. x <= cur \/ c <= x BY <2>1, <4>2
        <5>2. x \in Int BY <1>2, <4>2
        <5> QED BY <1>3, <5>1, <5>2
      <4> QED BY <1>1, <4>1, <4>2
    <3> QED BY <3>1, <3>2 DEF Follows
  <2>2. CASE c = Arena /\ \A x \in E : x <= cur
    <3>1. ASSUME NEW x \in F PROVE x <= b
      <4>1. CASE x = b BY <1>3, <4>1
      <4>2. CASE x \in E
        <5>1. x <= cur /\ x \in Int BY <1>2, <2>2, <4>2
        <5> QED BY <1>3, <5>1
      <4> QED BY <1>1, <4>1, <4>2
    <3> QED BY <2>2, <3>1 DEF Follows
  <2> QED BY <2>1, <2>2 DEF Follows
<1>6. ASSUME NEW x \in E, NEW y \in E, Follows(E, x, y), x # cur PROVE Follows(F, x, y)
  <2>1. x \in Int /\ y \in Int BY <1>2
  <2>2. CASE y > x /\ \A z \in E : z <= x \/ y <= z
    <3>1. b <= x \/ y <= b
      <4>1. cur <= x \/ y <= cur BY <2>2
      <4>2. x <= cur \/ b < x BY <1>2
      <4> QED BY <1>3, <1>6, <2>1, <4>1, <4>2
    <3>2. ASSUME NEW z \in F PROVE z <= x \/ y <= z BY <1>1, <2>2, <3>1
    <3> QED BY <2>2, <3>2 DEF Follows
  <2>3. CASE y = Arena /\ \A z \in E : z <= x
    <3>1. b <= x
      <4>1. cur <= x BY <2>3
      <4>2. x <= cur \/ b < x BY <1>2
      <4> QED BY <1>3, <1>6, <2>1, <4>1, <4>2
    <3>2. ASSUME NEW z \in F PROVE z <= x BY <1>1, <2>3, <3>1
    <3> QED BY <2>3, <3>2 DEF Follows
  <2> QED BY <1>6, <2>2, <2>3 DEF Follows
<1> QED BY <1>4, <1>5, <1>6 DEF F

LEMMA PlacedAlone ==
  ASSUME NEW h, Ordered(h), NEW b \in Nat, NEW n \in Nat \ {0}, NEW cur, NEW E, NEW v, NEW c,
         NEW o, NEW g, Placed(h, b, n, cur, E, v, c, o, g), cur + h.ring[cur].units # b
  PROVE  IsGiven(h, b, n, g)
<1> DEFINE F == E \cup {b}
<1>1. Remnant(h, E, cur, b, n, v, c) /\ g.slobfree = cur BY DEF Placed
<1>2. /\ cur \in E /\ Arena \in E /\ c \in E /\ v \in Nat \ {0} /\ v >= n /\ Arena = -2
      /\ IsFiniteSet(E)
      /\ \A x \in E : x \in Int /\ (x = Arena \/ x \in Nat)
  BY <1>1, TailIs
<1>3. E \subseteq DOMAIN h.ring /\ \A x \in E : h.ring[x].units \in Nat \ {0} BY <1>1, TailIs
<1>4. h.ring[Arena].units = 1 BY <1>1, TailIs
<1>5. /\ Follows(E, cur, c)
      /\ \A x \in E : x # cur => h.ring[x].next \in E /\ Follows(E, x, h.ring[x].next)
  BY <1>1, TailIs
<1>6. \A x \in E : x > cur => b + v < x BY <1>1, TailIs
<1>7. \A x, y \in E : x < y => x + h.ring[x].units < y BY <1>1, TailIs
<1>8. PICK u : u = h.ring[cur].units OBVIOUS
<1>9. u \in Nat \ {0} /\ cur + u <= b /\ cur + u # b /\ cur \in Int /\ cur < b
  <2>1. u \in Nat \ {0} /\ cur \in Int BY <1>2, <1>3, <1>8
  <2>2. cur + u <= b BY <1>8 DEF Placed, Sits
  <2> QED BY <1>8, <2>1, <2>2
<1>10. b \notin E /\ b # Arena
  <2>1. ASSUME b \in E PROVE FALSE
    <3>1. b + v < b BY <1>6, <1>9, <2>1
    <3> QED BY <1>2, <3>1
  <2> QED BY <1>2, <2>1
<1>11. Inserted(h, E, cur, b, [units |-> v, next |-> c], g.ring)
  <2>1. PICK block : block = [units |-> v, next |-> c] OBVIOUS
  <2>2. o = [x \in E |-> h.ring[x]] /\ g.ring = Link(With(o, b, block), cur, b)
    BY <2>1 DEF Placed
  <2>3. Inserted(h, E, cur, b, block, g.ring) BY <1>2, <1>3, <1>10, <2>2, InsertIs
  <2> QED BY <2>1, <2>3
<1>12. \A x : x \in F <=> x \in E \/ x = b OBVIOUS
<1> HIDE DEF F
<1>13. DOMAIN g.ring = F /\ \E S : g.ring \in [F -> S] BY <1>11 DEF Inserted, F
<1>14. /\ g.ring[b] = [units |-> v, next |-> c] /\ g.ring[b].units = v /\ g.ring[b].next = c
  BY <1>11 DEF Inserted
<1>15. ASSUME NEW x \in E
       PROVE  /\ \E d : g.ring[x] = [units |-> h.ring[x].units, next |-> d]
              /\ g.ring[x].units = h.ring[x].units
              /\ g.ring[x].next = IF x = cur THEN b ELSE h.ring[x].next
  <2>1. PICK w, d : /\ g.ring[x] = [units |-> w, next |-> d] /\ w = h.ring[x].units
                    /\ d = IF x = cur THEN b ELSE h.ring[x].next
    BY <1>11 DEF Inserted
  <2>2. g.ring[x].units = w /\ g.ring[x].next = d BY <2>1
  <2> QED BY <2>1, <2>2
<1>16. /\ Follows(F, cur, b) /\ Follows(F, b, c)
       /\ \A x \in E, y \in E : Follows(E, x, y) /\ x # cur => Follows(F, x, y)
  <2>1. \A x \in E : x \in Int /\ x >= Arena BY <1>2
  <2>2. ASSUME NEW x \in E, x > cur PROVE b < x
    <3>1. b + v < x /\ x \in Int BY <1>2, <1>6, <2>2
    <3> QED BY <1>2, <3>1
  <2>3. LET X == E \cup {b} IN
        /\ Follows(X, cur, b) /\ Follows(X, b, c)
        /\ \A x \in E, y \in E : Follows(E, x, y) /\ x # cur => Follows(X, x, y)
    BY <1>2, <1>5, <1>9, <2>1, <2>2, FollowsInserted
  <2> QED BY <2>3 DEF F
<1>17. ASSUME NEW x \in F PROVE g.ring[x].next \in F /\ Follows(F, x, g.ring[x].next)
  <2>1. CASE x = b BY <1>2, <1>12, <1>14, <1>16, <2>1
  <2>2. CASE x \in E /\ x = cur BY <1>12, <1>15, <1>16, <2>2
  <2>3. CASE x \in E /\ x # cur
    <3>1. g.ring[x].next = h.ring[x].next BY <1>15, <2>3
    <3>2. h.ring[x].next \in E /\ Follows(E, x, h.ring[x].next) BY <1>5, <2>3
    <3> QED BY <1>12, <1>16, <2>3, <3>1, <3>2
  <2> QED BY <1>12, <2>1, <2>2, <2>3
<1>18. ASSUME NEW x \in F PROVE g.ring[x] \in [units : Nat \ {0}, next : F]
  <2>1. g.ring[x].next \in F BY <1>17
  <2>2. CASE x = b BY <1>2, <1>14, <2>1, <2>2
  <2>3. CASE x \in E
    <3>1. PICK d : g.ring[x] = [units |-> h.ring[x].units, next |-> d] BY <1>15, <2>3
    <3>2. d \in F
      <4>1. g.ring[x].next = d BY <3>1
      <4> QED BY <2>1, <4>1
    <3> QED BY <1>3, <2>3, <3>1, <3>2
  <2> QED BY <1>12, <2>2, <2>3
<1>19. ASSUME NEW x \in F, NEW y \in F, x < y PROVE x + g.ring[x].units < y
  <2>1. CASE x = b
    <3>1. y \in E BY <1>12, <1>19, <2>1
    <3>2. y > cur BY <1>2, <1>9, <1>19, <2>1, <3>1
    <3> QED BY <1>6, <1>14, <2>1, <3>1, <3>2
  <2>2. CASE x \in E
    <3>1. x \in Int /\ g.ring[x].units = h.ring[x].units /\ h.ring[x].units \in Nat
      BY <1>2, <1>3, <1>15, <2>2
    <3>2. CASE y \in E BY <1>7, <1>19, <2>2, <3>1, <3>2
    <3>3. CASE y = b
      <4>1. ~(x > cur)
        <5>1. x > cur => b + v < x BY <1>6, <2>2
        <5> QED BY <1>2, <1>19, <3>1, <3>3, <5>1
      <4>2. CASE x = cur BY <1>8, <1>9, <3>1, <3>3, <4>2
      <4>3. CASE x < cur
        <5>1. x + h.ring[x].units < cur BY <1>2, <1>7, <2>2, <4>3
        <5> QED BY <1>9, <3>1, <3>3, <5>1
      <4> QED BY <1>9, <3>1, <4>1, <4>2, <4>3
    <3> QED BY <1>12, <3>2, <3>3
  <2> QED BY <1>12, <2>1, <2>2
<1>20. Ordered(g)
  <2>1. F \subseteq Nat \cup {Arena} BY <1>2, <1>12
  <2>3. g.ring[Arena].units = 1 BY <1>2, <1>4, <1>15
  <2>4. g.ring \in [F -> [units : Nat \ {0}, next : F]] BY <1>13, <1>18
  <2>5. \A x \in F : Follows(F, x, g.ring[x].next) BY <1>17
  <2>6. \A x, y \in F : x < y => x + g.ring[x].units < y BY <1>19
  <2>7. IsFiniteSet(F) BY <1>2, FS_AddElement DEF F
  <2>8. Arena \in F /\ g.slobfree \in F BY <1>1, <1>2, <1>12
  <2>9. Well(g, F) BY <1>13, <2>1, <2>3, <2>4, <2>5, <2>6, <2>7, <2>8 DEF Well
  <2> QED BY <2>9, WellOrdered
<1>21. ASSUME NEW x
       PROVE  (\E y : Covers(g, y, x)) <=>
              x \in Reach(b, v) \/ \E y : y \in E /\ Covers(h, y, x)
  <2>1. \A y : y # b => (Covers(g, y, x) <=> y \in E /\ Covers(h, y, x))
    BY <1>3, <1>12, <1>13, <1>15 DEF Covers
  <2>2. Covers(g, b, x) <=> x \in Reach(b, v) BY <1>10, <1>12, <1>13, <1>14 DEF Covers
  <2>3. ASSUME NEW y, Covers(g, y, x) PROVE x \in Reach(b, v) \/ (y \in E /\ Covers(h, y, x))
    BY <2>1, <2>2, <2>3
  <2>4. ASSUME NEW y \in E, Covers(h, y, x) PROVE Covers(g, y, x)
    <3>1. y # b BY <1>10
    <3> QED BY <2>1, <2>4, <3>1
  <2> QED BY <2>2, <2>3, <2>4
<1>22. FreeArea(g) = FreeArea(h) \cup Reach(b, n)
  <2>1. CoversTail(g, h, E, b, v) BY <1>21 DEF CoversTail
  <2> QED BY <1>1, <2>1, AreaGrows
<1>23. b \in DOMAIN g.ring /\ g.ring[b].units >= n BY <1>2, <1>12, <1>13, <1>14
<1> QED BY <1>20, <1>22, <1>23 DEF IsGiven

LEMMA GivenKeeps ==
  ASSUME NEW h, Ordered(h), NEW b \in Nat, NEW n \in Nat \ {0}, Apart(h, b, n)
  PROVE  IsGiven(h, b, n, Given(h, b, n))
<1>1. PICK g : g = Given(h, b, n) OBVIOUS
<1>2. PICK cur, E, v, c, o : Placed(h, b, n, cur, E, v, c, o, g) BY <1>1, GivenIs
<1>3. IsGiven(h, b, n, g) BY <1>2, PlacedJoins, PlacedAlone
<1> QED BY <1>1, <1>3

----------------------------------------------------------------------------
(* The heap                                                                *)

UsedArea(U) == UNION {Reach(x.at, x.units) : x \in U}
PagesArea(P) == UNION {Reach(p * PageUnits, PageUnits) : p \in P}

\* Every unit of the heap's pages is in one free block of the ring, or in one block
\* given out.
HeapParts(h, U, P) ==
  /\ Ordered(h) /\ U \subseteq [at : Nat, units : Nat \ {0}] /\ P \subseteq Nat
  /\ FreeArea(h) \cup UsedArea(U) = PagesArea(P) /\ FreeArea(h) \cap UsedArea(U) = {}
  /\ \A x, y \in U : x # y => Reach(x.at, x.units) \cap Reach(y.at, y.units) = {}

LEMMA UsedIs ==
  ASSUME NEW h, NEW U, NEW P, HeapParts(h, U, P), NEW x \in U
  PROVE  /\ x = [at |-> x.at, units |-> x.units]
         /\ x.at \in Nat /\ x.units \in Nat \ {0} /\ x.at \in Reach(x.at, x.units)
         /\ Reach(x.at, x.units) \subseteq UsedArea(U)
<1>1. x \in [at : Nat, units : Nat \ {0}] BY DEF HeapParts
<1>2. x.at \in Nat /\ x.units \in Nat \ {0} BY <1>1
<1>3. x.at \in Reach(x.at, x.units) BY <1>2 DEF Reach
<1> QED BY <1>1, <1>2, <1>3 DEF UsedArea

\* No two blocks given out start at the same address.
LEMMA UsedOnce ==
  ASSUME NEW h, NEW U, NEW P, HeapParts(h, U, P), NEW x \in U, NEW y \in U, x.at = y.at
  PROVE  x = y
<1>1. x.at \in Reach(x.at, x.units) /\ y.at \in Reach(y.at, y.units) BY UsedIs
<1> QED BY <1>1 DEF HeapParts

LEMMA UseKeeps ==
  ASSUME NEW h, NEW U, NEW P, HeapParts(h, U, P), NEW n \in Nat, n >= 2, CanTake(h, n),
         NEW x, x = [at |-> Found(h, n), units |-> n]
  PROVE  HeapParts(Taken(h, n), U \cup {x}, P) /\ x \notin U
<1>1. PICK g, f : g = Taken(h, n) /\ f = Found(h, n) OBVIOUS
<1>2. /\ Ordered(g) /\ f \in Nat /\ Reach(f, n) \subseteq FreeArea(h)
      /\ FreeArea(g) = FreeArea(h) \ Reach(f, n)
  BY <1>1, TakenKeeps DEF HeapParts
<1>3. x.at = f /\ x.units = n /\ x \in [at : Nat, units : Nat \ {0}] BY <1>1, <1>2
<1>4. /\ FreeArea(h) \cup UsedArea(U) = PagesArea(P) /\ FreeArea(h) \cap UsedArea(U) = {}
      /\ U \subseteq [at : Nat, units : Nat \ {0}] /\ P \subseteq Nat
      /\ \A y, z \in U : y # z => Reach(y.at, y.units) \cap Reach(z.at, z.units) = {}
  BY DEF HeapParts
<1>5. UsedArea(U \cup {x}) = UsedArea(U) \cup Reach(f, n) BY <1>3 DEF UsedArea
<1>6. \A y \in U : Reach(y.at, y.units) \subseteq UsedArea(U) BY DEF UsedArea
<1>7. f \in Reach(f, n) BY <1>2 DEF Reach
<1>8. x \notin U BY <1>2, <1>3, <1>4, <1>6, <1>7
<1>9. ASSUME NEW y \in U \cup {x}, NEW z \in U \cup {x}, y # z
      PROVE  Reach(y.at, y.units) \cap Reach(z.at, z.units) = {}
  <2>1. \A w \in U : Reach(w.at, w.units) \cap Reach(f, n) = {} BY <1>2, <1>4, <1>6
  <2>2. CASE y \in U /\ z \in U BY <1>4, <1>9, <2>2
  <2>3. CASE y \in U /\ z = x BY <1>3, <2>1, <2>3
  <2>4. CASE y = x /\ z \in U BY <1>3, <2>1, <2>4
  <2> QED BY <1>9, <2>2, <2>3, <2>4
<1>10. /\ FreeArea(g) \cup UsedArea(U \cup {x}) = PagesArea(P)
       /\ FreeArea(g) \cap UsedArea(U \cup {x}) = {}
  BY <1>2, <1>4, <1>5
<1>11. HeapParts(g, U \cup {x}, P) BY <1>2, <1>3, <1>4, <1>9, <1>10 DEF HeapParts
<1> QED BY <1>1, <1>8, <1>11

LEMMA GiveKeeps ==
  ASSUME NEW h, NEW U, NEW P, HeapParts(h, U, P), NEW x \in U
  PROVE  HeapParts(Given(h, x.at, x.units), U \ {x}, P)
<1>1. PICK b, n, g : b = x.at /\ n = x.units /\ g = Given(h, b, n) OBVIOUS
<1>2. b \in Nat /\ n \in Nat \ {0} /\ Reach(b, n) \subseteq UsedArea(U) BY <1>1, UsedIs
<1>3. /\ FreeArea(h) \cup UsedArea(U) = PagesArea(P) /\ FreeArea(h) \cap UsedArea(U) = {}
      /\ U \subseteq [at : Nat, units : Nat \ {0}] /\ P \subseteq Nat
      /\ \A y, z \in U : y # z => Reach(y.at, y.units) \cap Reach(z.at, z.units) = {}
  BY DEF HeapParts
<1>4. Ordered(g) /\ FreeArea(g) = FreeArea(h) \cup Reach(b, n)
  <2>1. Apart(h, b, n) BY <1>2, <1>3 DEF Apart
  <2>2. IsGiven(h, b, n, g) BY <1>1, <1>2, <2>1, GivenKeeps DEF HeapParts
  <2> QED BY <2>2 DEF IsGiven
<1>5. UsedArea(U \ {x}) = UsedArea(U) \ Reach(b, n)
  <2>1. \A z : z \in UsedArea(U) <=> \E y \in U : z \in Reach(y.at, y.units) BY DEF UsedArea
  <2>2. \A z : z \in UsedArea(U \ {x}) <=> \E y \in U : y # x /\ z \in Reach(y.at, y.units)
    BY DEF UsedArea
  <2>3. \A y \in U : y # x => Reach(y.at, y.units) \cap Reach(b, n) = {} BY <1>1, <1>3
  <2> QED BY <1>1, <2>1, <2>2, <2>3
<1>6. HeapParts(g, U \ {x}, P) BY <1>2, <1>3, <1>4, <1>5 DEF HeapParts
<1> QED BY <1>1, <1>6

LEMMA PageUnitsIs ==
  /\ PageUnits \in Nat /\ PageUnits >= 2
  /\ Units(BIGBLOCK) \in Nat /\ Units(BIGBLOCK) >= 2 /\ Units(BIGBLOCK) <= PageUnits
  /\ \A size \in Nat \ {0} :
       size + SLOB_UNIT + SLOB_UNIT < PAGE_SIZE =>
       LET n == Units(size + SLOB_UNIT) IN n \in Nat /\ n >= 2 /\ n <= PageUnits
<1>1. SLOB_UNIT \in Nat \ {0} /\ PAGE_SIZE \in Nat /\ BIGBLOCK \in Nat BY HeapAssumption
<1>2. PICK u, s : u = SLOB_UNIT /\ s = PAGE_SIZE OBVIOUS
<1>3. u \in Nat \ {0} /\ s \in Nat BY <1>1, <1>2
<1>4. ASSUME NEW a \in Nat, a >= 2 * u, a <= s
      PROVE  a \div u \in Nat /\ a \div u >= 2 /\ a \div u <= s \div u /\ s \div u \in Nat
    BY <1>3, <1>4
<1>5. ASSUME NEW size \in Nat, size > u, size + u < s
      PROVE  LET n == (size + u - 1) \div u IN
             n \in Nat /\ n >= 2 /\ n <= s \div u /\ s \div u \in Nat
  <2>1. PICK a : a = size + u - 1 OBVIOUS
  <2>2. a \in Nat /\ a >= 2 * u /\ a <= s BY <1>3, <1>5, <2>1
  <2> QED BY <1>4, <2>1, <2>2
<1>6. /\ PageUnits \in Nat /\ PageUnits >= 2
      /\ Units(BIGBLOCK) \in Nat /\ Units(BIGBLOCK) >= 2 /\ Units(BIGBLOCK) <= PageUnits
  <2>1. BIGBLOCK > u /\ BIGBLOCK + u < s BY <1>2, HeapAssumption
  <2>2. PICK n : n = (BIGBLOCK + u - 1) \div u OBVIOUS
  <2>3. n \in Nat /\ n >= 2 /\ n <= s \div u /\ s \div u \in Nat BY <1>1, <1>5, <2>1, <2>2
  <2>4. n = Units(BIGBLOCK) /\ s \div u = PageUnits BY <1>2, <2>2 DEF Units, PageUnits
  <2>5. PICK m : m = s \div u OBVIOUS
  <2>6. m \in Nat /\ m >= 2 BY <2>3, <2>5
  <2> QED BY <2>3, <2>4, <2>5, <2>6
<1>7. ASSUME NEW size \in Nat \ {0}, size + SLOB_UNIT + SLOB_UNIT < PAGE_SIZE
      PROVE  LET n == Units(size + SLOB_UNIT) IN n \in Nat /\ n >= 2 /\ n <= PageUnits
  <2>1. PICK t : t = size + u OBVIOUS
  <2>2. t \in Nat /\ t > u /\ t + u < s BY <1>2, <1>3, <1>7, <2>1
  <2>3. PICK n : n = (t + u - 1) \div u OBVIOUS
  <2>4. n \in Nat /\ n >= 2 /\ n <= s \div u BY <1>5, <2>2, <2>3
  <2>5. n = Units(size + SLOB_UNIT) /\ s \div u = PageUnits
    BY <1>2, <2>1, <2>3 DEF Units, PageUnits
  <2> QED BY <2>4, <2>5
<1> QED BY <1>6, <1>7

LEMMA PageApart ==
  ASSUME NEW u \in Nat, NEW p \in Nat, NEW q \in Nat, p < q
  PROVE  p * u + u <= q * u
<1>1. PICK d \in Nat : q = p + 1 + d
  <2>1. q - p - 1 \in Nat /\ q = p + 1 + (q - p - 1) OBVIOUS
  <2> QED BY <2>1
<1>2. q * u = p * u + u + d * u BY <1>1
<1>3. d * u \in Nat /\ p * u \in Nat OBVIOUS
<1> QED BY <1>2, <1>3

LEMMA PagesDisjoint ==
  ASSUME NEW P \in SUBSET Nat, NEW q \in Nat, q \notin P
  PROVE  Reach(q * PageUnits, PageUnits) \cap PagesArea(P) = {}
<1>1. PICK u : u = PageUnits OBVIOUS
<1>2. u \in Nat BY <1>1, PageUnitsIs
<1>3. ASSUME NEW p \in P PROVE Reach(q * u, u) \cap Reach(p * u, u) = {}
  <2>1. p \in Nat /\ p # q OBVIOUS
  <2>2. PICK x, y : x = q * u /\ y = p * u OBVIOUS
  <2>3. x \in Nat /\ y \in Nat BY <1>2, <2>1, <2>2
  <2>4. x + u <= y \/ y + u <= x
    <3>1. CASE q < p BY <1>2, <2>1, <2>2, <3>1, PageApart
    <3>2. CASE p < q BY <1>2, <2>1, <2>2, <3>2, PageApart
    <3> QED BY <2>1, <3>1, <3>2
  <2>5. Reach(x, u) \cap Reach(y, u) = {} BY <1>2, <2>3, <2>4 DEF Reach
  <2> QED BY <2>2, <2>5
<1> QED BY <1>1, <1>3 DEF PagesArea

\* One more page comes into the ring whole.
LEMMA PageKeeps ==
  ASSUME NEW h, NEW U, NEW P, HeapParts(h, U, P), NEW p \in Nat, p \notin P,
         NEW n \in Nat, n <= PageUnits
  PROVE  LET g == Given(h, p * PageUnits, PageUnits) IN
         HeapParts(g, U, P \cup {p}) /\ CanTake(g, n)
<1>1. PICK b, u, g : b = p * PageUnits /\ u = PageUnits /\ g = Given(h, b, u) OBVIOUS
<1>2. u \in Nat \ {0} /\ b \in Nat
  <2>1. u \in Nat /\ u >= 2 BY <1>1, PageUnitsIs
  <2> QED BY <1>1, <2>1
<1>3. /\ FreeArea(h) \cup UsedArea(U) = PagesArea(P) /\ FreeArea(h) \cap UsedArea(U) = {}
      /\ U \subseteq [at : Nat, units : Nat \ {0}] /\ P \subseteq Nat
      /\ \A y, z \in U : y # z => Reach(y.at, y.units) \cap Reach(z.at, z.units) = {}
  BY DEF HeapParts
<1>4. Reach(b, u) \cap PagesArea(P) = {} BY <1>1, <1>3, PagesDisjoint
<1>5. IsGiven(h, b, u, g)
  <2>1. Apart(h, b, u) BY <1>3, <1>4 DEF Apart
  <2> QED BY <1>1, <1>2, <2>1, GivenKeeps DEF HeapParts
<1>6. Ordered(g) /\ FreeArea(g) = FreeArea(h) \cup Reach(b, u) BY <1>5 DEF IsGiven
<1>7. PagesArea(P \cup {p}) = PagesArea(P) \cup Reach(b, u) BY <1>1 DEF PagesArea
<1>8. HeapParts(g, U, P \cup {p}) BY <1>3, <1>4, <1>6, <1>7 DEF HeapParts
<1>9. CanTake(g, n)
  <2>1. PICK c \in DOMAIN g.ring : g.ring[c].units >= u BY <1>5 DEF IsGiven
  <2>2. g.ring[c].units \in Nat BY <1>6, OrderedIs
  <2>3. g.ring[c].units >= n BY <1>1, <1>2, <2>1, <2>2
  <2> QED BY <1>6, <2>3, CanTakeIf
<1> QED BY <1>1, <1>8, <1>9

\* The heap's pages are its own, and every bigblock_t is one of the blocks given out.
PagesOwn ==
  \A p \in slob_pages : [base |-> p, n |-> 1] \in held /\ \A i \in DOMAIN bigblocks : bigblocks[i].pages # p
BigBlocksInUse ==
  /\ \A i \in DOMAIN bigblocks : BigBlock(bigblocks[i].bb) \in used
  /\ \A i, j \in DOMAIN bigblocks : bigblocks[i].bb = bigblocks[j].bb => i = j
PendingInUse ==
  pending # NULL => /\ BigBlock(pending.bb) \in used
                    /\ \A i \in DOMAIN bigblocks : bigblocks[i].bb # pending.bb

\* The inductive invariant of the heap, beside that of its pages
HeapInv == HeapParts(Heap, used, slob_pages) /\ PagesOwn /\ BigBlocksInUse /\ PendingInUse

LEMMA HeapInitHolds ==
  ASSUME HeapInit
  PROVE  HeapInv
<1> DEFINE r == [b \in {Arena} |-> [units |-> 1, next |-> Arena]]
<1>1. /\ ring = r /\ slobfree = Arena /\ slob_pages = {} /\ used = {}
      /\ bigblocks = <<>> /\ pending = NULL
  BY DEF HeapInit
<1>2. DOMAIN ring = {Arena} /\ ring[Arena] = [units |-> 1, next |-> Arena] BY <1>1
<1>3. ring \in [{Arena} -> [units : Nat \ {0}, next : {Arena}]] BY <1>1
<1>4. Heap.ring = ring /\ Heap.slobfree = Arena BY <1>1 DEF Heap
<1>5. Well(Heap, {Arena})
  <2>1. IsFiniteSet({Arena}) BY FS_Singleton
  <2>2. ring[Arena].units = 1 /\ ring[Arena].next = Arena BY <1>2
  <2>3. Arena \in Int BY DEF Arena
  <2>4. \A b \in {Arena} : Follows({Arena}, b, ring[b].next) BY <2>2, <2>3 DEF Follows
  <2>5. \A b, c \in {Arena} : b < c => b + ring[b].units < c BY <2>3
  <2> QED BY <1>2, <1>3, <1>4, <2>1, <2>2, <2>4, <2>5 DEF Well
<1>6. Ordered(Heap) BY <1>5, WellOrdered
<1>7. FreeArea(Heap) = {} BY <1>2, <1>4 DEF FreeArea
<1>8. UsedArea({}) = {} /\ PagesArea({}) = {} BY DEF UsedArea, PagesArea
<1>9. HeapParts(Heap, used, slob_pages) BY <1>1, <1>6, <1>7, <1>8 DEF HeapParts
<1>10. DOMAIN bigblocks = {} BY <1>1
<1> QED BY <1>1, <1>9, <1>10 DEF HeapInv, PagesOwn, BigBlocksInUse, PendingInUse

\* The heap of the next state
LEMMA HeapNext ==
  ASSUME NEW h, SetHeap(h), h = [ring |-> h.ring, slobfree |-> h.slobfree]
  PROVE  Heap' = h
BY DEF SetHeap, Heap

\* A page that was free is none of the heap's.
LEMMA PageIsNew ==
  ASSUME KmallocInv, PagesOwn, NEW p \in FreePages
  PROVE  /\ p \in Nat /\ p \notin slob_pages
         /\ \A i \in DOMAIN bigblocks : bigblocks[i].pages # p
<1>1. p \in Page /\ p \in Nat BY ListIs, PageIs DEF KmallocInv
<1>2. ASSUME NEW run \in held PROVE run.base # p
  <2>1. run.base \in Run(run.base, run.n) BY PageIs DEF KmallocInv, PmmInv, PmmTypeOK, Run
  <2> QED BY <2>1 DEF KmallocInv, PmmInv, HeldApart
<1>3. \A q \in slob_pages : [base |-> q, n |-> 1].base # p BY <1>2 DEF PagesOwn
<1>4. ASSUME NEW i \in DOMAIN bigblocks PROVE bigblocks[i].pages # p
  <2>1. PagesOf(i) \in held /\ PagesOf(i).base = bigblocks[i].pages
    BY DEF KmallocInv, HeapRuns, PagesOf
  <2> QED BY <1>2, <2>1
<1> QED BY <1>1, <1>3, <1>4

\* slob_alloc gives out one block more, and changes nothing else of the heap.
LEMMA SlobAllocKeeps ==
  ASSUME KmallocInv, HeapInv, NEW n \in Nat, n >= 2, n <= PageUnits, SlobAlloc(n),
         UNCHANGED bigblocks
  PROVE  /\ HeapParts(Heap, used, slob_pages)' /\ PagesOwn'
         /\ \E x : used' = used \cup {x} /\ x \notin used /\ x = [at |-> x.at, units |-> n]
<1> DEFINE Uses(h) == used' = used \cup {[at |-> Found(h, n), units |-> n]}
<1>1. HeapParts(Heap, used, slob_pages) /\ PagesOwn BY DEF HeapInv
<1>2. ASSUME NEW h, NEW P, HeapParts(h, used, P), CanTake(h, n), Use(h, n)
      PROVE  /\ HeapParts(Heap', used', P)
             /\ \E x : used' = used \cup {x} /\ x \notin used /\ x = [at |-> x.at, units |-> n]
  <2>1. PICK x : x = [at |-> Found(h, n), units |-> n] OBVIOUS
  <2>2. HeapParts(Taken(h, n), used \cup {x}, P) /\ x \notin used BY <1>2, <2>1, UseKeeps
  <2>3. used' = used \cup {x} /\ SetHeap(Taken(h, n)) BY <1>2, <2>1 DEF Use
  <2>4. Heap' = Taken(h, n)
    <3>1. PICK g : g = Taken(h, n) OBVIOUS
    <3>2. g = [ring |-> g.ring, slobfree |-> g.slobfree] BY <3>1 DEF Taken
    <3> QED BY <2>3, <3>1, <3>2, HeapNext
  <2>5. x.at = Found(h, n) BY <2>1
  <2> QED BY <2>1, <2>2, <2>3, <2>4, <2>5
<1>3. CASE CanTake(Heap, n) /\ Use(Heap, n) /\ UNCHANGED <<pageVars, slob_pages>>
  <2>1. PagesOwn' BY <1>1, <1>3 DEF PagesOwn, pageVars
  <2> QED BY <1>1, <1>2, <1>3, <2>1
<1>4. ASSUME Alloc(1), slob_pages' = slob_pages \cup {answer'},
             Use(Given(Heap, answer' * PageUnits, PageUnits), n)
      PROVE  /\ HeapParts(Heap, used, slob_pages)' /\ PagesOwn'
             /\ \E x : used' = used \cup {x} /\ x \notin used /\ x = [at |-> x.at, units |-> n]
  <2>1. PICK p \in Page : AllocStep(1, p) BY <1>4, AllocIs DEF KmallocInv
  <2>2. p \in FreePages /\ answer' = p /\ held' = held \cup {[base |-> p, n |-> 1]}
    BY <2>1 DEF AllocStep, Heads
  <2>3. /\ p \in Nat /\ p \notin slob_pages /\ \A i \in DOMAIN bigblocks : bigblocks[i].pages # p
    BY <1>1, <2>2, PageIsNew
  <2>4. PICK g : g = Given(Heap, p * PageUnits, PageUnits) OBVIOUS
  <2>5. HeapParts(g, used, slob_pages \cup {p}) /\ CanTake(g, n) BY <1>1, <2>3, <2>4, PageKeeps
  <2>6. slob_pages' = slob_pages \cup {p} /\ Use(g, n) BY <1>4, <2>2, <2>4
  <2>7. PagesOwn' BY <1>1, <2>2, <2>3, <2>6 DEF PagesOwn
  <2> QED BY <1>2, <2>5, <2>6, <2>7
<1> QED BY <1>3, <1>4 DEF SlobAlloc

LEMMA SlobFreeKeeps ==
  ASSUME HeapInv, NEW x \in used, SlobFree(x), UNCHANGED slob_pages
  PROVE  HeapParts(Heap, used, slob_pages)' /\ used' = used \ {x}
<1>1. HeapParts(Heap, used, slob_pages) BY DEF HeapInv
<1>2. PICK g : g = Given(Heap, x.at, x.units) OBVIOUS
<1>3. HeapParts(g, used \ {x}, slob_pages) BY <1>1, <1>2, GiveKeeps
<1>4. Heap' = g
  <2>1. g = [ring |-> g.ring, slobfree |-> g.slobfree] BY <1>2 DEF Given
  <2>2. SetHeap(g) BY <1>2 DEF SlobFree
  <2> QED BY <2>1, <2>2, HeapNext
<1>5. used' = used \ {x} BY DEF SlobFree
<1> QED BY <1>3, <1>4, <1>5

LEMMA BigBlockIs ==
  ASSUME NEW a, NEW b
  PROVE  BigBlock(a).at = a /\ (BigBlock(a) = BigBlock(b) => a = b)
<1>1. BigBlock(a).at = a /\ BigBlock(b).at = b BY DEF BigBlock
<1> QED BY <1>1

\* The steps of the heap, one by one
LEMMA KmallocKeeps ==
  ASSUME KmallocInv, HeapInv, pending = NULL, NEW size \in Sizes,
         KmallocSmall(size) \/ KmallocBig(size)
  PROVE  HeapInv'
<1>1. UNCHANGED bigblocks BY DEF KmallocSmall, KmallocBig
<1>2. BigBlocksInUse BY DEF HeapInv
<1>3. ASSUME NEW n, SlobAllocFails(n), UNCHANGED pending PROVE HeapInv'
  <2>1. UNCHANGED heapVars /\ held' = held BY <1>3 DEF SlobAllocFails, AllocFails
  <2>2. UNCHANGED <<ring, slobfree, slob_pages, used, bigblocks, pending>> BY <2>1 DEF heapVars
  <2>3. Heap' = Heap /\ \A bb : BigBlock(bb)' = BigBlock(bb) BY <2>2 DEF Heap, BigBlock
  <2>4. HeapParts(Heap, used, slob_pages)' BY <2>2, <2>3 DEF HeapInv
  <2>5. PagesOwn' /\ BigBlocksInUse' /\ PendingInUse'
    BY <2>1, <2>2 DEF HeapInv, PagesOwn, BigBlocksInUse, PendingInUse
  <2> QED BY <2>4, <2>5 DEF HeapInv
<1>4. ASSUME used \subseteq used' PROVE BigBlocksInUse' BY <1>1, <1>2, <1>4 DEF BigBlocksInUse
<1>5. ASSUME SlobAlloc(Units(size + SLOB_UNIT)), KmallocSmall(size) PROVE HeapInv'
  <2>1. PICK n : n = Units(size + SLOB_UNIT) OBVIOUS
  <2>2. n \in Nat /\ n >= 2 /\ n <= PageUnits
    BY <1>5, <2>1, HeapAssumption, PageUnitsIs DEF KmallocSmall
  <2>3. /\ HeapParts(Heap, used, slob_pages)' /\ PagesOwn'
        /\ \E x : used' = used \cup {x} /\ x \notin used /\ x = [at |-> x.at, units |-> n]
    BY <1>1, <1>5, <2>1, <2>2, SlobAllocKeeps
  <2>4. BigBlocksInUse' BY <1>4, <2>3
  <2>5. PendingInUse' BY <1>5 DEF KmallocSmall, PendingInUse
  <2> QED BY <2>3, <2>4, <2>5 DEF HeapInv
<1>6. ASSUME SlobAlloc(Units(BIGBLOCK)),
             \E block \in used' \ used : pending' = [bb |-> block.at, order |-> Order(size)]
      PROVE  HeapInv'
  <2>1. PICK n : n = Units(BIGBLOCK) OBVIOUS
  <2>2. n \in Nat /\ n >= 2 /\ n <= PageUnits BY <2>1, PageUnitsIs
  <2>3. /\ HeapParts(Heap, used, slob_pages)' /\ PagesOwn'
        /\ \E x : used' = used \cup {x} /\ x \notin used /\ x = [at |-> x.at, units |-> n]
    BY <1>1, <1>6, <2>1, <2>2, SlobAllocKeeps
  <2>4. BigBlocksInUse' BY <1>4, <2>3
  <2>5. PICK x : used' = used \cup {x} /\ x \notin used /\ x = [at |-> x.at, units |-> n] BY <2>3
  <2>6. PICK bb : pending'.bb = bb /\ bb = x.at
    <3>1. PICK block \in used' \ used : pending' = [bb |-> block.at, order |-> Order(size)]
      BY <1>6
    <3>2. block = x BY <2>5
    <3> QED BY <3>1, <3>2
  <2>7. BigBlock(bb) = x BY <2>1, <2>5, <2>6 DEF BigBlock
  <2>8. \A i \in DOMAIN bigblocks : bigblocks[i].bb # bb BY <1>2, <2>5, <2>7 DEF BigBlocksInUse
  <2>9. PendingInUse' BY <1>1, <2>5, <2>6, <2>7, <2>8 DEF PendingInUse
  <2> QED BY <2>3, <2>4, <2>9 DEF HeapInv
<1> QED BY <1>3, <1>5, <1>6 DEF KmallocSmall, KmallocBig

LEMMA GetPagesKeeps ==
  ASSUME KmallocInv, HeapInv, GetPages
  PROVE  HeapInv'
<1>1. HeapParts(Heap, used, slob_pages) /\ PagesOwn /\ BigBlocksInUse /\ PendingInUse
  BY DEF HeapInv
<1>2. /\ BigBlock(pending.bb) \in used
      /\ \A i \in DOMAIN bigblocks : bigblocks[i].bb # pending.bb
  BY <1>1 DEF GetPages, PendingInUse
<1>3. UNCHANGED slob_pages /\ PendingInUse' BY DEF GetPages, PendingInUse
<1>4. ASSUME Alloc(2 ^ pending.order),
             bigblocks' = <<[bb |-> pending.bb, pages |-> answer', order |-> pending.order]>>
                            \o bigblocks,
             UNCHANGED <<ring, slobfree, used>>
      PROVE  HeapInv'
  <2>1. PICK n : n = 2 ^ pending.order OBVIOUS
  <2>2. PICK p \in Page : AllocStep(n, p) BY <1>4, <2>1, AllocIs DEF KmallocInv
  <2>3. p \in FreePages /\ answer' = p /\ held \subseteq held' BY <2>2 DEF AllocStep, Heads
  <2>4. p \notin slob_pages BY <1>1, <2>3, PageIsNew
  <2>5. PICK new : new = [bb |-> pending.bb, pages |-> p, order |-> pending.order] OBVIOUS
  <2>6. new.bb = pending.bb /\ new.pages = p BY <2>5
  <2>7. bigblocks \in Seq(ToSet(bigblocks)) /\ bigblocks' = <<new>> \o bigblocks
    BY <1>4, <2>3, <2>5 DEF KmallocInv, HeapRuns
  <2>8. \A x \in DOMAIN bigblocks' :
          \/ x = 1 /\ bigblocks'[x] = new
          \/ \E i \in DOMAIN bigblocks : x = i + 1 /\ bigblocks'[x] = bigblocks[i]
    BY <2>7, FrontIs
  <2>9. ASSUME NEW x \in DOMAIN bigblocks'
        PROVE  BigBlock(bigblocks'[x].bb) \in used /\ \A q \in slob_pages : bigblocks'[x].pages # q
    <3>1. CASE bigblocks'[x] = new BY <1>2, <2>4, <2>6, <3>1
    <3>2. CASE \E i \in DOMAIN bigblocks : bigblocks'[x] = bigblocks[i]
      BY <1>1, <3>2 DEF BigBlocksInUse, PagesOwn
    <3> QED BY <2>8, <3>1, <3>2
  <2>10. ASSUME NEW x \in DOMAIN bigblocks', NEW y \in DOMAIN bigblocks',
                bigblocks'[x].bb = bigblocks'[y].bb
         PROVE  x = y
    <3>1. CASE x = 1 /\ bigblocks'[x] = new BY <1>2, <2>6, <2>8, <2>10, <3>1
    <3>2. CASE \E i \in DOMAIN bigblocks : x = i + 1 /\ bigblocks'[x] = bigblocks[i]
      <4>1. PICK i \in DOMAIN bigblocks : x = i + 1 /\ bigblocks'[x] = bigblocks[i] BY <3>2
      <4>2. bigblocks'[y] # new BY <1>2, <2>6, <2>10, <4>1
      <4>3. PICK j \in DOMAIN bigblocks : y = j + 1 /\ bigblocks'[y] = bigblocks[j] BY <2>8, <4>2
      <4>4. i = j BY <1>1, <2>10, <4>1, <4>3 DEF BigBlocksInUse
      <4> QED BY <4>1, <4>3, <4>4
    <3> QED BY <2>8, <3>1, <3>2
  <2>11. BigBlocksInUse'
    <3>1. \A bb : BigBlock(bb)' = BigBlock(bb) BY DEF BigBlock
    <3> QED BY <1>4, <2>9, <2>10, <3>1 DEF BigBlocksInUse
  <2>12. PagesOwn' BY <1>1, <1>3, <2>3, <2>9 DEF PagesOwn
  <2>13. HeapParts(Heap, used, slob_pages)' BY <1>1, <1>3, <1>4 DEF Heap
  <2> QED BY <1>3, <2>11, <2>12, <2>13 DEF HeapInv
<1>5. ASSUME AllocFails(2 ^ pending.order), SlobFree(BigBlock(pending.bb)), UNCHANGED bigblocks
      PROVE  HeapInv'
  <2>1. PICK x : x = BigBlock(pending.bb) OBVIOUS
  <2>2. HeapParts(Heap, used, slob_pages)' /\ used' = used \ {x}
    BY <1>2, <1>3, <1>5, <2>1, SlobFreeKeeps
  <2>3. \A i \in DOMAIN bigblocks : BigBlock(bigblocks[i].bb) \in used \ {x}
    BY <1>1, <1>2, <2>1, BigBlockIs DEF BigBlocksInUse
  <2>4. BigBlocksInUse' BY <1>1, <1>5, <2>2, <2>3 DEF BigBlocksInUse
  <2>5. PagesOwn' BY <1>1, <1>3, <1>5 DEF PagesOwn, AllocFails
  <2> QED BY <1>3, <2>2, <2>4, <2>5 DEF HeapInv
<1> QED BY <1>4, <1>5 DEF GetPages

LEMMA KfreeSmallKeeps ==
  ASSUME KmallocInv, HeapInv, pending = NULL, NEW address \in Allocated, KfreeSmall(address)
  PROVE  HeapInv'
<1>1. HeapParts(Heap, used, slob_pages) /\ PagesOwn /\ BigBlocksInUse BY DEF HeapInv
<1>2. /\ Listed(address) = {} /\ UNCHANGED <<pageVars, slob_pages, bigblocks, pending>>
      /\ \E block \in used : block.at = address - 1 /\ SlobFree(block)
  BY DEF KfreeSmall
<1>3. PICK x \in used : x.at = address - 1 /\ SlobFree(x) BY <1>2
<1>4. PICK y \in used : /\ y.at + 1 = address
                        /\ \A i \in DOMAIN bigblocks : y # BigBlock(bigblocks[i].bb)
  BY <1>2 DEF Allocated, Listed
<1>5. x = y
  <2>1. y.at \in Nat BY <1>1, UsedIs
  <2>2. x.at = y.at BY <1>3, <1>4, <2>1
  <2> QED BY <1>1, <2>2, UsedOnce
<1>6. HeapParts(Heap, used, slob_pages)' /\ used' = used \ {x} BY <1>2, <1>3, SlobFreeKeeps
<1>7. BigBlocksInUse' BY <1>1, <1>2, <1>4, <1>5, <1>6 DEF BigBlocksInUse
<1>8. PagesOwn' /\ PendingInUse' BY <1>1, <1>2 DEF PagesOwn, PendingInUse, pageVars
<1> QED BY <1>6, <1>7, <1>8 DEF HeapInv

LEMMA KfreeBigKeeps ==
  ASSUME KmallocInv, HeapInv, pending = NULL, NEW address, KfreeBig(address)
  PROVE  HeapInv'
<1>1. HeapParts(Heap, used, slob_pages) /\ PagesOwn /\ BigBlocksInUse BY DEF HeapInv
<1>2. bigblocks \in Seq(ToSet(bigblocks)) BY DEF KmallocInv, HeapRuns
<1>3. PICK i : i = Min(Listed(address)) OBVIOUS
<1>4. i \in DOMAIN bigblocks
  <2>1. Listed(address) \in SUBSET Nat BY <1>2, InList DEF Listed
  <2>2. i \in Listed(address) BY <1>3, <2>1, MinIs DEF KfreeBig
  <2> QED BY <2>2 DEF Listed
<1>5. PICK x : x = BigBlock(bigblocks[i].bb) OBVIOUS
<1>6. /\ bigblocks' = RemoveAt(bigblocks, i) /\ SlobFree(x)
      /\ Free(PagesOf(i), PagesOf(i).base, PagesOf(i).n)
      /\ UNCHANGED <<slob_pages, pending>>
  BY <1>3, <1>5 DEF KfreeBig
<1>7. x \in used BY <1>1, <1>4, <1>5 DEF BigBlocksInUse
<1>8. HeapParts(Heap, used, slob_pages)' /\ used' = used \ {x} BY <1>6, <1>7, SlobFreeKeeps
<1>9. /\ \A y \in DOMAIN bigblocks' : y \in Nat
      /\ \A y \in DOMAIN bigblocks' : \E j \in DOMAIN bigblocks :
           bigblocks'[y] = bigblocks[j] /\ j # i /\ j = IF y < i THEN y ELSE y + 1
  BY <1>2, <1>4, <1>6, RemovedIs
<1>10. ASSUME NEW y \in DOMAIN bigblocks'
       PROVE  /\ BigBlock(bigblocks'[y].bb) \in used'
              /\ \A p \in slob_pages : bigblocks'[y].pages # p
  <2>1. PICK j \in DOMAIN bigblocks : bigblocks'[y] = bigblocks[j] /\ j # i BY <1>9
  <2>2. bigblocks[j].bb # bigblocks[i].bb BY <1>1, <1>4, <2>1 DEF BigBlocksInUse
  <2>3. BigBlock(bigblocks[j].bb) \in used \ {x}
    BY <1>1, <1>5, <2>1, <2>2, BigBlockIs DEF BigBlocksInUse
  <2> QED BY <1>1, <1>8, <2>1, <2>3 DEF PagesOwn
<1>11. ASSUME NEW y \in DOMAIN bigblocks', NEW z \in DOMAIN bigblocks',
              bigblocks'[y].bb = bigblocks'[z].bb
       PROVE  y = z
  <2>1. PICK j \in DOMAIN bigblocks :
          bigblocks'[y] = bigblocks[j] /\ j # i /\ j = IF y < i THEN y ELSE y + 1
    BY <1>9
  <2>2. PICK k \in DOMAIN bigblocks :
          bigblocks'[z] = bigblocks[k] /\ k # i /\ k = IF z < i THEN z ELSE z + 1
    BY <1>9
  <2>3. j = k BY <1>1, <1>11, <2>1, <2>2 DEF BigBlocksInUse
  <2>4. \A m \in DOMAIN bigblocks : m \in Nat
    <3>1. DOMAIN bigblocks = 1 .. Len(bigblocks) BY <1>2, InList
    <3> QED BY <3>1
  <2>5. y \in Nat /\ z \in Nat /\ i \in Nat BY <1>4, <1>9, <2>4
  <2>6. (IF y < i THEN y ELSE y + 1) = (IF z < i THEN z ELSE z + 1) BY <2>1, <2>2, <2>3
  <2> QED BY <2>5, <2>6
<1>12. BigBlocksInUse'
  <2>1. \A bb : BigBlock(bb)' = BigBlock(bb) BY DEF BigBlock
  <2> QED BY <1>10, <1>11, <2>1 DEF BigBlocksInUse
<1>13. ASSUME NEW p \in slob_pages PROVE [base |-> p, n |-> 1] \in held'
  <2>1. PagesOf(i).base = bigblocks[i].pages BY DEF PagesOf
  <2>2. bigblocks[i].pages # p /\ [base |-> p, n |-> 1] \in held BY <1>1, <1>4 DEF PagesOwn
  <2>3. [base |-> p, n |-> 1] # PagesOf(i) BY <2>1, <2>2
  <2>4. held \ {PagesOf(i)} \subseteq held' BY <1>6 DEF Free
  <2> QED BY <2>2, <2>3, <2>4
<1>14. PagesOwn' BY <1>6, <1>10, <1>13 DEF PagesOwn
<1>15. PendingInUse' BY <1>6 DEF PendingInUse
<1> QED BY <1>8, <1>12, <1>14, <1>15 DEF HeapInv

\* Others call the page allocator, or nothing happens.
LEMMA OthersKeepHeap ==
  ASSUME KmallocInv, HeapInv, PageCall(Others) \/ UNCHANGED pageVars, UNCHANGED heapVars
  PROVE  HeapInv'
<1>1. HeapParts(Heap, used, slob_pages) /\ PagesOwn /\ BigBlocksInUse /\ PendingInUse
  BY DEF HeapInv
<1>2. UNCHANGED <<ring, slobfree, slob_pages, used, bigblocks, pending>> BY DEF heapVars
<1>3. \A p \in slob_pages : [base |-> p, n |-> 1] \in held'
  <2>1. CASE \E n \in 1 .. NPAGE + 1 : Alloc(n) \/ AllocFails(n)
    <3>1. held \subseteq held' BY <2>1 DEF Alloc, AllocFails
    <3> QED BY <1>1, <3>1 DEF PagesOwn
  <2>2. CASE \E run \in Others : \E part \in Parts(run) : Free(run, part[1], part[2])
    <3>1. PICK run \in Others : held \ {run} \subseteq held' BY <2>2 DEF Free
    <3> QED BY <1>1, <3>1 DEF PagesOwn, Others
  <2>3. CASE UNCHANGED pageVars BY <1>1, <2>3 DEF PagesOwn, pageVars
  <2> QED BY <2>1, <2>2, <2>3 DEF PageCall
<1>4. PagesOwn' BY <1>1, <1>2, <1>3 DEF PagesOwn
<1>5. HeapParts(Heap, used, slob_pages)' BY <1>1, <1>2 DEF Heap
<1>6. BigBlocksInUse' /\ PendingInUse'
  BY <1>1, <1>2 DEF BigBlocksInUse, PendingInUse
<1> QED BY <1>4, <1>5, <1>6 DEF HeapInv

\* In every reachable state the free blocks, linked in order, and the blocks given
\* out share the heap's pages out among them (slob_alloc, slob_free, __kmalloc, kfree).
THEOREM HeapInvariant == Spec => [](KmallocInv /\ HeapInv)
<1>1. HeapInit => HeapInv BY HeapInitHolds
<1>2. KmallocInv /\ HeapInv /\ [Next]_vars => HeapInv'
  BY KmallocKeeps, GetPagesKeeps, KfreeSmallKeeps, KfreeBigKeeps, OthersKeepHeap DEF Next, vars
<1> QED BY <1>1, <1>2, PagesInvariant, PTL DEF Spec

\* Where the ring is in order, a free block links the lowest one behind it.
LEMMA NextIs ==
  ASSUME NEW h, Ordered(h), NEW b \in DOMAIN h.ring,
         NEW After, After = {c \in DOMAIN h.ring : c > b}
  PROVE  h.ring[b].next = IF After = {} THEN Arena ELSE Min(After)
<1> DEFINE D == DOMAIN h.ring
<1>1. PICK c \in D : c = h.ring[b].next /\ Follows(D, b, c) BY LinksIs
<1>2. /\ b \in Int /\ c \in Int /\ Arena = -2
      /\ \A x \in D : x \in Int /\ (x = Arena \/ x \in Nat)
  BY OrderedIs
<1>3. CASE c > b /\ \A x \in D : x <= b \/ c <= x
  <2>1. c \in After BY <1>3
  <2>2. \A x \in After : x \in Int /\ c <= x BY <1>2, <1>3
  <2>3. After \in SUBSET Nat
    <3>1. ASSUME NEW x \in After PROVE x \in Nat
      <4>1. x \in D /\ x > b BY DEF D
      <4> QED BY <1>2, <4>1
    <3> QED BY <3>1
  <2>4. Min(After) \in After /\ \A x \in After : Min(After) <= x BY <2>1, <2>3, MinIs
  <2>5. Min(After) = c BY <1>2, <2>1, <2>2, <2>4
  <2> QED BY <1>1, <2>1, <2>5
<1>4. CASE c = Arena /\ \A x \in D : x <= b
  <2>1. After = {} BY <1>2, <1>4
  <2> QED BY <1>1, <1>4, <2>1
<1> QED BY <1>1, <1>3, <1>4 DEF Follows

\* The kernel heap stays exact in every reachable state: the ring links the free
\* blocks in order, none touches another, and nothing is given out twice, lost or
\* broken up, over any splits, joins and failed big blocks (slob_alloc, slob_free).
THEOREM HeapStaysExact == Spec => []HeapExact
<1>1. ASSUME HeapInv PROVE HeapExact
  <2> DEFINE D == DOMAIN ring
             free == {[at |-> b, units |-> ring[b].units] : b \in D \ {Arena}}
             pages == UNION {Reach(p * PageUnits, PageUnits) : p \in slob_pages}
             After(b) == {c \in D : c > b}
  <2>1. HeapParts(Heap, used, slob_pages) /\ Ordered(Heap) BY <1>1 DEF HeapInv, HeapParts
  <2>2. Heap.ring = ring /\ Heap.slobfree = slobfree BY DEF Heap
  <2>3. slobfree \in D /\ Arena \in D BY <2>1, <2>2 DEF Ordered
  <2>4. ASSUME NEW b \in D PROVE ring[b].next = IF After(b) = {} THEN Arena ELSE Min(After(b))
    BY <2>1, <2>2, NextIs
  <2>5. ASSUME NEW b \in D PROVE b + ring[b].units \notin D
    <3>1. b \in Int /\ ring[b].units \in Nat \ {0} BY <2>1, <2>2, OrderedIs
    <3>2. PICK c : c = b + ring[b].units OBVIOUS
    <3>3. c \in D /\ b < c => b + ring[b].units < c BY <2>1, <2>2, OrderedIs
    <3> QED BY <3>1, <3>2, <3>3
  <2>6. /\ UsedArea(used) \cup FreeArea(Heap) = pages
        /\ UsedArea(used) \cap FreeArea(Heap) = {}
        /\ \A x, y \in used : x # y => Reach(x.at, x.units) \cap Reach(y.at, y.units) = {}
    BY <2>1 DEF HeapParts, PagesArea
  <2>7. ASSUME NEW x \in free
        PROVE  /\ \A z \in Reach(x.at, x.units) : Covers(Heap, x.at, z)
               /\ x = [at |-> x.at, units |-> ring[x.at].units]
               /\ x.at \in Reach(x.at, x.units)
    <3>1. PICK b \in D \ {Arena} : x = [at |-> b, units |-> ring[b].units] OBVIOUS
    <3>2. x.at = b /\ x.units = ring[b].units BY <3>1
    <3>3. b \in Nat /\ ring[b].units \in Nat \ {0} BY <2>1, <2>2, OrderedIs
    <3>4. b \in Reach(b, ring[b].units) BY <3>3 DEF Reach
    <3> QED BY <2>2, <3>1, <3>2, <3>4 DEF Covers
  <2>8. \A x \in free : Reach(x.at, x.units) \subseteq FreeArea(Heap) BY <2>7, AreaIs
  <2>9. UNION {Reach(x.at, x.units) : x \in free} = FreeArea(Heap)
    <3>1. ASSUME NEW b, NEW z, Covers(Heap, b, z)
          PROVE  \E x \in free : z \in Reach(x.at, x.units)
      <4>1. PICK x : x = [at |-> b, units |-> ring[b].units] OBVIOUS
      <4>2. x.at = b /\ x.units = ring[b].units BY <4>1
      <4> QED BY <2>2, <3>1, <4>1, <4>2 DEF Covers
    <3>2. \A z \in FreeArea(Heap) : \E x \in free : z \in Reach(x.at, x.units) BY <3>1, AreaIs
    <3> HIDE DEF free
    <3> QED BY <2>8, <3>2
  <2> HIDE DEF free
  <2>10. UNION {Reach(x.at, x.units) : x \in free \cup used} = pages
    <3>1. \A X, Y : UsedArea(X \cup Y) = UsedArea(X) \cup UsedArea(Y) BY DEF UsedArea
    <3>2. UsedArea(free) = FreeArea(Heap) BY <2>9 DEF UsedArea
    <3>3. UsedArea(free \cup used) = pages BY <2>6, <3>1, <3>2
    <3> QED BY <3>3 DEF UsedArea
  <2>11. \A x \in used : /\ Reach(x.at, x.units) \subseteq UsedArea(used)
                         /\ x.at \in Reach(x.at, x.units)
    BY <2>1, UsedIs
  <2>12. \A x \in free, y \in used : Reach(x.at, x.units) \cap Reach(y.at, y.units) = {}
    BY <2>6, <2>8, <2>11
  <2>13. free \cap used = {} BY <2>11, <2>12
  <2>14. ASSUME NEW x \in free, NEW y \in free, x # y
         PROVE  Reach(x.at, x.units) \cap Reach(y.at, y.units) = {}
    <3> SUFFICES ASSUME NEW z \in Reach(x.at, x.units), z \in Reach(y.at, y.units) PROVE FALSE
      OBVIOUS
    <3>1. Covers(Heap, x.at, z) /\ Covers(Heap, y.at, z) BY <2>7
    <3>2. x.at = y.at BY <2>1, <3>1, CoveredOnce
    <3> QED BY <2>7, <2>14, <3>2
  <2>15. \A x, y \in free \cup used :
           x # y => Reach(x.at, x.units) \cap Reach(y.at, y.units) = {}
    BY <2>6, <2>12, <2>14
  <2> QED BY <2>3, <2>4, <2>5, <2>10, <2>13, <2>15 DEF HeapExact, free
<1> QED BY <1>1, HeapInvariant, PTL
=============================================================================
