---------------------------- MODULE RecordingsProofs ----------------------------
(* Theorems about Recordings for any ids, tabs, limits and ages. *)
EXTENDS Recordings, FiniteSetTheorems, WellFoundedInduction, TLAPS

-----------------------------------------------------------------------------
(* The inductive invariant *)

\* The sizes the rows are charged for keep to the limits, and an id without a
\* row is charged for nothing.
ChargedWithinQuota ==
  /\ TotalBytes <= MaxPerUser
  /\ \A r \in Recordings : row[r].size <= MaxBytes
  /\ \A r \in Recordings : ~HasRow(r) => row[r].size = 0

ServerInv == RowMatchesFiles /\ ChargedWithinQuota

Chunk(r) == [kind |-> "chunk", id |-> r]
Finish(r) == [kind |-> "finish", id |-> r]

\* How many chunks of r the queue q holds.
Places(q, r) == {i \in DOMAIN q : q[i] = Chunk(r)}
Count(q, r) == Cardinality(Places(q, r))

Queued(q, r) == \E i \in DOMAIN q : q[i].id = r

\* A tab still records r, or has something to say of it.
Knows(p, r) ==
  r \in page[p].running \/ page[p].id = r \/ Queued(page[p].queue, r)

\* A recording is made by one tab, once its row is there.
OneHome ==
  \A r \in Recordings, p \in Pages : Knows(p, r) =>
    /\ row[r].status # "unused"
    /\ \A q \in Pages : Knows(q, r) => p = q

\* The recorder that recordingIdRef names is the one that recorderRef names.
RefsAgree == \A p \in Pages : page[p].id \in page[p].running => page[p].ref = page[p].id

\* q holds a finish of r, and no chunk of r after one.
Finished(q, r) == \E i \in DOMAIN q : q[i] = Finish(r)
FinishLast(q, r) ==
  \A i, j \in DOMAIN q : q[i] = Finish(r) /\ q[j] = Chunk(r) => j < i

\* Nothing of a recording comes after its finish.
FinishIsLast ==
  \A p \in Pages, r \in Recordings :
    /\ Finished(page[p].queue, r) => r \notin page[p].running /\ page[p].id # r
    /\ FinishLast(page[p].queue, r)

\* A complete recording is no longer recorded.
CompleteIsOver ==
  \A r \in Recordings, p \in Pages :
    row[r].status = "complete" => r \notin page[p].running

\* An upload is the head of the queue of its tab, which waits for it, or it is of
\* a recording that has met a failure.
UploadsFit ==
  \A u \in uploads :
    IF u.waited THEN /\ page[u.page].sent /\ page[u.page].queue # <<>>
                     /\ Head(page[u.page].queue) = Chunk(u.id)
                ELSE u.id \in spoilt

\* What a recorder has emitted is in the file or yet to be sent.
Lossless(r) ==
  /\ row[r].status = "unused" => emitted[r] = 0
  /\ Unfinished(r) => \A p \in Pages : Knows(p, r) =>
       emitted[r] = Bytes(part[r]) + Count(page[p].queue, r)
  /\ row[r].status = "complete" => replay[r] = emitted[r]

NothingIsLost == \A r \in Recordings \ (spoilt \cup torn) : Lossless(r)

TabInv == OneHome /\ RefsAgree /\ FinishIsLast /\ CompleteIsOver /\ UploadsFit

IInv == TypeOK /\ ServerInv /\ TabInv /\ NothingIsLost

-----------------------------------------------------------------------------
(* Sums over the rows *)

\* The element a fold takes first.
Pick(s) == CHOOSE x \in s : TRUE

LEMMA PickIn == ASSUME NEW s, s # {} PROVE Pick(s) \in s
  BY DEF Pick

LEMMA NatMinimum ==
  ASSUME NEW T, T \subseteq Nat, T # {}
  PROVE  \E n \in T : \A m \in T : n <= m
  <1> DEFINE Less == OpToRel(<, Nat)
  <1>1. IsWellFoundedOn(Less, Nat)
    BY NatLessThanWellFounded
  <1>2. \A m, n \in Nat : <<m, n>> \in Less <=> m < n
    BY DEF OpToRel
  <1> HIDE DEF Less
  <1>3. PICK n \in T : \A m \in T : ~(<<m, n>> \in Less)
    BY <1>1, WFMin
  <1>4. ASSUME NEW m \in T
        PROVE  n <= m
    <2>1. m \in Nat /\ n \in Nat
      OBVIOUS
    <2>2. ~(m < n)
      BY <1>2, <1>3, <2>1
    <2>3. QED
      BY <2>1, <2>2
  <1>5. QED
    BY <1>4

\* A set of subsets that has every subset whose proper subsets it has, has all:
\* otherwise a smallest one would be missing.
LEMMA SubsetInduction ==
  ASSUME NEW S, IsFiniteSet(S), NEW P,
         \A s \in SUBSET S : (\A t \in SUBSET s : t # s => t \in P) => s \in P
  PROVE  SUBSET S \subseteq P
  <1> DEFINE T == {Cardinality(s) : s \in {t \in SUBSET S : t \notin P}}
  <1>1. \A s \in SUBSET S : IsFiniteSet(s) /\ Cardinality(s) \in Nat
    BY FS_Subset, FS_CardinalityType
  <1>2. SUFFICES ASSUME T # {} PROVE FALSE
    OBVIOUS
  <1>3. PICK n \in T : \A m \in T : n <= m
    <2>1. T \subseteq Nat
      BY <1>1
    <2> HIDE DEF T
    <2>2. QED
      BY <1>2, <2>1, NatMinimum
  <1>4. PICK s \in SUBSET S : s \notin P /\ n = Cardinality(s)
    BY <1>3
  <1>5. PICK t \in SUBSET s : t # s /\ t \notin P
    BY <1>4
  <1>6. Cardinality(t) < Cardinality(s)
    BY <1>1, <1>5, FS_Subset
  <1>7. Cardinality(t) \in T
    BY <1>5
  <1>8. QED
    BY <1>1, <1>3, <1>4, <1>5, <1>6, <1>7

\* g gives the sum of f over every subset of S.
IsSum(g, f, S) ==
  g = [s \in SUBSET S |-> IF s = {} THEN 0 ELSE f[Pick(s)] + g[s \ {Pick(s)}]]

LEMMA SumExists ==
  ASSUME NEW S, IsFiniteSet(S), NEW f
  PROVE  \E g : IsSum(g, f, S)
  <1> DEFINE Value(g, s) == IF s = {} THEN 0 ELSE f[Pick(s)] + g[s \ {Pick(s)}]
             UpTo(n) == \E g : /\ g = [s \in SUBSET S |-> g[s]]
                               /\ \A s \in SUBSET S : Cardinality(s) <= n => g[s] = Value(g, s)
             T == {n \in Nat : ~UpTo(n)}
  <1>1. \A s \in SUBSET S : IsFiniteSet(s) /\ Cardinality(s) \in Nat
    BY FS_Subset, FS_CardinalityType
  <1>2. ASSUME NEW n \in Nat, n > 0 => UpTo(n - 1)
        PROVE  UpTo(n)
    <2>1. PICK g : n > 0 => \A s \in SUBSET S : Cardinality(s) <= n - 1 => g[s] = Value(g, s)
      BY <1>2
    <2> DEFINE h == [s \in SUBSET S |-> Value(g, s)]
    <2>2. ASSUME NEW s \in SUBSET S, Cardinality(s) <= n
          PROVE  h[s] = Value(h, s)
      <3>1. CASE s = {}
        BY <3>1
      <3>2. CASE s # {}
        <4> DEFINE t == s \ {Pick(s)}
        <4>1. Pick(s) \in s
          BY <3>2, PickIn
        <4>2. t \in SUBSET S /\ Cardinality(t) = Cardinality(s) - 1
          BY <1>1, <4>1, FS_RemoveElement
        <4>3. n > 0 /\ Cardinality(t) <= n - 1
          BY <1>1, <2>2, <4>2
        <4>4. g[t] = Value(g, t)
          BY <2>1, <4>2, <4>3
        <4>5. h[t] = Value(g, t)
          BY <4>2
        <4>6. h[s] = f[Pick(s)] + g[t]
          BY <3>2
        <4>7. QED
          BY <3>2, <4>4, <4>5, <4>6
      <3>3. QED
        BY <3>1, <3>2
    <2>3. h = [s \in SUBSET S |-> h[s]]
      OBVIOUS
    <2> HIDE DEF h
    <2>4. QED
      BY <2>2, <2>3
  <1>3. T = {}
    <2>1. SUFFICES ASSUME T # {} PROVE FALSE
      OBVIOUS
    <2>2. PICK n \in T : \A m \in T : n <= m
      <3>1. T \subseteq Nat
        OBVIOUS
      <3> HIDE DEF T
      <3>2. QED
        BY <2>1, <3>1, NatMinimum
    <2>3. n > 0 => n - 1 \in Nat /\ ~(n <= n - 1)
      OBVIOUS
    <2>4. n > 0 => UpTo(n - 1)
      BY <2>2, <2>3
    <2>5. QED
      BY <1>2, <2>2, <2>4
  <1>4. Cardinality(S) \in Nat /\ \A s \in SUBSET S : Cardinality(s) <= Cardinality(S)
    BY <1>1, FS_Subset, FS_CardinalityType
  <1>5. UpTo(Cardinality(S))
    BY <1>3, <1>4
  <1>6. PICK g : /\ g = [s \in SUBSET S |-> g[s]]
                 /\ \A s \in SUBSET S : g[s] = Value(g, s)
    BY <1>4, <1>5
  <1>7. g = [s \in SUBSET S |-> Value(g, s)]
    BY <1>6
  <1>8. QED
    BY <1>7 DEF IsSum

\* From here on g is the sum of f, which has natural numbers on S.
LEMMA SumValue ==
  ASSUME NEW S, NEW f, NEW g, IsSum(g, f, S), NEW s \in SUBSET S
  PROVE  /\ s = {} => g[s] = 0
         /\ s # {} => /\ Pick(s) \in s
                      /\ s \ {Pick(s)} \in SUBSET S /\ s \ {Pick(s)} # s
                      /\ g[s] = f[Pick(s)] + g[s \ {Pick(s)}]
  BY PickIn DEF IsSum

LEMMA SumEmpty ==
  ASSUME NEW S, NEW f, NEW g, IsSum(g, f, S)
  PROVE  g[{}] = 0
  <1>1. {} \in SUBSET S
    OBVIOUS
  <1>2. QED
    BY <1>1 DEF IsSum

LEMMA SumIsNat ==
  ASSUME NEW S, IsFiniteSet(S), NEW f, \A x \in S : f[x] \in Nat,
         NEW g, IsSum(g, f, S)
  PROVE  \A s \in SUBSET S : g[s] \in Nat
  <1> DEFINE P == {s \in SUBSET S : g[s] \in Nat}
  <1>1. ASSUME NEW s \in SUBSET S, \A t \in SUBSET s : t # s => t \in P
        PROVE  g[s] \in Nat
    <2> DEFINE t == s \ {Pick(s)}
    <2>1. CASE s = {}
      BY <2>1, SumValue
    <2>2. CASE s # {}
      <3>1. Pick(s) \in s /\ t \in SUBSET s /\ t # s /\ g[s] = f[Pick(s)] + g[t]
        BY <2>2, SumValue
      <3>2. g[t] \in Nat /\ f[Pick(s)] \in Nat
        BY <1>1, <3>1
      <3>3. QED
        BY <3>1, <3>2
    <2>3. QED
      BY <2>1, <2>2
  <1>2. SUBSET S \subseteq P
    <2>1. \A s \in SUBSET S : (\A t \in SUBSET s : t # s => t \in P) => s \in P
      BY <1>1
    <2> HIDE DEF P
    <2>2. QED
      BY <2>1, SubsetInduction
  <1>3. QED
    BY <1>2

\* A sum takes its elements in any order.
LEMMA SumWithout ==
  ASSUME NEW S, IsFiniteSet(S), NEW f, \A x \in S : f[x] \in Nat,
         NEW g, IsSum(g, f, S), NEW s \in SUBSET S, NEW x \in s
  PROVE  g[s] = f[x] + g[s \ {x}]
  <1> DEFINE P == {t \in SUBSET S : \A y \in t : g[t] = f[y] + g[t \ {y}]}
  <1>1. ASSUME NEW t \in SUBSET S, \A u \in SUBSET t : u # t => u \in P, NEW y \in t
        PROVE  g[t] = f[y] + g[t \ {y}]
    <2> DEFINE c == Pick(t)
    <2>1. c \in t /\ g[t] = f[c] + g[t \ {c}]
      BY <1>1, SumValue
    <2>2. CASE c = y
      BY <2>1, <2>2
    <2>3. CASE c # y
      <3>1. y \in t \ {c} /\ c \in t \ {y} /\ (t \ {c}) \ {y} = (t \ {y}) \ {c}
        BY <2>1, <2>3
      <3>2. t \ {c} \in P /\ t \ {y} \in P
        <4>1. t \ {c} \in SUBSET t /\ t \ {c} # t /\ t \ {y} \in SUBSET t /\ t \ {y} # t
          BY <2>1
        <4>2. QED
          BY <1>1, <4>1
      <3>3. g[t \ {c}] = f[y] + g[(t \ {c}) \ {y}]
        BY <3>1, <3>2
      <3>4. g[t \ {y}] = f[c] + g[(t \ {y}) \ {c}]
        BY <3>1, <3>2
      <3>5. f[c] \in Nat /\ f[y] \in Nat /\ g[(t \ {c}) \ {y}] \in Nat
        BY <2>1, SumIsNat
      <3> DEFINE rest == g[(t \ {c}) \ {y}]
      <3>6. g[t \ {y}] = f[c] + rest
        BY <3>1, <3>4
      <3>7. g[t] = f[c] + (f[y] + rest)
        BY <2>1, <3>3
      <3>8. f[c] + (f[y] + rest) = f[y] + (f[c] + rest)
        BY <3>5
      <3>9. QED
        BY <3>6, <3>7, <3>8
    <2>4. QED
      BY <2>2, <2>3
  <1>2. SUBSET S \subseteq P
    <2>1. \A t \in SUBSET S : (\A u \in SUBSET t : u # t => u \in P) => t \in P
      BY <1>1
    <2> HIDE DEF P
    <2>2. QED
      BY <2>1, SubsetInduction
  <1>3. QED
    BY <1>2

\* What counts for nothing may be left out.
LEMMA SumOfRest ==
  ASSUME NEW S, IsFiniteSet(S), NEW f, \A x \in S : f[x] \in Nat,
         NEW g, IsSum(g, f, S), NEW R \in SUBSET S, \A x \in S \ R : f[x] = 0
  PROVE  g[S] = g[R]
  <1> DEFINE P == {t \in SUBSET S : g[t] = g[t \cap R]}
  <1>1. ASSUME NEW t \in SUBSET S, \A u \in SUBSET t : u # t => u \in P
        PROVE  g[t] = g[t \cap R]
    <2> DEFINE c == Pick(t)
    <2>1. CASE t = {}
      BY <2>1
    <2>2. CASE t # {}
      <3>1. c \in t /\ g[t] = f[c] + g[t \ {c}] /\ f[c] \in Nat
        BY <2>2, SumValue
      <3>2. g[t \ {c}] = g[(t \ {c}) \cap R]
        <4>1. t \ {c} \in SUBSET t /\ t \ {c} # t
          BY <3>1
        <4>2. QED
          BY <1>1, <4>1
      <3>3. CASE c \in R
        <4>1. (t \ {c}) \cap R = (t \cap R) \ {c} /\ c \in t \cap R
          BY <3>1, <3>3
        <4>2. g[t \cap R] = f[c] + g[(t \cap R) \ {c}]
          BY <4>1, SumWithout
        <4>3. QED
          BY <3>1, <3>2, <4>1, <4>2
      <3>4. CASE c \notin R
        <4>1. (t \ {c}) \cap R = t \cap R /\ f[c] = 0
          BY <3>1, <3>4
        <4>2. t \cap R \in SUBSET S
          OBVIOUS
        <4>3. g[t \cap R] \in Nat
          BY <4>2, SumIsNat
        <4>4. QED
          BY <3>1, <3>2, <4>1, <4>3
      <3>5. QED
        BY <3>3, <3>4
    <2>3. QED
      BY <2>1, <2>2
  <1>2. SUBSET S \subseteq P
    <2>1. \A t \in SUBSET S : (\A u \in SUBSET t : u # t => u \in P) => t \in P
      BY <1>1
    <2> HIDE DEF P
    <2>2. QED
      BY <2>1, SubsetInduction
  <1>3. S \cap R = R /\ S \in SUBSET S
    OBVIOUS
  <1>4. QED
    BY <1>2, <1>3

\* A sum grows with what it sums, by no more than that.
LEMMA SumCompares ==
  ASSUME NEW S, IsFiniteSet(S), NEW f, NEW g, NEW h, NEW k, NEW r,
         \A x \in S : f[x] \in Nat /\ h[x] \in Nat,
         IsSum(g, f, S), IsSum(k, h, S),
         \A x \in S : x # r => h[x] <= f[x],
         h[r] <= f[r] + 1
  PROVE  /\ k[S] <= g[S] + 1
         /\ r \in S /\ h[r] <= f[r] => k[S] <= g[S]
  <1> DEFINE Extra(s) == IF r \in s /\ h[r] > f[r] THEN 1 ELSE 0
             P == {s \in SUBSET S : k[s] <= g[s] + Extra(s)}
  <1>1. ASSUME NEW s \in SUBSET S, \A t \in SUBSET s : t # s => t \in P
        PROVE  s \in P
    <2> DEFINE c == Pick(s)
               t == s \ {c}
    <2>1. CASE s = {}
      <3>1. g[{}] = 0
        BY SumEmpty
      <3>2. k[{}] = 0
        BY SumEmpty
      <3>3. Extra(s) \in Nat
        OBVIOUS
      <3> HIDE DEF Extra
      <3>4. QED
        BY <2>1, <3>1, <3>2, <3>3
    <2>2. CASE s # {}
      <3>1. c \in s /\ t \in SUBSET s /\ t # s
            /\ g[s] = f[c] + g[t] /\ k[s] = h[c] + k[t]
        <4>1. c \in s /\ t \in SUBSET s /\ t # s /\ g[s] = f[c] + g[t]
          BY <2>2, SumValue
        <4>2. k[s] = h[c] + k[t]
          BY <2>2, SumValue
        <4>3. QED
          BY <4>1, <4>2
      <3>2. k[t] <= g[t] + Extra(t)
        BY <1>1, <3>1
      <3>3. f[c] \in Nat /\ h[c] \in Nat /\ g[t] \in Nat /\ k[t] \in Nat
        BY <3>1, SumIsNat
      <3>4. CASE c = r
        <4>1. Extra(t) = 0
          BY <3>4
        <4>2. h[c] <= f[c] + Extra(s)
          BY <3>1, <3>3, <3>4
        <4>3. Extra(s) \in Nat
          OBVIOUS
        <4> HIDE DEF Extra
        <4>4. QED
          BY <3>1, <3>2, <3>3, <4>1, <4>2, <4>3
      <3>5. CASE c # r
        <4>1. Extra(t) = Extra(s) /\ Extra(s) \in Nat
          BY <3>1, <3>5
        <4>2. h[c] <= f[c]
          BY <3>1, <3>5
        <4> HIDE DEF Extra
        <4>3. QED
          BY <3>1, <3>2, <3>3, <4>1, <4>2
      <3>6. QED
        BY <3>4, <3>5
    <2>3. QED
      BY <2>1, <2>2
  <1>2. SUBSET S \subseteq P
    <2>1. \A s \in SUBSET S : (\A t \in SUBSET s : t # s => t \in P) => s \in P
      BY <1>1
    <2> HIDE DEF P
    <2>2. QED
      BY <2>1, SubsetInduction
  <1>3. g[S] \in Nat /\ k[S] \in Nat
    BY SumIsNat
  <1>4. k[S] <= g[S] + Extra(S)
    BY <1>2
  <1>5. QED
    BY <1>3, <1>4

\* Two sums of the same agree on the smaller set.
LEMMA SumUnique ==
  ASSUME NEW S, IsFiniteSet(S), NEW R \in SUBSET S, NEW f,
         NEW g, IsSum(g, f, S), NEW k, IsSum(k, f, R)
  PROVE  k[R] = g[R]
  <1> DEFINE P == {s \in SUBSET R : k[s] = g[s]}
  <1>1. ASSUME NEW s \in SUBSET R, \A t \in SUBSET s : t # s => t \in P
        PROVE  s \in P
    <2>1. CASE s = {}
      <3>1. g[{}] = 0 /\ k[{}] = 0
        <4>1. g[{}] = 0
          BY SumEmpty
        <4>2. k[{}] = 0
          BY SumEmpty
        <4>3. QED
          BY <4>1, <4>2
      <3>2. QED
        BY <2>1, <3>1
    <2>2. CASE s # {}
      <3>1. k[s \ {Pick(s)}] = g[s \ {Pick(s)}]
        BY <1>1, <2>2, PickIn
      <3>2. QED
        BY <2>2, <3>1 DEF IsSum
    <2>3. QED
      BY <2>1, <2>2
  <1>2. SUBSET R \subseteq P
    <2>1. \A s \in SUBSET R : (\A t \in SUBSET s : t # s => t \in P) => s \in P
      BY <1>1
    <2>2. IsFiniteSet(R)
      BY FS_Subset
    <2> HIDE DEF P
    <2>3. QED
      BY <2>1, <2>2, SubsetInduction
  <1>3. QED
    BY <1>2

\* The fold of the community modules is such a sum: over the rows, and over the
\* files.
Total(rows) == MapThenSumSet(LAMBDA r : rows[r].size,
                             {r \in Recordings : rows[r].status \in {"recording", "complete"}})

Sizes(rows) == [r \in Recordings |-> rows[r].size]

LEMMA TotalIsSum ==
  ASSUME IsFiniteSet(Recordings), NEW rows, \A r \in Recordings : rows[r].size \in Nat,
         \A r \in Recordings : rows[r].status \notin {"recording", "complete"} => rows[r].size = 0
  PROVE  \E g : IsSum(g, Sizes(rows), Recordings) /\ Total(rows) = g[Recordings]
  <1> DEFINE R == {r \in Recordings : rows[r].status \in {"recording", "complete"}}
             f == Sizes(rows)
             F(h) == [s \in SUBSET R |->
                        IF s = {} THEN 0 ELSE rows[Pick(s)].size + h[s \ {Pick(s)}]]
             it == CHOOSE h : h = F(h)
  <1>1. IsFiniteSet(R) /\ R \in SUBSET Recordings
    BY FS_Subset
  <1>2. \A h : h = F(h) <=> IsSum(h, f, R)
    <2>1. \A s \in SUBSET R : s # {} => rows[Pick(s)].size = f[Pick(s)]
      BY PickIn DEF Sizes
    <2> HIDE DEF R, f
    <2>2. QED
      BY <2>1 DEF IsSum
  <1>3. PICK g : IsSum(g, f, Recordings)
    BY SumExists
  <1>4. IsSum(it, f, R)
    <2>1. \E h : IsSum(h, f, R)
      BY <1>1, SumExists
    <2>2. \E h : h = F(h)
      BY <1>2, <2>1
    <2>3. it = F(it)
      BY <2>2
    <2>4. QED
      BY <1>2, <2>3
  <1>5. Total(rows) = it[R]
    BY DEF Total, MapThenSumSet, MapThenFoldSet, Pick
  <1>6. it[R] = g[R]
    <2> HIDE DEF it, R, f
    <2>1. QED
      BY <1>1, <1>3, <1>4, SumUnique
  <1>7. g[Recordings] = g[R]
    <2>1. /\ \A r \in Recordings : f[r] \in Nat
          /\ \A r \in Recordings \ R : f[r] = 0
      BY DEF Sizes
    <2> HIDE DEF R, f
    <2>2. QED
      BY <1>1, <1>3, <2>1, SumOfRest
  <1>8. QED
    BY <1>3, <1>5, <1>6, <1>7

\* What a row may be charged for.
Sized(rows) ==
  \A r \in Recordings :
    /\ rows[r].size \in Nat
    /\ rows[r].status \notin {"recording", "complete"} => rows[r].size = 0

LEMMA TotalGrows ==
  ASSUME IsFiniteSet(Recordings), NEW old, Sized(old), NEW new, Sized(new),
         NEW r \in Recordings,
         \A x \in Recordings : x # r => new[x].size <= old[x].size,
         new[r].size <= old[r].size + 1
  PROVE  /\ Total(old) \in Nat /\ Total(new) \in Nat
         /\ Total(new) <= Total(old) + 1
         /\ new[r].size <= old[r].size => Total(new) <= Total(old)
  <1>1. PICK g : IsSum(g, Sizes(old), Recordings) /\ Total(old) = g[Recordings]
    BY TotalIsSum DEF Sized
  <1>2. PICK k : IsSum(k, Sizes(new), Recordings) /\ Total(new) = k[Recordings]
    BY TotalIsSum DEF Sized
  <1> DEFINE f == Sizes(old)
             h == Sizes(new)
  <1>3. /\ \A x \in Recordings : f[x] \in Nat /\ h[x] \in Nat
        /\ \A x \in Recordings : x # r => h[x] <= f[x]
        /\ h[r] <= f[r] + 1
        /\ new[r].size <= old[r].size <=> h[r] <= f[r]
    BY DEF Sizes, Sized
  <1> HIDE DEF f, h
  <1>4. IsSum(g, f, Recordings) /\ IsSum(k, h, Recordings)
    BY <1>1, <1>2 DEF f, h
  <1>5. g[Recordings] \in Nat
    BY <1>3, <1>4, SumIsNat
  <1>6. k[Recordings] \in Nat
    BY <1>3, <1>4, SumIsNat
  <1>7. k[Recordings] <= g[Recordings] + 1
    BY <1>3, <1>4, SumCompares
  <1>8. h[r] <= f[r] => k[Recordings] <= g[Recordings]
    BY <1>3, <1>4, SumCompares
  <1>9. QED
    BY <1>1, <1>2, <1>3, <1>5, <1>6, <1>7, <1>8

LEMMA TotalShrinks ==
  ASSUME IsFiniteSet(Recordings), NEW old, Sized(old), NEW new, Sized(new),
         \A x \in Recordings : new[x].size <= old[x].size
  PROVE  Total(old) \in Nat /\ Total(new) \in Nat /\ Total(new) <= Total(old)
  <1>1. CASE Recordings = {}
    <2>1. PICK g : IsSum(g, Sizes(old), Recordings) /\ Total(old) = g[Recordings]
      BY TotalIsSum DEF Sized
    <2>2. PICK k : IsSum(k, Sizes(new), Recordings) /\ Total(new) = k[Recordings]
      BY TotalIsSum DEF Sized
    <2>3. g[{}] = 0
      BY <2>1, SumEmpty
    <2>4. k[{}] = 0
      BY <2>2, SumEmpty
    <2>5. QED
      BY <1>1, <2>1, <2>2, <2>3, <2>4
  <1>2. CASE Recordings # {}
    <2>1. PICK r \in Recordings : TRUE
      BY <1>2
    <2>2. new[r].size <= old[r].size + 1
      BY <2>1 DEF Sized
    <2>3. QED
      BY <2>1, <2>2, TotalGrows
  <1>3. QED
    BY <1>1, <1>2

LEMMA TotalBytesIsTotal ==
  /\ TotalBytes = Total(row)
  /\ TotalBytes' = Total(row')
  <1>1. TotalBytes = Total(row)
    BY DEF TotalBytes, Total, SizeOf, HasRow, MapThenSumSet, MapThenFoldSet
  <1>2. TotalBytes' = Total(row')
    BY DEF TotalBytes, Total, SizeOf, HasRow, MapThenSumSet, MapThenFoldSet
  <1>3. QED
    BY <1>1, <1>2

\* Files that hold what their rows are charged for sum to the charge.
LEMMA DiskIsTotal ==
  ASSUME IsFiniteSet(Recordings), Sized(row),
         \A r \in Recordings : Bytes(part[r]) + Bytes(replay[r]) = row[r].size
  PROVE  MapThenSumSet(LAMBDA r : Bytes(part[r]) + Bytes(replay[r]), Recordings) = Total(row)
  <1> DEFINE f == Sizes(row)
             S == Recordings
             F(h) == [s \in SUBSET S |->
                        IF s = {} THEN 0
                        ELSE (Bytes(part[Pick(s)]) + Bytes(replay[Pick(s)])) + h[s \ {Pick(s)}]]
             it == CHOOSE h : h = F(h)
  <1>1. \A h : h = F(h) <=> IsSum(h, f, S)
    <2>1. \A s \in SUBSET S : s # {} => Bytes(part[Pick(s)]) + Bytes(replay[Pick(s)]) = f[Pick(s)]
      BY PickIn DEF Sizes
    <2> HIDE DEF S, f
    <2>2. QED
      BY <2>1 DEF IsSum
  <1>2. PICK g : IsSum(g, f, S) /\ Total(row) = g[S]
    BY TotalIsSum DEF Sized
  <1>3. IsSum(it, f, S)
    <2>1. \E h : h = F(h)
      BY <1>1, <1>2
    <2>2. it = F(it)
      BY <2>1
    <2>3. QED
      BY <1>1, <2>2
  <1>4. MapThenSumSet(LAMBDA r : Bytes(part[r]) + Bytes(replay[r]), Recordings) = it[S]
    BY DEF MapThenSumSet, MapThenFoldSet, Pick
  <1>5. it[S] = g[S]
    <2>1. S \in SUBSET S
      OBVIOUS
    <2> HIDE DEF it, f
    <2>2. QED
      BY <1>2, <1>3, <2>1, SumUnique
  <1>6. QED
    BY <1>2, <1>4, <1>5

-----------------------------------------------------------------------------
(* Chunks in a queue *)

LEMMA CountIsNat ==
  ASSUME NEW q \in Seq(Job), NEW r
  PROVE  IsFiniteSet(Places(q, r)) /\ Count(q, r) \in Nat
  <1>1. DOMAIN q = 1..Len(q) /\ Len(q) \in Nat
    OBVIOUS
  <1>2. IsFiniteSet(1..Len(q))
    BY <1>1, FS_Interval
  <1>3. Places(q, r) \subseteq 1..Len(q)
    BY <1>1 DEF Places
  <1>4. QED
    BY <1>2, <1>3, FS_Subset, FS_CardinalityType DEF Count

LEMMA CountNone ==
  ASSUME NEW q \in Seq(Job), NEW r, ~Queued(q, r)
  PROVE  Count(q, r) = 0
  <1>1. Places(q, r) = {}
    BY DEF Places, Queued, Chunk
  <1>2. QED
    BY <1>1, FS_EmptySet DEF Count

LEMMA CountAppend ==
  ASSUME NEW q \in Seq(Job), NEW j \in Job, NEW r
  PROVE  /\ j = Chunk(r) => Count(Append(q, j), r) = Count(q, r) + 1
         /\ j # Chunk(r) => Count(Append(q, j), r) = Count(q, r)
  <1> DEFINE n == Len(q) + 1
             p == Append(q, j)
  <1>1. /\ DOMAIN q = 1..Len(q) /\ Len(q) \in Nat
        /\ DOMAIN p = 1..n /\ p[n] = j
        /\ \A i \in 1..Len(q) : p[i] = q[i]
    OBVIOUS
  <1>2. IsFiniteSet(Places(q, r)) /\ n \notin Places(q, r)
    BY <1>1, CountIsNat DEF Places
  <1> HIDE DEF p
  <1>3. CASE j = Chunk(r)
    <2>1. Places(p, r) = Places(q, r) \cup {n}
      BY <1>1, <1>3 DEF Places
    <2>2. QED
      BY <1>2, <1>3, <2>1, FS_AddElement DEF Count, p
  <1>4. CASE j # Chunk(r)
    <2>1. Places(p, r) = Places(q, r)
      BY <1>1, <1>4 DEF Places
    <2>2. QED
      BY <1>4, <2>1 DEF Count, p
  <1>5. QED
    BY <1>3, <1>4

LEMMA CountTail ==
  ASSUME NEW q \in Seq(Job), q # <<>>, NEW r
  PROVE  /\ Head(q) = Chunk(r) => Count(q, r) = Count(Tail(q), r) + 1
         /\ Head(q) # Chunk(r) => Count(q, r) = Count(Tail(q), r)
  <1> DEFINE p == Tail(q)
             Rest == Places(q, r) \ {1}
             shift == [i \in Places(p, r) |-> i + 1]
  <1>1. /\ DOMAIN q = 1..Len(q) /\ Len(q) \in Nat /\ Len(q) >= 1
        /\ p \in Seq(Job) /\ DOMAIN p = 1..(Len(q) - 1)
        /\ \A i \in 1..(Len(q) - 1) : p[i] = q[i + 1]
        /\ Head(q) = q[1]
    OBVIOUS
  <1>2. IsFiniteSet(Places(q, r)) /\ IsFiniteSet(Places(p, r))
    BY <1>1, CountIsNat
  <1> HIDE DEF p
  <1>3. Cardinality(Rest) = Count(p, r)
    <2>1. \A i \in Places(p, r) : i \in Int /\ i + 1 \in Rest
      BY <1>1 DEF Places
    <2>2. \A k \in Rest : k - 1 \in Places(p, r) /\ k = (k - 1) + 1
      <3>1. \A k \in Rest : k \in 2..Len(q) /\ q[k] = Chunk(r)
        BY <1>1 DEF Places
      <3>2. \A k \in 2..Len(q) : k - 1 \in 1..(Len(q) - 1) /\ k = (k - 1) + 1
        BY <1>1
      <3>3. QED
        BY <1>1, <3>1, <3>2 DEF Places
    <2> HIDE DEF Rest
    <2>3. shift \in [Places(p, r) -> Rest]
      BY <2>1
    <2>4. \A a, b \in Places(p, r) : shift[a] = shift[b] => a = b
      BY <2>1
    <2>5. \A k \in Rest : \E a \in Places(p, r) : shift[a] = k
      BY <2>2
    <2> HIDE DEF shift
    <2>6. shift \in Bijection(Places(p, r), Rest)
      BY <2>3, <2>4, <2>5 DEF Bijection, Injection, Surjection, IsInjective
    <2>7. QED
      BY <1>2, <2>6, FS_Bijection DEF Count, ExistsBijection
  <1>4. 1 \in Places(q, r) <=> Head(q) = Chunk(r)
    BY <1>1 DEF Places
  <1>5. Cardinality(Rest) = IF 1 \in Places(q, r) THEN Count(q, r) - 1 ELSE Count(q, r)
    BY <1>2, FS_RemoveElement DEF Count
  <1>6. Count(q, r) \in Nat /\ Count(p, r) \in Nat
    BY <1>1, CountIsNat
  <1>7. QED
    BY <1>3, <1>4, <1>5, <1>6 DEF p

-----------------------------------------------------------------------------
(* Types *)

LEMMA QueueFacts ==
  ASSUME NEW q \in Seq(Job)
  PROVE  /\ DOMAIN q = 1..Len(q) /\ Len(q) \in Nat
         /\ \A i \in DOMAIN q : q[i] \in Job /\ q[i].id \in Recordings
         /\ q # <<>> => /\ 1 \in DOMAIN q /\ Head(q) = q[1] /\ Head(q) \in Job
                        /\ Tail(q) \in Seq(Job) /\ Len(Tail(q)) = Len(q) - 1
                        /\ \A i \in DOMAIN Tail(q) : i + 1 \in DOMAIN q /\ Tail(q)[i] = q[i + 1]
         /\ \A j \in Job : /\ Append(q, j) \in Seq(Job) /\ Len(Append(q, j)) = Len(q) + 1
                           /\ Append(q, j)[Len(q) + 1] = j
                           /\ \A i \in DOMAIN q : Append(q, j)[i] = q[i]
  <1>1. DOMAIN q = 1..Len(q) /\ Len(q) \in Nat
    OBVIOUS
  <1>2. \A i \in DOMAIN q : q[i] \in Job /\ q[i].id \in Recordings
    <2>1. \A i \in DOMAIN q : q[i] \in Job
      OBVIOUS
    <2>2. \A j \in Job : j.id \in Recordings
      BY DEF Job
    <2>3. QED
      BY <2>1, <2>2
  <1>3. q # <<>> => /\ 1 \in DOMAIN q /\ Head(q) = q[1]
                    /\ Tail(q) \in Seq(Job) /\ Len(Tail(q)) = Len(q) - 1
    OBVIOUS
  <1>4. q # <<>> => \A i \in DOMAIN Tail(q) : i + 1 \in DOMAIN q /\ Tail(q)[i] = q[i + 1]
    OBVIOUS
  <1>5. \A j \in Job : /\ Append(q, j) \in Seq(Job) /\ Len(Append(q, j)) = Len(q) + 1
                       /\ Append(q, j)[Len(q) + 1] = j
    OBVIOUS
  <1>6. \A j \in Job : \A i \in DOMAIN q : Append(q, j)[i] = q[i]
    OBVIOUS
  <1> HIDE DEF Job
  <1>7. QED
    BY <1>1, <1>2, <1>3, <1>4, <1>5, <1>6

LEMMA JobFacts ==
  /\ \A r \in Recordings : /\ Chunk(r) \in Job /\ Finish(r) \in Job
                           /\ Chunk(r).id = r /\ Finish(r).id = r
  /\ \A r, s : /\ Chunk(r) # Finish(s)
               /\ Chunk(r) = Chunk(s) => r = s
               /\ Finish(r) = Finish(s) => r = s
  /\ \A j \in Job : /\ j = Chunk(j.id) \/ j = Finish(j.id)
                    /\ j.kind = "chunk" => j = Chunk(j.id)
                    /\ j.kind = "finish" => j = Finish(j.id)
  BY DEF Chunk, Finish, Job

LEMMA PoppedType ==
  ASSUME TypeOK, NEW p \in Pages, page[p].queue # <<>>
  PROVE  /\ Popped(p) \in Page
         /\ Popped(p).queue = Tail(page[p].queue) /\ ~Popped(p).sent
         /\ Popped(p).id = page[p].id /\ Popped(p).ref = page[p].ref
         /\ Popped(p).running = page[p].running
  <1>1. page[p] \in Page
    BY DEF TypeOK
  <1>2. page[p].queue \in Seq(Job) /\ Tail(page[p].queue) \in Seq(Job) /\ FALSE \in BOOLEAN
    BY <1>1 DEF Page
  <1>3. QED
    BY <1>1, <1>2 DEF Page, Popped

LEMMA ServedType ==
  ASSUME TypeOK, NEW S, \A p \in S \cap Pages : page[p].queue # <<>>
  PROVE  /\ Served(S) \in [Pages -> Page]
         /\ \A p \in Pages : Served(S)[p] = IF p \in S THEN Popped(p) ELSE page[p]
  BY PoppedType DEF TypeOK, Served

LEMMA StoppedType ==
  ASSUME NEW pg \in Page, NEW R
  PROVE  /\ Stopped(pg, R) \in Page
         /\ [Stopped(pg, R) EXCEPT !.streaming = FALSE] \in Page
         /\ R \cap pg.running = {} => Stopped(pg, R) = pg
         /\ R \cap pg.running # {} =>
              /\ Stopped(pg, R).running = pg.running \ R
              /\ Stopped(pg, R).id = None
              /\ Stopped(pg, R).queue = IF pg.id = None THEN pg.queue
                                        ELSE Append(pg.queue, Finish(pg.id))
  <1>1. pg.id # None => Append(pg.queue, Finish(pg.id)) \in Seq(Job)
    BY JobFacts, QueueFacts DEF Page
  <1>2. FALSE \in BOOLEAN /\ None \in Recordings \cup {None}
    OBVIOUS
  <1>3. CASE R \cap pg.running = {}
    BY <1>2, <1>3 DEF Stopped, Page
  <1>4. CASE R \cap pg.running # {}
    <2> DEFINE q == IF pg.id = None THEN pg.queue ELSE Append(pg.queue, Finish(pg.id))
    <2>1. q \in Seq(Job) /\ pg.running \ R \in SUBSET Recordings
      BY <1>1 DEF Page
    <2>2. Stopped(pg, R) = [pg EXCEPT !.running = pg.running \ R, !.id = None, !.ref = None,
                                      !.queue = q]
      BY <1>4 DEF Stopped, FinishedAfter, Finish
    <2> HIDE DEF q
    <2>3. QED
      BY <1>2, <1>4, <2>1, <2>2 DEF Page, q
  <1>5. QED
    BY <1>3, <1>4

\* What the answer to a create request makes of a tab.
LEMMA BegunType ==
  ASSUME NEW pg \in Page, pg.creating > 0, NEW r \in Recordings, NEW new \in Begun(pg, r)
  PROVE  /\ new \in Page
         /\ new.queue = pg.queue /\ new.sent = pg.sent
         /\ \/ new.id = pg.id /\ new.ref = pg.ref /\ new.running = pg.running
            \/ new.id = r /\ new.running = pg.running
            \/ new.id = r /\ new.ref = r /\ new.running = pg.running \cup {r}
  <1> DEFINE a == [pg EXCEPT !.creating = @ - 1]
             n == [a EXCEPT !.id = r]
             f == [n EXCEPT !.ref = r]
             g == [f EXCEPT !.running = @ \cup {r}]
  <1>1. new \in {a, n, f, [n EXCEPT !.ref = r, !.running = @ \cup {r}]}
    BY DEF Begun
  <1>2. pg.creating - 1 \in Nat
    BY DEF Page
  <1>3. a \in Page /\ a.queue = pg.queue /\ a.sent = pg.sent /\ a.id = pg.id
        /\ a.ref = pg.ref /\ a.running = pg.running
    BY <1>2 DEF Page
  <1>4. n \in Page /\ n.queue = pg.queue /\ n.sent = pg.sent /\ n.id = r
        /\ n.running = pg.running
    BY <1>3 DEF Page
  <1>5. f \in Page /\ f.queue = pg.queue /\ f.sent = pg.sent /\ f.id = r
        /\ f.ref = r /\ f.running = pg.running
    BY <1>4 DEF Page
  <1>6. g \in Page /\ g.queue = pg.queue /\ g.sent = pg.sent /\ g.id = r
        /\ g.ref = r /\ g.running = pg.running \cup {r}
    <2>1. pg.running \cup {r} \in SUBSET Recordings
      BY DEF Page
    <2>2. QED
      BY <1>5, <2>1 DEF Page
  <1>7. [n EXCEPT !.ref = r, !.running = @ \cup {r}] = g
    BY <1>4 DEF Page
  <1>8. QED
    BY <1>1, <1>3, <1>4, <1>5, <1>6, <1>7

LEMMA BytesType ==
  ASSUME NEW f \in Nat \cup {None}
  PROVE  Bytes(f) \in Nat /\ Bytes(None) = 0 /\ (f \in Nat => Bytes(f) = f)
  BY RecordingsAssumption DEF Bytes

\* Rows, as the handlers write them.
LEMMA RowFacts ==
  /\ NoRow("gone") \in Row /\ NoRow("gone").status = "gone" /\ NoRow("gone").size = 0
  /\ NewRecording \in Row /\ NewRecording.status = "recording" /\ NewRecording.size = 0
  /\ \A w \in Row : /\ w.size \in Nat /\ w.age \in 0..OrphanAge + 1
                    /\ [w EXCEPT !.size = @ + 1] \in Row
                    /\ [w EXCEPT !.status = "complete", !.age = 0] \in Row
                    /\ w.age <= OrphanAge => [w EXCEPT !.age = @ + 1] \in Row
  <1>1. /\ NoRow("gone") \in Row /\ NoRow("gone").status = "gone" /\ NoRow("gone").size = 0
        /\ NewRecording \in Row /\ NewRecording.status = "recording" /\ NewRecording.size = 0
    BY RecordingsAssumption DEF NoRow, NewRecording, Row
  <1>2. ASSUME NEW w \in Row
        PROVE  /\ w.size \in Nat /\ w.age \in 0..OrphanAge + 1
               /\ [w EXCEPT !.size = @ + 1] \in Row
    BY DEF Row
  <1>3. ASSUME NEW w \in Row
        PROVE  [w EXCEPT !.status = "complete", !.age = 0] \in Row
    <2>1. 0 \in 0..OrphanAge + 1
      BY RecordingsAssumption
    <2>2. QED
      BY <2>1 DEF Row
  <1>4. ASSUME NEW w \in Row, w.age <= OrphanAge
        PROVE  [w EXCEPT !.age = @ + 1] \in Row
    <2>1. \A a \in 0..OrphanAge + 1 : a <= OrphanAge => a + 1 \in 0..OrphanAge + 1
      BY RecordingsAssumption
    <2>2. QED
      BY <1>4, <2>1 DEF Row
  <1>5. QED
    BY <1>1, <1>2, <1>3, <1>4

LEMMA Typed ==
  ASSUME TypeOK
  PROVE  /\ \A r \in Recordings : /\ row[r] \in Row /\ row[r].size \in Nat
                                  /\ part[r] \in Nat \cup {None} /\ replay[r] \in Nat \cup {None}
                                  /\ Bytes(part[r]) \in Nat /\ Bytes(replay[r]) \in Nat
                                  /\ emitted[r] \in 0..MaxEmitted /\ emitted[r] \in Nat
         /\ \A p \in Pages : /\ page[p] \in Page /\ page[p].queue \in Seq(Job)
                             /\ page[p].id \in Recordings \cup {None}
                             /\ page[p].running \subseteq Recordings
         /\ \A u \in uploads : u \in Upload /\ u.id \in Recordings /\ u.page \in Pages
  <1>1. \A r \in Recordings : row[r] \in Row /\ row[r].size \in Nat
    BY RowFacts DEF TypeOK
  <1>2. \A r \in Recordings : /\ part[r] \in Nat \cup {None} /\ replay[r] \in Nat \cup {None}
                              /\ Bytes(part[r]) \in Nat /\ Bytes(replay[r]) \in Nat
    BY BytesType DEF TypeOK
  <1>3. \A r \in Recordings : emitted[r] \in 0..MaxEmitted /\ emitted[r] \in Nat
    BY RecordingsAssumption DEF TypeOK
  <1>4. \A p \in Pages : /\ page[p] \in Page /\ page[p].queue \in Seq(Job)
                         /\ page[p].id \in Recordings \cup {None}
                         /\ page[p].running \subseteq Recordings
    BY DEF TypeOK, Page
  <1>5. \A u \in uploads : u \in Upload /\ u.id \in Recordings /\ u.page \in Pages
    BY DEF TypeOK, Upload
  <1>6. QED
    BY <1>1, <1>2, <1>3, <1>4, <1>5

\* A step of one tab.
LEMMA PageStep ==
  ASSUME TypeOK, NEW p \in Pages, NEW new \in Page, page' = [page EXCEPT ![p] = new]
  PROVE  /\ page' \in [Pages -> Page] /\ page'[p] = new
         /\ \A q \in Pages : q # p => page'[q] = page[q]
  BY DEF TypeOK

\* The pages of waited uploads have something queued.
LEMMA DiesType ==
  ASSUME TypeOK, UploadsFit, NEW R \in SUBSET Recordings, NEW S \in SUBSET Pages,
         \A p \in S : page[p].queue # <<>>, Dies(R, S)
  PROVE  /\ page' \in [Pages -> Page] /\ uploads' \subseteq Upload
         /\ emitted' = emitted /\ account' = account
         /\ torn' = torn \cup R /\ torn' \subseteq Recordings
         /\ spoilt' = spoilt \cup {u.id : u \in uploads} /\ spoilt' \subseteq Recordings
  <1> DEFINE W == S \cup {u.page : u \in {v \in uploads : v.waited}}
  <1>1. \A p \in W : page[p].queue # <<>>
    BY DEF UploadsFit
  <1>2. page' = Served(W)
    BY DEF Dies
  <1> HIDE DEF W
  <1>3. page' \in [Pages -> Page]
    BY <1>1, <1>2, ServedType
  <1>4. {u.id : u \in uploads} \subseteq Recordings
    BY Typed
  <1>5. QED
    BY <1>3, <1>4 DEF Dies, TypeOK

\* The upload of p that a send or a failure is about.
Sent(p) == [id |-> NextId(p), page |-> p, waited |-> TRUE]

LEMMA HeadFacts ==
  ASSUME TypeOK, NEW p \in Pages, page[p].queue # <<>>
  PROVE  /\ Head(page[p].queue) \in Job /\ NextId(p) \in Recordings
         /\ Sent(p) \in Upload
         /\ Head(page[p].queue).kind = "chunk" => Head(page[p].queue) = Chunk(NextId(p))
         /\ Head(page[p].queue).kind = "finish" => Head(page[p].queue) = Finish(NextId(p))
         /\ Queued(page[p].queue, NextId(p))
  <1>1. Head(page[p].queue) \in Job
    BY Typed, QueueFacts
  <1>2. NextId(p) \in Recordings
    BY <1>1 DEF NextId, Job
  <1>3. Sent(p) \in Upload
    BY <1>2 DEF Sent, Upload
  <1>4. Queued(page[p].queue, NextId(p))
    BY Typed, QueueFacts DEF Queued, NextId
  <1>5. QED
    BY <1>1, <1>2, <1>3, <1>4, JobFacts DEF NextId

\* What is left of an upload whose tab is gone.
LEMMA UnwaitedType ==
  ASSUME NEW u \in Upload
  PROVE  /\ [u EXCEPT !.waited = FALSE] \in Upload
         /\ [u EXCEPT !.waited = FALSE].id = u.id
         /\ [u EXCEPT !.waited = FALSE].page = u.page
         /\ [u EXCEPT !.waited = FALSE].waited = FALSE
  <1>1. FALSE \in BOOLEAN
    OBVIOUS
  <1>2. QED
    BY <1>1 DEF Upload

LEMMA TabTypes ==
  ASSUME TypeOK, NEW p \in Pages,
         \/ StreamStarts(p) \/ StreamEnds(p) \/ PressRecord(p) \/ PressStop(p)
         \/ CloseTab(p) \/ CreateFails(p) \/ SendChunk(p) \/ UploadFails(p)
         \/ \E r \in Recordings : CreateRecording(p, r) \/ EmitChunk(p, r)
  PROVE  TypeOK'
  <1>1. /\ page[p] \in Page /\ TRUE \in BOOLEAN /\ FALSE \in BOOLEAN
        /\ page[p].creating \in Nat
    BY Typed DEF Page
  <1>2. CASE StreamStarts(p)
    <2>1. [page[p] EXCEPT !.streaming = TRUE] \in Page
      BY <1>1 DEF Page
    <2>2. page' = [page EXCEPT ![p] = [page[p] EXCEPT !.streaming = TRUE]]
      BY <1>2 DEF StreamStarts, TypeOK
    <2>3. QED
      BY <1>2, <2>1, <2>2, PageStep DEF StreamStarts, TypeOK, store
  <1>3. CASE StreamEnds(p)
    <2> DEFINE new == [Stopped(page[p], page[p].running) EXCEPT !.streaming = FALSE]
    <2>1. new \in Page
      BY <1>1, StoppedType
    <2>2. page' = [page EXCEPT ![p] = new]
      BY <1>3 DEF StreamEnds, TypeOK
    <2> HIDE DEF new
    <2>3. QED
      BY <1>3, <2>1, <2>2, PageStep DEF StreamEnds, TypeOK, store
  <1>4. CASE PressRecord(p)
    <2> DEFINE new == [page[p] EXCEPT !.creating = @ + 1]
    <2>1. new \in Page
      BY <1>1 DEF Page
    <2>2. page' = [page EXCEPT ![p] = new]
      BY <1>4 DEF PressRecord, TypeOK
    <2>3. QED
      BY <1>4, <2>1, <2>2, PageStep DEF PressRecord, TypeOK, store
  <1>5. CASE PressStop(p)
    <2> DEFINE new == Stopped(page[p], {page[p].ref})
    <2>1. new \in Page
      BY <1>1, StoppedType
    <2>2. page' = [page EXCEPT ![p] = new]
      BY <1>5 DEF PressStop, TypeOK
    <2> HIDE DEF new
    <2>3. QED
      BY <1>5, <2>1, <2>2, PageStep DEF PressStop, TypeOK, store
  <1>6. CASE CloseTab(p)
    <2>1. NewPage \in Page
      BY <1>1, RecordingsAssumption DEF NewPage, Page
    <2>2. Involved(p) \subseteq Recordings
      BY Typed, QueueFacts DEF Involved
    <2> DEFINE mine == {u \in uploads : u.page = p}
    <2>3. {[u EXCEPT !.waited = FALSE] : u \in mine} \subseteq Upload
      BY Typed, UnwaitedType
    <2>4. uploads' \subseteq Upload
      BY <1>6, <2>3 DEF CloseTab, TypeOK
    <2>5. page' \in [Pages -> Page]
      BY <1>6, <2>1, PageStep DEF CloseTab
    <2>6. QED
      BY <1>6, <2>2, <2>4, <2>5 DEF CloseTab, TypeOK, store
  <1>7. CASE CreateFails(p)
    <2> DEFINE new == [page[p] EXCEPT !.creating = @ - 1]
    <2>1. new \in Page
      BY <1>1, <1>7 DEF Page, CreateFails
    <2>2. page' = [page EXCEPT ![p] = new]
      BY <1>7 DEF CreateFails, TypeOK
    <2>3. QED
      BY <1>7, <2>1, <2>2, PageStep DEF CreateFails, TypeOK, store
  <1>8. CASE SendChunk(p)
    <2> DEFINE new == [page[p] EXCEPT !.sent = TRUE]
    <2>1. new \in Page
      BY <1>1 DEF Page
    <2>2. page' = [page EXCEPT ![p] = new]
      BY <1>8 DEF SendChunk, TypeOK
    <2>3. uploads' \subseteq Upload
      BY <1>8, HeadFacts DEF SendChunk, Waiting, Sent, TypeOK
    <2>4. QED
      BY <1>8, <2>1, <2>2, <2>3, PageStep DEF SendChunk, TypeOK, store
  <1>9. CASE UploadFails(p)
    <2>1. page[p].queue # <<>>
      BY <1>9 DEF UploadFails, Waiting
    <2>2. page' \in [Pages -> Page]
      BY <1>9, <2>1, PoppedType, PageStep DEF UploadFails
    <2>3. uploads' \subseteq Upload
      <3>1. [Sent(p) EXCEPT !.waited = FALSE] \in Upload
        BY <2>1, HeadFacts, UnwaitedType
      <3>2. \/ uploads' = uploads \ {Sent(p)}
            \/ uploads' = (uploads \ {Sent(p)}) \cup {[Sent(p) EXCEPT !.waited = FALSE]}
        BY <1>9 DEF UploadFails, Sent
      <3>3. QED
        BY <3>1, <3>2 DEF TypeOK
    <2>4. spoilt' \subseteq Recordings
      BY <1>9, <2>1, HeadFacts DEF UploadFails, TypeOK
    <2>5. QED
      BY <1>9, <2>2, <2>3, <2>4 DEF UploadFails, TypeOK, store
  <1>10. ASSUME NEW r \in Recordings, CreateRecording(p, r)
         PROVE  TypeOK'
    <2>1. PICK new \in Begun(page[p], r) : page' = [page EXCEPT ![p] = new]
      BY <1>10 DEF CreateRecording
    <2>2. new \in Page
      BY <1>1, <1>10, BegunType DEF CreateRecording
    <2>3. page' \in [Pages -> Page]
      BY <2>1, <2>2, PageStep
    <2>4. row' \in [Recordings -> Row]
      BY <1>10, RowFacts DEF CreateRecording, TypeOK
    <2>5. QED
      BY <1>10, <2>3, <2>4 DEF CreateRecording, TypeOK
  <1>11. ASSUME NEW r \in Recordings, EmitChunk(p, r)
         PROVE  TypeOK'
    <2> DEFINE id == page[p].id
    <2>1. id # None => page' \in [Pages -> Page]
      <3>1. SUFFICES ASSUME id # None PROVE page' \in [Pages -> Page]
        OBVIOUS
      <3> DEFINE q == Append(page[p].queue, Chunk(id))
                 new == [page[p] EXCEPT !.queue = q]
      <3>2. q \in Seq(Job)
        BY <3>1, Typed, JobFacts, QueueFacts
      <3>3. page' = [page EXCEPT ![p] = new]
        BY <1>11, <3>1 DEF EmitChunk, Chunk, TypeOK
      <3> HIDE DEF q
      <3>4. new \in Page
        BY <1>1, <3>2 DEF Page
      <3>5. QED
        BY <3>3, <3>4, PageStep
    <2>2. page' \in [Pages -> Page]
      BY <1>11, <2>1 DEF EmitChunk, TypeOK
    <2>3. spoilt' \subseteq Recordings
      BY <1>11, Typed DEF EmitChunk, TypeOK
    <2>4. emitted' \in [Recordings -> 0..MaxEmitted]
      <3>1. \A n \in 0..MaxEmitted : n < MaxEmitted => n + 1 \in 0..MaxEmitted
        BY RecordingsAssumption
      <3>2. QED
        BY <1>11, <3>1 DEF EmitChunk, TypeOK
    <2>5. QED
      BY <1>11, <2>2, <2>3, <2>4 DEF EmitChunk, TypeOK, store
  <1>12. QED
    BY <1>2, <1>3, <1>4, <1>5, <1>6, <1>7, <1>8, <1>9, <1>10, <1>11

LEMMA RemovedFacts ==
  ASSUME TypeOK, NEW R
  PROVE  /\ RowsRemoved(R) \in [Recordings -> Row]
         /\ \A r \in Recordings : RowsRemoved(R)[r] = IF r \in R THEN NoRow("gone") ELSE row[r]
         /\ FilesRemoved(R) => /\ part' \in [Recordings -> Nat \cup {None}]
                               /\ replay' \in [Recordings -> Nat \cup {None}]
                               /\ \A r \in Recordings :
                                    /\ part'[r] = IF r \in R THEN None ELSE part[r]
                                    /\ replay'[r] = IF r \in R THEN None ELSE replay[r]
  BY RowFacts DEF RowsRemoved, FilesRemoved, TypeOK

LEMMA StoredTypes ==
  ASSUME TypeOK, NEW r \in Recordings
  PROVE  /\ part' = [part EXCEPT ![r] = Bytes(@) + 1] =>
              /\ part' \in [Recordings -> Nat \cup {None}]
              /\ \A x \in Recordings : part'[x] = IF x = r THEN Bytes(part[r]) + 1 ELSE part[x]
         /\ row' = [row EXCEPT ![r].size = @ + 1] =>
              /\ row' \in [Recordings -> Row]
              /\ row'[r].size = row[r].size + 1 /\ row'[r].status = row[r].status
              /\ \A x \in Recordings : x # r => row'[x] = row[x]
         /\ Renamed(r) =>
              /\ part' \in [Recordings -> Nat \cup {None}]
              /\ replay' \in [Recordings -> Nat \cup {None}]
              /\ \A x \in Recordings :
                   /\ part'[x] = IF x = r THEN None ELSE part[x]
                   /\ replay'[x] = IF x = r THEN Bytes(part[r]) ELSE replay[x]
         /\ Completed(r) =>
              /\ row' \in [Recordings -> Row]
              /\ row'[r].size = row[r].size /\ row'[r].status = "complete"
              /\ \A x \in Recordings : x # r => row'[x] = row[x]
  <1>1. row[r] \in Row /\ Bytes(part[r]) \in Nat
    BY Typed
  <1>2. ASSUME part' = [part EXCEPT ![r] = Bytes(@) + 1]
        PROVE  /\ part' \in [Recordings -> Nat \cup {None}]
               /\ \A x \in Recordings : part'[x] = IF x = r THEN Bytes(part[r]) + 1 ELSE part[x]
    BY <1>1, <1>2 DEF TypeOK
  <1>3. ASSUME row' = [row EXCEPT ![r].size = @ + 1]
        PROVE  /\ row' \in [Recordings -> Row]
               /\ row'[r].size = row[r].size + 1 /\ row'[r].status = row[r].status
               /\ \A x \in Recordings : x # r => row'[x] = row[x]
    <2> DEFINE new == [row[r] EXCEPT !.size = @ + 1]
    <2>1. row' = [row EXCEPT ![r] = new]
      BY <1>3 DEF TypeOK
    <2>2. new \in Row
      BY <1>1, RowFacts
    <2>3. new.size = row[r].size + 1 /\ new.status = row[r].status
      BY <1>1 DEF Row
    <2> HIDE DEF new
    <2>4. QED
      BY <2>1, <2>2, <2>3 DEF TypeOK
  <1>4. ASSUME Renamed(r)
        PROVE  /\ part' \in [Recordings -> Nat \cup {None}]
               /\ replay' \in [Recordings -> Nat \cup {None}]
               /\ \A x \in Recordings :
                    /\ part'[x] = IF x = r THEN None ELSE part[x]
                    /\ replay'[x] = IF x = r THEN Bytes(part[r]) ELSE replay[x]
    BY <1>1, <1>4 DEF Renamed, TypeOK
  <1>5. ASSUME Completed(r)
        PROVE  /\ row' \in [Recordings -> Row]
               /\ row'[r].size = row[r].size /\ row'[r].status = "complete"
               /\ \A x \in Recordings : x # r => row'[x] = row[x]
    <2> DEFINE new == [row[r] EXCEPT !.status = "complete", !.age = 0]
    <2>1. row' = [row EXCEPT ![r] = new]
      BY <1>5 DEF Completed, TypeOK
    <2>2. new \in Row
      BY <1>1, RowFacts
    <2>3. new.size = row[r].size /\ new.status = "complete"
      BY <1>1 DEF Row
    <2> HIDE DEF new
    <2>4. QED
      BY <2>1, <2>2, <2>3 DEF TypeOK
  <1>6. QED
    BY <1>2, <1>3, <1>4, <1>5

LEMMA TickFacts ==
  ASSUME TypeOK, Tick
  PROVE  /\ row' \in [Recordings -> Row]
         /\ \A r \in Recordings : row'[r].size = row[r].size /\ row'[r].status = row[r].status
  <1>1. ASSUME NEW r \in Recordings
        PROVE  /\ row'[r] \in Row
               /\ row'[r].size = row[r].size /\ row'[r].status = row[r].status
    <2>1. row[r] \in Row
      BY Typed
    <2>2. row[r].age <= OrphanAge => [row[r] EXCEPT !.age = @ + 1] \in Row
      BY <2>1, RowFacts
    <2>3. /\ [row[r] EXCEPT !.age = @ + 1].size = row[r].size
          /\ [row[r] EXCEPT !.age = @ + 1].status = row[r].status
      BY <2>1 DEF Row
    <2>4. \/ row'[r] = row[r]
          \/ row[r].age <= OrphanAge /\ row'[r] = [row[r] EXCEPT !.age = @ + 1]
      <3>1. row' = [x \in Recordings |->
               IF Unfinished(x) /\ row[x].age <= OrphanAge
               THEN [row[x] EXCEPT !.age = @ + 1] ELSE row[x]]
        BY DEF Tick
      <3>2. row'[r] = IF Unfinished(r) /\ row[r].age <= OrphanAge
                      THEN [row[r] EXCEPT !.age = @ + 1] ELSE row[r]
        BY <3>1
      <3>3. QED
        BY <3>2
    <2>5. QED
      BY <2>1, <2>2, <2>3, <2>4
  <1>2. row' = [r \in Recordings |-> row'[r]]
    BY DEF Tick
  <1>3. QED
    BY <1>1, <1>2

LEMMA HandlerTypes ==
  ASSUME TypeOK, UploadsFit,
         \/ \E p \in Pages : FinalizeRecording(p) \/ FinalizeDies(p) \/ FinalizeFails(p)
         \/ \E u \in uploads : PutChunk(u) \/ PutChunkDies(u)
         \/ \E r \in Recordings : DeleteRecording(r) \/ RemoveDies(r)
         \/ \E B \in SUBSET Recordings : Housekeeping(B)
         \/ DeleteAccount \/ Restart \/ Tick
  PROVE  TypeOK'
  <1>1. ASSUME NEW p \in Pages, FinalizeRecording(p)
        PROVE  TypeOK'
    <2>1. page[p].queue # <<>>
      BY <1>1 DEF FinalizeRecording, Finishing
    <2>2. page' \in [Pages -> Page]
      BY <1>1, <2>1, ServedType DEF FinalizeRecording
    <2>3. NextId(p) \in Recordings
      BY <2>1, HeadFacts
    <2>4. /\ row' \in [Recordings -> Row]
          /\ part' \in [Recordings -> Nat \cup {None}]
          /\ replay' \in [Recordings -> Nat \cup {None}]
      BY <1>1, <2>3, StoredTypes DEF FinalizeRecording, TypeOK
    <2>5. QED
      BY <1>1, <2>2, <2>4 DEF FinalizeRecording, TypeOK
  <1>2. ASSUME NEW p \in Pages, FinalizeDies(p)
        PROVE  TypeOK'
    <2>1. page[p].queue # <<>>
      BY <1>2 DEF FinalizeDies, Finishing
    <2>2. NextId(p) \in Recordings
      BY <2>1, HeadFacts
    <2>3. Dies({NextId(p)}, {p}) /\ Renamed(NextId(p)) /\ row' = row
      BY <1>2 DEF FinalizeDies
    <2>4. /\ part' \in [Recordings -> Nat \cup {None}]
          /\ replay' \in [Recordings -> Nat \cup {None}]
      BY <2>2, <2>3, StoredTypes
    <2>5. /\ page' \in [Pages -> Page] /\ uploads' \subseteq Upload
          /\ emitted' = emitted /\ account' = account
          /\ torn' \subseteq Recordings /\ spoilt' \subseteq Recordings
      BY <2>1, <2>2, <2>3, DiesType
    <2>6. QED
      BY <2>3, <2>4, <2>5 DEF TypeOK
  <1>3. ASSUME NEW p \in Pages, FinalizeFails(p)
        PROVE  TypeOK'
    <2>1. page[p].queue # <<>>
      BY <1>3 DEF FinalizeFails, Finishing
    <2>2. page' \in [Pages -> Page]
      BY <1>3, <2>1, ServedType DEF FinalizeFails
    <2>3. QED
      BY <1>3, <2>2 DEF FinalizeFails, TypeOK, store
  <1>4. ASSUME NEW u \in uploads, PutChunk(u)
        PROVE  TypeOK'
    <2>1. u.id \in Recordings /\ u.page \in Pages
      BY Typed
    <2> DEFINE W == IF u.waited THEN {u.page} ELSE {}
    <2>2. \A p \in W : page[p].queue # <<>>
      BY DEF UploadsFit
    <2>3. page' = Served(W)
      BY <1>4 DEF PutChunk
    <2> HIDE DEF W
    <2>4. page' \in [Pages -> Page]
      BY <2>2, <2>3, ServedType
    <2>5. row' \in [Recordings -> Row] /\ part' \in [Recordings -> Nat \cup {None}]
      BY <1>4, <2>1, StoredTypes DEF PutChunk, TypeOK
    <2>6. spoilt' \subseteq Recordings /\ uploads' \subseteq Upload
      BY <1>4, <2>1 DEF PutChunk, TypeOK
    <2>7. account' \in BOOLEAN /\ replay' \in [Recordings -> Nat \cup {None}]
          /\ emitted' \in [Recordings -> 0..MaxEmitted] /\ torn' \subseteq Recordings
      BY <1>4 DEF PutChunk, TypeOK
    <2>8. QED
      BY <2>4, <2>5, <2>6, <2>7 DEF TypeOK
  <1>5. ASSUME NEW u \in uploads, PutChunkDies(u)
        PROVE  TypeOK'
    <2>1. u.id \in Recordings
      BY Typed
    <2>2. /\ Dies({u.id}, {}) /\ row' = row /\ replay' = replay
          /\ {u.id} \in SUBSET Recordings /\ {} \in SUBSET Pages
      BY <1>5, <2>1 DEF PutChunkDies
    <2>3. part' \in [Recordings -> Nat \cup {None}]
      BY <1>5, <2>1, StoredTypes DEF PutChunkDies
    <2>4. /\ page' \in [Pages -> Page] /\ uploads' \subseteq Upload
          /\ emitted' = emitted /\ account' = account
          /\ torn' \subseteq Recordings /\ spoilt' \subseteq Recordings
      BY <2>1, <2>2, DiesType
    <2>5. QED
      BY <2>2, <2>3, <2>4 DEF TypeOK
  <1>6. ASSUME NEW r \in Recordings, DeleteRecording(r)
        PROVE  TypeOK'
    <2>1. /\ row' \in [Recordings -> Row] /\ part' \in [Recordings -> Nat \cup {None}]
          /\ replay' \in [Recordings -> Nat \cup {None}]
      BY <1>6, RemovedFacts DEF DeleteRecording
    <2>2. QED
      BY <1>6, <2>1 DEF DeleteRecording, TypeOK, client
  <1>7. ASSUME NEW r \in Recordings, RemoveDies(r)
        PROVE  TypeOK'
    <2>1. /\ Dies({r}, {}) /\ replay' = replay
          /\ {r} \in SUBSET Recordings /\ {} \in SUBSET Pages
      BY <1>7 DEF RemoveDies
    <2>2. row' \in [Recordings -> Row]
      BY <1>7, RemovedFacts DEF RemoveDies
    <2>3. part' \in [Recordings -> Nat \cup {None}]
      BY <1>7 DEF RemoveDies, TypeOK
    <2>4. /\ page' \in [Pages -> Page] /\ uploads' \subseteq Upload
          /\ emitted' = emitted /\ account' = account
          /\ torn' \subseteq Recordings /\ spoilt' \subseteq Recordings
      BY <2>1, DiesType
    <2>5. QED
      BY <2>1, <2>2, <2>3, <2>4 DEF TypeOK
  <1>8. ASSUME NEW B \in SUBSET Recordings, Housekeeping(B)
        PROVE  TypeOK'
    <2> DEFINE orphans == {r \in Recordings : Orphaned(r)}
    <2>1. row' = RowsRemoved(orphans \cup B) /\ FilesRemoved(orphans) /\ torn' = torn \cup B
      BY <1>8 DEF Housekeeping
    <2> HIDE DEF orphans
    <2>2. /\ row' \in [Recordings -> Row] /\ part' \in [Recordings -> Nat \cup {None}]
          /\ replay' \in [Recordings -> Nat \cup {None}]
      BY <2>1, RemovedFacts
    <2>3. QED
      BY <1>8, <2>1, <2>2 DEF Housekeeping, TypeOK, client
  <1>9. CASE DeleteAccount
    <2> DEFINE mine == {r \in Recordings : HasRow(r)}
    <2>1. row' = RowsRemoved(mine) /\ FilesRemoved(mine)
      BY <1>9 DEF DeleteAccount
    <2> HIDE DEF mine
    <2>2. /\ row' \in [Recordings -> Row] /\ part' \in [Recordings -> Nat \cup {None}]
          /\ replay' \in [Recordings -> Nat \cup {None}]
      BY <2>1, RemovedFacts
    <2>3. QED
      BY <1>9, <2>2 DEF DeleteAccount, TypeOK, client
  <1>10. CASE Restart
    <2>1. Dies({}, {}) /\ row' = row /\ part' = part /\ replay' = replay
      BY <1>10 DEF Restart
    <2>2. /\ page' \in [Pages -> Page] /\ uploads' \subseteq Upload
          /\ emitted' = emitted /\ account' = account
          /\ torn' \subseteq Recordings /\ spoilt' \subseteq Recordings
      BY <2>1, DiesType
    <2>3. QED
      BY <2>1, <2>2 DEF TypeOK
  <1>11. CASE Tick
    BY <1>11, TickFacts DEF Tick, TypeOK, client
  <1>12. QED
    BY <1>1, <1>2, <1>3, <1>4, <1>5, <1>6, <1>7, <1>8, <1>9, <1>10, <1>11

-----------------------------------------------------------------------------
(* Rows and files *)

LEMMA SizedRows ==
  /\ TypeOK /\ ChargedWithinQuota => Sized(row)
  /\ TypeOK' /\ (\A r \in Recordings : ~HasRow(r) => row[r].size = 0)' => Sized(row')
  BY RowFacts DEF TypeOK, ChargedWithinQuota, Sized, HasRow

\* What a step may do to the row and the files of an id.
SameRow(r) == row'[r].status = row[r].status /\ row'[r].size = row[r].size
SameFiles(r) == part'[r] = part[r] /\ replay'[r] = replay[r]
RowGone(r) == row'[r].status = "gone" /\ row'[r].size = 0
FilesGone(r) == part'[r] = None /\ replay'[r] = None
RowMade(r) == row[r].status = "unused" /\ row'[r].status = "recording" /\ row'[r].size = 0
Finalized(r) ==
  /\ row[r].status = "recording" /\ row'[r].status = "complete" /\ row'[r].size = row[r].size
  /\ part'[r] = None /\ replay'[r] = Bytes(part[r])

\* All but the upload of a chunk.
Uncharged(r) ==
  \/ SameRow(r) /\ SameFiles(r)
  \/ RowGone(r) /\ FilesGone(r)
  \/ RowMade(r) /\ SameFiles(r)
  \/ Finalized(r)
  \/ r \in torn' /\ (SameRow(r) \/ RowGone(r))

LEMMA UnchargedStep ==
  ASSUME TypeOK, TypeOK', ServerInv, torn \subseteq torn',
         \A r \in Recordings : Uncharged(r)
  PROVE  ServerInv'
  <1>1. RowMatchesFiles'
    <2> SUFFICES ASSUME NEW r \in Recordings, r \notin torn'
                 PROVE  /\ row'[r].status = "recording" =>
                             replay'[r] = None /\ Bytes(part'[r]) = row'[r].size
                        /\ row'[r].status = "complete" =>
                             part'[r] = None /\ replay'[r] = row'[r].size
                        /\ part'[r] # None \/ replay'[r] # None =>
                             row'[r].status \in {"recording", "complete"}
      BY DEF RowMatchesFiles, Unfinished, HasRow, Bytes
    <2>1. /\ row[r].status = "recording" => replay[r] = None /\ Bytes(part[r]) = row[r].size
          /\ row[r].status = "complete" => part[r] = None /\ replay[r] = row[r].size
          /\ part[r] # None \/ replay[r] # None => row[r].status \in {"recording", "complete"}
      BY DEF ServerInv, RowMatchesFiles, Unfinished, HasRow
    <2>2. Bytes(None) = 0 /\ row[r].size \in Nat
      BY Typed DEF Bytes
    <2>3. CASE SameRow(r) /\ SameFiles(r)
      BY <2>1, <2>3 DEF SameRow, SameFiles
    <2>4. CASE RowGone(r) /\ FilesGone(r)
      BY <2>4 DEF RowGone, FilesGone
    <2>5. CASE RowMade(r) /\ SameFiles(r)
      BY <2>1, <2>2, <2>5 DEF RowMade, SameFiles
    <2>6. CASE Finalized(r)
      BY <2>1, <2>6 DEF Finalized
    <2>7. QED
      BY <2>3, <2>4, <2>5, <2>6 DEF Uncharged
  <1>2. \A r \in Recordings : /\ row[r].size \in Nat /\ row'[r].size <= row[r].size
                              /\ row'[r].status \notin {"recording", "complete"} => row'[r].size = 0
    BY Typed DEF ServerInv, ChargedWithinQuota, HasRow, Uncharged, SameRow, RowGone, RowMade,
                 Finalized
  <1>3. (\A r \in Recordings : ~HasRow(r) => row[r].size = 0)'
    BY <1>2 DEF HasRow
  <1>4. Sized(row) /\ Sized(row')
    BY <1>3, SizedRows DEF ServerInv
  <1>5. TotalBytes' <= MaxPerUser
    <2>1. Total(row) \in Nat /\ Total(row') \in Nat /\ Total(row') <= Total(row)
      BY <1>2, <1>4, TotalShrinks, RecordingsAssumption
    <2>2. Total(row) <= MaxPerUser /\ MaxPerUser \in Nat
      BY TotalBytesIsTotal, RecordingsAssumption DEF ServerInv, ChargedWithinQuota
    <2>3. QED
      BY <2>1, <2>2, TotalBytesIsTotal
  <1>6. \A r \in Recordings : row'[r].size <= MaxBytes
    <2>1. \A r \in Recordings : row'[r].size \in Nat /\ row[r].size <= MaxBytes
      BY <1>4 DEF Sized, ServerInv, ChargedWithinQuota
    <2>2. QED
      BY <1>2, <2>1, RecordingsAssumption
  <1>7. QED
    BY <1>1, <1>3, <1>5, <1>6 DEF ServerInv, ChargedWithinQuota

\* A chunk is charged for only when it fits.
LEMMA ChargedStep ==
  ASSUME TypeOK, TypeOK', ServerInv, NEW r \in Recordings, Unfinished(r), Fits(r),
         torn' = torn, replay' = replay, part' = [part EXCEPT ![r] = Bytes(@) + 1],
         row' = [row EXCEPT ![r].size = @ + 1]
  PROVE  ServerInv'
  <1>1. /\ \A x \in Recordings : part'[x] = IF x = r THEN Bytes(part[r]) + 1 ELSE part[x]
        /\ row'[r].size = row[r].size + 1 /\ row'[r].status = row[r].status
        /\ \A x \in Recordings : x # r => row'[x] = row[x]
    BY StoredTypes
  <1>2. row[r].size \in Nat /\ Bytes(part[r]) \in Nat /\ row[r].status = "recording"
    BY Typed DEF Unfinished
  <1>3. Bytes(part'[r]) = Bytes(part[r]) + 1
    BY <1>1, <1>2, BytesType
  <1>4. RowMatchesFiles'
    <2> SUFFICES ASSUME NEW x \in Recordings, x \notin torn
                 PROVE  /\ row'[x].status = "recording" =>
                             replay'[x] = None /\ Bytes(part'[x]) = row'[x].size
                        /\ row'[x].status = "complete" =>
                             part'[x] = None /\ replay'[x] = row'[x].size
                        /\ part'[x] # None \/ replay'[x] # None =>
                             row'[x].status \in {"recording", "complete"}
      BY DEF RowMatchesFiles, Unfinished, HasRow, Bytes
    <2>1. /\ row[x].status = "recording" => replay[x] = None /\ Bytes(part[x]) = row[x].size
          /\ row[x].status = "complete" => part[x] = None /\ replay[x] = row[x].size
          /\ part[x] # None \/ replay[x] # None => row[x].status \in {"recording", "complete"}
      BY DEF ServerInv, RowMatchesFiles, Unfinished, HasRow
    <2>2. CASE x = r
      BY <1>1, <1>2, <1>3, <2>1, <2>2
    <2>3. CASE x # r
      BY <1>1, <2>1, <2>3
    <2>4. QED
      BY <2>2, <2>3
  <1>5. (\A x \in Recordings : ~HasRow(x) => row[x].size = 0)'
    BY <1>1, <1>2 DEF HasRow, ServerInv, ChargedWithinQuota
  <1>6. Sized(row) /\ Sized(row')
    BY <1>5, SizedRows DEF ServerInv
  <1>7. TotalBytes' <= MaxPerUser
    <2>1. \A x \in Recordings : x # r => row'[x].size <= row[x].size
      BY <1>1, <1>6 DEF Sized
    <2>2. row'[r].size <= row[r].size + 1
      BY <1>1, <1>2
    <2>3. Total(row) \in Nat /\ Total(row') \in Nat /\ Total(row') <= Total(row) + 1
      BY <1>6, <2>1, <2>2, TotalGrows, RecordingsAssumption
    <2>4. Total(row) + 1 <= MaxPerUser /\ MaxPerUser \in Nat
      BY TotalBytesIsTotal, RecordingsAssumption DEF Fits
    <2>5. QED
      BY <2>3, <2>4, TotalBytesIsTotal
  <1>8. \A x \in Recordings : row'[x].size <= MaxBytes
    BY <1>1 DEF Fits, ServerInv, ChargedWithinQuota
  <1>9. QED
    BY <1>4, <1>5, <1>7, <1>8 DEF ServerInv, ChargedWithinQuota

\* What a handler looks up and leaves alone.
LEMMA StoreSame ==
  ASSUME TypeOK, TypeOK', ServerInv, torn \subseteq torn',
         row' = row, part' = part, replay' = replay
  PROVE  ServerInv'
  BY UnchargedStep DEF Uncharged, SameRow, SameFiles

LEMMA ServerSteps ==
  ASSUME TypeOK, TypeOK', ServerInv, [Next]_vars
  PROVE  ServerInv'
  <1>1. CASE UNCHANGED vars
    BY <1>1, StoreSame DEF vars, store
  <1>2. ASSUME NEW p \in Pages,
               \/ StreamStarts(p) \/ StreamEnds(p) \/ PressRecord(p) \/ PressStop(p)
               \/ CloseTab(p) \/ CreateFails(p) \/ SendChunk(p) \/ UploadFails(p)
               \/ FinalizeFails(p) \/ \E r \in Recordings : EmitChunk(p, r)
        PROVE  ServerInv'
    <2>1. row' = row /\ part' = part /\ replay' = replay /\ torn' = torn
      BY <1>2 DEF StreamStarts, StreamEnds, PressRecord, PressStop, CloseTab, CreateFails,
                  SendChunk, UploadFails, FinalizeFails, EmitChunk, store
    <2>2. QED
      BY <2>1, StoreSame
  <1>3. ASSUME NEW p \in Pages, NEW r \in Recordings, CreateRecording(p, r)
        PROVE  ServerInv'
    <2>1. RowMade(r)
      BY <1>3, RowFacts DEF CreateRecording, RowMade, TypeOK
    <2>2. \A x \in Recordings : x # r => SameRow(x)
      BY <1>3 DEF CreateRecording, SameRow, TypeOK
    <2>3. torn' = torn /\ \A x \in Recordings : SameFiles(x)
      BY <1>3 DEF CreateRecording, SameFiles
    <2>4. QED
      BY <2>1, <2>2, <2>3, UnchargedStep DEF Uncharged
  <1>4. ASSUME NEW p \in Pages, FinalizeRecording(p)
        PROVE  ServerInv'
    <2> DEFINE r == NextId(p)
    <2>1. r \in Recordings /\ torn' = torn
      BY <1>4, HeadFacts DEF FinalizeRecording, Finishing
    <2>2. CASE ~Unfinished(r)
      <3>1. row' = row /\ part' = part /\ replay' = replay
        BY <1>4, <2>2 DEF FinalizeRecording
      <3>2. QED
        BY <2>1, <3>1, StoreSame
    <2>3. CASE Unfinished(r)
      <3>1. Renamed(r) /\ Completed(r)
        BY <1>4, <2>3 DEF FinalizeRecording
      <3> HIDE DEF r
      <3>2. Finalized(r)
        BY <2>1, <2>3, <3>1, StoredTypes DEF Finalized, Unfinished
      <3>3. \A x \in Recordings : x # r => SameRow(x) /\ SameFiles(x)
        BY <2>1, <3>1, StoredTypes DEF SameRow, SameFiles
      <3>4. QED
        BY <2>1, <3>2, <3>3, UnchargedStep DEF Uncharged
    <2>4. QED
      BY <2>2, <2>3
  <1>5. ASSUME NEW p \in Pages, FinalizeDies(p)
        PROVE  ServerInv'
    <2> DEFINE r == NextId(p)
    <2>1. r \in Recordings /\ Renamed(r) /\ row' = row /\ torn' = torn \cup {r}
      BY <1>5, HeadFacts DEF FinalizeDies, Finishing, Dies
    <2> HIDE DEF r
    <2>2. \A x \in Recordings : x # r => SameFiles(x)
      BY <2>1, StoredTypes DEF SameFiles
    <2>3. \A x \in Recordings : SameRow(x)
      BY <2>1 DEF SameRow
    <2>4. QED
      BY <2>1, <2>2, <2>3, UnchargedStep DEF Uncharged
  <1>6. ASSUME NEW u \in uploads, PutChunk(u)
        PROVE  ServerInv'
    <2>1. u.id \in Recordings /\ torn' = torn /\ replay' = replay
      BY <1>6, Typed DEF PutChunk
    <2>2. CASE Appendable(u.id) /\ Fits(u.id)
      <3>1. part' = [part EXCEPT ![u.id] = Bytes(@) + 1] /\ row' = [row EXCEPT ![u.id].size = @ + 1]
        BY <1>6, <2>2 DEF PutChunk
      <3>2. QED
        BY <2>1, <2>2, <3>1, ChargedStep DEF Appendable
    <2>3. CASE ~(Appendable(u.id) /\ Fits(u.id))
      <3>1. row' = row /\ part' = part
        BY <1>6, <2>3 DEF PutChunk
      <3>2. QED
        BY <2>1, <3>1, StoreSame
    <2>4. QED
      BY <2>2, <2>3
  <1>7. ASSUME NEW u \in uploads, PutChunkDies(u)
        PROVE  ServerInv'
    <2>1. u.id \in Recordings /\ part' = [part EXCEPT ![u.id] = Bytes(@) + 1] /\ row' = row
          /\ replay' = replay /\ torn' = torn \cup {u.id}
      BY <1>7, Typed DEF PutChunkDies, Dies
    <2>2. \A x \in Recordings : x # u.id => SameFiles(x)
      BY <2>1, StoredTypes DEF SameFiles
    <2>3. \A x \in Recordings : SameRow(x)
      BY <2>1 DEF SameRow
    <2>4. QED
      BY <2>1, <2>2, <2>3, UnchargedStep DEF Uncharged
  <1>8. ASSUME NEW r \in Recordings, DeleteRecording(r)
        PROVE  ServerInv'
    <2>1. row' = RowsRemoved({r}) /\ FilesRemoved({r}) /\ torn' = torn
      BY <1>8 DEF DeleteRecording
    <2>2. RowGone(r) /\ FilesGone(r)
      BY <2>1, RemovedFacts, RowFacts DEF RowGone, FilesGone
    <2>3. \A x \in Recordings : x # r => SameRow(x) /\ SameFiles(x)
      BY <2>1, RemovedFacts DEF SameRow, SameFiles
    <2>4. QED
      BY <2>1, <2>2, <2>3, UnchargedStep DEF Uncharged
  <1>9. ASSUME NEW r \in Recordings, RemoveDies(r)
        PROVE  ServerInv'
    <2>1. row' = RowsRemoved({r}) /\ replay' = replay /\ torn' = torn \cup {r}
          /\ \A x \in Recordings : x # r => part'[x] = part[x]
      BY <1>9 DEF RemoveDies, Dies, TypeOK
    <2>2. RowGone(r)
      BY <2>1, RemovedFacts, RowFacts DEF RowGone
    <2>3. \A x \in Recordings : x # r => SameRow(x) /\ SameFiles(x)
      BY <2>1, RemovedFacts DEF SameRow, SameFiles
    <2>4. QED
      BY <2>1, <2>2, <2>3, UnchargedStep DEF Uncharged
  <1>10. ASSUME NEW B \in SUBSET Recordings, Housekeeping(B)
         PROVE  ServerInv'
    <2> DEFINE orphans == {r \in Recordings : Orphaned(r)}
    <2>1. row' = RowsRemoved(orphans \cup B) /\ FilesRemoved(orphans) /\ torn' = torn \cup B
      BY <1>10 DEF Housekeeping
    <2> HIDE DEF orphans
    <2>2. \A r \in Recordings :
            row'[r] = IF r \in orphans \cup B THEN NoRow("gone") ELSE row[r]
      BY <2>1, RemovedFacts
    <2>3. \A r \in Recordings : r \in orphans => RowGone(r) /\ FilesGone(r)
      <3>1. \A r \in Recordings : r \in orphans => FilesGone(r)
        BY <2>1, RemovedFacts DEF FilesGone
      <3>2. \A r \in Recordings : r \in orphans => RowGone(r)
        BY <2>2, RowFacts DEF RowGone
      <3>3. QED
        BY <3>1, <3>2
    <2>4. \A r \in B : RowGone(r) /\ r \in torn'
      BY <2>1, <2>2, RowFacts DEF RowGone
    <2>5. \A r \in Recordings \ (orphans \cup B) : SameRow(r) /\ SameFiles(r)
      BY <2>1, RemovedFacts DEF SameRow, SameFiles
    <2>6. QED
      BY <2>1, <2>3, <2>4, <2>5, UnchargedStep DEF Uncharged
  <1>11. CASE DeleteAccount
    <2> DEFINE mine == {r \in Recordings : HasRow(r)}
    <2>1. row' = RowsRemoved(mine) /\ FilesRemoved(mine) /\ torn' = torn
      BY <1>11 DEF DeleteAccount
    <2> HIDE DEF mine
    <2>2. \A r \in mine \cap Recordings : RowGone(r) /\ FilesGone(r)
      BY <2>1, RemovedFacts, RowFacts DEF RowGone, FilesGone
    <2>3. \A r \in Recordings \ mine : SameRow(r) /\ SameFiles(r)
      BY <2>1, RemovedFacts DEF SameRow, SameFiles
    <2>4. QED
      BY <2>1, <2>2, <2>3, UnchargedStep DEF Uncharged
  <1>12. CASE Restart
    BY <1>12, StoreSame DEF Restart, Dies
  <1>13. CASE Tick
    <2>1. \A r \in Recordings : SameRow(r) /\ SameFiles(r)
      BY <1>13, TickFacts DEF Tick, SameRow, SameFiles
    <2>2. QED
      BY <1>13, <2>1, UnchargedStep DEF Uncharged, Tick
  <1>14. QED
    BY <1>1, <1>2, <1>3, <1>4, <1>5, <1>6, <1>7, <1>8, <1>9, <1>10, <1>11, <1>12, <1>13
       DEF Next

\* The disk follows from the rows.
LEMMA DiskFollows ==
  ASSUME TypeOK, ServerInv
  PROVE  DiskIsAccounted
  <1>1. SUFFICES ASSUME torn = {}
                 PROVE  /\ MapThenSumSet(LAMBDA r : Bytes(part[r]) + Bytes(replay[r]), Recordings)
                             <= MaxPerUser
                        /\ \A r \in Recordings : Bytes(part[r]) + Bytes(replay[r]) <= MaxBytes
    BY DEF DiskIsAccounted, DiskWithinQuota, ServerInv, MapThenSumSet, MapThenFoldSet
  <1>2. ASSUME NEW r \in Recordings
        PROVE  Bytes(part[r]) + Bytes(replay[r]) = row[r].size
    <2>1. row[r].size \in Nat /\ Bytes(None) = 0
          /\ part[r] \in Nat \cup {None} /\ replay[r] \in Nat \cup {None}
      BY Typed DEF Bytes
    <2>2. Bytes(part[r]) \in Nat /\ (replay[r] \in Nat => Bytes(replay[r]) = replay[r])
      BY <2>1, BytesType
    <2>3. CASE Unfinished(r)
      <3>1. replay[r] = None /\ Bytes(part[r]) = row[r].size
        BY <1>1, <2>3 DEF ServerInv, RowMatchesFiles
      <3>2. QED
        BY <2>1, <2>2, <3>1
    <2>4. CASE row[r].status = "complete"
      <3>1. part[r] = None /\ replay[r] = row[r].size
        BY <1>1, <2>4 DEF ServerInv, RowMatchesFiles
      <3>2. QED
        BY <2>1, <2>2, <3>1
    <2>5. CASE ~HasRow(r)
      <3>1. part[r] = None /\ replay[r] = None /\ row[r].size = 0
        BY <1>1, <2>5 DEF ServerInv, RowMatchesFiles, ChargedWithinQuota
      <3>2. QED
        BY <2>1, <3>1
    <2>6. QED
      BY <2>3, <2>4, <2>5 DEF HasRow, Unfinished
  <1>3. MapThenSumSet(LAMBDA r : Bytes(part[r]) + Bytes(replay[r]), Recordings) = Total(row)
    BY <1>2, SizedRows, DiskIsTotal, RecordingsAssumption DEF ServerInv
  <1>4. QED
    BY <1>2, <1>3, TotalBytesIsTotal DEF ServerInv, ChargedWithinQuota

-----------------------------------------------------------------------------
(* Tabs *)

LEMMA QueuedFacts ==
  ASSUME NEW q \in Seq(Job), NEW r \in Recordings
  PROVE  /\ ~Queued(<<>>, r)
         /\ q # <<>> /\ Queued(Tail(q), r) => Queued(q, r)
         /\ \A j \in Job : Queued(Append(q, j), r) <=> Queued(q, r) \/ j.id = r
  <1>1. ~Queued(<<>>, r)
    BY DEF Queued
  <1>2. q # <<>> /\ Queued(Tail(q), r) => Queued(q, r)
    BY QueueFacts DEF Queued
  <1>3. ASSUME NEW j \in Job
        PROVE  Queued(Append(q, j), r) <=> Queued(q, r) \/ j.id = r
    <2> DEFINE p == Append(q, j)
               n == Len(q) + 1
    <2>1. /\ DOMAIN q = 1..Len(q) /\ Len(q) \in Nat /\ DOMAIN p = 1..n /\ p[n] = j
          /\ \A i \in DOMAIN q : p[i] = q[i]
      BY QueueFacts
    <2>2. \A i \in DOMAIN p : i \in DOMAIN q \/ i = n
      BY <2>1
    <2>3. n \in DOMAIN p /\ \A i \in DOMAIN q : i \in DOMAIN p
      BY <2>1
    <2> HIDE DEF p, n
    <2>4. QED
      BY <2>1, <2>2, <2>3 DEF Queued, p
  <1>4. QED
    BY <1>1, <1>2, <1>3

LEMMA FinishLastFacts ==
  ASSUME NEW q \in Seq(Job), NEW r \in Recordings
  PROVE  /\ FinishLast(<<>>, r)
         /\ q # <<>> /\ FinishLast(q, r) => FinishLast(Tail(q), r)
         /\ q # <<>> /\ FinishLast(q, r) /\ Head(q) = Finish(r) => Count(q, r) = 0
         /\ \A s \in Recordings :
              /\ FinishLast(q, r) => FinishLast(Append(q, Finish(s)), r)
              /\ FinishLast(q, r) /\ (s = r => \A i \in DOMAIN q : q[i] # Finish(r)) =>
                   FinishLast(Append(q, Chunk(s)), r)
  <1>1. FinishLast(<<>>, r)
    BY DEF FinishLast
  <1>2. ASSUME q # <<>>, FinishLast(q, r)
        PROVE  FinishLast(Tail(q), r)
    <2> DEFINE t == Tail(q)
    <2>1. \A i \in DOMAIN t : i \in Int /\ i + 1 \in DOMAIN q /\ t[i] = q[i + 1]
      BY <1>2, QueueFacts
    <2> HIDE DEF t
    <2>2. \A i, j \in DOMAIN t : t[i] = Finish(r) /\ t[j] = Chunk(r) => j + 1 < i + 1
      BY <1>2, <2>1 DEF FinishLast
    <2>3. FinishLast(t, r)
      BY <2>1, <2>2 DEF FinishLast
    <2>4. QED
      BY <2>3 DEF t
  <1>3. ASSUME q # <<>>, FinishLast(q, r), Head(q) = Finish(r)
        PROVE  Count(q, r) = 0
    <2>1. 1 \in DOMAIN q /\ q[1] = Finish(r) /\ \A j \in DOMAIN q : ~(j < 1)
      BY <1>3, QueueFacts
    <2>2. Places(q, r) = {}
      BY <1>3, <2>1 DEF FinishLast, Places
    <2>3. QED
      BY <2>2, FS_EmptySet DEF Count
  <1>4. ASSUME NEW j \in Job
        PROVE  LET p == Append(q, j) IN
               /\ DOMAIN p = (DOMAIN q) \cup {Len(q) + 1} /\ p[Len(q) + 1] = j
               /\ \A i \in DOMAIN q : p[i] = q[i] /\ i < Len(q) + 1
    BY QueueFacts
  <1>5. ASSUME NEW s \in Recordings, FinishLast(q, r)
        PROVE  FinishLast(Append(q, Finish(s)), r)
    <2> DEFINE p == Append(q, Finish(s))
               n == Len(q) + 1
    <2>1. /\ DOMAIN p = (DOMAIN q) \cup {n} /\ p[n] # Chunk(r)
          /\ \A i \in DOMAIN q : p[i] = q[i] /\ i < n
      BY <1>4, JobFacts
    <2> HIDE DEF p, n
    <2>2. FinishLast(p, r)
      BY <1>5, <2>1 DEF FinishLast
    <2>3. QED
      BY <2>2 DEF p
  <1>6. ASSUME NEW s \in Recordings, FinishLast(q, r),
               s = r => \A i \in DOMAIN q : q[i] # Finish(r)
        PROVE  FinishLast(Append(q, Chunk(s)), r)
    <2> DEFINE p == Append(q, Chunk(s))
               n == Len(q) + 1
    <2>1. /\ DOMAIN p = (DOMAIN q) \cup {n} /\ p[n] = Chunk(s)
          /\ \A i \in DOMAIN q : p[i] = q[i] /\ i < n
      BY <1>4, JobFacts
    <2> HIDE DEF p, n
    <2>2. Chunk(s) # Finish(r) /\ (Chunk(s) = Chunk(r) => s = r)
      BY JobFacts
    <2>3. FinishLast(p, r)
      BY <1>6, <2>1, <2>2 DEF FinishLast
    <2>4. QED
      BY <2>3 DEF p
  <1>7. QED
    BY <1>1, <1>2, <1>3, <1>5, <1>6

LEMMA FinishedFacts ==
  ASSUME NEW q \in Seq(Job), NEW r \in Recordings
  PROVE  /\ ~Finished(<<>>, r)
         /\ q # <<>> /\ Finished(Tail(q), r) => Finished(q, r)
         /\ Finished(q, r) => Queued(q, r)
         /\ q # <<>> /\ Head(q) = Finish(r) => Finished(q, r)
         /\ \A s \in Recordings :
              /\ Finished(Append(q, Finish(s)), r) => Finished(q, r) \/ s = r
              /\ Finished(Append(q, Chunk(s)), r) => Finished(q, r)
  <1>1. ~Finished(<<>>, r)
    BY DEF Finished
  <1>2. q # <<>> /\ Finished(Tail(q), r) => Finished(q, r)
    BY QueueFacts DEF Finished
  <1>3. Finished(q, r) => Queued(q, r)
    BY JobFacts DEF Finished, Queued
  <1>4. q # <<>> /\ Head(q) = Finish(r) => Finished(q, r)
    BY QueueFacts DEF Finished
  <1>5. ASSUME NEW j \in Job
        PROVE  Finished(Append(q, j), r) => Finished(q, r) \/ j = Finish(r)
    <2> DEFINE p == Append(q, j)
               n == Len(q) + 1
    <2>1. /\ DOMAIN p = (DOMAIN q) \cup {n} /\ p[n] = j
          /\ \A i \in DOMAIN q : p[i] = q[i]
      BY QueueFacts
    <2> HIDE DEF p, n
    <2>2. QED
      BY <2>1 DEF Finished, p
  <1>6. QED
    BY <1>1, <1>2, <1>3, <1>4, <1>5, JobFacts

\* A tab that has less to do than before.
Lesser(old, new) ==
  /\ new.running \subseteq old.running
  /\ (new.id = old.id /\ new.ref = old.ref) \/ new.id = None
  /\ \/ new.queue = old.queue
     \/ old.queue # <<>> /\ new.queue = Tail(old.queue)
     \/ new.queue = <<>>

LEMMA TabsShrink ==
  ASSUME TypeOK, TypeOK', OneHome, RefsAgree, FinishIsLast, CompleteIsOver,
         \A p \in Pages : Lesser(page[p], page'[p]),
         \A r \in Recordings :
           /\ row[r].status # "unused" => row'[r].status # "unused"
           /\ row'[r].status = "complete" =>
                row[r].status = "complete" \/ \A p \in Pages : r \notin page[p].running
  PROVE  OneHome' /\ RefsAgree' /\ FinishIsLast' /\ CompleteIsOver'
         /\ \A p \in Pages, r \in Recordings : Knows(p, r)' => Knows(p, r)
  <1>1. ASSUME NEW p \in Pages, NEW r \in Recordings
        PROVE  /\ Queued(page'[p].queue, r) => Queued(page[p].queue, r)
               /\ Finished(page'[p].queue, r) => Finished(page[p].queue, r)
               /\ FinishLast(page'[p].queue, r)
    <2>1. page[p].queue \in Seq(Job) /\ Lesser(page[p], page'[p])
          /\ FinishLast(page[p].queue, r)
      BY Typed DEF FinishIsLast
    <2>2. CASE page'[p].queue = page[p].queue
      BY <2>1, <2>2
    <2>3. CASE page[p].queue # <<>> /\ page'[p].queue = Tail(page[p].queue)
      BY <2>1, <2>3, QueuedFacts, FinishedFacts, FinishLastFacts
    <2>4. CASE page'[p].queue = <<>>
      BY <2>1, <2>4, QueuedFacts, FinishedFacts, FinishLastFacts
    <2>5. QED
      BY <2>1, <2>2, <2>3, <2>4 DEF Lesser
  <1>2. ASSUME NEW p \in Pages, NEW r \in Recordings
        PROVE  /\ r \in page'[p].running => r \in page[p].running
               /\ page'[p].id = r => page[p].id = r /\ page'[p].ref = page[p].ref
    BY RecordingsAssumption DEF Lesser
  <1>3. \A p \in Pages, r \in Recordings : Knows(p, r)' => Knows(p, r)
    BY <1>1, <1>2 DEF Knows
  <1>4. OneHome'
    BY <1>3 DEF OneHome
  <1>5. RefsAgree'
    <2>1. ASSUME NEW p \in Pages, page'[p].id \in page'[p].running
          PROVE  page'[p].ref = page'[p].id
      <3>1. page'[p].id \in Recordings
        BY <2>1 DEF TypeOK, Page
      <3>2. QED
        BY <1>2, <2>1, <3>1 DEF RefsAgree
    <2>2. QED
      BY <2>1 DEF RefsAgree
  <1>6. FinishIsLast'
    BY <1>1, <1>2 DEF FinishIsLast
  <1>7. CompleteIsOver'
    BY <1>2 DEF CompleteIsOver
  <1>8. QED
    BY <1>3, <1>4, <1>5, <1>6, <1>7

\* The tabs S drop the heads of their queues.
LEMMA ServedStep ==
  ASSUME TypeOK, NEW S, \A p \in S \cap Pages : page[p].queue # <<>>, page' = Served(S)
  PROVE  \A p \in Pages :
           /\ Lesser(page[p], page'[p])
           /\ p \notin S => page'[p] = page[p]
           /\ p \in S => page'[p].queue = Tail(page[p].queue)
           /\ \A r \in Recordings : (p \in S => Head(page[p].queue) # Chunk(r)) =>
                Count(page'[p].queue, r) = Count(page[p].queue, r)
  <1> SUFFICES ASSUME NEW p \in Pages
               PROVE  /\ Lesser(page[p], page'[p])
                      /\ p \notin S => page'[p] = page[p]
                      /\ p \in S => page'[p].queue = Tail(page[p].queue)
                      /\ \A r \in Recordings : (p \in S => Head(page[p].queue) # Chunk(r)) =>
                           Count(page'[p].queue, r) = Count(page[p].queue, r)
    OBVIOUS
  <1>1. page'[p] = IF p \in S THEN Popped(p) ELSE page[p]
    BY ServedType
  <1>2. CASE p \in S
    <2>1. /\ page[p].queue # <<>> /\ page'[p].queue = Tail(page[p].queue)
          /\ page'[p].id = page[p].id /\ page'[p].ref = page[p].ref
          /\ page'[p].running = page[p].running
      BY <1>1, <1>2, PoppedType
    <2>2. \A r \in Recordings : Head(page[p].queue) # Chunk(r) =>
            Count(page'[p].queue, r) = Count(page[p].queue, r)
      BY <2>1, Typed, CountTail
    <2>3. QED
      BY <1>2, <2>1, <2>2 DEF Lesser
  <1>3. CASE p \notin S
    BY <1>1, <1>3 DEF Lesser
  <1>4. QED
    BY <1>2, <1>3

LEMMA LosslessKept ==
  ASSUME NEW r \in Recordings, Lossless(r),
         row'[r].status = row[r].status, SameFiles(r), emitted'[r] = emitted[r],
         \A p \in Pages : Unfinished(r) /\ Knows(p, r)' =>
           Knows(p, r) /\ Count(page'[p].queue, r) = Count(page[p].queue, r)
  PROVE  Lossless(r)'
  BY DEF Lossless, SameFiles, Unfinished, Bytes

LEMMA LosslessGone ==
  ASSUME NEW r \in Recordings, row'[r].status = "gone"
  PROVE  Lossless(r)'
  BY DEF Lossless, Unfinished

\* Only the tab that knows r may lose a chunk of it.
LEMMA CountElsewhere ==
  ASSUME TypeOK, NEW p \in Pages, NEW r \in Recordings, ~Knows(p, r)
  PROVE  Count(page[p].queue, r) = 0
  BY Typed, CountNone DEF Knows

LEMMA OneUpload ==
  ASSUME TypeOK, UploadsFit, NEW u \in uploads, NEW v \in uploads,
         u.waited, v.waited, u.page = v.page
  PROVE  u = v
  <1>1. Chunk(u.id) = Chunk(v.id)
    BY DEF UploadsFit
  <1>2. u.id = v.id
    BY <1>1, JobFacts
  <1>3. u \in Upload /\ v \in Upload
    BY Typed
  <1>4. QED
    BY <1>2, <1>3 DEF Upload

LEMMA UploadsKept ==
  ASSUME TypeOK, UploadsFit, uploads' \subseteq uploads, spoilt \subseteq spoilt',
         \A u \in uploads' : u.waited =>
           /\ page'[u.page].sent = page[u.page].sent
           /\ page'[u.page].queue # <<>>
           /\ Head(page'[u.page].queue) = Head(page[u.page].queue)
  PROVE  UploadsFit'
  BY DEF UploadsFit

\* A step that leaves the uploads and the tabs alone.
LEMMA TabsSame ==
  ASSUME TypeOK, TypeOK', TabInv, NothingIsLost,
         page' = page, uploads' = uploads, emitted' = emitted, spoilt' = spoilt,
         torn \subseteq torn',
         \A r \in Recordings : \/ row'[r].status = row[r].status /\ SameFiles(r)
                               \/ row'[r].status = "gone"
                               \/ r \in torn' /\ row'[r].status = row[r].status
  PROVE  TabInv' /\ NothingIsLost'
  <1>1. OneHome' /\ RefsAgree' /\ FinishIsLast' /\ CompleteIsOver'
    <2>1. \A p \in Pages : Lesser(page[p], page'[p])
      BY DEF Lesser
    <2>2. \A r \in Recordings :
            /\ row[r].status # "unused" => row'[r].status # "unused"
            /\ row'[r].status = "complete" => row[r].status = "complete"
      OBVIOUS
    <2>3. QED
      BY <2>1, <2>2, TabsShrink DEF TabInv
  <1>2. UploadsFit'
    BY DEF UploadsFit, TabInv
  <1>3. ASSUME NEW r \in Recordings \ (spoilt' \cup torn')
        PROVE  Lossless(r)'
    <2>1. Lossless(r)
      BY <1>3 DEF NothingIsLost
    <2>2. CASE row'[r].status = row[r].status /\ SameFiles(r)
      BY <2>1, <2>2, LosslessKept DEF Knows
    <2>3. CASE row'[r].status = "gone"
      BY <2>3, LosslessGone
    <2>4. QED
      BY <1>3, <2>2, <2>3
  <1>4. QED
    BY <1>1, <1>2, <1>3 DEF TabInv, NothingIsLost

\* The process dies: every upload is spoilt and has left its queue.
LEMMA TabsDie ==
  ASSUME TypeOK, TypeOK', TabInv, NothingIsLost,
         NEW R \in SUBSET Recordings, NEW S \in SUBSET Pages, Dies(R, S),
         \A p \in S : page[p].queue # <<>> /\ \A r \in Recordings : Head(page[p].queue) # Chunk(r),
         \A r \in Recordings : \/ row'[r].status = row[r].status /\ (r \in R \/ SameFiles(r))
                               \/ row'[r].status = "gone"
  PROVE  TabInv' /\ NothingIsLost'
  <1> DEFINE W == S \cup {u.page : u \in {v \in uploads : v.waited}}
  <1>1. /\ page' = Served(W) /\ uploads' = {} /\ emitted' = emitted
        /\ torn' = torn \cup R /\ spoilt' = spoilt \cup {u.id : u \in uploads}
    BY DEF Dies
  <1>2. \A p \in W \cap Pages : page[p].queue # <<>>
    BY DEF TabInv, UploadsFit
  <1>3. ASSUME NEW p \in W, NEW r \in Recordings, r \notin spoilt'
        PROVE  Head(page[p].queue) # Chunk(r)
    <2>1. CASE p \in S
      BY <2>1
    <2>2. CASE p \notin S
      <3>1. PICK u \in uploads : u.waited /\ u.page = p
        BY <1>3, <2>2
      <3>2. Head(page[p].queue) = Chunk(u.id) /\ u.id \in spoilt'
        BY <1>1, <3>1 DEF TabInv, UploadsFit
      <3>3. QED
        BY <1>3, <3>2, JobFacts
    <2>3. QED
      BY <2>1, <2>2
  <1> HIDE DEF W
  <1>4. \A p \in Pages :
          /\ Lesser(page[p], page'[p])
          /\ \A r \in Recordings : (p \in W => Head(page[p].queue) # Chunk(r)) =>
               Count(page'[p].queue, r) = Count(page[p].queue, r)
    BY <1>1, <1>2, ServedStep
  <1>5. /\ OneHome' /\ RefsAgree' /\ FinishIsLast' /\ CompleteIsOver'
        /\ \A p \in Pages, r \in Recordings : Knows(p, r)' => Knows(p, r)
    <2>1. \A r \in Recordings :
            /\ row[r].status # "unused" => row'[r].status # "unused"
            /\ row'[r].status = "complete" => row[r].status = "complete"
      OBVIOUS
    <2>2. QED
      BY <1>4, <2>1, TabsShrink DEF TabInv
  <1>6. UploadsFit'
    BY <1>1 DEF UploadsFit
  <1>7. ASSUME NEW r \in Recordings \ (spoilt' \cup torn')
        PROVE  Lossless(r)'
    <2>1. Lossless(r) /\ r \notin R
      BY <1>1, <1>7 DEF NothingIsLost
    <2>2. CASE row'[r].status = row[r].status /\ SameFiles(r)
      <3>1. \A p \in Pages : Knows(p, r)' =>
              Knows(p, r) /\ Count(page'[p].queue, r) = Count(page[p].queue, r)
        BY <1>3, <1>4, <1>5, <1>7
      <3>2. QED
        BY <1>1, <2>1, <2>2, <3>1, LosslessKept
    <2>3. CASE row'[r].status = "gone"
      BY <2>3, LosslessGone
    <2>4. QED
      BY <2>1, <2>2, <2>3
  <1>8. QED
    BY <1>5, <1>6, <1>7 DEF TabInv, NothingIsLost

\* A step of the tabs that takes nothing of an unspoilt recording from a queue.
LEMMA TabsLess ==
  ASSUME TypeOK, TypeOK', TabInv, NothingIsLost,
         row' = row, part' = part, replay' = replay, emitted' = emitted, torn' = torn,
         spoilt \subseteq spoilt',
         \A p \in Pages : Lesser(page[p], page'[p]),
         \A r \in Recordings \ spoilt', p \in Pages : Unfinished(r) /\ Knows(p, r)' =>
           Count(page'[p].queue, r) = Count(page[p].queue, r)
  PROVE  OneHome' /\ RefsAgree' /\ FinishIsLast' /\ CompleteIsOver' /\ NothingIsLost'
  <1>1. /\ OneHome' /\ RefsAgree' /\ FinishIsLast' /\ CompleteIsOver'
        /\ \A p \in Pages, r \in Recordings : Knows(p, r)' => Knows(p, r)
    BY TabsShrink DEF TabInv
  <1>2. ASSUME NEW r \in Recordings \ (spoilt' \cup torn')
        PROVE  Lossless(r)'
    <2>1. Lossless(r)
      BY <1>2 DEF NothingIsLost
    <2>2. \A p \in Pages : Unfinished(r) /\ Knows(p, r)' =>
            Knows(p, r) /\ Count(page'[p].queue, r) = Count(page[p].queue, r)
      BY <1>1, <1>2
    <2>3. QED
      BY <2>1, <2>2, LosslessKept DEF SameFiles
  <1>3. QED
    BY <1>1, <1>2 DEF NothingIsLost

LEMMA QuietSteps ==
  ASSUME TypeOK, TypeOK', TabInv, NothingIsLost, NEW p \in Pages,
         StreamStarts(p) \/ PressRecord(p) \/ CreateFails(p)
  PROVE  TabInv' /\ NothingIsLost'
  <1>1. /\ row' = row /\ part' = part /\ replay' = replay /\ emitted' = emitted /\ torn' = torn
        /\ spoilt' = spoilt /\ uploads' = uploads
    BY DEF StreamStarts, PressRecord, CreateFails, store
  <1>2. /\ page'[p].id = page[p].id /\ page'[p].ref = page[p].ref
        /\ page'[p].running = page[p].running /\ page'[p].queue = page[p].queue
        /\ page'[p].sent = page[p].sent
        /\ \A q \in Pages : q # p => page'[q] = page[q]
    <2>1. page[p] \in Page /\ page \in [Pages -> Page]
      BY DEF TypeOK
    <2>2. \/ page' = [page EXCEPT ![p] = [page[p] EXCEPT !.streaming = TRUE]]
          \/ page' = [page EXCEPT ![p] = [page[p] EXCEPT !.creating = @ + 1]]
          \/ page' = [page EXCEPT ![p] = [page[p] EXCEPT !.creating = @ - 1]]
      BY <2>1 DEF StreamStarts, PressRecord, CreateFails
    <2>3. QED
      BY <2>1, <2>2 DEF Page
  <1>3. \A q \in Pages : Lesser(page[q], page'[q]) /\ page'[q].queue = page[q].queue
    BY <1>2 DEF Lesser
  <1>4. OneHome' /\ RefsAgree' /\ FinishIsLast' /\ CompleteIsOver' /\ NothingIsLost'
    BY <1>1, <1>3, TabsLess
  <1>5. UploadsFit'
    <2>1. \A u \in uploads : u.page \in Pages
      BY Typed
    <2>2. QED
      BY <1>1, <1>2, <2>1 DEF UploadsFit, TabInv
  <1>6. QED
    BY <1>4, <1>5 DEF TabInv

LEMMA SendStep ==
  ASSUME TypeOK, TypeOK', TabInv, NothingIsLost, NEW p \in Pages, SendChunk(p)
  PROVE  TabInv' /\ NothingIsLost'
  <1>1. /\ row' = row /\ part' = part /\ replay' = replay /\ emitted' = emitted /\ torn' = torn
        /\ spoilt' = spoilt /\ uploads' = uploads \cup {Sent(p)}
    BY DEF SendChunk, store, Sent
  <1>2. /\ page'[p].id = page[p].id /\ page'[p].ref = page[p].ref
        /\ page'[p].running = page[p].running /\ page'[p].queue = page[p].queue
        /\ page'[p].sent
        /\ \A q \in Pages : q # p => page'[q] = page[q]
    <2>1. page[p] \in Page /\ page \in [Pages -> Page]
      BY DEF TypeOK
    <2>2. page' = [page EXCEPT ![p] = [page[p] EXCEPT !.sent = TRUE]]
      BY <2>1 DEF SendChunk
    <2>3. QED
      BY <2>1, <2>2 DEF Page
  <1>3. \A q \in Pages : Lesser(page[q], page'[q]) /\ page'[q].queue = page[q].queue
    BY <1>2 DEF Lesser
  <1>4. OneHome' /\ RefsAgree' /\ FinishIsLast' /\ CompleteIsOver' /\ NothingIsLost'
    BY <1>1, <1>3, TabsLess
  <1>5. UploadsFit'
    <2>1. ASSUME NEW u \in uploads
          PROVE  IF u.waited THEN /\ page'[u.page].sent /\ page'[u.page].queue # <<>>
                                  /\ Head(page'[u.page].queue) = Chunk(u.id)
                 ELSE u.id \in spoilt'
      <3>1. u.page \in Pages
        BY Typed
      <3>2. QED
        BY <1>1, <1>2, <3>1 DEF UploadsFit, TabInv
    <2>2. /\ Sent(p).waited /\ Sent(p).page = p /\ Sent(p).id = NextId(p)
          /\ page[p].queue # <<>> /\ Head(page[p].queue) = Chunk(NextId(p))
      BY HeadFacts DEF SendChunk, Waiting, Sent
    <2>3. QED
      BY <1>1, <1>2, <2>1, <2>2 DEF UploadsFit
  <1>6. QED
    BY <1>4, <1>5 DEF TabInv

LEMMA FailStep ==
  ASSUME TypeOK, TypeOK', TabInv, NothingIsLost, NEW p \in Pages, UploadFails(p)
  PROVE  TabInv' /\ NothingIsLost'
  <1>1. /\ row' = row /\ part' = part /\ replay' = replay /\ emitted' = emitted /\ torn' = torn
        /\ spoilt' = spoilt \cup {NextId(p)}
        /\ \/ uploads' = uploads \ {Sent(p)}
           \/ uploads' = (uploads \ {Sent(p)}) \cup {[Sent(p) EXCEPT !.waited = FALSE]}
    BY DEF UploadFails, store, Sent
  <1>2. /\ page[p].queue # <<>> /\ Head(page[p].queue) = Chunk(NextId(p))
        /\ NextId(p) \in Recordings /\ Sent(p) \in Upload
    BY HeadFacts DEF UploadFails, Waiting
  <1>3. page' = Served({p})
    BY DEF UploadFails, Served, TypeOK
  <1>4. \A q \in Pages :
          /\ Lesser(page[q], page'[q])
          /\ q # p => page'[q] = page[q]
          /\ \A r \in Recordings : (q = p => Head(page[q].queue) # Chunk(r)) =>
               Count(page'[q].queue, r) = Count(page[q].queue, r)
    <2>1. \A q \in {p} \cap Pages : page[q].queue # <<>>
      BY <1>2
    <2>2. \A q \in Pages :
            /\ Lesser(page[q], page'[q])
            /\ q \notin {p} => page'[q] = page[q]
            /\ \A r \in Recordings : (q \in {p} => Head(page[q].queue) # Chunk(r)) =>
                 Count(page'[q].queue, r) = Count(page[q].queue, r)
      BY <1>3, <2>1, ServedStep
    <2>3. QED
      BY <2>2
  <1>5. \A r \in Recordings \ spoilt', q \in Pages :
          Count(page'[q].queue, r) = Count(page[q].queue, r)
    BY <1>1, <1>2, <1>4, JobFacts
  <1>6. OneHome' /\ RefsAgree' /\ FinishIsLast' /\ CompleteIsOver' /\ NothingIsLost'
    BY <1>1, <1>4, <1>5, TabsLess
  <1>7. UploadsFit'
    <2>1. ASSUME NEW u \in uploads \ {Sent(p)}
          PROVE  IF u.waited THEN /\ page'[u.page].sent /\ page'[u.page].queue # <<>>
                                  /\ Head(page'[u.page].queue) = Chunk(u.id)
                 ELSE u.id \in spoilt'
      <3>1. u \in Upload /\ u.page \in Pages
        BY Typed
      <3>2. CASE u.waited /\ u.page = p
        <4>1. Chunk(u.id) = Chunk(NextId(p))
          BY <1>2, <3>2 DEF UploadsFit, TabInv
        <4>2. u = Sent(p)
          BY <3>1, <3>2, <4>1, JobFacts DEF Upload, Sent
        <4>3. QED
          BY <4>2
      <3>3. CASE u.waited /\ u.page # p
        BY <1>4, <3>1, <3>3 DEF UploadsFit, TabInv
      <3>4. CASE ~u.waited
        BY <1>1, <3>4 DEF UploadsFit, TabInv
      <3>5. QED
        BY <3>2, <3>3, <3>4
    <2> DEFINE late == [Sent(p) EXCEPT !.waited = FALSE]
    <2>2. ~late.waited /\ late.id \in spoilt'
      BY <1>1, <1>2, UnwaitedType DEF Sent
    <2> HIDE DEF late
    <2>3. \A u \in uploads' : u \in uploads \ {Sent(p)} \/ u = late
      BY <1>1 DEF late
    <2>4. QED
      BY <2>1, <2>2, <2>3 DEF UploadsFit
  <1>8. QED
    BY <1>6, <1>7 DEF TabInv

LEMMA CloseStep ==
  ASSUME TypeOK, TypeOK', TabInv, NothingIsLost, NEW p \in Pages, CloseTab(p)
  PROVE  TabInv' /\ NothingIsLost'
  <1> DEFINE mine == {u \in uploads : u.page = p}
  <1>1. /\ row' = row /\ part' = part /\ replay' = replay /\ emitted' = emitted /\ torn' = torn
        /\ spoilt' = spoilt \cup Involved(p)
        /\ uploads' \subseteq (uploads \ mine) \cup {[u EXCEPT !.waited = FALSE] : u \in mine}
    BY DEF CloseTab, store
  <1>2. page'[p] = NewPage /\ \A q \in Pages : q # p => page'[q] = page[q]
    BY DEF CloseTab, TypeOK
  <1>3. \A q \in Pages : Lesser(page[q], page'[q])
    BY <1>2 DEF Lesser, NewPage
  <1>4. ASSUME NEW r \in Recordings
        PROVE  ~Knows(p, r)'
    <2>1. ~Queued(<<>>, r) /\ r # None
      BY RecordingsAssumption DEF Queued
    <2>2. QED
      BY <1>2, <2>1 DEF Knows, NewPage
  <1>5. \A r \in Recordings, q \in Pages : Knows(q, r)' =>
          Count(page'[q].queue, r) = Count(page[q].queue, r)
    BY <1>2, <1>4
  <1>6. OneHome' /\ RefsAgree' /\ FinishIsLast' /\ CompleteIsOver' /\ NothingIsLost'
    BY <1>1, <1>3, <1>5, TabsLess
  <1>7. UploadsFit'
    <2>1. ASSUME NEW u \in uploads \ mine
          PROVE  IF u.waited THEN /\ page'[u.page].sent /\ page'[u.page].queue # <<>>
                                  /\ Head(page'[u.page].queue) = Chunk(u.id)
                 ELSE u.id \in spoilt'
      <3>1. u.page \in Pages /\ u.page # p
        BY Typed
      <3>2. QED
        BY <1>1, <1>2, <3>1 DEF UploadsFit, TabInv
    <2>2. ASSUME NEW u \in mine
          PROVE  u.id \in spoilt' /\ [u EXCEPT !.waited = FALSE].id = u.id
                 /\ ~[u EXCEPT !.waited = FALSE].waited
      <3>1. u \in Upload /\ u.page = p /\ page[p].queue \in Seq(Job) /\ u.id \in Recordings
        BY Typed
      <3>2. CASE u.waited
        <4>1. page[p].queue # <<>> /\ Head(page[p].queue) = Chunk(u.id)
          BY <3>1, <3>2 DEF UploadsFit, TabInv
        <4>2. 1 \in DOMAIN page[p].queue /\ page[p].queue[1].id = u.id
          BY <3>1, <4>1, QueueFacts, JobFacts
        <4>3. u.id \in Involved(p)
          BY <4>2 DEF Involved
        <4>4. QED
          BY <1>1, <3>1, <4>3, UnwaitedType
      <3>3. CASE ~u.waited
        BY <1>1, <3>1, <3>3, UnwaitedType DEF UploadsFit, TabInv
      <3>4. QED
        BY <3>2, <3>3
    <2>3. QED
      BY <1>1, <2>1, <2>2 DEF UploadsFit
  <1>8. QED
    BY <1>6, <1>7 DEF TabInv

\* The recorder of an unknown id begins, in one tab.
LEMMA CreateStep ==
  ASSUME TypeOK, TypeOK', RowMatchesFiles, TabInv, NothingIsLost,
         NEW p \in Pages, NEW r \in Recordings, CreateRecording(p, r)
  PROVE  TabInv' /\ NothingIsLost'
  <1>1. /\ part' = part /\ replay' = replay /\ emitted' = emitted /\ torn' = torn
        /\ spoilt' = spoilt /\ uploads' = uploads /\ row[r].status = "unused"
        /\ row'[r].status = "recording" /\ \A x \in Recordings : x # r => row'[x] = row[x]
    BY RowFacts DEF CreateRecording, TypeOK
  <1>2. PICK new \in Begun(page[p], r) : page' = [page EXCEPT ![p] = new]
    BY DEF CreateRecording
  <1>3. /\ page'[p] = new /\ \A q \in Pages : q # p => page'[q] = page[q]
        /\ page'[p].queue = page[p].queue /\ page'[p].sent = page[p].sent
    <2>1. new \in Page /\ new.queue = page[p].queue /\ new.sent = page[p].sent
      BY Typed, BegunType DEF CreateRecording
    <2>2. QED
      BY <1>2, <2>1, PageStep
  <1>4. \/ new.id = page[p].id /\ new.ref = page[p].ref /\ new.running = page[p].running
        \/ new.id = r /\ new.running = page[p].running
        \/ new.id = r /\ new.ref = r /\ new.running = page[p].running \cup {r}
    BY Typed, BegunType DEF CreateRecording
  <1>5. \A q \in Pages : ~Knows(q, r)
    BY <1>1 DEF TabInv, OneHome
  <1>6. \A q \in Pages, x \in Recordings :
          /\ Knows(q, x)' => Knows(q, x) \/ (q = p /\ x = r)
          /\ page'[q].queue = page[q].queue
    BY <1>3, <1>4 DEF Knows
  <1>7. OneHome'
    BY <1>1, <1>5, <1>6 DEF TabInv, OneHome
  <1>8. RefsAgree'
    <2>1. ASSUME NEW q \in Pages, page'[q].id \in page'[q].running
          PROVE  page'[q].ref = page'[q].id
      <3>1. CASE q # p
        BY <1>3, <2>1, <3>1 DEF TabInv, RefsAgree
      <3>2. CASE q = p
        <4>1. r \notin page[p].running
          BY <1>5 DEF Knows
        <4>2. QED
          BY <1>3, <1>4, <2>1, <3>2, <4>1 DEF TabInv, RefsAgree
      <3>3. QED
        BY <3>1, <3>2
    <2>2. QED
      BY <2>1 DEF RefsAgree
  <1>9. FinishIsLast'
    <2>1. ~Finished(page[p].queue, r)
      BY <1>5, Typed, FinishedFacts DEF Knows
    <2>2. QED
      BY <1>3, <1>4, <1>6, <2>1 DEF TabInv, FinishIsLast
  <1>10. CompleteIsOver'
    <2>1. ASSUME NEW x \in Recordings, NEW q \in Pages, row'[x].status = "complete"
          PROVE  x \notin page'[q].running
      <3>1. x # r /\ row[x].status = "complete"
        BY <1>1, <2>1
      <3>2. x \notin page[q].running
        BY <3>1 DEF TabInv, CompleteIsOver
      <3>3. QED
        BY <1>3, <1>4, <3>1, <3>2
    <2>2. QED
      BY <2>1 DEF CompleteIsOver
  <1>11. UploadsFit'
    <2>1. \A u \in uploads : u.page \in Pages
      BY Typed
    <2>2. QED
      BY <1>1, <1>3, <2>1 DEF UploadsFit, TabInv
  <1>12. ASSUME NEW x \in Recordings \ (spoilt' \cup torn')
         PROVE  Lossless(x)'
    <2>1. Lossless(x)
      BY <1>1, <1>12 DEF NothingIsLost
    <2>2. CASE x # r
      BY <1>1, <1>6, <2>1, <2>2, LosslessKept DEF SameFiles
    <2>3. CASE x = r
      <3>1. emitted[r] = 0
        BY <1>1, <2>1, <2>3 DEF Lossless
      <3>2. Bytes(part[r]) = 0
        BY <1>1, <1>12, <2>3 DEF RowMatchesFiles, HasRow, Bytes
      <3>3. \A q \in Pages : Count(page'[q].queue, r) = 0
        BY <1>5, <1>6, CountElsewhere
      <3>4. QED
        BY <1>1, <2>3, <3>1, <3>2, <3>3 DEF Lossless, Unfinished, Bytes
    <2>4. QED
      BY <2>2, <2>3
  <1>13. QED
    BY <1>7, <1>8, <1>9, <1>10, <1>11, <1>12 DEF TabInv, NothingIsLost

\* A chunk joins the queue of the tab that records.
LEMMA EmitStep ==
  ASSUME TypeOK, TypeOK', TabInv, NothingIsLost,
         NEW p \in Pages, NEW r \in Recordings, EmitChunk(p, r)
  PROVE  TabInv' /\ NothingIsLost'
  <1> DEFINE id == page[p].id
  <1>1. /\ row' = row /\ part' = part /\ replay' = replay /\ torn' = torn
        /\ uploads' = uploads /\ r \in page[p].running
        /\ emitted' = [emitted EXCEPT ![r] = @ + 1]
        /\ spoilt' = IF id = r THEN spoilt ELSE spoilt \cup ({r, id} \ {None})
    BY DEF EmitChunk, store
  <1>2. id = None \/ id \in Recordings
    BY Typed
  <1>3. /\ page'[p].id = page[p].id /\ page'[p].ref = page[p].ref
        /\ page'[p].running = page[p].running /\ page'[p].sent = page[p].sent
        /\ page'[p].queue = IF id = None THEN page[p].queue ELSE Append(page[p].queue, Chunk(id))
        /\ \A q \in Pages : q # p => page'[q] = page[q]
    <2>1. page[p] \in Page /\ page \in [Pages -> Page]
      BY DEF TypeOK
    <2>2. page' = IF id = None THEN page
                  ELSE [page EXCEPT ![p] = [page[p] EXCEPT !.queue = Append(@, Chunk(id))]]
      BY <2>1 DEF EmitChunk, Chunk
    <2>3. QED
      BY <2>1, <2>2 DEF Page
  <1>4. page[p].queue \in Seq(Job)
    BY Typed
  <1>5. ASSUME NEW x \in Recordings
        PROVE  /\ Queued(page'[p].queue, x) <=> Queued(page[p].queue, x) \/ id = x
               /\ Finished(page'[p].queue, x) => Finished(page[p].queue, x)
               /\ FinishLast(page'[p].queue, x)
               /\ id # x => Count(page'[p].queue, x) = Count(page[p].queue, x)
               /\ id = x => Count(page'[p].queue, x) = Count(page[p].queue, x) + 1
    <2>1. /\ FinishLast(page[p].queue, x)
          /\ Finished(page[p].queue, x) => id # x
      BY DEF TabInv, FinishIsLast
    <2>2. CASE id = None
      BY <1>3, <2>1, <2>2, RecordingsAssumption
    <2>3. CASE id \in Recordings
      <3>1. Chunk(id) \in Job /\ Chunk(id).id = id /\ (Chunk(id) = Chunk(x) <=> id = x)
            /\ page'[p].queue = Append(page[p].queue, Chunk(id))
        BY <1>3, <2>3, JobFacts, RecordingsAssumption
      <3> HIDE DEF id
      <3>2. Queued(page'[p].queue, x) <=> Queued(page[p].queue, x) \/ id = x
        BY <1>4, <3>1, QueuedFacts
      <3>3. Finished(page'[p].queue, x) => Finished(page[p].queue, x)
        BY <1>4, <2>3, <3>1, FinishedFacts
      <3>4. FinishLast(page'[p].queue, x)
        <4>1. id = x => \A i \in DOMAIN page[p].queue : page[p].queue[i] # Finish(x)
          BY <2>1 DEF Finished
        <4>2. QED
          BY <1>4, <2>1, <2>3, <3>1, <4>1, FinishLastFacts
      <3>5. /\ id # x => Count(page'[p].queue, x) = Count(page[p].queue, x)
            /\ id = x => Count(page'[p].queue, x) = Count(page[p].queue, x) + 1
        BY <1>4, <3>1, CountAppend
      <3>6. QED
        BY <3>2, <3>3, <3>4, <3>5
    <2>4. QED
      BY <1>2, <2>2, <2>3
  <1> HIDE DEF id
  <1>6. \A q \in Pages, x \in Recordings : Knows(q, x)' => Knows(q, x)
    BY <1>3, <1>5 DEF Knows, id
  <1>7. OneHome' /\ RefsAgree' /\ CompleteIsOver'
    <2>1. OneHome'
      BY <1>1, <1>6 DEF TabInv, OneHome
    <2>2. RefsAgree'
      BY <1>3 DEF TabInv, RefsAgree
    <2>3. CompleteIsOver'
      BY <1>1, <1>3 DEF TabInv, CompleteIsOver
    <2>4. QED
      BY <2>1, <2>2, <2>3
  <1>8. FinishIsLast'
    BY <1>3, <1>5 DEF TabInv, FinishIsLast
  <1>9. UploadsFit'
    <2>1. page[p].queue # <<>> => page'[p].queue # <<>> /\ Head(page'[p].queue) = Head(page[p].queue)
      <3>1. CASE id = None
        BY <1>3, <3>1
      <3>2. CASE id # None
        <4>1. Chunk(id) \in Job
          BY <1>2, <3>2, JobFacts
        <4>2. QED
          BY <1>3, <1>4, <3>2, <4>1
      <3>3. QED
        BY <3>1, <3>2
    <2>2. \A u \in uploads : u.page \in Pages
      BY Typed
    <2>3. spoilt \subseteq spoilt'
      BY <1>1
    <2>4. QED
      BY <1>1, <1>3, <2>1, <2>2, <2>3 DEF UploadsFit, TabInv
  <1>10. ASSUME NEW x \in Recordings \ (spoilt' \cup torn')
         PROVE  Lossless(x)'
    <2>1. Lossless(x)
      BY <1>1, <1>10 DEF NothingIsLost
    <2>2. CASE id = r /\ x = r
      <3>1. emitted'[r] = emitted[r] + 1 /\ Bytes(part[r]) \in Nat /\ Knows(p, r)
        BY <1>1, Typed DEF TypeOK, Knows
      <3>2. row[r].status # "unused" /\ row[r].status # "complete"
            /\ \A q \in Pages : Knows(q, r)' => q = p
        BY <1>1, <1>6, <3>1 DEF TabInv, OneHome, CompleteIsOver
      <3>3. Unfinished(r) => emitted[r] = Bytes(part[r]) + Count(page[p].queue, r)
        BY <2>1, <2>2, <3>1 DEF Lossless
      <3>4. Count(page[p].queue, r) \in Nat
            /\ Count(page'[p].queue, r) = Count(page[p].queue, r) + 1
        BY <1>4, <1>5, <2>2, CountIsNat
      <3>5. Unfinished(r) => emitted'[r] = Bytes(part[r]) + Count(page'[p].queue, r)
        BY <3>1, <3>3, <3>4
      <3>6. QED
        BY <1>1, <2>2, <3>2, <3>5 DEF Lossless, Unfinished, Bytes
    <2>3. CASE ~(id = r /\ x = r)
      <3>1. x # r /\ x # id
        BY <1>1, <1>10, <2>3, RecordingsAssumption
      <3>2. emitted'[x] = emitted[x]
        BY <1>1, <3>1 DEF TypeOK
      <3>3. \A q \in Pages : Count(page'[q].queue, x) = Count(page[q].queue, x)
        BY <1>3, <1>5, <3>1
      <3>4. QED
        BY <1>1, <1>6, <2>1, <3>2, <3>3, LosslessKept DEF SameFiles
    <2>4. QED
      BY <2>2, <2>3
  <1>11. QED
    BY <1>7, <1>8, <1>9, <1>10 DEF TabInv, NothingIsLost

\* The recorders R of a tab stop, the one that recorderRef names among them.
LEMMA StopStep ==
  ASSUME TypeOK, TypeOK', TabInv, NothingIsLost, NEW p \in Pages,
         row' = row, part' = part, replay' = replay, emitted' = emitted, torn' = torn,
         spoilt' = spoilt, uploads' = uploads, NEW R,
         page[p].id \in page[p].running => page[p].id \in R,
         LET st == Stopped(page[p], R) IN
           /\ page'[p].id = st.id /\ page'[p].ref = st.ref /\ page'[p].running = st.running
           /\ page'[p].queue = st.queue /\ page'[p].sent = st.sent,
         \A q \in Pages : q # p => page'[q] = page[q]
  PROVE  TabInv' /\ NothingIsLost'
  <1> DEFINE id == page[p].id
  <1>1. /\ page[p] \in Page /\ page[p].queue \in Seq(Job) /\ id \in Recordings \cup {None}
        /\ Stopped(page[p], R).sent = page[p].sent
    BY Typed DEF Stopped, Page
  <1>2. \/ /\ page'[p].id = id /\ page'[p].ref = page[p].ref
           /\ page'[p].running = page[p].running /\ page'[p].queue = page[p].queue
           /\ R \cap page[p].running = {}
        \/ /\ page'[p].id = None /\ page'[p].running = page[p].running \ R
           /\ page'[p].queue = IF id = None THEN page[p].queue
                               ELSE Append(page[p].queue, Finish(id))
    BY <1>1, StoppedType
  <1>3. ASSUME NEW x \in Recordings
        PROVE  /\ Queued(page'[p].queue, x) => Queued(page[p].queue, x) \/ id = x
               /\ Finished(page'[p].queue, x) =>
                    \/ Finished(page[p].queue, x)
                    \/ x = id /\ page'[p].id = None /\ page'[p].running = page[p].running \ R
               /\ FinishLast(page'[p].queue, x)
               /\ Count(page'[p].queue, x) = Count(page[p].queue, x)
    <2>1. FinishLast(page[p].queue, x)
      BY DEF TabInv, FinishIsLast
    <2>2. CASE page'[p].queue = page[p].queue
      BY <2>1, <2>2
    <2>3. CASE page'[p].queue # page[p].queue
      <3>1. /\ page'[p].queue = Append(page[p].queue, Finish(id)) /\ id \in Recordings
            /\ page'[p].id = None /\ page'[p].running = page[p].running \ R
        BY <1>1, <1>2, <2>3
      <3>2. Finish(id) \in Job /\ Finish(id).id = id /\ Finish(id) # Chunk(x)
        BY <3>1, JobFacts
      <3> HIDE DEF id
      <3>3. Queued(page'[p].queue, x) => Queued(page[p].queue, x) \/ id = x
        BY <1>1, <3>1, <3>2, QueuedFacts
      <3>4. Finished(page'[p].queue, x) => Finished(page[p].queue, x) \/ x = id
        BY <1>1, <3>1, FinishedFacts
      <3>5. FinishLast(page'[p].queue, x)
        BY <1>1, <2>1, <3>1, FinishLastFacts
      <3>6. Count(page'[p].queue, x) = Count(page[p].queue, x)
        BY <1>1, <3>1, <3>2, CountAppend
      <3>7. QED
        BY <3>1, <3>3, <3>4, <3>5, <3>6
    <2>4. QED
      BY <2>2, <2>3
  <1>4. ASSUME NEW x \in Recordings
        PROVE  /\ x \in page'[p].running => x \in page[p].running
               /\ page'[p].id = x => page[p].id = x /\ page'[p].ref = page[p].ref
                                     /\ page'[p].running = page[p].running
    BY <1>2, RecordingsAssumption
  <1>5. \A q \in Pages, x \in Recordings : Knows(q, x)' => Knows(q, x)
    BY <1>3, <1>4 DEF Knows
  <1>6. OneHome' /\ RefsAgree' /\ CompleteIsOver'
    <2>1. OneHome'
      BY <1>5 DEF TabInv, OneHome
    <2>2. RefsAgree'
      <3>1. ASSUME NEW q \in Pages, page'[q].id \in page'[q].running
            PROVE  page'[q].ref = page'[q].id
        <4>1. page'[q].id \in Recordings
          BY <3>1 DEF TypeOK, Page
        <4>2. QED
          BY <1>4, <3>1, <4>1 DEF TabInv, RefsAgree
      <3>2. QED
        BY <3>1 DEF RefsAgree
    <2>3. CompleteIsOver'
      BY <1>4 DEF TabInv, CompleteIsOver
    <2>4. QED
      BY <2>1, <2>2, <2>3
  <1>7. FinishIsLast'
    <2>1. ASSUME NEW q \in Pages, NEW x \in Recordings
          PROVE  /\ Finished(page'[q].queue, x) => x \notin page'[q].running /\ page'[q].id # x
                 /\ FinishLast(page'[q].queue, x)
      <3>1. /\ FinishLast(page[q].queue, x)
            /\ Finished(page[q].queue, x) => x \notin page[q].running /\ page[q].id # x
        BY DEF TabInv, FinishIsLast
      <3>2. CASE q # p
        BY <3>1, <3>2
      <3>3. CASE q = p /\ Finished(page[p].queue, x)
        BY <1>3, <1>4, <3>1, <3>3
      <3>4. CASE q = p /\ ~Finished(page[p].queue, x)
        <4>1. Finished(page'[p].queue, x) =>
                x = id /\ page'[p].id = None /\ page'[p].running = page[p].running \ R
          BY <1>3, <3>4
        <4>2. id \in page[p].running => id \in R
          OBVIOUS
        <4>3. Finished(page'[p].queue, x) => x \notin page'[p].running /\ page'[p].id # x
          BY <4>1, <4>2, RecordingsAssumption
        <4>4. QED
          BY <1>3, <3>4, <4>3
      <3>5. QED
        BY <3>2, <3>3, <3>4
    <2>2. QED
      BY <2>1 DEF FinishIsLast
  <1>8. UploadsFit'
    <2>1. page[p].queue # <<>> => page'[p].queue # <<>> /\ Head(page'[p].queue) = Head(page[p].queue)
      <3>1. CASE page'[p].queue = page[p].queue
        BY <3>1
      <3>2. CASE page'[p].queue # page[p].queue
        <4>1. page'[p].queue = Append(page[p].queue, Finish(id)) /\ id \in Recordings
          BY <1>1, <1>2, <3>2
        <4>2. Finish(id) \in Job
          BY <4>1, JobFacts
        <4>3. QED
          BY <1>1, <4>1, <4>2
      <3>3. QED
        BY <3>1, <3>2
    <2>2. \A u \in uploads : u.page \in Pages
      BY Typed
    <2>3. page'[p].sent = page[p].sent
      BY <1>1
    <2>4. QED
      BY <2>1, <2>2, <2>3 DEF UploadsFit, TabInv
  <1>9. ASSUME NEW x \in Recordings \ (spoilt' \cup torn')
        PROVE  Lossless(x)'
    <2>1. Lossless(x)
      BY <1>9 DEF NothingIsLost
    <2>2. \A q \in Pages : Count(page'[q].queue, x) = Count(page[q].queue, x)
      BY <1>3
    <2>3. QED
      BY <1>5, <2>1, <2>2, LosslessKept DEF SameFiles
  <1>10. QED
    BY <1>6, <1>7, <1>8, <1>9 DEF TabInv, NothingIsLost

LEMMA StopSteps ==
  ASSUME TypeOK, TypeOK', TabInv, NothingIsLost, NEW p \in Pages,
         PressStop(p) \/ StreamEnds(p)
  PROVE  TabInv' /\ NothingIsLost'
  <1>1. /\ row' = row /\ part' = part /\ replay' = replay /\ emitted' = emitted /\ torn' = torn
        /\ spoilt' = spoilt /\ uploads' = uploads
    BY DEF PressStop, StreamEnds, store
  <1>2. CASE PressStop(p)
    <2> DEFINE R == {page[p].ref}
    <2>1. page[p].id \in page[p].running => page[p].id \in R
      BY DEF TabInv, RefsAgree
    <2>2. page' = [page EXCEPT ![p] = Stopped(page[p], R)]
      BY <1>2 DEF PressStop, TypeOK
    <2>3. page'[p] = Stopped(page[p], R) /\ \A q \in Pages : q # p => page'[q] = page[q]
      BY <2>2 DEF TypeOK
    <2> HIDE DEF R
    <2>4. QED
      BY <1>1, <2>1, <2>3, StopStep
  <1>3. CASE StreamEnds(p)
    <2> DEFINE R == page[p].running
               st == Stopped(page[p], R)
    <2>1. page' = [page EXCEPT ![p] = [st EXCEPT !.streaming = FALSE]]
      BY <1>3 DEF StreamEnds, TypeOK
    <2>2. st \in Page
      BY Typed, StoppedType
    <2> HIDE DEF st
    <2>3. /\ page'[p].id = st.id /\ page'[p].ref = st.ref /\ page'[p].running = st.running
          /\ page'[p].queue = st.queue /\ page'[p].sent = st.sent
          /\ \A q \in Pages : q # p => page'[q] = page[q]
      BY <2>1, <2>2 DEF TypeOK, Page
    <2>4. QED
      BY <1>1, <2>3, StopStep DEF st
  <1>4. QED
    BY <1>2, <1>3

\* A finish, served or not, leaves the queue.
LEMMA FinishStep ==
  ASSUME TypeOK, TypeOK', TabInv, NothingIsLost, NEW p \in Pages,
         Finishing(p), page' = Served({p}), emitted' = emitted, torn' = torn,
         spoilt' = spoilt, uploads' = uploads,
         \/ row' = row /\ part' = part /\ replay' = replay
         \/ Unfinished(NextId(p)) /\ Renamed(NextId(p)) /\ Completed(NextId(p))
  PROVE  TabInv' /\ NothingIsLost'
  <1> DEFINE r == NextId(p)
  <1>1. /\ page[p].queue # <<>> /\ page[p].queue \in Seq(Job) /\ r \in Recordings
        /\ Head(page[p].queue) = Finish(r) /\ Queued(page[p].queue, r)
    BY HeadFacts, Typed DEF Finishing
  <1>2. Knows(p, r) /\ Finished(page[p].queue, r)
    BY <1>1, FinishedFacts DEF Knows
  <1>3. /\ Lesser(page[p], page'[p])
        /\ \A q \in Pages : q # p => page'[q] = page[q] /\ Lesser(page[q], page'[q])
        /\ \A x \in Recordings, q \in Pages :
             Count(page'[q].queue, x) = Count(page[q].queue, x)
    <2>1. \A q \in {p} \cap Pages : page[q].queue # <<>>
      BY <1>1
    <2>2. \A q \in Pages :
            /\ Lesser(page[q], page'[q])
            /\ q \notin {p} => page'[q] = page[q]
            /\ \A x \in Recordings : (q \in {p} => Head(page[q].queue) # Chunk(x)) =>
                 Count(page'[q].queue, x) = Count(page[q].queue, x)
      BY <2>1, ServedStep
    <2>3. \A x : Head(page[p].queue) # Chunk(x)
      BY <1>1, JobFacts
    <2>4. QED
      BY <2>2, <2>3
  <1>4. UploadsFit'
    <2>1. ASSUME NEW u \in uploads, u.waited
          PROVE  u.page \in Pages /\ u.page # p
      BY <1>1, <2>1, Typed, JobFacts DEF TabInv, UploadsFit
    <2>2. QED
      BY <1>3, <2>1 DEF TabInv, UploadsFit
  <1>5. CASE row' = row /\ part' = part /\ replay' = replay
    <2>1. OneHome' /\ RefsAgree' /\ FinishIsLast' /\ CompleteIsOver' /\ NothingIsLost'
      BY <1>3, <1>5, TabsLess
    <2>2. QED
      BY <1>4, <2>1 DEF TabInv
  <1>6. CASE Unfinished(r) /\ Renamed(r) /\ Completed(r)
    <2>1. /\ row[r].status = "recording" /\ row'[r].status = "complete"
          /\ part'[r] = None /\ replay'[r] = Bytes(part[r])
          /\ \A x \in Recordings : x # r => row'[x] = row[x] /\ SameFiles(x)
      BY <1>1, <1>6, StoredTypes DEF Unfinished, SameFiles
    <2>2. \A q \in Pages : r \notin page[q].running
      <3>1. r \notin page[p].running
        BY <1>1, <1>2 DEF TabInv, FinishIsLast
      <3>2. \A q \in Pages : r \in page[q].running => q = p
        BY <1>1, <1>2 DEF TabInv, OneHome, Knows
      <3>3. QED
        BY <3>1, <3>2
    <2> HIDE DEF r
    <2>3. /\ OneHome' /\ RefsAgree' /\ FinishIsLast' /\ CompleteIsOver'
          /\ \A q \in Pages, x \in Recordings : Knows(q, x)' => Knows(q, x)
      <3>1. \A q \in Pages : Lesser(page[q], page'[q])
        BY <1>3
      <3>2. \A x \in Recordings :
              /\ row[x].status # "unused" => row'[x].status # "unused"
              /\ row'[x].status = "complete" =>
                   row[x].status = "complete" \/ \A q \in Pages : x \notin page[q].running
        BY <2>1, <2>2
      <3>3. QED
        BY <3>1, <3>2, TabsShrink DEF TabInv
    <2>4. ASSUME NEW x \in Recordings \ (spoilt' \cup torn')
          PROVE  Lossless(x)'
      <3>1. Lossless(x)
        BY <2>4 DEF NothingIsLost
      <3>2. CASE x # r
        BY <1>3, <2>1, <2>3, <3>1, <3>2, LosslessKept
      <3>3. CASE x = r
        <4>1. emitted[r] = Bytes(part[r]) + Count(page[p].queue, r)
          BY <1>2, <2>1, <3>1, <3>3 DEF Lossless, Unfinished, r
        <4>2. Count(page[p].queue, r) = 0
          <5>1. FinishLast(page[p].queue, r)
            BY <1>1 DEF TabInv, FinishIsLast
          <5>2. QED
            BY <1>1, <5>1, FinishLastFacts
        <4>3. Bytes(part[r]) \in Nat
          BY <1>1, Typed
        <4>4. replay'[r] = emitted[r]
          BY <2>1, <4>1, <4>2, <4>3
        <4>5. QED
          BY <2>1, <3>3, <4>4 DEF Lossless, Unfinished
      <3>4. QED
        BY <3>2, <3>3
    <2>5. QED
      BY <1>4, <2>3, <2>4 DEF TabInv, NothingIsLost
  <1>7. QED
    BY <1>5, <1>6

LEMMA FinishSteps ==
  ASSUME TypeOK, TypeOK', TabInv, NothingIsLost, NEW p \in Pages,
         FinalizeRecording(p) \/ FinalizeFails(p)
  PROVE  TabInv' /\ NothingIsLost'
  <1>1. /\ Finishing(p) /\ page' = Served({p}) /\ emitted' = emitted /\ torn' = torn
        /\ spoilt' = spoilt /\ uploads' = uploads
    BY DEF FinalizeRecording, FinalizeFails
  <1>2. \/ row' = row /\ part' = part /\ replay' = replay
        \/ Unfinished(NextId(p)) /\ Renamed(NextId(p)) /\ Completed(NextId(p))
    BY DEF FinalizeRecording, FinalizeFails, store
  <1>3. QED
    BY <1>1, <1>2, FinishStep

\* The chunk of a waited upload leaves the queue of its tab, into the file unless
\* it is refused.
LEMMA PutStep ==
  ASSUME TypeOK, TypeOK', TabInv, NothingIsLost, NEW u \in uploads, PutChunk(u)
  PROVE  TabInv' /\ NothingIsLost'
  <1> DEFINE r == u.id
             W == IF u.waited THEN {u.page} ELSE {}
  <1>1. /\ r \in Recordings /\ u.page \in Pages
        /\ u.waited => /\ page[u.page].queue # <<>> /\ page[u.page].queue \in Seq(Job)
                       /\ Head(page[u.page].queue) = Chunk(r)
        /\ ~u.waited => r \in spoilt
    BY Typed DEF TabInv, UploadsFit
  <1>2. /\ page' = Served(W) /\ uploads' = uploads \ {u}
        /\ emitted' = emitted /\ torn' = torn /\ replay' = replay
        /\ spoilt \subseteq spoilt'
    BY DEF PutChunk
  <1>3. u.waited => Knows(u.page, r)
    BY <1>1, QueueFacts, JobFacts DEF Knows, Queued
  <1>4. \A p \in Pages :
          /\ Lesser(page[p], page'[p])
          /\ p \notin W => page'[p] = page[p]
          /\ p \in W => page'[p].queue = Tail(page[p].queue)
          /\ \A x \in Recordings : (p \in W => Head(page[p].queue) # Chunk(x)) =>
               Count(page'[p].queue, x) = Count(page[p].queue, x)
    <2>1. \A p \in W \cap Pages : page[p].queue # <<>>
      BY <1>1
    <2> HIDE DEF W
    <2>2. QED
      BY <1>2, <2>1, ServedStep
  <1>5. \A p \in Pages, x \in Recordings : x # r =>
          Count(page'[p].queue, x) = Count(page[p].queue, x)
    <2>1. \A p \in W, x \in Recordings : x # r => Head(page[p].queue) # Chunk(x)
      BY <1>1, JobFacts
    <2> HIDE DEF W, r
    <2>2. QED
      BY <1>4, <2>1
  <1>6. UploadsFit'
    <2>1. ASSUME NEW v \in uploads \ {u}, v.waited
          PROVE  v.page \in Pages /\ v.page \notin W
      BY <2>1, Typed, OneUpload DEF TabInv
    <2> HIDE DEF W
    <2>2. QED
      BY <1>2, <1>4, <2>1 DEF TabInv, UploadsFit
  <1> HIDE DEF W
  <1>7. CASE ~(Appendable(r) /\ Fits(r))
    <2>1. /\ row' = row /\ part' = part
          /\ spoilt' = IF Appendable(r) THEN spoilt \cup {r} ELSE spoilt
      BY <1>7 DEF PutChunk
    <2>2. \A x \in Recordings \ spoilt', p \in Pages : Unfinished(x) /\ Knows(p, x)' =>
            Count(page'[p].queue, x) = Count(page[p].queue, x)
      BY <1>5, <2>1 DEF Appendable
    <2>3. OneHome' /\ RefsAgree' /\ FinishIsLast' /\ CompleteIsOver' /\ NothingIsLost'
      BY <1>2, <1>4, <2>1, <2>2, TabsLess
    <2>4. QED
      BY <1>6, <2>3 DEF TabInv
  <1>8. CASE Appendable(r) /\ Fits(r)
    <2>1. /\ part'[r] = Bytes(part[r]) + 1 /\ row[r].status = "recording"
          /\ row'[r].status = row[r].status
          /\ \A x \in Recordings : x # r => row'[x] = row[x] /\ SameFiles(x)
      <3>1. part' = [part EXCEPT ![r] = Bytes(@) + 1] /\ row' = [row EXCEPT ![r].size = @ + 1]
        BY <1>8 DEF PutChunk
      <3> HIDE DEF r
      <3>2. QED
        BY <1>1, <1>2, <1>8, <3>1, StoredTypes DEF Appendable, Unfinished, SameFiles
    <2>2. /\ OneHome' /\ RefsAgree' /\ FinishIsLast' /\ CompleteIsOver'
          /\ \A p \in Pages, x \in Recordings : Knows(p, x)' => Knows(p, x)
      <3>1. \A p \in Pages : Lesser(page[p], page'[p])
        BY <1>4
      <3>2. \A x \in Recordings : row'[x].status = row[x].status
        BY <2>1
      <3>3. QED
        BY <3>1, <3>2, TabsShrink DEF TabInv
    <2>3. ASSUME NEW x \in Recordings \ (spoilt' \cup torn')
          PROVE  Lossless(x)'
      <3>1. Lossless(x) /\ x \notin spoilt
        BY <1>2, <2>3 DEF NothingIsLost
      <3>2. CASE x # r
        BY <1>2, <1>5, <2>1, <2>2, <3>1, <3>2, LosslessKept
      <3>3. CASE x = r
        <4>1. u.waited
          BY <1>1, <3>1, <3>3
        <4>2. \A p \in Pages : Knows(p, r)' => p = u.page
          BY <1>1, <1>3, <2>2, <4>1 DEF TabInv, OneHome
        <4>3. emitted[r] = Bytes(part[r]) + Count(page[u.page].queue, r)
          BY <1>1, <1>3, <2>1, <3>1, <3>3, <4>1 DEF Lossless, Unfinished
        <4>4. page'[u.page].queue = Tail(page[u.page].queue)
          BY <1>1, <1>4, <4>1 DEF W
        <4>5. /\ Count(page[u.page].queue, r) = Count(page'[u.page].queue, r) + 1
              /\ Count(page'[u.page].queue, r) \in Nat /\ Bytes(part[r]) \in Nat
          <5>1. /\ page[u.page].queue \in Seq(Job) /\ page[u.page].queue # <<>>
                /\ Head(page[u.page].queue) = Chunk(r) /\ page'[u.page].queue \in Seq(Job)
            BY <1>1, <4>1, <4>4, QueueFacts
          <5>2. Count(page[u.page].queue, r) = Count(page'[u.page].queue, r) + 1
            BY <4>4, <5>1, CountTail
          <5>3. Count(page'[u.page].queue, r) \in Nat
            BY <5>1, CountIsNat
          <5>4. QED
            BY <1>1, <5>2, <5>3, Typed
        <4>6. Bytes(part'[r]) = Bytes(part[r]) + 1
          BY <2>1, <4>5, BytesType
        <4>7. emitted[r] = Bytes(part'[r]) + Count(page'[u.page].queue, r)
          BY <4>3, <4>5, <4>6
        <4>8. QED
          BY <1>2, <2>1, <3>3, <4>2, <4>7 DEF Lossless, Unfinished, Bytes
      <3>4. QED
        BY <3>2, <3>3
    <2>4. QED
      BY <1>6, <2>2, <2>3 DEF TabInv, NothingIsLost
  <1>9. QED
    BY <1>7, <1>8

LEMMA TabSteps ==
  ASSUME IInv, TypeOK', [Next]_vars
  PROVE  TabInv' /\ NothingIsLost'
  <1> USE DEF IInv
  <1>1. CASE UNCHANGED vars
    BY <1>1, TabsSame DEF vars, store, client, SameFiles
  <1>2. ASSUME NEW p \in Pages,
               \/ StreamStarts(p) \/ StreamEnds(p) \/ PressRecord(p) \/ PressStop(p)
               \/ CloseTab(p) \/ CreateFails(p) \/ SendChunk(p) \/ UploadFails(p)
               \/ FinalizeRecording(p) \/ FinalizeFails(p)
               \/ \E r \in Recordings : CreateRecording(p, r) \/ EmitChunk(p, r)
        PROVE  TabInv' /\ NothingIsLost'
    BY <1>2, QuietSteps, StopSteps, CloseStep, SendStep, FailStep, FinishSteps, CreateStep,
       EmitStep DEF ServerInv
  <1>3. ASSUME NEW p \in Pages, FinalizeDies(p)
        PROVE  TabInv' /\ NothingIsLost'
    <2> DEFINE r == NextId(p)
    <2>1. /\ page[p].queue # <<>> /\ Head(page[p].queue) = Finish(r) /\ r \in Recordings
          /\ Dies({r}, {p}) /\ Renamed(r) /\ row' = row
      BY <1>3, HeadFacts DEF FinalizeDies, Finishing
    <2> HIDE DEF r
    <2>2. \A x \in Recordings : x # r => SameFiles(x)
      BY <2>1, StoredTypes DEF SameFiles
    <2>3. \A q \in {p} : page[q].queue # <<>> /\ \A x \in Recordings : Head(page[q].queue) # Chunk(x)
      BY <2>1, JobFacts
    <2>4. {r} \in SUBSET Recordings /\ {p} \in SUBSET Pages
      BY <2>1
    <2>5. QED
      BY <2>1, <2>2, <2>3, <2>4, TabsDie
  <1>4. ASSUME NEW u \in uploads, PutChunkDies(u)
        PROVE  TabInv' /\ NothingIsLost'
    <2>1. Dies({u.id}, {}) /\ row' = row /\ u.id \in Recordings
          /\ part' = [part EXCEPT ![u.id] = Bytes(@) + 1] /\ replay' = replay
      BY <1>4, Typed DEF PutChunkDies
    <2>2. \A x \in Recordings : x # u.id => SameFiles(x)
      BY <2>1, StoredTypes DEF SameFiles
    <2>3. {u.id} \in SUBSET Recordings /\ {} \in SUBSET Pages
      BY <2>1
    <2>4. QED
      BY <2>1, <2>2, <2>3, TabsDie
  <1>5. ASSUME NEW r \in Recordings, RemoveDies(r)
        PROVE  TabInv' /\ NothingIsLost'
    <2>1. Dies({r}, {}) /\ row' = RowsRemoved({r}) /\ replay' = replay
          /\ \A x \in Recordings : x # r => part'[x] = part[x]
      BY <1>5 DEF RemoveDies, TypeOK
    <2>2. \A x \in Recordings : \/ row'[x].status = row[x].status /\ SameFiles(x)
                                \/ row'[x].status = "gone"
      <3>1. \A x \in Recordings : row'[x] = IF x \in {r} THEN NoRow("gone") ELSE row[x]
        BY <2>1, RemovedFacts
      <3>2. QED
        BY <2>1, <3>1, RowFacts DEF SameFiles
    <2>3. {r} \in SUBSET Recordings /\ {} \in SUBSET Pages
      OBVIOUS
    <2>4. QED
      BY <2>1, <2>2, <2>3, TabsDie
  <1>6. CASE Restart
    <2>1. Dies({}, {}) /\ row' = row /\ \A x \in Recordings : SameFiles(x)
      BY <1>6 DEF Restart, SameFiles
    <2>2. {} \in SUBSET Recordings /\ {} \in SUBSET Pages
      OBVIOUS
    <2>3. QED
      BY <2>1, <2>2, TabsDie
  <1>7. ASSUME NEW u \in uploads, PutChunk(u)
        PROVE  TabInv' /\ NothingIsLost'
    BY <1>7, PutStep
  <1>8. ASSUME NEW R, NEW F, row' = RowsRemoved(R \cup F), FilesRemoved(R), torn' = torn \cup F,
               UNCHANGED <<page, emitted, uploads, spoilt>>
        PROVE  TabInv' /\ NothingIsLost'
    <2>1. \A r \in Recordings :
            /\ row'[r] = IF r \in R \cup F THEN NoRow("gone") ELSE row[r]
            /\ r \notin R => SameFiles(r)
      BY <1>8, RemovedFacts DEF SameFiles
    <2>2. \A r \in Recordings : \/ row'[r].status = row[r].status /\ SameFiles(r)
                                \/ row'[r].status = "gone"
      BY <2>1, RowFacts
    <2>3. QED
      BY <1>8, <2>2, TabsSame
  <1>9. ASSUME NEW r \in Recordings, DeleteRecording(r)
        PROVE  TabInv' /\ NothingIsLost'
    <2>1. row' = RowsRemoved({r} \cup {}) /\ torn' = torn \cup {}
      BY <1>9 DEF DeleteRecording
    <2>2. QED
      BY <1>8, <1>9, <2>1 DEF DeleteRecording, client
  <1>10. ASSUME NEW B \in SUBSET Recordings, Housekeeping(B)
         PROVE  TabInv' /\ NothingIsLost'
    BY <1>8, <1>10 DEF Housekeeping, client
  <1>11. CASE DeleteAccount
    <2> DEFINE mine == {r \in Recordings : HasRow(r)}
    <2>1. /\ row' = RowsRemoved(mine \cup {}) /\ FilesRemoved(mine) /\ torn' = torn \cup {}
          /\ UNCHANGED <<page, emitted, uploads, spoilt>>
      BY <1>11 DEF DeleteAccount, client
    <2> HIDE DEF mine
    <2>2. QED
      BY <1>8, <2>1
  <1>12. CASE Tick
    BY <1>12, TickFacts, TabsSame DEF Tick, client, SameFiles
  <1>13. QED
    BY <1>1, <1>2, <1>3, <1>4, <1>5, <1>6, <1>7, <1>9, <1>10, <1>11, <1>12 DEF Next

-----------------------------------------------------------------------------
(* Theorems *)

LEMMA InitHolds == Init => IInv
  <1> SUFFICES ASSUME Init PROVE IInv
    OBVIOUS
  <1>1. TypeOK
    <2>1. NewPage \in Page
      BY RecordingsAssumption DEF NewPage, Page
    <2>2. NoRow("unused") \in Row /\ 0 \in 0..MaxEmitted
      BY RecordingsAssumption DEF NoRow, Row
    <2>3. QED
      BY <2>1, <2>2 DEF Init, TypeOK
  <1>2. \A r \in Recordings : /\ row[r].status = "unused" /\ row[r].size = 0
                              /\ part[r] = None /\ replay[r] = None /\ emitted[r] = 0
    BY DEF Init, NoRow
  <1>3. \A p \in Pages : /\ page[p].running = {} /\ page[p].id = None /\ page[p].queue = <<>>
    BY DEF Init, NewPage
  <1>4. ASSUME NEW p \in Pages, NEW r \in Recordings
        PROVE  /\ ~Knows(p, r) /\ ~Finished(page[p].queue, r)
               /\ FinishLast(page[p].queue, r)
    <2>1. r # None
      BY RecordingsAssumption
    <2>2. page[p].queue \in Seq(Job)
      BY <1>1, Typed
    <2>3. QED
      BY <1>3, <2>1, <2>2, QueuedFacts, FinishedFacts, FinishLastFacts DEF Knows
  <1>5. RowMatchesFiles
    BY <1>2 DEF RowMatchesFiles, Unfinished
  <1>6. ChargedWithinQuota
    <2>1. /\ \A r \in Recordings : row[r].size <= MaxBytes
          /\ \A r \in Recordings : ~HasRow(r) => row[r].size = 0
      BY <1>2, RecordingsAssumption
    <2>2. TotalBytes = Total(row)
      BY TotalBytesIsTotal
    <2>3. Sized(row)
      BY <1>2 DEF Sized
    <2>4. PICK g : IsSum(g, Sizes(row), Recordings) /\ Total(row) = g[Recordings]
      BY <2>3, TotalIsSum, RecordingsAssumption DEF Sized
    <2>5. g[Recordings] = g[{}]
      <3> DEFINE f == Sizes(row)
      <3>1. \A r \in Recordings : f[r] = 0
        BY <1>2 DEF Sizes
      <3>2. \A r \in Recordings : f[r] \in Nat
        BY <3>1
      <3>3. IsSum(g, f, Recordings) /\ {} \in SUBSET Recordings
            /\ \A r \in Recordings \ {} : f[r] = 0
        BY <2>4, <3>1
      <3> HIDE DEF f
      <3>4. QED
        BY <3>2, <3>3, SumOfRest, RecordingsAssumption
    <2>6. g[{}] = 0
      BY <2>4, SumEmpty
    <2>7. QED
      BY <2>1, <2>2, <2>4, <2>5, <2>6, RecordingsAssumption DEF ChargedWithinQuota
  <1>7. TabInv
    BY <1>2, <1>3, <1>4 DEF TabInv, OneHome, RefsAgree, FinishIsLast, CompleteIsOver, UploadsFit, Init
  <1>8. NothingIsLost
    BY <1>2 DEF NothingIsLost, Lossless, Unfinished
  <1>9. QED
    BY <1>1, <1>5, <1>6, <1>7, <1>8 DEF IInv, ServerInv

LEMMA StepHolds == IInv /\ [Next]_vars => IInv'
  <1> SUFFICES ASSUME IInv, [Next]_vars PROVE IInv'
    OBVIOUS
  <1>1. TypeOK /\ ServerInv /\ UploadsFit
    BY DEF IInv, TabInv
  <1>2. TypeOK'
    <2>1. CASE UNCHANGED vars
      BY <1>1, <2>1 DEF vars, store, client, TypeOK
    <2>2. CASE Next
      BY <1>1, <2>2, TabTypes, HandlerTypes DEF Next
    <2>3. QED
      BY <2>1, <2>2
  <1>3. ServerInv'
    BY <1>1, <1>2, ServerSteps
  <1>4. TabInv' /\ NothingIsLost'
    BY <1>2, TabSteps
  <1>5. QED
    BY <1>2, <1>3, <1>4 DEF IInv

\* The inductive invariant holds of every reachable state.
THEOREM Invariant == Spec => []IInv
  BY InitHolds, StepHolds, PTL DEF Spec

\* Rows, files, tabs and uploads keep to their types: no queue is popped when it
\* is empty, no counter leaves its range.
THEOREM TypeCorrect == Spec => []TypeOK
  <1>1. IInv => TypeOK
    BY DEF IInv
  <1>2. QED
    BY <1>1, Invariant, PTL

\* Unless the process died in a handler of routes/recordings.ts or the retention
\* purged a row, rows and files tell the same story, and the files keep to the
\* limit of a recording and to the quota of the account.
THEOREM DiskAccounted == Spec => []DiskIsAccounted
  <1>1. IInv => DiskIsAccounted
    BY DiskFollows DEF IInv
  <1>2. QED
    BY <1>1, Invariant, PTL

\* A finished recording that met no failed or refused upload has every chunk its
\* recorder emitted, whatever the tabs of the account did meanwhile.
THEOREM ReplayWhole == Spec => []ReplayIsWhole
  <1>1. IInv => ReplayIsWhole
    BY DEF IInv, NothingIsLost, Lossless, ReplayIsWhole
  <1>2. QED
    BY <1>1, Invariant, PTL
=============================================================================
