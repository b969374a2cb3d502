---------------------------- MODULE ReplayProofs ----------------------------
(***************************************************************************)
(* Proofs about the three replay components: the pages of the list          *)
(* (ReplayPaging), for every list, every page size and integers of every    *)
(* width; the list cache and the import (ReplayCache), for any number of    *)
(* files, walks and failures; the export (ReplayTransfer), for files of     *)
(* every length and every limit.                                           *)
(***************************************************************************)
EXTENDS ReplayPaging, ReplayCache, ReplayTransfer, FiniteSetTheorems, TLAPS

LEMMA SmallTotals == TypeOK => Cardinality(Listed) \in Nat /\ Cardinality(Listed) < Half
<1>1. Listed \subseteq Paths
  BY PagingAssumption DEF Listed
<1>2. Cardinality(Listed) \in Nat /\ Cardinality(Listed) <= Cardinality(Paths)
  BY <1>1, PagingAssumption, FS_Subset, FS_CardinalityType
<1>3. Cardinality(Paths) \in Nat
  BY PagingAssumption, FS_CardinalityType
<1> QED BY <1>2, <1>3, PagingAssumption

LEMMA SizesArePositive == \A v \in Int : ClampedSize(v) \in Nat \ {0} /\ ClampedSize(v) < Half
BY PagingAssumption DEF ClampedSize

LEMMA PagesArePositive == \A v \in Int : ClampedPage(v) \in Nat \ {0}
BY DEF ClampedPage

(* Integers of this width stay as they are. *)
LEMMA WrappedSmall == \A x \in Int : -Half <= x /\ x < Half => Wrapped(x) = x
<1> SUFFICES ASSUME NEW x \in Int, -Half <= x, x < Half PROVE Wrapped(x) = x
  OBVIOUS
<1>1. 0 <= x + Half /\ x + Half < 2 * Half /\ 2 * Half \in Nat \ {0}
  BY PagingAssumption
<1>2. \A n \in Nat, m \in Nat \ {0} : n < m => n % m = n
  OBVIOUS
<1>3. (x + Half) % (2 * Half) = x + Half
  BY <1>1, <1>2, PagingAssumption
<1> QED BY <1>3, PagingAssumption DEF Wrapped

LEMMA WrappedType == \A x \in Int : Wrapped(x) \in Int
<1> SUFFICES ASSUME NEW x \in Int PROVE Wrapped(x) \in Int
  OBVIOUS
<1> DEFINE m == 2 * Half
           y == x + Half
<1>1. m \in Nat \ {0} /\ y \in Int
  BY PagingAssumption
<1> HIDE DEF m, y
<1>2. y % m \in Int
  BY <1>1
<1> QED BY <1>2, PagingAssumption DEF Wrapped, m, y

(* How many pages there are: the last one begins before the end.           *)
LEMMA LastPage ==
  ASSUME NEW n \in Nat \ {0}, NEW total \in Nat, NEW p \in Nat
  PROVE  p < TotalPages(n, total) <=> p * n < total
<1>1. CASE total = 0
  <2>1. p * n >= 0
    OBVIOUS
  <2> QED BY <1>1, <2>1 DEF TotalPages
<1>2. CASE total > 0
  <2> DEFINE u == total + n - 1
             q == u \div n
  <2>1. u \in Nat
    BY <1>2
  <2> HIDE DEF u
  <2>2. q \in Nat /\ q * n <= u /\ u < q * n + n
    BY <2>1
  <2>3. TotalPages(n, total) = q
    BY <1>2 DEF TotalPages, u
  <2> HIDE DEF q
  <2>4. CASE p < q
    <3>1. (p + 1) * n <= q * n
      BY <2>2, <2>4
    <3>2. (p + 1) * n = p * n + n
      OBVIOUS
    <3> QED BY <2>2, <2>3, <2>4, <3>1, <3>2 DEF u
  <2>5. CASE q <= p
    <3>1. q * n <= p * n
      BY <2>2, <2>5
    <3> QED BY <2>2, <2>3, <2>5, <3>1 DEF u
  <2> QED BY <2>2, <2>4, <2>5
<1> QED BY <1>1, <1>2

LEMMA SliceFields ==
  ASSUME NEW p, NEW n, NEW total
  PROVE  /\ Slice(p, n, total).start = Start(p, n, total)
         /\ Slice(p, n, total).end = End(p, n, total)
         /\ Slice(p, n, total).total = total
         /\ Slice(p, n, total).page = p
         /\ Slice(p, n, total).size = n
         /\ Slice(p, n, total).more <=> End(p, n, total) < total
BY Zenon DEF Slice

LEMMA SliceType ==
  ASSUME NEW p \in Nat \ {0}, NEW n \in Nat \ {0}, NEW total \in Nat
  PROVE  Slice(p, n, total) \in [start : Int, end : Int, total : Nat, page : Nat \ {0},
                                 size : Nat \ {0}, more : BOOLEAN]
<1>1. (p - 1) * n \in Int
  OBVIOUS
<1>2. Start(p, n, total) \in Int
  BY <1>1, WrappedType DEF Start, AtMost
<1>3. End(p, n, total) \in Int
  BY <1>2, WrappedType DEF End, AtMost
<1> QED BY <1>2, <1>3 DEF Slice

(* A page that fits the integers is the part of the list that it should be. *)
LEMMA PageIsCut ==
  ASSUME NEW p \in Nat \ {0}, NEW n \in Nat \ {0}, NEW total \in Nat,
         Fits(p, n), total < Half
  PROVE  /\ Start(p, n, total) = AtMost((p - 1) * n, total)
         /\ End(p, n, total) = AtMost(p * n, total)
         /\ InBounds(Slice(p, n, total))
         /\ Slice(p, n, total).more <=> p < TotalPages(n, total)
<1> DEFINE a == (p - 1) * n
<1>1. a \in Nat /\ p * n = a + n
  OBVIOUS
<1>2. a + n < Half
  BY DEF Fits
<1> HIDE DEF a
<1>3. Wrapped(a) = a
  BY <1>1, <1>2, WrappedSmall, PagingAssumption
<1>4. Start(p, n, total) = AtMost(a, total)
  BY <1>3 DEF Start, a
<1>5. Wrapped(AtMost(a, total) + n) = AtMost(a, total) + n
  BY <1>1, <1>2, WrappedSmall, PagingAssumption DEF AtMost
<1>6. End(p, n, total) = AtMost(a + n, total)
  BY <1>1, <1>4, <1>5 DEF End, AtMost
<1>7. InBounds(Slice(p, n, total))
  BY <1>1, <1>4, <1>6 DEF Slice, InBounds, AtMost
<1>8. Slice(p, n, total).more <=> a + n < total
  <2>1. End(p, n, total) < total <=> a + n < total
    BY <1>1, <1>6 DEF AtMost
  <2> QED BY <2>1, SliceFields
<1> QED BY <1>1, <1>4, <1>6, <1>7, <1>8, LastPage DEF a

-----------------------------------------------------------------------------
Answers == [start : Int, end : Int, total : Nat, page : Nat \ {0},
            size : Nat \ {0}, more : BOOLEAN]

(* What is said of an answer, without the state that holds it. *)
IsCut(s, panics) ==
  /\ ~panics => InBounds(s)
  /\ Fits(s.page, s.size) => /\ ~panics
                             /\ s.more <=> s.page < TotalPages(s.size, s.total)

LEMMA SliceIsCut ==
  ASSUME NEW p \in Nat \ {0}, NEW n \in Nat \ {0}, NEW total \in Nat, total < Half
  PROVE  IsCut(Slice(p, n, total), ~InBounds(Slice(p, n, total)))
<1>1. CASE Fits(p, n)
  BY <1>1, PageIsCut, SliceFields DEF IsCut
<1>2. CASE ~Fits(p, n)
  BY <1>2, SliceFields DEF IsCut
<1> QED BY <1>1, <1>2

LEMMA NoAnswerIsCut == NoAnswer \in Answers /\ IsCut(NoAnswer, FALSE)
BY DEF NoAnswer, Answers, IsCut, InBounds, TotalPages

(* fetchAll *)
LEMMA AllIsCut ==
  ASSUME NEW total \in Nat, NEW n \in Nat \ {0}, total < Half
  PROVE  LET s == [start |-> 0, end |-> total, total |-> total, page |-> 1, more |-> FALSE,
                   size |-> IF total > 0 THEN total ELSE n]
         IN  s \in Answers /\ IsCut(s, FALSE)
<1> DEFINE m == IF total > 0 THEN total ELSE n
           s == [start |-> 0, end |-> total, total |-> total, page |-> 1, more |-> FALSE,
                 size |-> m]
<1>1. m \in Nat \ {0} /\ total <= m
  OBVIOUS
<1> HIDE DEF m
<1>2. s \in Answers
  BY <1>1 DEF Answers
<1>3. InBounds(s)
  BY DEF InBounds
<1>4. ~(1 < TotalPages(m, total))
  <2>1. 1 * m = m
    BY <1>1
  <2> QED BY <1>1, <2>1, LastPage
<1>5. s.more = FALSE /\ s.page = 1 /\ s.size = m /\ s.total = total
  OBVIOUS
<1> HIDE DEF s
<1> QED BY <1>2, <1>3, <1>4, <1>5 DEF IsCut, s, m
-----------------------------------------------------------------------------
LEMMA PagingInit == Init => PagingInv
<1> SUFFICES ASSUME Init PROVE PagingInv
  OBVIOUS
<1>1. answer = NoAnswer /\ pc = "idle"
  BY DEF Init
<1>2. answer \in Answers /\ PageInBounds
  <2>1. answer \in Answers /\ IsCut(answer, FALSE)
    BY <1>1, NoAnswerIsCut
  <2>2. pc # "panicked"
    BY <1>1
  <2> QED BY <2>1, <2>2 DEF PageInBounds, IsCut
<1>3. closedUp \in BOOLEAN
  BY Zenon DEF Init
<1>4. page \in Nat \ {0} /\ events \in Nat
  BY DEF Init
<1>5. /\ time \in [Paths -> Times \cup {0}]
      /\ sort \in Sorts /\ size \in Sizes
      /\ seen \subseteq Matching /\ steady \subseteq Matching
  BY DEF Init
<1> QED BY <1>1, <1>2, <1>3, <1>4, <1>5 DEF PagingInv, TypeOK, Answers

LEMMA PagingStep == PagingInv /\ [Next]_vars => PagingInv'
<1> SUFFICES ASSUME PagingInv, [Next]_vars PROVE PagingInv'
  OBVIOUS
<1> DEFINE N == Cardinality(Listed)
<1>1. N \in Nat /\ N < Half
  BY SmallTotals DEF PagingInv
<1> HIDE DEF N
<1>2. (PageInBounds)' <=> IsCut(answer', pc' = "panicked")
  BY DEF PageInBounds, IsCut
<1>3. ASSUME NEW p, NEW n, p \in Argument, n \in Argument, Ask(p, n)
      PROVE  PagingInv'
  <2> DEFINE k == ClampedPage(Parsed(p))
             m == ClampedSize(Parsed(n))
  <2>1. Parsed(p) \in Int /\ Parsed(n) \in Int
    BY <1>3 DEF Parsed, Argument
  <2>2. k \in Nat \ {0} /\ m \in Nat \ {0}
    BY <2>1, SizesArePositive, PagesArePositive
  <2>3. answer' = Slice(k, m, N) /\ pc' = IF InBounds(Slice(k, m, N)) THEN pc ELSE "panicked"
    BY <1>3 DEF Ask, N
  <2>4. pc = "idle"
    BY <1>3 DEF Ask
  <2> HIDE DEF k, m
  <2>5. answer' \in Answers
    BY <1>1, <2>2, <2>3, SliceType DEF Answers
  <2>6. pc' = "panicked" <=> ~InBounds(Slice(k, m, N))
    BY <2>3, <2>4
  <2>7. (PageInBounds)'
    BY <1>1, <1>2, <2>2, <2>3, <2>6, SliceIsCut DEF IsCut
  <2> QED BY <1>3, <2>3, <2>5, <2>7 DEF Ask, PagingInv, TypeOK, Answers, history
<1>4. ASSUME NEW n, n \in Argument, AskAll(n)
      PROVE  PagingInv'
  <2>1. Parsed(n) \in Int
    BY <1>4 DEF Parsed, Argument
  <2>2. ClampedSize(Parsed(n)) \in Nat \ {0}
    BY <2>1, SizesArePositive
  <2>3. answer' \in Answers /\ IsCut(answer', FALSE)
    BY <1>1, <1>4, <2>2, AllIsCut DEF AskAll, N
  <2>4. pc' = "idle"
    BY <1>4 DEF AskAll
  <2>5. (PageInBounds)'
    BY <1>2, <2>3, <2>4 DEF IsCut
  <2> QED BY <1>4, <2>3, <2>4, <2>5 DEF AskAll, PagingInv, TypeOK, Answers, history
<1>5. CASE BeginWalk
  <2>1. answer' \in Answers /\ (PageInBounds)'
    BY <1>2, <1>5, NoAnswerIsCut DEF BeginWalk, IsCut
  <2>2. Listed \subseteq Matching
    BY DEF Listed
  <2> QED BY <1>5, <2>1, <2>2 DEF BeginWalk, PagingInv, TypeOK, Answers
<1>6. CASE NextPage
  <2> DEFINE n == ClampedSize(size)
  <2>1. PICK o \in Orders :
          LET s == Slice(page, n, N)
          IN  /\ answer' = s
              /\ pc' = IF ~InBounds(s) THEN "panicked" ELSE IF s.more THEN pc ELSE "done"
              /\ seen' = seen \cup {o[i] : i \in DOMAIN o \cap (s.start + 1)..s.end}
              /\ page' = IF s.more THEN page + 1 ELSE page
    BY <1>6 DEF NextPage, N
  <2>2. page \in Nat \ {0} /\ n \in Nat \ {0}
    BY SizesArePositive, PagingAssumption DEF PagingInv, TypeOK
  <2> HIDE DEF n
  <2>3. pc = "walking" /\ UNCHANGED <<time, sort, size, history, events>>
    BY <1>6 DEF NextPage
  <2>4. answer' = Slice(page, n, N)
    BY <2>1
  <2>5. answer' \in Answers
    BY <1>1, <2>2, <2>4, SliceType DEF Answers
  <2>6. pc' = "panicked" <=> ~InBounds(Slice(page, n, N))
    BY <2>1, <2>3
  <2>7. (PageInBounds)'
    BY <1>1, <1>2, <2>2, <2>4, <2>6, SliceIsCut DEF IsCut
  <2>8. seen' \subseteq Matching
    <3>1. o \in [1..N -> Listed]
      BY DEF Orders, N
    <3>2. \A i \in DOMAIN o : o[i] \in Matching
      BY <3>1 DEF Listed
    <3>3. seen \subseteq Matching
      BY DEF PagingInv, TypeOK
    <3> QED BY <2>1, <3>2, <3>3
  <2>9. page' \in Nat \ {0} /\ pc' \in {"walking", "done", "panicked"}
    BY <2>1, <2>2, <2>3
  <2> QED BY <2>3, <2>5, <2>7, <2>8, <2>9 DEF PagingInv, TypeOK, Answers, history
<1>7. ASSUME NEW p \in Paths, Adds(p) \/ Removes(p) \/ Touches(p)
      PROVE  PagingInv'
  <2>1. UNCHANGED client /\ events' = events + 1
    BY <1>7 DEF Adds, Removes, Touches, Changes
  <2>2. time' \in [Paths -> Times \cup {0}]
    BY <1>7 DEF Adds, Removes, Touches, PagingInv, TypeOK
  <2>3. steady' \subseteq Matching /\ closedUp' \in BOOLEAN
    <3>1. CASE Adds(p)
      BY <3>1 DEF Adds, PagingInv, TypeOK, history
    <3>2. CASE Removes(p)
      BY <3>2 DEF Removes, Sent, PagingInv, TypeOK
    <3>3. CASE Touches(p)
      BY <3>3 DEF Touches, Sent, PagingInv, TypeOK
    <3> QED BY <1>7, <3>1, <3>2, <3>3
  <2> QED BY <2>1, <2>2, <2>3 DEF client, PagingInv, TypeOK, PageInBounds
<1>8. CASE UNCHANGED vars
  BY <1>8 DEF vars, client, history, PagingInv, TypeOK, PageInBounds
<1>9. \A f \in {"number", "text"}, x \in Numbers : [form |-> f, value |-> x] \in Argument
  BY PagingAssumption DEF Argument
<1> QED BY <1>3, <1>4, <1>5, <1>6, <1>7, <1>8, <1>9 DEF Next

(* Every page asked for is a part of the list, hasMore is right, and only a *)
(* page that ends beyond the integers makes the agent panic.               *)
THEOREM PagingInvariant == Spec => []PagingInv
BY PagingInit, PagingStep, PTL DEF Spec
-----------------------------------------------------------------------------
(* The files up to a place in the list.                                    *)
Below(q) == {r \in Listed : r = q \/ Before(r, q)}

(* However the files are sorted, the first key compares two numbers.       *)
LEMMA KeyOfSort ==
  ASSUME TypeOK
  PROVE  \E key \in [Paths -> Int] : \A a, b \in Paths : FirstKey(a, b) <=> key[a] < key[b]
<1>1. /\ NameOf \in [Paths -> Nat] /\ time \in [Paths -> Nat]
      /\ sort \in Sorts
  <2>1. NameOf \in [Paths -> Nat] /\ Times \cup {0} \subseteq Nat
    BY PagingAssumption
  <2>2. time \in [Paths -> Times \cup {0}] /\ sort \in Sorts
    BY DEF TypeOK
  <2> QED BY <2>1, <2>2
<1>2. CASE sort = "nameAsc"
  <2>1. \A a, b \in Paths : FirstKey(a, b) <=> NameOf[a] < NameOf[b]
    BY <1>2 DEF FirstKey
  <2>2. NameOf \in [Paths -> Int]
    BY <1>1
  <2> QED BY <2>1, <2>2
<1>3. CASE sort = "nameDesc"
  <2> DEFINE key == [p \in Paths |-> -NameOf[p]]
  <2>1. \A a, b \in Paths : FirstKey(a, b) <=> key[a] < key[b]
    BY <1>1, <1>3 DEF FirstKey
  <2>2. key \in [Paths -> Int]
    BY <1>1
  <2> QED BY <2>1, <2>2
<1>4. CASE sort = "updatedAtAsc"
  <2>1. \A a, b \in Paths : FirstKey(a, b) <=> time[a] < time[b]
    BY <1>4 DEF FirstKey
  <2>2. time \in [Paths -> Int]
    BY <1>1
  <2> QED BY <2>1, <2>2
<1>5. CASE sort \in {"updatedAtDesc", "unknown"}
  <2> DEFINE key == [p \in Paths |-> -time[p]]
  <2>1. \A a, b \in Paths : FirstKey(a, b) <=> time[a] > time[b]
    BY <1>5 DEF FirstKey
  <2>2. \A a, b \in Paths : FirstKey(a, b) <=> key[a] < key[b]
    BY <1>1, <2>1
  <2>3. key \in [Paths -> Int]
    BY <1>1
  <2> QED BY <2>2, <2>3
<1> QED BY <1>1, <1>2, <1>3, <1>4, <1>5 DEF Sorts

(* The list has one order: with their paths as tie-break no two files are   *)
(* equal.                                                                  *)
LEMMA BeforeIsTotal ==
  ASSUME TypeOK
  PROVE  /\ \A a, b \in Paths : a = b \/ Before(a, b) \/ Before(b, a)
         /\ \A a, b \in Paths : Before(a, b) => ~Before(b, a)
         /\ \A a, b, c \in Paths : Before(a, b) /\ Before(b, c) => Before(a, c)
<1>1. PICK key \in [Paths -> Int] : \A a, b \in Paths : FirstKey(a, b) <=> key[a] < key[b]
  BY KeyOfSort
<1>2. Paths \subseteq Nat
  BY PagingAssumption
<1>3. \A a, b \in Paths : Before(a, b) <=> key[a] < key[b] \/ (key[a] = key[b] /\ a < b)
  BY <1>1 DEF Before
<1> QED BY <1>1, <1>2, <1>3

LEMMA RankType ==
  ASSUME TypeOK
  PROVE  /\ IsFiniteSet(Listed) /\ Listed \subseteq Paths
         /\ \A q : /\ IsFiniteSet(Below(q)) /\ Rank(q) = Cardinality(Below(q)) /\ Rank(q) \in Nat
                   /\ q \in Listed => 1 <= Rank(q) /\ Rank(q) <= Cardinality(Listed)
<1>1. IsFiniteSet(Listed) /\ Listed \subseteq Paths
  <2>1. Listed \subseteq Paths
    BY PagingAssumption DEF Listed
  <2> QED BY <2>1, PagingAssumption, FS_Subset
<1>2. ASSUME NEW q
      PROVE  /\ IsFiniteSet(Below(q)) /\ Rank(q) = Cardinality(Below(q)) /\ Rank(q) \in Nat
             /\ q \in Listed => 1 <= Rank(q) /\ Rank(q) <= Cardinality(Listed)
  <2>1. Below(q) \subseteq Listed
    BY DEF Below
  <2>2. IsFiniteSet(Below(q)) /\ Cardinality(Below(q)) <= Cardinality(Listed)
    BY <1>1, <2>1, FS_Subset
  <2>3. Rank(q) = Cardinality(Below(q))
    <3>1. Below(q) = {r \in Listed : r = q \/ Before(r, q)}
      BY DEF Below
    <3> QED BY <3>1 DEF Rank
  <2>4. Cardinality(Below(q)) \in Nat
    BY <2>2, FS_CardinalityType
  <2>5. q \in Listed => Cardinality(Below(q)) # 0
    <3>1. q \in Listed => q \in Below(q)
      BY DEF Below
    <3> QED BY <2>2, <3>1, FS_EmptySet
  <2> QED BY <2>2, <2>3, <2>4, <2>5
<1> QED BY <1>1, <1>2

(* The sorted list has every file at its rank.                             *)
LEMMA OrderHasRanks ==
  ASSUME TypeOK, NEW o \in Orders, NEW p \in Listed
  PROVE  Rank(p) \in DOMAIN o /\ o[Rank(p)] = p
<1> DEFINE N == Cardinality(Listed)
<1>1. /\ N \in Nat /\ IsFiniteSet(Listed) /\ Listed \subseteq Paths
      /\ IsFiniteSet(1..N) /\ Cardinality(1..N) = N
  BY RankType, FS_CardinalityType, FS_Interval
<1>2. /\ o \in [1..N -> Listed]
      /\ \A i, j \in 1..N : i < j => o[i] # o[j] /\ ~Before(o[j], o[i])
  BY DEF Orders
<1> HIDE DEF N
<1>3. o \in Injection(1..N, Listed)
  BY <1>1, <1>2 DEF Injection, IsInjective
<1>4. o \in Surjection(1..N, Listed)
  BY <1>1, <1>3, FS_Injection DEF N
<1>5. PICK i \in 1..N : o[i] = p
  BY <1>4 DEF Surjection
<1>6. Below(p) = {o[j] : j \in 1..i}
  <2>1. ASSUME NEW j \in 1..i PROVE o[j] \in Below(p)
    <3>1. j \in 1..N /\ (j = i \/ j < i)
      BY <1>1, <1>5
    <3>2. o[j] \in Listed /\ o[j] \in Paths /\ p \in Paths
      BY <1>1, <1>2, <3>1
    <3>3. j < i => Before(o[j], p)
      BY <1>2, <1>5, <3>1, <3>2, BeforeIsTotal
    <3> QED BY <1>5, <3>1, <3>2, <3>3 DEF Below
  <2>2. ASSUME NEW r \in Below(p) PROVE \E j \in 1..i : o[j] = r
    <3>1. PICK j \in 1..N : o[j] = r
      BY <1>4, <2>2 DEF Surjection, Below
    <3>2. ~(i < j)
      BY <1>2, <1>5, <2>2, <3>1 DEF Below
    <3>3. j \in 1..i
      BY <1>1, <1>5, <3>1, <3>2
    <3> QED BY <3>1, <3>3
  <2> QED BY <2>1, <2>2
<1> DEFINE first == [j \in 1..i |-> o[j]]
<1>7. first \in Injection(1..i, Below(p)) /\ first \in Surjection(1..i, Below(p))
  <2>1. first \in [1..i -> Below(p)]
    BY <1>6
  <2>2. \A j, k \in 1..i : first[j] = first[k] => j = k
    <3> SUFFICES ASSUME NEW j \in 1..i, NEW k \in 1..i, j # k PROVE o[j] # o[k]
      OBVIOUS
    <3>1. j \in 1..N /\ k \in 1..N /\ (j < k \/ k < j)
      BY <1>1
    <3> QED BY <1>2, <3>1
  <2>3. \A r \in Below(p) : \E j \in 1..i : first[j] = r
    BY <1>6
  <2> QED BY <2>1, <2>2, <2>3 DEF Injection, IsInjective, Surjection
<1>8. Cardinality(Below(p)) = i
  <2>1. IsFiniteSet(1..i) /\ Cardinality(1..i) = i
    BY <1>1, FS_Interval
  <2> QED BY <1>7, <2>1, FS_Surjection
<1> QED BY <1>2, <1>5, <1>8, RankType

(* A file has moved back, or kept its place, if all that stood before it    *)
(* still do.                                                               *)
LEMMA RankGrows ==
  ASSUME TypeOK, NEW q, Below(q) \subseteq Below(q)'
  PROVE  Rank(q) \in Nat /\ Rank(q)' \in Nat /\ Rank(q) <= Rank(q)'
<1>1. IsFiniteSet(Below(q)')
  <2>1. Below(q)' \subseteq Paths
    BY PagingAssumption DEF Below, Listed
  <2> QED BY <2>1, PagingAssumption, FS_Subset
<1>2. Rank(q) = Cardinality(Below(q)) /\ Rank(q) \in Nat
  BY RankType
<1>3. Rank(q)' = Cardinality(Below(q)')
  BY DEF Rank, Below
<1> QED BY <1>1, <1>2, <1>3, FS_Subset, FS_CardinalityType

(* One that stood behind another stands, without it, where that one did at  *)
(* least.                                                                  *)
LEMMA RankBehind ==
  ASSUME TypeOK, NEW p \in Listed, NEW q, q \notin Below(p),
         (Below(p) \ {p}) \cup {q} \subseteq Below(q)'
  PROVE  Rank(p) \in Nat /\ Rank(q)' \in Nat /\ Rank(p) <= Rank(q)'
<1>1. IsFiniteSet(Below(q)')
  <2>1. Below(q)' \subseteq Paths
    BY PagingAssumption DEF Below, Listed
  <2> QED BY <2>1, PagingAssumption, FS_Subset
<1>2. Rank(p) = Cardinality(Below(p)) /\ Rank(p) \in Nat /\ IsFiniteSet(Below(p)) /\ p \in Below(p)
  BY RankType DEF Below
<1>3. Rank(q)' = Cardinality(Below(q)')
  BY DEF Rank, Below
<1> DEFINE rest == Below(p) \ {p}
<1>4. IsFiniteSet(rest) /\ Cardinality(rest) = Cardinality(Below(p)) - 1 /\ q \notin rest
  BY <1>2, FS_RemoveElement
<1> HIDE DEF rest
<1>5. Cardinality(rest \cup {q}) = Cardinality(rest) + 1
  BY <1>4, FS_AddElement
<1>6. Cardinality(rest \cup {q}) = Rank(p)
  BY <1>2, <1>4, <1>5
<1> QED BY <1>1, <1>2, <1>3, <1>6, FS_Subset, FS_CardinalityType DEF rest

(* Two files that are not written keep their order.                        *)
LEMMA OrderKept ==
  ASSUME sort' = sort, NEW a, NEW b, time'[a] = time[a], time'[b] = time[b]
  PROVE  Before(a, b)' <=> Before(a, b)
BY DEF Before, FirstKey

LEMMA WrappedLarge ==
  ASSUME NEW x \in Int, Half <= x, x < 2 * Half
  PROVE  Wrapped(x) < 0
<1> DEFINE m == 2 * Half
           y == x + Half
<1>1. m \in Nat \ {0} /\ y \in Nat /\ m <= y /\ y < m + Half /\ Half < m /\ Half \in Nat
  BY PagingAssumption
<1>2. \A u, v \in Nat : v # 0 /\ v <= u /\ u < 2 * v => u % v = u - v
  <2> SUFFICES ASSUME NEW u \in Nat, NEW v \in Nat \ {0}, v <= u, u < 2 * v PROVE u % v = u - v
    OBVIOUS
  <2> QED OBVIOUS
<1> HIDE DEF m, y
<1>3. y % m = y - m
  BY <1>1, <1>2
<1> QED BY <1>1, <1>3, PagingAssumption DEF Wrapped, m, y

(* A page that does not panic begins where the last one ended and reaches    *)
(* as far as its size, or to the end of the list.                          *)
LEMMA PageFollows ==
  ASSUME NEW p \in Nat \ {0}, NEW n \in Nat \ {0}, NEW total \in Nat,
         n < Half, total < Half, (p - 1) * n < Half, InBounds(Slice(p, n, total))
  PROVE  LET s == Slice(p, n, total)
         IN  /\ s.start <= (p - 1) * n
             /\ s.more => s.end = p * n /\ p * n < Half
             /\ ~s.more => s.end = total
<1> DEFINE a == (p - 1) * n
           b == Start(p, n, total)
           e == End(p, n, total)
<1>1. a \in Nat /\ p * n = a + n /\ a < Half
  OBVIOUS
<1> HIDE DEF a
<1>2. b = AtMost(a, total)
  BY <1>1, WrappedSmall, PagingAssumption DEF Start, a
<1>3. b \in Nat /\ b <= a /\ b <= total /\ (b < total => b = a)
  BY <1>1, <1>2 DEF AtMost
<1>4. e = AtMost(Wrapped(b + n), total)
  BY DEF End
<1>5. b <= e
  BY SliceFields DEF InBounds
<1> HIDE DEF b, e
<1>6. Wrapped(b + n) \in Int
  BY <1>3, WrappedType
<1>7. b + n < Half
  <2> SUFFICES ASSUME b + n >= Half PROVE FALSE
    BY <1>3, PagingAssumption
  <2>1. b + n < 2 * Half
    BY <1>3, PagingAssumption
  <2>2. Wrapped(b + n) < 0
    BY <1>3, <2>1, WrappedLarge
  <2>3. e < 0
    BY <1>4, <1>6, <2>2 DEF AtMost
  <2>4. e \in Int
    BY <1>4, <1>6 DEF AtMost
  <2> QED BY <1>3, <1>5, <2>3, <2>4
<1>8. Wrapped(b + n) = b + n
  BY <1>3, <1>7, WrappedSmall, PagingAssumption
<1>9. e = AtMost(b + n, total)
  BY <1>4, <1>8
<1>10. e < total => e = a + n /\ a + n < Half
  BY <1>1, <1>3, <1>7, <1>9 DEF AtMost
<1>11. ~(e < total) => e = total
  BY <1>3, <1>9 DEF AtMost
<1> QED BY <1>1, <1>3, <1>10, <1>11, SliceFields DEF a, b, e

(* The end of the pages that were sent.                                    *)
Place == (page - 1) * ClampedSize(size)

(* As long as nothing has left them, every file that stayed and stands      *)
(* within them has been shown; the product has not left the integers.       *)
Shown ==
  /\ steady \subseteq Listed
  /\ pc = "idle" => page = 1
  /\ pc = "walking" => Place < Half
  /\ pc = "walking" /\ ~closedUp => \A p \in steady : Rank(p) <= Place => p \in seen
  /\ NoneSkipped

LEMMA PlaceType == TypeOK => /\ Place \in Nat /\ page \in Nat \ {0}
                             /\ ClampedSize(size) \in Nat \ {0} /\ ClampedSize(size) < Half
<1> SUFFICES ASSUME TypeOK
             PROVE  /\ Place \in Nat /\ page \in Nat \ {0}
                    /\ ClampedSize(size) \in Nat \ {0} /\ ClampedSize(size) < Half
  OBVIOUS
<1>1. page \in Nat \ {0} /\ ClampedSize(size) \in Nat \ {0} /\ ClampedSize(size) < Half
  BY SizesArePositive, PagingAssumption DEF TypeOK
<1>2. \A m \in Nat \ {0}, n \in Nat \ {0} : (m - 1) * n \in Nat
  OBVIOUS
<1> QED BY <1>1, <1>2 DEF Place

LEMMA ShownInit == Init => Shown
BY DEF Init, Shown, NoneSkipped

LEMMA ShownPage ==
  ASSUME TypeOK, Shown, NextPage
  PROVE  Shown'
<1> DEFINE n == ClampedSize(size)
           N == Cardinality(Listed)
           s == Slice(page, n, N)
<1>1. PICK o \in Orders :
        /\ pc' = IF ~InBounds(s) THEN "panicked" ELSE IF s.more THEN pc ELSE "done"
        /\ seen' = seen \cup {o[i] : i \in DOMAIN o \cap (s.start + 1)..s.end}
        /\ page' = IF s.more THEN page + 1 ELSE page
  BY DEF NextPage
<1>2. pc = "walking" /\ UNCHANGED <<time, sort, size, steady, closedUp>>
  BY DEF NextPage, history
<1>3. Listed' = Listed /\ \A p : Rank(p)' = Rank(p)
  BY <1>2 DEF Listed, Rank, Before, FirstKey
<1>4. /\ page \in Nat \ {0} /\ n \in Nat \ {0} /\ n < Half /\ N \in Nat /\ N < Half
      /\ Place \in Nat /\ Place = (page - 1) * n /\ Place < Half
  BY <1>2, PlaceType, SmallTotals DEF Place, Shown
<1>5. steady \subseteq Listed
  BY DEF Shown
<1>6. CASE ~InBounds(s)
  BY <1>1, <1>2, <1>3, <1>5, <1>6 DEF Shown, NoneSkipped
<1>7. CASE InBounds(s)
  <2>1. /\ s.start \in Int /\ s.end \in Int
        /\ s.start <= Place
        /\ s.more => s.end = page * n /\ page * n < Half
        /\ ~s.more => s.end = N
    <3>1. s.start \in Int /\ s.end \in Int
      BY <1>4, SliceType
    <3> QED BY <1>4, <1>7, <3>1, PageFollows
  <2> HIDE DEF s, n, N
  <2>2. ASSUME ~closedUp, NEW p \in steady, Rank(p) <= s.end PROVE p \in seen'
    <3>1. p \in Listed /\ Rank(p) \in Nat
      BY <1>5, RankType
    <3>2. CASE Rank(p) <= Place
      BY <1>1, <1>2, <2>2, <3>2 DEF Shown
    <3>3. CASE Rank(p) > Place
      <4>1. Rank(p) \in (s.start + 1)..s.end
        BY <1>4, <2>1, <2>2, <3>1, <3>3
      <4>2. Rank(p) \in DOMAIN o /\ o[Rank(p)] = p
        BY <3>1, OrderHasRanks
      <4> QED BY <1>1, <4>1, <4>2
    <3> QED BY <1>4, <3>1, <3>2, <3>3
  <2>3. CASE s.more
    <3>1. page' = page + 1 /\ pc' = "walking"
      BY <1>1, <1>2, <1>7, <2>3
    <3>2. Place' = page * n
      <4>1. (page + 1) - 1 = page
        BY <1>4
      <4>2. Place' = ((page + 1) - 1) * n
        BY <1>2, <3>1 DEF Place, n
      <4> QED BY <4>1, <4>2
    <3>3. page * n = s.end /\ page * n < Half
      BY <2>1, <2>3
    <3> QED BY <1>2, <1>3, <1>5, <2>2, <3>1, <3>2, <3>3 DEF Shown, NoneSkipped
  <2>4. CASE ~s.more
    <3>1. pc' = "done"
      BY <1>1, <1>2, <1>7, <2>4
    <3>2. \A p \in steady : Rank(p) <= s.end
      BY <1>5, <2>1, <2>4, RankType DEF N
    <3> QED BY <1>2, <1>3, <1>5, <2>2, <3>1, <3>2 DEF Shown, NoneSkipped
  <2> QED BY <2>3, <2>4
<1> QED BY <1>6, <1>7

(* A file that leaves the place p, for the end of the list or for good, lets *)
(* only those close up that stood behind it.                               *)
LEMMA OthersStayBehind ==
  ASSUME TypeOK, sort' = sort, NEW p \in Listed, Rank(p) > Place, Place \in Nat,
         NEW q \in Listed, q # p, q \in Listed',
         \A r \in Paths : r # p => time'[r] = time[r]
  PROVE  Rank(q)' \in Nat /\ (Rank(q) <= Place \/ Rank(q)' > Place)
<1>1. Listed \subseteq Paths /\ p \in Paths /\ q \in Paths /\ Rank(q) \in Nat
  BY RankType
<1>2. \A r \in Listed : r # p => r \in Listed' /\ (Before(r, q)' <=> Before(r, q))
  <2> SUFFICES ASSUME NEW r \in Listed, r # p
               PROVE  r \in Listed' /\ (Before(r, q)' <=> Before(r, q))
    OBVIOUS
  <2>1. time'[r] = time[r] /\ time'[q] = time[q]
    BY <1>1
  <2>2. r \in Listed'
    BY <2>1 DEF Listed
  <2> QED BY <2>1, <2>2, OrderKept
<1>3. CASE Before(p, q)
  <2>1. q \notin Below(p)
    BY <1>1, <1>3, BeforeIsTotal DEF Below
  <2>2. \A r \in Below(p) \ {p} : r \in Below(q)'
    <3> SUFFICES ASSUME NEW r \in Listed, r # p, Before(r, p) PROVE r \in Below(q)'
      BY DEF Below
    <3>1. Before(r, q)
      BY <1>1, <1>3, BeforeIsTotal
    <3> QED BY <1>2, <3>1 DEF Below
  <2>3. (Below(p) \ {p}) \cup {q} \subseteq Below(q)'
    BY <2>2 DEF Below
  <2>4. Rank(p) \in Nat /\ Rank(q)' \in Nat /\ Rank(p) <= Rank(q)'
    BY <2>1, <2>3, RankBehind
  <2> QED BY <2>4
<1>4. CASE ~Before(p, q)
  <2>1. Below(q) \subseteq Below(q)'
    BY <1>2, <1>4 DEF Below
  <2>2. Rank(q) \in Nat /\ Rank(q)' \in Nat /\ Rank(q) <= Rank(q)'
    BY <2>1, RankGrows
  <2> QED BY <2>2
<1> QED BY <1>3, <1>4

LEMMA ShownChange ==
  ASSUME TypeOK, Shown, NEW p \in Paths, Adds(p) \/ Removes(p) \/ Touches(p)
  PROVE  Shown'
<1>1. pc = "walking" /\ UNCHANGED <<pc, sort, size, page, seen>> /\ Place' = Place
  BY DEF Adds, Removes, Touches, Changes, client, Place
<1>2. /\ \A r \in Paths : r # p => time'[r] = time[r]
      /\ Listed \subseteq Paths
  <2>1. time \in [Paths -> Times \cup {0}]
    BY DEF TypeOK
  <2>2. \E t : time' = [time EXCEPT ![p] = t]
    BY DEF Adds, Removes, Touches
  <2> QED BY <2>1, <2>2, RankType
<1>3. \A q \in Paths : q # p => (q \in Listed' <=> q \in Listed)
  BY <1>2 DEF Listed
<1>4. /\ steady \subseteq Listed /\ Place < Half /\ Place \in Nat
      /\ ~closedUp => \A q \in steady : Rank(q) <= Place => q \in seen
  BY <1>1, PlaceType DEF Shown
<1>5. SUFFICES /\ steady' \subseteq Listed'
               /\ ~closedUp' => \A q \in steady' : Rank(q)' <= Place => q \in seen
  BY <1>1, <1>4 DEF Shown, NoneSkipped
<1>6. CASE Adds(p)
  <2>1. UNCHANGED <<steady, closedUp>> /\ p \notin Listed
    BY <1>6 DEF Adds, history, Listed
  <2>2. ASSUME NEW q \in steady PROVE Rank(q) \in Nat /\ Rank(q)' \in Nat /\ Rank(q) <= Rank(q)'
    <3>1. q \in Listed /\ q # p /\ q \in Paths
      BY <1>2, <1>4, <2>1
    <3>2. \A r \in Listed : r \in Listed' /\ (Before(r, q)' <=> Before(r, q))
      BY <1>1, <1>2, <1>3, <2>1, <3>1, OrderKept
    <3>3. Below(q) \subseteq Below(q)'
      BY <3>2 DEF Below
    <3> QED BY <3>3, RankGrows
  <2>3. ASSUME ~closedUp, NEW q \in steady, Rank(q)' <= Place PROVE q \in seen
    <3>1. Rank(q) <= Place
      BY <1>4, <2>2, <2>3
    <3> QED BY <1>4, <2>3, <3>1
  <2> QED BY <1>2, <1>3, <1>4, <2>1, <2>3
<1>7. CASE Removes(p)
  <2>1. steady' = steady \ {p} /\ (~closedUp' => ~closedUp /\ ~Sent(p))
    BY <1>7 DEF Removes
  <2>2. ASSUME ~closedUp', NEW q \in steady, q # p, Rank(q)' <= Place PROVE q \in seen
    <3>1. q \in Listed /\ q \in Paths /\ q \in Listed' /\ Rank(q) \in Nat /\ Rank(p) \in Nat
      BY <1>2, <1>3, <1>4, <2>2, RankType
    <3>2. CASE p \in Listed
      <4>1. Rank(p) > Place
        <5>1. ~(Rank(p) <= Place)
          BY <2>1, <2>2, <3>2 DEF Sent, Place
        <5> QED BY <1>4, <3>1, <5>1
      <4>2. Rank(q) <= Place
        BY <1>1, <1>2, <1>4, <2>2, <3>1, <3>2, <4>1, OthersStayBehind
      <4> QED BY <1>4, <2>1, <2>2, <4>2
    <3>3. CASE p \notin Listed
      <4>1. \A r \in Listed : r \in Listed' /\ (Before(r, q)' <=> Before(r, q))
        BY <1>1, <1>2, <1>3, <2>2, <3>1, <3>3, OrderKept
      <4>2. Rank(q) <= Rank(q)' /\ Rank(q)' \in Nat
        <5>1. Below(q) \subseteq Below(q)'
          BY <4>1 DEF Below
        <5> QED BY <5>1, RankGrows
      <4>3. Rank(q) <= Place
        BY <1>4, <2>2, <3>1, <4>2
      <4> QED BY <1>4, <2>1, <2>2, <4>3
    <3> QED BY <3>2, <3>3
  <2> QED BY <1>2, <1>3, <1>4, <2>1, <2>2
<1>8. CASE Touches(p)
  <2>1. PICK t \in Times : /\ \A q \in Paths : time[q] <= t
                           /\ time' = [time EXCEPT ![p] = t]
    BY <1>8 DEF Touches
  <2>2. /\ steady' = IF sort \in {"updatedAtDesc", "unknown"} THEN steady \ {p} ELSE steady
        /\ closedUp' = (closedUp \/ (sort = "updatedAtAsc" /\ Sent(p)))
    BY <1>8 DEF Touches
  <2>3. /\ Times \subseteq Nat \ {0} /\ Paths \subseteq Nat /\ t \in Nat \ {0}
        /\ time \in [Paths -> Nat] /\ time'[p] = t /\ time[p] # 0
        /\ sort \in Sorts
    <3>1. Times \subseteq Nat \ {0} /\ Paths \subseteq Nat
      BY PagingAssumption
    <3>2. time \in [Paths -> Times \cup {0}] /\ sort \in Sorts
      BY DEF TypeOK
    <3>3. t \in Nat \ {0} /\ time \in [Paths -> Nat]
      <4>1. Times \cup {0} \subseteq Nat
        BY <3>1
      <4>2. t \in Nat \ {0}
        BY <3>1
      <4> QED BY <3>2, <4>1, <4>2
    <3>4. time'[p] = t
      BY <2>1, <3>3
    <3>5. time[p] # 0
      BY <1>8 DEF Touches
    <3> QED BY <3>1, <3>2, <3>3, <3>4, <3>5
  <2>4. Listed' = Listed
    <3>1. \A r \in Paths : time'[r] # 0 <=> time[r] # 0
      BY <1>2, <2>3
    <3> QED BY <3>1, PagingAssumption DEF Listed
  <2>5. CASE sort \in {"updatedAtDesc", "unknown"}
    <3>1. ASSUME NEW q \in Listed, q # p, NEW r \in Listed, Before(r, q) PROVE Before(r, q)'
      <4>1. q \in Paths /\ r \in Paths /\ time'[q] = time[q]
        BY <1>2, <3>1
      <4>2. CASE r # p
        BY <1>1, <1>2, <3>1, <4>1, <4>2, OrderKept
      <4>3. CASE r = p
        <5>1. /\ time[p] <= t /\ time[q] <= t /\ p \in Nat /\ q \in Nat
              /\ time[p] \in Nat /\ time[q] \in Nat
          BY <2>1, <2>3, <4>1
        <5>2. time[p] > time[q] \/ (~(time[q] > time[p]) /\ p < q)
          BY <2>5, <3>1, <4>3 DEF Before, FirstKey
        <5>3. t > time[q] \/ (~(time[q] > t) /\ p < q)
          BY <2>3, <5>1, <5>2
        <5>4. Before(p, q)' <=> t > time[q] \/ (~(time[q] > t) /\ p < q)
          BY <1>1, <2>3, <2>5, <4>1 DEF Before, FirstKey
        <5> QED BY <4>3, <5>3, <5>4
      <4> QED BY <4>2, <4>3
    <3>2. ASSUME ~closedUp', NEW q \in steady', Rank(q)' <= Place PROVE q \in seen
      <4>1. q \in steady /\ q # p /\ q \in Listed /\ ~closedUp
        BY <1>4, <2>2, <2>5, <3>2
      <4>2. Below(q) \subseteq Below(q)'
        BY <2>4, <3>1, <4>1 DEF Below
      <4>3. Rank(q) <= Place
        BY <1>4, <3>2, <4>2, RankGrows
      <4> QED BY <1>4, <4>1, <4>3
    <3> QED BY <1>4, <2>2, <2>4, <2>5, <3>2
  <2>6. CASE sort = "updatedAtAsc"
    <3>1. steady' = steady /\ (~closedUp' => ~closedUp /\ ~Sent(p))
      BY <2>2, <2>6
    <3>2. ASSUME ~closedUp', NEW q \in steady, Rank(q)' <= Place PROVE q \in seen
      <4>1. q \in Listed /\ q \in Listed' /\ Rank(q) \in Nat /\ Rank(p) \in Nat
        BY <1>4, <2>4, RankType
      <4>2. CASE q = p
        <5>1. ASSUME NEW r \in Listed, Before(r, p) PROVE Before(r, p)'
          <6>1. /\ r \in Paths /\ time[r] \in Nat /\ time[p] \in Nat
                /\ time[p] <= t /\ time[r] <= t /\ r \in Nat /\ p \in Nat
            BY <1>2, <2>1, <2>3
          <6>2. time[r] < time[p] \/ (~(time[p] < time[r]) /\ r < p)
            BY <2>6, <5>1 DEF Before, FirstKey
          <6>3. r # p
            BY <6>1, <6>2
          <6>4. time'[r] = time[r]
            BY <1>2, <6>1, <6>3
          <6>5. time[r] < t \/ (~(t < time[r]) /\ r < p)
            BY <2>3, <6>1, <6>2
          <6>6. Before(r, p)' <=> time[r] < t \/ (~(t < time[r]) /\ r < p)
            BY <1>1, <2>3, <2>6, <6>4 DEF Before, FirstKey
          <6> QED BY <6>5, <6>6
        <5>2. Below(p) \subseteq Below(p)'
          BY <2>4, <5>1 DEF Below
        <5>3. Rank(p) <= Place
          BY <1>4, <3>2, <4>1, <4>2, <5>2, RankGrows
        <5> QED BY <1>4, <3>1, <3>2, <4>2, <5>3
      <4>3. CASE q # p /\ p \in Listed
        <5>1. Rank(p) > Place
          BY <1>4, <3>1, <3>2, <4>1, <4>3 DEF Sent, Place
        <5>2. Rank(q) <= Place
          BY <1>1, <1>2, <1>4, <3>2, <4>1, <4>3, <5>1, OthersStayBehind
        <5> QED BY <1>4, <3>1, <3>2, <5>2
      <4>4. CASE p \notin Listed
        <5>1. \A r \in Listed : Before(r, q)' <=> Before(r, q)
          BY <1>1, <1>2, <4>1, <4>4, OrderKept
        <5>2. Below(q) \subseteq Below(q)'
          BY <2>4, <5>1 DEF Below
        <5>3. Rank(q) <= Place
          BY <1>4, <3>2, <4>1, <5>2, RankGrows
        <5> QED BY <1>4, <3>1, <3>2, <5>3
      <4> QED BY <4>2, <4>3, <4>4
    <3> QED BY <1>4, <2>4, <3>1, <3>2
  <2>7. CASE sort \in {"nameAsc", "nameDesc"}
    <3>1. \A q, r : Before(r, q)' <=> Before(r, q)
      BY <1>1, <2>7 DEF Before, FirstKey
    <3>2. \A q : Rank(q)' = Rank(q)
      BY <2>4, <3>1 DEF Rank
    <3> QED BY <1>4, <2>2, <2>4, <2>7, <3>2
  <2> QED BY <2>3, <2>5, <2>6, <2>7 DEF Sorts
<1> QED BY <1>6, <1>7, <1>8

LEMMA ShownStep == TypeOK /\ Shown /\ [Next]_vars => Shown'
<1> SUFFICES ASSUME TypeOK, Shown, [Next]_vars PROVE Shown'
  OBVIOUS
<1>1. ASSUME NEW p, NEW n, Ask(p, n) PROVE Shown'
  <2>1. /\ pc = "idle" /\ pc' \in {"idle", "panicked"}
        /\ UNCHANGED <<time, sort, size, page, seen, steady, closedUp>>
    BY <1>1 DEF Ask, history
  <2>2. Listed' = Listed
    BY <2>1 DEF Listed
  <2> QED BY <2>1, <2>2 DEF Shown, NoneSkipped
<1>2. ASSUME NEW n, AskAll(n) PROVE Shown'
  <2>1. /\ pc = "idle" /\ pc' = "idle"
        /\ UNCHANGED <<time, sort, size, page, seen, steady, closedUp>>
    BY <1>2 DEF AskAll, history
  <2>2. Listed' = Listed
    BY <2>1 DEF Listed
  <2> QED BY <2>1, <2>2 DEF Shown, NoneSkipped
<1>3. CASE BeginWalk
  <2>1. /\ page = 1 /\ pc' = "walking" /\ steady' = Listed
        /\ UNCHANGED <<time, sort, size, page, seen, closedUp>>
    BY <1>3 DEF BeginWalk, Shown
  <2>2. Place' = 0 /\ 0 < Half
    <3>1. \A n \in Nat : (1 - 1) * n = 0
      OBVIOUS
    <3> QED BY <2>1, <3>1, PlaceType, PagingAssumption DEF Place
  <2>3. Listed' = Listed /\ \A q : Rank(q)' = Rank(q)
    BY <2>1 DEF Listed, Rank, Before, FirstKey
  <2>4. \A q \in steady' : ~(Rank(q)' <= Place')
    BY <2>1, <2>2, <2>3, RankType
  <2> QED BY <2>1, <2>2, <2>3, <2>4 DEF Shown, NoneSkipped
<1>4. CASE NextPage
  BY <1>4, ShownPage
<1>5. ASSUME NEW p \in Paths, Adds(p) \/ Removes(p) \/ Touches(p) PROVE Shown'
  BY <1>5, ShownChange
<1>6. CASE UNCHANGED vars
  <2>1. UNCHANGED <<time, pc, sort, size, page, seen, steady, closedUp>>
    BY <1>6 DEF vars, client, history
  <2>2. Listed' = Listed /\ (\A q : Rank(q)' = Rank(q)) /\ Place' = Place
    BY <2>1 DEF Listed, Rank, Before, FirstKey, Place
  <2> QED BY <2>1, <2>2 DEF Shown, NoneSkipped
<1> QED BY <1>1, <1>2, <1>3, <1>4, <1>5, <1>6 DEF Next

(* A client that walks to the last page is shown every file that stays,     *)
(* unless a file leaves the pages already sent.                            *)
THEOREM NoneIsSkipped == Spec => []NoneSkipped
<1>1. PagingInv => TypeOK
  BY DEF PagingInv
<1>2. Shown => NoneSkipped
  BY DEF Shown
<1> QED BY <1>1, <1>2, PagingInit, PagingStep, ShownInit, ShownStep, PTL DEF Spec
-----------------------------------------------------------------------------
(* The file list cache and the imports of ReplayCache, for any number of    *)
(* files, walks, failures and game servers.                                *)

(* The three facts behind the visibility of an import: what was imported    *)
(* and no older walk has overtaken is on disk, among the names of every     *)
(* walk that has read the directory, and in the cache if there is one.      *)
Overtaking ==
  /\ imported \subseteq Present
  /\ \A w \in Walkers : walk[w] = "reading" => imported \ overtaken \subseteq found[w]
  /\ cache # None => imported \ overtaken \subseteq cache

(* Between the look at the target and the rename, a game server's file of   *)
(* that name can only be one the look has not seen.                        *)
LookHeld == importPc = "rename" /\ disk[name] = "theirs" => name \in unseen

(* The handler's state, its own walk and the file it imports fit together    *)
(* through every walk, import, failure and restart.                        *)
THEOREM CacheTypeCorrect ==
  CacheSpec => []CacheTypeOK
<1>1. CacheInit => CacheTypeOK
  <2> SUFFICES ASSUME CacheInit PROVE CacheTypeOK
    OBVIOUS
  <2>1. /\ walk \in [Walkers -> {"off", "begun", "reading"}]
        /\ walk[Main] = "off"
    BY ReplayAssumption DEF CacheInit, Walkers
  <2>2. FALSE \in BOOLEAN /\ {} \subseteq Names /\ {0} \subseteq Nat
    OBVIOUS
  <2> QED BY <2>1, <2>2, ReplayAssumption DEF CacheInit, CacheTypeOK
<1>2. CacheTypeOK /\ [CacheNext]_cacheVars => CacheTypeOK'
  <2> SUFFICES ASSUME CacheTypeOK, [CacheNext]_cacheVars PROVE CacheTypeOK'
    OBVIOUS
  <2> USE ReplayAssumption DEF CacheTypeOK
  <2>1. CASE ListCached
    BY <2>1 DEF ListCached, EndCommand, Begin, walks, cacheHistory,
           Walkers
  <2>2. CASE ListMissing
    BY <2>2 DEF ListMissing, Goto, Begin, cacheHistory, Walkers
  <2>3. ASSUME NEW w \in Walkers, ReadNames(w) PROVE CacheTypeOK'
    BY <2>3 DEF ReadNames, Present, importVars, cacheHistory, Walkers
  <2>4. ASSUME NEW w \in Walkers, Store(w) PROVE CacheTypeOK'
    BY <2>4 DEF Store, Ends, EndCommand, importVars, cacheHistory, Walkers
  <2>5. ASSUME NEW w \in Walkers, WalkFails(w) PROVE CacheTypeOK'
    BY <2>5 DEF WalkFails, Ends, EndCommand, Fault, importVars,
           cacheHistory, Walkers
  <2>6. CASE WarmerTicks
    BY <2>6 DEF WarmerTicks, WarmerMayWalk, Begin, importVars, cacheHistory,
           Walkers
  <2>7. CASE Expire
    BY <2>7 DEF Expire, walks, importVars, cacheHistory
  <2>8. CASE Import
    <3>1. ASSUME NEW n \in Names, ReceiveImport(n) PROVE CacheTypeOK'
      BY <3>1 DEF ReceiveImport, walks, cacheHistory, Walkers
    <3>2. CASE Download
      BY <3>2 DEF Download, Goto, EndCommand, walks, cacheHistory
    <3>3. CASE StatTarget
      BY <3>3 DEF StatTarget, Goto, EndCommand, walks, cacheHistory
    <3>4. CASE StatFails
      BY <3>4 DEF StatFails, Fault, Goto, walks
    <3>5. CASE Rename
      BY <3>5 DEF Rename, Goto, walks
    <3>6. CASE Invalidate
      BY <3>6 DEF Invalidate, Invalidated, Present, Goto, walks
    <3>7. CASE Confirm
      BY <3>7 DEF Confirm, EndCommand, walks, cacheHistory
    <3>8. CASE ImportFails
      BY <3>8 DEF ImportFails, Fault, EndCommand, walks
    <3> HIDE DEF CacheTypeOK
    <3> QED BY <2>8, <3>1, <3>2, <3>3, <3>4, <3>5, <3>6, <3>7, <3>8 DEF Import
  <2>9. ASSUME NEW n \in Names, Creates(n) PROVE CacheTypeOK'
    BY <2>9 DEF Creates, walks, importVars
  <2>10. ASSUME NEW n \in Names, Deletes(n) PROVE CacheTypeOK'
    BY <2>10 DEF Deletes, walks, importVars
  <2>11. CASE Crash
    <3>1. /\ walk' \in [Walkers -> {"off", "begun", "reading"}]
          /\ found' \in [Walkers -> SUBSET Names]
          /\ walk'[Main] = "off"
      BY <2>11 DEF Crash, Walkers
    <3>3. /\ UNCHANGED <<disk, imported, overtaken, diskEvents>>
          /\ cache' = None /\ expired' = FALSE /\ importPc' = "idle" /\ name' = None /\ unseen' = {}
          /\ faults' = faults + 1
      BY <2>11 DEF Crash, Fault
    <3> HIDE DEF CacheTypeOK
    <3>4. expired' \in BOOLEAN
      BY <3>3
    <3>9. {faults', diskEvents'} \subseteq Nat
      BY <3>3 DEF CacheTypeOK
    <3>5. /\ disk' \in [Names -> {"absent", "theirs", "ours"}]
          /\ imported' \subseteq Names /\ overtaken' \subseteq Names /\ unseen' \subseteq Names
      BY <3>3 DEF CacheTypeOK
    <3>6. importPc' = "walk" <=> walk'[Main] # "off"
      BY <3>1, <3>3
    <3>7. name' \in Names \cup {None} /\ (importPc' \in {"idle", "walk"} <=> name' = None)
      BY <3>3
    <3>8. importPc' \in {"idle", "walk", "download", "stat", "rename", "invalidate", "confirm"}
      BY <3>3
    <3> QED BY <3>1, <3>3, <3>4, <3>5, <3>6, <3>7, <3>8, <3>9 DEF CacheTypeOK
  <2>12. CASE UNCHANGED cacheVars
    BY <2>12 DEF cacheVars, walks, importVars, cacheHistory
  <2> HIDE DEF CacheTypeOK
  <2> QED BY <2>1, <2>2, <2>3, <2>4, <2>5, <2>6, <2>7, <2>8, <2>9, <2>10, <2>11, <2>12
          DEF CacheNext, Walking
<1> QED BY <1>1, <1>2, PTL DEF CacheSpec

LEMMA VisibleInit == CacheInit => Overtaking
BY DEF CacheInit, Overtaking

(* A walk takes in all there is when it reads the names; an import looks    *)
(* for walks that have already read them and empties the cache.            *)
LEMMA VisibleStep ==
  CacheTypeOK /\ Overtaking /\ [CacheNext]_cacheVars => Overtaking'
<1> SUFFICES ASSUME CacheTypeOK, Overtaking, [CacheNext]_cacheVars PROVE Overtaking'
  OBVIOUS
<1> USE ReplayAssumption DEF Overtaking, Present
<1>1. CASE ListCached
  BY <1>1 DEF ListCached, EndCommand, Begin, walks, cacheHistory, CacheTypeOK
<1>2. CASE ListMissing
  BY <1>2 DEF ListMissing, Goto, Begin, cacheHistory, CacheTypeOK
<1>3. ASSUME NEW w \in Walkers, ReadNames(w) PROVE Overtaking'
  BY <1>3 DEF ReadNames, importVars, cacheHistory, CacheTypeOK
<1>4. ASSUME NEW w \in Walkers, Store(w) PROVE Overtaking'
  BY <1>4 DEF Store, Ends, EndCommand, importVars, cacheHistory, CacheTypeOK
<1>5. ASSUME NEW w \in Walkers, WalkFails(w) PROVE Overtaking'
  BY <1>5 DEF WalkFails, Ends, EndCommand, Fault, importVars,
         cacheHistory, CacheTypeOK
<1>6. CASE WarmerTicks
  BY <1>6 DEF WarmerTicks, WarmerMayWalk, Begin, importVars, cacheHistory,
         CacheTypeOK
<1>7. CASE Expire
  BY <1>7 DEF Expire, walks, importVars, cacheHistory
<1>8. CASE Import
  <2>1. CASE Rename
    BY <2>1 DEF Rename, Goto, walks, CacheTypeOK
  <2>2. CASE Invalidate
    <3>1. ASSUME NEW w \in Walkers, walk[w] = "reading"
          PROVE  imported' \ overtaken' \subseteq found[w]
      <4>1. CASE \E v \in Walkers : Missed(v, name)
        BY <2>2, <3>1, <4>1 DEF Invalidate
      <4>2. CASE ~\E v \in Walkers : Missed(v, name)
        BY <2>2, <3>1, <4>2 DEF Invalidate, Missed
      <4> QED BY <4>1, <4>2
    <3>2. cache' = None /\ imported' \subseteq Present /\ UNCHANGED <<disk, walk, found>>
      BY <2>2 DEF Invalidate, Invalidated, walks
    <3> QED BY <3>1, <3>2
  <2>3. CASE UNCHANGED <<disk, cache, walks, imported, overtaken>>
    BY <2>3 DEF walks
  <2> QED BY <1>8, <2>1, <2>2, <2>3 DEF Import, ReceiveImport, Download,
         StatTarget,
             StatFails, Confirm, ImportFails, walks, cacheHistory
<1>9. ASSUME NEW n \in Names, Creates(n) PROVE Overtaking'
  BY <1>9 DEF Creates, walks, importVars, CacheTypeOK
<1>10. ASSUME NEW n \in Names, Deletes(n) PROVE Overtaking'
  BY <1>10 DEF Deletes, walks, importVars, CacheTypeOK
<1>11. CASE Crash
  BY <1>11 DEF Crash
<1>12. CASE UNCHANGED cacheVars
  BY <1>12 DEF cacheVars, walks, cacheHistory
<1> QED BY <1>1, <1>2, <1>3, <1>4, <1>5, <1>6, <1>7, <1>8, <1>9, <1>10, <1>11, <1>12
        DEF CacheNext, Walking

(* After an import no list without the new file is served, unless a walk    *)
(* that had read the names before the import was stored behind it.         *)
THEOREM ImportIsVisible ==
  CacheSpec => []ImportVisible
<1>1. CacheTypeOK /\ Overtaking => ImportVisible
  BY DEF Overtaking, ImportVisible
<1> QED BY <1>1, CacheTypeCorrect, VisibleInit, VisibleStep, PTL DEF CacheSpec

LEMMA LookStep ==
  CacheTypeOK /\ LookHeld /\ [CacheNext]_cacheVars => LookHeld'
<1> SUFFICES ASSUME CacheTypeOK, LookHeld, [CacheNext]_cacheVars PROVE LookHeld'
  OBVIOUS
<1> USE ReplayAssumption DEF LookHeld
<1>1. CASE ListCached \/ ListMissing \/ Crash
  BY <1>1 DEF ListCached, ListMissing, Crash, Goto, EndCommand
<1>2. ASSUME NEW w \in Walkers,
       ReadNames(w) \/ Store(w) \/ WalkFails(w) PROVE LookHeld'
  BY <1>2 DEF ReadNames, Store, WalkFails, EndCommand, importVars,
         cacheHistory
<1>3. CASE WarmerTicks \/ Expire \/ UNCHANGED cacheVars
  BY <1>3 DEF WarmerTicks, Expire, cacheVars, importVars, cacheHistory
<1>4. CASE StatTarget
  BY <1>4 DEF StatTarget, Exists, Goto, EndCommand
<1>5. CASE StatFails
  BY <1>5 DEF StatFails, Goto, CacheTypeOK
<1>6. CASE Import /\ importPc' # "rename"
  BY <1>6
<1>7. CASE Import /\ ~(StatTarget \/ StatFails) /\ importPc' = "rename"
  BY <1>7 DEF Import, ReceiveImport, Download, Rename,
         Invalidate, Confirm, ImportFails, Goto, EndCommand
<1>8. ASSUME NEW n \in Names, Creates(n) PROVE LookHeld'
  BY <1>8 DEF Creates, importVars, CacheTypeOK
<1>9. ASSUME NEW n \in Names, Deletes(n) PROVE LookHeld'
  BY <1>9 DEF Deletes, importVars, CacheTypeOK
<1> QED BY <1>1, <1>2, <1>3, <1>4, <1>5, <1>6, <1>7, <1>8, <1>9 DEF CacheNext, Walking

(* No step replaces a game server's file that the import's look could have   *)
(* seen.                                                                   *)
THEOREM ImportsKeepTheirs ==
  CacheSpec => ImportKeepsTheirs
<1> DEFINE Kept == \A n \in Names : disk[n] = "theirs" /\ disk'[n] = "ours" => n \in unseen
<1>1. CacheInit => LookHeld
  BY DEF CacheInit, LookHeld
<1>2. CacheTypeOK /\ LookHeld /\ [CacheNext]_cacheVars => [Kept]_cacheVars
  <2> SUFFICES ASSUME CacheTypeOK, LookHeld, CacheNext PROVE Kept
    OBVIOUS
  <2>1. CASE Rename
    BY <2>1 DEF Rename, LookHeld, CacheTypeOK
  <2>2. ASSUME NEW n \in Names, Creates(n) PROVE Kept
    BY <2>2 DEF Creates, CacheTypeOK
  <2>3. ASSUME NEW n \in Names, Deletes(n) PROVE Kept
    BY <2>3 DEF Deletes, CacheTypeOK
  <2>4. CASE disk' = disk
    BY <2>4
  <2> QED BY <2>1, <2>2, <2>3, <2>4 DEF CacheNext, ListCached, ListMissing,
         Walking, ReadNames,
         Store, WalkFails, WarmerTicks, Expire, Import,
         ReceiveImport, Download, StatTarget,
         StatFails, Invalidate, Confirm, ImportFails, Crash
<1> QED BY <1>1, <1>2, CacheTypeCorrect, LookStep, PTL DEF CacheSpec, ImportKeepsTheirs
-----------------------------------------------------------------------------
(* The exports of ReplayTransfer, for files of every length, every limit,   *)
(* buffer and timeout.                                                     *)

(* The handler has the file open that it hashes, the request the one it    *)
(* sends.                                                                  *)
Opened == /\ exportPc = "hash" => opened # 0
          /\ exportPc = "send" => body # 0

(* What is left of a file behind the bytes that were read of it.            *)
LEMMA RestIsBytes == \A s \in Seq(Bytes), done \in Seq(Bytes) :
         /\ SubSeq(s, Len(done) + 1, Len(s)) \in Seq(Bytes)
         /\ Len(SubSeq(s, Len(done) + 1,
                Len(s))) = IF Len(done) < Len(s) THEN Len(s) - Len(done) ELSE 0
OBVIOUS

LEMMA ReadIsBytes ==
  ASSUME NEW done \in Seq(Bytes), NEW rest \in Seq(Bytes),
         NEW n \in 1..Len(rest)
  PROVE  /\ done \o SubSeq(rest, 1, n) \in Seq(Bytes)
         /\ Len(done \o SubSeq(rest, 1, n)) = Len(done) + n
OBVIOUS

LEMMA TransferTypeInit ==
  TransferInit => TransferTypeOK /\ Opened
<1> SUFFICES ASSUME TransferInit PROVE TransferTypeOK /\ Opened
  OBVIOUS
<1>1. inode \in [Files -> Seq(Bytes)]
  <2>1. [k \in 1..FirstSize |-> k] \in Seq(Bytes) /\ <<>> \in Seq(Bytes)
    BY TransferAssumption DEF Bytes
  <2> QED BY <2>1 DEF TransferInit
<1>2. deadline \in BOOLEAN
  BY DEF TransferInit
<1>3. sentBy \in [0..Timeout -> Nat]
  BY DEF TransferInit
<1>4. /\ 1 \in Files /\ <<>> \in Seq(Bytes) /\ FirstSize + 1 \in Bytes
      /\ 0 \in 0..Timeout /\ 0 \in 0..Chunk /\ 0 \in 0..0
  BY TransferAssumption DEF Files, Bytes
<1> QED BY <1>1, <1>2, <1>3, <1>4 DEF TransferInit, TransferTypeOK, Opened

LEMMA TransferTypeStep ==
  TransferTypeOK /\ Opened /\ [TransferNext]_transferVars => TransferTypeOK' /\ Opened'
<1> SUFFICES ASSUME TransferTypeOK, Opened,
       [TransferNext]_transferVars PROVE TransferTypeOK' /\ Opened'
  OBVIOUS
<1> USE TransferAssumption DEF TransferTypeOK, Opened
<1>1. CASE Stat
  BY <1>1 DEF Stat, fileVars, request, window
<1>2. CASE Open
  BY <1>2 DEF Open, fileVars, request, window
<1>3. CASE Hash
  <2>1. PICK n \in 1..Len(Rest(opened, digest)) :
           digest' = digest \o SubSeq(Rest(opened, digest), 1, n)
    BY <1>3 DEF Hash
  <2>2. Rest(opened, digest) \in Seq(Bytes)
    BY <1>3, RestIsBytes DEF Hash, Rest
  <2>3. digest' \in Seq(Bytes)
    BY <2>1, <2>2, ReadIsBytes
  <2> QED BY <1>3, <2>3 DEF Hash, fileVars, request, window
<1>4. CASE HashEnds
  BY <1>4 DEF HashEnds, fileVars, request, window
<1>5. CASE Upload
  BY <1>5 DEF Upload, fileVars, window
<1>6. CASE Fails
  BY <1>6 DEF Fails, fileVars, request, window
<1>7. CASE Accepts
  BY <1>7 DEF Accepts, Sending, fileVars, request,
         window
<1>8. CASE GivesUp
  BY <1>8 DEF GivesUp, fileVars, request, window
<1>9. CASE Enter
  <2>1. Remaining \in Int /\ NewWindow \in BOOLEAN
    BY DEF Remaining, NewWindow
  <2>2. Remaining > 0 => Clipped(Remaining) \in 0..Chunk
    BY <2>1 DEF Clipped, Least
  <2>3. clip' \in 0..Chunk /\ reader' \in {"asleep", "reading"}
    BY <1>9, <2>1, <2>2 DEF Enter
  <2>4. windowStart' \in {windowStart, now} /\ allowance' \in {allowance, 0}
    BY <1>9 DEF Enter, window
  <2>5. windowStart' \in 0..now /\ allowance' \in Nat
    BY <2>4
  <2> QED BY <1>9, <2>3, <2>5 DEF Enter, fileVars, exportVars
<1>10. CASE Wake
  <2>1. Clipped(limit) \in 0..Chunk
    BY DEF Clipped, Least
  <2> QED BY <1>10, <2>1 DEF Wake, fileVars, exportVars
<1>11. CASE Read
  <2>1. PICK n \in 1..Least(clip, Len(Rest(body, sent))) :
           /\ sent' = sent \o SubSeq(Rest(body, sent), 1, n)
           /\ allowance' = allowance + n
           /\ sentBy' = [t \in 0..Timeout |-> IF t < now THEN sentBy[t] ELSE sentBy[t] + n]
    BY <1>11 DEF Read
  <2>2. Rest(body, sent) \in Seq(Bytes)
    BY <1>11, RestIsBytes DEF Read, Rest, Sending
  <2>3. n \in 1..Len(Rest(body, sent))
    BY <2>2 DEF Least
  <2>4. sent' \in Seq(Bytes)
    BY <2>1, <2>2, <2>3, ReadIsBytes
  <2>5. n \in Nat
    BY <2>3
  <2>6. \A t \in 0..Timeout : sentBy[t] \in Nat /\ sentBy[t] + n \in Nat
    <3>1. sentBy \in [0..Timeout -> Nat]
      OBVIOUS
    <3> HIDE TransferAssumption DEF TransferTypeOK, Opened
    <3> QED BY <2>5, <3>1
  <2>7. sentBy' \in [0..Timeout -> Nat]
    BY <2>1, <2>6
  <2>8. allowance' \in Nat
    BY <2>1, <2>5
  <2>9. /\ reader' = "ready" /\ clip' = 0 /\ 0 \in 0..Chunk
        /\ UNCHANGED <<fileVars, exportVars, limit, now, deadline, body,
               windowStart>>
    BY <1>11 DEF Read
  <2> QED BY <2>4, <2>7, <2>8, <2>9 DEF fileVars, exportVars
<1>12. CASE EndOfBody
  BY <1>12 DEF EndOfBody, fileVars, exportVars, window
<1>13. CASE TimesOut
  BY <1>13 DEF TimesOut, fileVars, exportVars, request,
         window
<1>14. CASE Tick
  BY <1>14 DEF Tick, fileVars, exportVars, request, window
<1>15. ASSUME NEW how \in {"grown", "other"}, FileChanges(how),
              path' \in Files \cup {0},
                     inode' \in [Files -> Seq(Bytes)],
                            fresh' \in Bytes
       PROVE  TransferTypeOK' /\ Opened'
  <2>1. fileEvents' \in Nat /\ change' \in {"none", "grown", "other"}
    BY <1>15 DEF FileChanges
  <2>2. UNCHANGED <<exportPc, exportSize, opened, digest, outcome, limit, now, deadline, body,
         reader, clip,
                    allowance, windowStart, sent, sentBy>>
    BY <1>15 DEF FileChanges, exportVars, request, window
  <2> QED BY <1>15, <2>1, <2>2
<1>16. CASE Grows
  <2>1. inode' \in [Files -> Seq(Bytes)] /\ fresh' \in Bytes
    BY <1>16 DEF Grows, Bytes
  <2> QED BY <1>15, <1>16, <2>1 DEF Grows
<1>17. CASE Restarts
  <2>1. inode' \in [Files -> Seq(Bytes)] /\ fresh' \in Bytes
    BY <1>17 DEF Restarts, Bytes
  <2> QED BY <1>15, <1>17, <2>1 DEF Restarts
<1>18. CASE Replaced
  <2>1. fileEvents + 2 \in Files
    BY <1>18 DEF Replaced, FileChanges, Files
  <2>2. <<fresh>> \in Seq(Bytes) /\ fresh' \in Bytes
    BY <1>18 DEF Replaced, Bytes
  <2>3. inode' \in [Files -> Seq(Bytes)]
    BY <1>18, <2>2 DEF Replaced
  <2> QED BY <1>15, <1>18, <2>1, <2>2, <2>3 DEF Replaced
<1>19. CASE Deleted
  BY <1>15, <1>19 DEF Deleted
<1>20. CASE UNCHANGED transferVars
  BY <1>20 DEF transferVars, fileVars, exportVars, request, window
<1> HIDE DEF TransferTypeOK, Opened
<1> QED BY <1>1, <1>2, <1>3, <1>4, <1>5, <1>6, <1>7, <1>8, <1>9, <1>10, <1>11, <1>12, <1>13,
           <1>14, <1>16, <1>17, <1>18, <1>19, <1>20 DEF TransferNext, Export,
                  Body

(* The state of an export is well formed whatever happens to the file.     *)
THEOREM TransferTypeCorrect ==
  TransferSpec => [](TransferTypeOK /\ Opened)
BY TransferTypeInit, TransferTypeStep, PTL DEF TransferSpec

(* The rate.  What was sent before this window opened.                     *)
Earlier == Len(sent) - allowance

(* Why no second carries more than two windows' bytes: the window before    *)
(* this one opened at least a second before it, so whatever was sent from   *)
(* then on and before this window is the share of one window, and what is   *)
(* sent from a tick after its opening on belongs to this one.               *)
Windows == limit > 0 =>
  /\ \A u \in now..Timeout : sentBy[u] = Len(sent)
  /\ \A u \in 0..Timeout : sentBy[u] <= Len(sent)
  /\ allowance + clip <= limit /\ allowance <= Len(sent)
  /\ \A t \in 0..Timeout : t > windowStart => Earlier <= SentBefore(t)
  /\ \A t \in 0..Timeout : t > windowStart - Second => Earlier - SentBefore(t) <= limit
  /\ \A t \in 0..Timeout : SentFrom(t) <= 2 * limit
  /\ Earlier <= limit * (windowStart \div Second)

(* A second more is one more in the count of whole seconds.                *)
LEMMA DivStep ==
  ASSUME NEW n \in Nat \ {0}, NEW x \in Nat, NEW y \in Nat
  PROVE  /\ x \div n \in Nat
         /\ x <= y => x \div n <= y \div n
         /\ x + n <= y => (x \div n) + 1 <= y \div n
<1>1. x \div n \in Nat /\ y \div n \in Nat
  OBVIOUS
<1> DEFINE q == x \div n
           r == y \div n
<1>2. q * n <= x /\ x < (q + 1) * n
  OBVIOUS
<1>3. r * n <= y /\ y < (r + 1) * n
  OBVIOUS
<1>4. q \in Nat /\ r \in Nat
  BY <1>1
<1> HIDE DEF q, r
<1>5. (q + 1) * n = q * n + n /\ (r + 1) * n = r * n + n
  BY <1>4
<1>6. \A a, b \in Nat : a * n < b * n => a < b
  OBVIOUS
<1>7. q * n \in Nat /\ r * n \in Nat /\ r + 1 \in Nat /\ q + 1 \in Nat
  BY <1>4
<1>8. ASSUME x <= y PROVE q <= r
  <2>1. q * n < (r + 1) * n
    BY <1>2, <1>3, <1>5, <1>7, <1>8
  <2> QED BY <1>4, <1>6, <1>7, <2>1
<1>9. ASSUME x + n <= y PROVE q + 1 <= r
  <2>1. (q + 1) * n < (r + 1) * n
    BY <1>2, <1>3, <1>5, <1>7, <1>9
  <2> QED BY <1>4, <1>6, <1>7, <2>1
<1> QED BY <1>1, <1>8, <1>9 DEF q, r

LEMMA TimesMonotone == \A k, x, y \in Nat : x <= y => k * x <= k * y
OBVIOUS

LEMMA WindowTypes ==
  TransferTypeOK =>
        /\ Second \in Nat \ {0} /\ Timeout \in Nat /\ limit \in Nat /\ now \in Nat /\ now <= Timeout
        /\ windowStart \in Nat /\ windowStart <= now /\ allowance \in Nat /\ clip \in Nat
        /\ Len(sent) \in Nat /\ Earlier \in Int
        /\ \A t \in 0..Timeout : sentBy[t] \in Nat /\ SentBefore(t) \in Nat
<1> SUFFICES ASSUME TransferTypeOK PROVE
  /\ Second \in Nat \ {0} /\ Timeout \in Nat /\ limit \in Nat /\ now \in Nat /\ now <= Timeout
  /\ windowStart \in Nat /\ windowStart <= now /\ allowance \in Nat /\ clip \in Nat
  /\ Len(sent) \in Nat /\ Earlier \in Int
  /\ \A t \in 0..Timeout : sentBy[t] \in Nat /\ SentBefore(t) \in Nat
  OBVIOUS
<1>1. Second \in Nat \ {0} /\ Timeout \in Nat /\ Chunk \in Nat
  BY TransferAssumption
<1>2. /\ limit \in Nat /\ now \in Nat /\ now <= Timeout
      /\ windowStart \in Nat /\ windowStart <= now /\ allowance \in Nat /\ clip \in Nat
  BY <1>1, TransferAssumption DEF TransferTypeOK
<1>3. Len(sent) \in Nat
  BY DEF TransferTypeOK
<1>4. sentBy \in [0..Timeout -> Nat]
  BY DEF TransferTypeOK
<1>5. \A t \in 0..Timeout : sentBy[t] \in Nat /\ SentBefore(t) \in Nat
  BY <1>1, <1>4 DEF SentBefore
<1> QED BY <1>1, <1>2, <1>3, <1>5 DEF Earlier

LEMMA WindowsInit ==
  TransferInit => Windows
<1> SUFFICES ASSUME TransferInit, limit > 0 PROVE Windows
  BY DEF Windows
<1>1. Len(sent) = 0 /\ allowance = 0 /\ clip = 0 /\ windowStart = 0 /\ now = 0 /\ Earlier = 0
  BY DEF TransferInit, Earlier
<1>2. /\ limit \in Nat /\ Second \in Nat \ {0} /\ Timeout \in Nat
      /\ \A u \in 0..Timeout : sentBy[u] = 0
  BY TransferAssumption DEF TransferInit
<1>3. \A t \in 0..Timeout : SentBefore(t) = 0 /\ SentFrom(t) = 0
  BY <1>2 DEF SentBefore, SentFrom, Least
<1>4. limit * (windowStart \div Second) = 0
  BY <1>1, <1>2
<1> QED BY <1>1, <1>2, <1>3, <1>4 DEF Windows

(* A window opens: all of the last one lies in a second and more before.   *)
LEMMA WindowOpens ==
  ASSUME TransferTypeOK, TransferTypeOK', Windows,
         NewWindow,
         windowStart' = now, allowance' = 0, limit > 0 => clip' <= limit,
         UNCHANGED <<sent, sentBy, limit, now>>
  PROVE  Windows'
<1> SUFFICES ASSUME limit > 0 PROVE Windows'
  BY DEF Windows
<1> DEFINE W == windowStart
           P == Earlier
           L == Len(sent)
<1>1. /\ Second \in Nat \ {0} /\ Timeout \in Nat /\ limit \in Nat /\ now \in Nat /\ now <= Timeout
      /\ W \in Nat /\ W <= now /\ allowance \in Nat /\ clip \in Nat /\ L \in Nat
      /\ P = L - allowance /\ P \in Int /\ now >= W + Second /\ Earlier' = L /\ clip' \in Nat
  <2>1. clip' \in Nat
    BY TransferAssumption DEF TransferTypeOK
  <2>2. /\ Second \in Nat \ {0} /\ Timeout \in Nat /\ limit \in Nat /\ now \in Nat
        /\ now <= Timeout /\ W \in Nat /\ W <= now /\ allowance \in Nat /\ clip \in Nat
        /\ L \in Nat /\ P \in Int
    BY WindowTypes
  <2>3. now >= W + Second
    BY <2>2 DEF NewWindow
  <2>4. P = L - allowance
    BY DEF Earlier
  <2>5. Earlier' = L
    BY <2>2 DEF Earlier
  <2> QED BY <2>1, <2>2, <2>3, <2>4, <2>5
<1>2. \A t \in 0..Timeout :
         /\ sentBy[t] \in Nat /\ SentBefore(t) \in Nat
         /\ SentBefore(t)' = SentBefore(t)
         /\ SentFrom(t)' = SentFrom(t)
  BY WindowTypes DEF SentBefore, SentFrom
<1>3. /\ \A u \in now..Timeout : sentBy[u] = L
      /\ \A u \in 0..Timeout : sentBy[u] <= L
      /\ allowance <= limit /\ allowance <= L
      /\ \A t \in 0..Timeout : t > W => P <= SentBefore(t)
      /\ \A t \in 0..Timeout : SentFrom(t) <= 2 * limit
      /\ P <= limit * (W \div Second)
  BY <1>1 DEF Windows
<1>4. \A t \in 0..Timeout : t > now => L <= SentBefore(t)
  BY <1>1, <1>3 DEF SentBefore
<1> HIDE DEF W, P, L
<1>5. \A t \in 0..Timeout : t > now - Second => L - SentBefore(t) <= limit
  <2> TAKE t \in 0..Timeout
  <2> HAVE t > now - Second
  <2>1. t > W
    BY <1>1
  <2>2. P <= SentBefore(t) /\ SentBefore(t) \in Nat
    BY <1>2, <1>3, <2>1
  <2> QED BY <1>1, <1>3, <2>2
<1>6. L <= limit * (now \div Second)
  <2> DEFINE q == W \div Second
             r == now \div Second
  <2>1. q \in Nat /\ r \in Nat /\ q + 1 <= r
    BY <1>1, DivStep
  <2>2. P <= limit * q
    BY <1>3
  <2> HIDE DEF q, r
  <2>3. limit * (q + 1) <= limit * r
    BY <1>1, <2>1, TimesMonotone
  <2>4. limit * (q + 1) = limit * q + limit
    BY <1>1, <2>1
  <2>5. limit * q \in Nat /\ limit * r \in Nat
    BY <1>1, <2>1
  <2>6. L <= limit * r
    BY <1>1, <1>3, <2>2, <2>3, <2>4, <2>5
  <2> QED BY <2>6 DEF r
<1>7. PICK c \in Nat : clip' = c /\ c <= limit
  BY <1>1
<1>8. allowance' + clip' <= limit' /\ allowance' <= L
  BY <1>1, <1>7
<1> QED BY <1>1, <1>2, <1>3, <1>4, <1>5, <1>6, <1>8 DEF Windows, L

(* A read counts in the seconds that lie around it: each of them holds      *)
(* bytes of this window and of the one before at most.                      *)
LEMMA WindowReads ==
  ASSUME TransferTypeOK, Opened, Windows, Read
  PROVE  Windows'
<1> SUFFICES ASSUME limit > 0 PROVE Windows'
  BY DEF Windows, Read
<1>1. PICK n \in 1..Least(clip, Len(Rest(body, sent))) :
           /\ sent' = sent \o SubSeq(Rest(body, sent), 1, n)
           /\ allowance' = allowance + n
           /\ sentBy' = [t \in 0..Timeout |-> IF t < now THEN sentBy[t] ELSE sentBy[t] + n]
  BY DEF Read
<1> DEFINE W == windowStart
           P == Earlier
           L == Len(sent)
<1>2. /\ Second \in Nat \ {0} /\ Timeout \in Nat /\ limit \in Nat /\ now \in Nat /\ now <= Timeout
      /\ W \in Nat /\ W <= now /\ allowance \in Nat /\ clip \in Nat /\ L \in Nat
      /\ P = L - allowance /\ P \in Int
  BY WindowTypes DEF Earlier
<1>3. \A t \in 0..Timeout : sentBy[t] \in Nat /\ SentBefore(t) \in Nat
  BY WindowTypes
<1>4. n \in Nat /\ n <= clip /\ Len(sent') = L + n
  <2>1. Rest(body, sent) \in Seq(Bytes)
    <3>1. body \in Files
      BY DEF Read, TransferTypeOK, Opened, Sending
    <3> QED BY <3>1, RestIsBytes DEF Rest, TransferTypeOK
  <2>2. n \in 1..Len(Rest(body, sent)) /\ n <= clip
    BY <1>2, <2>1 DEF Least
  <2> QED BY <1>1, <2>1, <2>2, ReadIsBytes DEF TransferTypeOK
<1>5. UNCHANGED <<windowStart, now, limit>> /\ clip' = 0
  BY DEF Read
<1>6. /\ \A u \in now..Timeout : sentBy[u] = L
      /\ \A u \in 0..Timeout : sentBy[u] <= L
      /\ allowance + clip <= limit /\ allowance <= L
      /\ \A t \in 0..Timeout : t > W => P <= SentBefore(t)
      /\ \A t \in 0..Timeout : t > W - Second => P - SentBefore(t) <= limit
      /\ \A t \in 0..Timeout : SentFrom(t) <= 2 * limit
      /\ P <= limit * (W \div Second)
  BY DEF Windows
<1> HIDE DEF W, P, L
<1>7. Earlier' = P
  <2>1. (L + n) - (allowance + n) = L - allowance
    BY <1>2, <1>4
  <2> QED BY <1>1, <1>2, <1>4, <2>1 DEF Earlier
<1>8. \A t \in 0..Timeout :
         SentBefore(t)' = IF t <= now THEN SentBefore(t)
                                      ELSE SentBefore(t) + n
  <2> TAKE t \in 0..Timeout
  <2>1. CASE t = 0
    BY <1>2, <2>1 DEF SentBefore
  <2>2. CASE t # 0
    <3>1. t - 1 \in 0..Timeout /\ (t <= now <=> t - 1 < now)
      BY <1>2, <2>2
    <3> QED BY <1>1, <2>2, <3>1 DEF SentBefore
  <2> QED BY <2>1, <2>2
<1>9. \A u \in now'..Timeout : sentBy'[u] = Len(sent')
  BY <1>1, <1>2, <1>4, <1>5, <1>6
<1>10. \A u \in 0..Timeout : sentBy'[u] <= Len(sent')
  <2> TAKE u \in 0..Timeout
  <2>1. sentBy[u] \in Nat /\ sentBy[u] <= L
    BY <1>3, <1>6
  <2>2. sentBy'[u] = IF u < now THEN sentBy[u] ELSE sentBy[u] + n
    BY <1>1
  <2> QED BY <1>2, <1>4, <2>1, <2>2
<1>11. allowance' + clip' <= limit' /\ allowance' <= Len(sent')
  <2>1. allowance + n + 0 <= limit /\ allowance + n <= L + n
    BY <1>2, <1>4, <1>6
  <2> QED BY <1>1, <1>2, <1>4, <1>5, <2>1
<1>12. \A t \in 0..Timeout : t > windowStart' => Earlier' <= SentBefore(t)'
  <2> SUFFICES ASSUME NEW t \in 0..Timeout, t > W PROVE P <= SentBefore(t)'
    BY <1>5, <1>7 DEF W
  <2>1. P <= SentBefore(t) /\ SentBefore(t) \in Nat
    BY <1>3, <1>6
  <2>2. P <= SentBefore(t) + n
    BY <1>2, <1>4, <2>1
  <2> QED BY <1>8, <2>1, <2>2
<1>13. \A t \in 0..Timeout :
          t > windowStart' - Second => Earlier' - SentBefore(t)' <= limit'
  <2> SUFFICES ASSUME NEW t \in 0..Timeout,
         t > W - Second PROVE P - SentBefore(t)' <= limit
    BY <1>5, <1>7 DEF W
  <2>1. P - SentBefore(t) <= limit /\ SentBefore(t) \in Nat
    BY <1>3, <1>6
  <2>2. P - (SentBefore(t) + n) <= limit
    BY <1>2, <1>4, <2>1
  <2> QED BY <1>8, <2>1, <2>2
<1>14. \A t \in 0..Timeout : SentFrom(t)' <= 2 * limit'
  <2> SUFFICES ASSUME NEW t \in 0..Timeout PROVE SentFrom(t)' <= 2 * limit
    BY <1>5
  <2> DEFINE e == Least(t + Second - 1, Timeout)
  <2>1. e \in 0..Timeout /\ t <= e /\ (e < Timeout => e = t + Second - 1) /\ e <= t + Second - 1
    BY <1>2 DEF Least
  <2>2. /\ SentFrom(t)' = sentBy'[e] - SentBefore(t)'
        /\ SentFrom(t) = sentBy[e] - SentBefore(t)
    BY DEF SentFrom
  <2> HIDE DEF e
  <2>3. sentBy'[e] = IF e < now THEN sentBy[e] ELSE sentBy[e] + n
    BY <1>1, <2>1
  <2>4. CASE e < now
    BY <1>2, <1>6, <1>8, <2>1, <2>2, <2>3, <2>4
  <2>5. CASE e >= now /\ t > now
    <3>1. SentBefore(t) = L
      BY <1>2, <1>6, <2>5 DEF SentBefore
    <3>2. sentBy[e] = L
      BY <1>2, <1>6, <2>1, <2>5
    <3>3. SentFrom(t)' = (L + n) - (L + n)
      BY <1>2, <1>8, <2>2, <2>3, <2>1, <2>5, <3>1, <3>2
    <3>4. (L + n) - (L + n) <= 2 * limit
      BY <1>2, <1>4
    <3> QED BY <3>3, <3>4
  <2>6. CASE e >= now /\ t <= now
    <3>1. sentBy[e] = L
      BY <1>2, <1>6, <2>1, <2>6
    <3>2. t > W - Second
      <4>1. e \in Nat /\ t \in Nat /\ e <= t + Second - 1 /\ W <= e
        BY <1>2, <2>1, <2>6
      <4> QED BY <1>2, <4>1
    <3>3. P - SentBefore(t) <= limit /\ SentBefore(t) \in Nat
      BY <1>3, <1>6, <3>2
    <3>4. (L + n) - SentBefore(t) <= 2 * limit
      BY <1>2, <1>4, <1>6, <3>3
    <3>5. SentFrom(t)' = (L + n) - SentBefore(t)
      BY <1>2, <1>8, <2>2, <2>3, <2>1, <2>6, <3>1
    <3> QED BY <3>4, <3>5
  <2> QED BY <1>2, <2>1, <2>4, <2>5, <2>6
<1>15. Earlier' <= limit' * (windowStart' \div Second)
  BY <1>5, <1>6, <1>7 DEF W
<1> QED BY <1>9, <1>10, <1>11, <1>12, <1>13, <1>14, <1>15 DEF Windows

LEMMA WindowsStep ==
  TransferTypeOK /\ TransferTypeOK' /\ Opened /\ Windows /\ [TransferNext]_transferVars
        => Windows'
<1> SUFFICES ASSUME TransferTypeOK, TransferTypeOK', Opened, Windows,
       [TransferNext]_transferVars PROVE Windows'
  OBVIOUS
<1>1. CASE Enter
  <2> SUFFICES ASSUME limit > 0 PROVE Windows'
    BY <1>1 DEF Windows, Enter
  <2>1. limit \in Nat /\ limit # 0 /\ now \in Nat /\ windowStart \in Nat /\ Chunk \in Nat
        /\ allowance \in Nat /\ clip \in Nat /\ Second \in Nat
    BY WindowTypes, TransferAssumption
  <2>2. UNCHANGED <<sent, sentBy, limit, now>>
    BY <1>1 DEF Enter
  <2>3. CASE NewWindow
    <3>1. windowStart' = now /\ allowance' = 0
      BY <1>1, <2>1, <2>3 DEF Enter
    <3>2. clip' = Clipped(limit)
      BY <1>1, <2>1, <2>3 DEF Enter, Remaining
    <3>3. clip' <= limit
      BY <2>1, <3>2 DEF Clipped, Least
    <3> QED BY <2>2, <2>3, <3>1, <3>3, WindowOpens
  <2>4. CASE ~NewWindow
    <3>1. UNCHANGED <<windowStart, allowance>>
      BY <1>1, <2>1, <2>4 DEF Enter
    <3>2. clip' = clip \/ clip' = Clipped(limit - allowance)
      BY <1>1, <2>1, <2>4 DEF Enter, Remaining
    <3>3. allowance + clip <= limit
      BY <2>1 DEF Windows
    <3>4. PICK c \in Int : clip' = c /\ allowance + c <= limit
      BY <2>1, <3>2, <3>3 DEF Clipped, Least
    <3>5. allowance' + clip' <= limit'
      BY <2>1, <2>2, <3>1, <3>4
    <3> QED BY <2>2, <3>1, <3>5 DEF Windows, Earlier, SentBefore, SentFrom
  <2> QED BY <2>3, <2>4
<1>2. CASE Wake
  <2>1. limit \in Nat /\ Chunk \in Nat
    BY WindowTypes, TransferAssumption
  <2>2. clip' <= limit
    BY <1>2, <2>1 DEF Wake, Clipped, Least
  <2> QED BY <1>2, <2>2, WindowOpens DEF Wake
<1>3. CASE Read
  BY <1>3, WindowReads
<1>4. CASE Tick
  <2>1. UNCHANGED <<sent, sentBy, limit, allowance, windowStart, clip>>
    BY <1>4 DEF Tick, request, window
  <2>2. now \in Nat /\ now' = now + 1
    BY <1>4, WindowTypes DEF Tick
  <2>3. \A u \in now'..Timeout : u \in now..Timeout
    BY <2>2, WindowTypes
  <2> QED BY <2>1, <2>3 DEF Windows, Earlier, SentBefore, SentFrom
<1>5. CASE UNCHANGED <<sent, sentBy, limit, now, allowance, windowStart, clip>>
  BY <1>5 DEF Windows, Earlier, SentBefore, SentFrom
<1> QED BY <1>1, <1>2, <1>3, <1>4, <1>5 DEF TransferNext, Export, Body,
       Stat, Open, Hash, HashEnds,
           Upload, Fails, Accepts, GivesUp,
           EndOfBody, TimesOut, Grows, Restarts,
           Replaced,
           Deleted, FileChanges, transferVars, request, window

(* The rate limit holds: no second carries more than twice the limit, and   *)
(* on the average since the request began no more than the limit is sent.   *)
THEOREM RateIsHeld ==
  TransferSpec => []TransferInv
<1>1. TransferTypeOK /\ Windows => RateHeld
  <2> SUFFICES ASSUME TransferTypeOK, Windows, limit > 0 PROVE RateHeld
    BY DEF RateHeld
  <2> DEFINE q == windowStart \div Second
             r == now \div Second
  <2>1. /\ Second \in Nat \ {0} /\ limit \in Nat /\ now \in Nat /\ windowStart \in Nat
        /\ windowStart <= now /\ allowance \in Nat /\ clip \in Nat /\ Len(sent) \in Nat
    BY WindowTypes
  <2>2. q \in Nat /\ r \in Nat /\ q <= r
    BY <2>1, DivStep
  <2>3. /\ \A t \in 0..Timeout : SentFrom(t) <= 2 * limit
        /\ Len(sent) - allowance <= limit * q /\ allowance + clip <= limit
    BY DEF Windows, Earlier
  <2> HIDE DEF q, r
  <2>4. limit * (r + 1) = limit * r + limit /\ limit * q \in Nat /\ limit * r \in Nat
    BY <2>1, <2>2
  <2>5. limit * q <= limit * r
    BY <2>1, <2>2, TimesMonotone
  <2>6. Len(sent) <= limit * (r + 1)
    BY <2>1, <2>3, <2>4, <2>5
  <2> QED BY <2>3, <2>6 DEF RateHeld, r
<1> QED BY <1>1, TransferTypeInit, TransferTypeStep, WindowsInit, WindowsStep,
       PTL DEF TransferSpec, TransferInv

(* The digest.  The one sequence of bytes is a beginning of the other.     *)
Begins(s, t) == /\ Len(s) <= Len(t)
                /\ \A k \in 1..Len(s) : s[k] = t[k]

(* Who has read to the end of the file has read all of it.                 *)
LEMMA BeginsWhole ==
  ASSUME NEW s \in Seq(Bytes), NEW t \in Seq(Bytes), Begins(s, t)
  PROVE  /\ SubSeq(t, Len(s) + 1, Len(t)) = <<>> => s = t
         /\ IsPrefix(s, t)
<1>1. /\ s = [k \in 1..Len(s) |-> s[k]] /\ t = [k \in 1..Len(t) |-> t[k]]
      /\ Len(s) \in Nat /\ Len(t) \in Nat
  OBVIOUS
<1>2. ASSUME SubSeq(t, Len(s) + 1, Len(t)) = <<>> PROVE s = t
  <2> DEFINE rest == SubSeq(t, Len(s) + 1, Len(t))
  <2>1. Len(rest) = IF Len(s) < Len(t) THEN Len(t) - Len(s) ELSE 0
    BY RestIsBytes
  <2>2. rest = <<>>
    BY <1>2
  <2> HIDE DEF rest
  <2>3. Len(rest) = 0
    BY <2>2
  <2>4. Len(s) = Len(t)
    <3>1. Len(s) <= Len(t)
      BY DEF Begins
    <3>2. \A a, b \in Nat : a <= b /\ (IF a < b THEN b - a ELSE 0) = 0 => a = b
      OBVIOUS
    <3>3. (IF Len(s) < Len(t) THEN Len(t) - Len(s) ELSE 0) = 0
      BY <2>1, <2>3
    <3> QED BY <1>1, <3>1, <3>2, <3>3
  <2>5. \A k \in 1..Len(s) : s[k] = t[k]
    BY DEF Begins
  <2>6. [k \in 1..Len(s) |-> s[k]] = [k \in 1..Len(t) |-> t[k]]
    BY <2>4, <2>5
  <2> QED BY <1>1, <2>6
<1>3. SubSeq(s, 1, Len(s)) = SubSeq(t, 1, Len(s))
  BY <1>1 DEF Begins
<1> QED BY <1>2, <1>3 DEF IsPrefix, Begins

(* A file that grows keeps its beginnings, and a read makes a longer one.   *)
LEMMA BeginsGrows ==
  ASSUME NEW s \in Seq(Bytes), NEW t \in Seq(Bytes),
         NEW x \in Bytes, Begins(s, t)
  PROVE  Begins(s, Append(t, x))
BY DEF Begins

LEMMA BeginsReads ==
  ASSUME NEW s \in Seq(Bytes), NEW t \in Seq(Bytes), Begins(s, t),
         NEW n \in 1..Len(SubSeq(t, Len(s) + 1, Len(t)))
  PROVE  Begins(s \o SubSeq(SubSeq(t, Len(s) + 1, Len(t)), 1, n), t)
<1> DEFINE rest == SubSeq(t, Len(s) + 1, Len(t))
           part == SubSeq(rest, 1, n)
<1>1. /\ rest \in Seq(Bytes) /\ Len(rest) = IF Len(s) < Len(t) THEN Len(t) - Len(s) ELSE 0
      /\ Len(s) \in Nat /\ Len(t) \in Nat
  BY RestIsBytes
<1>2. \A k \in 1..Len(rest) : rest[k] = t[Len(s) + k]
  BY <1>1
<1>3. n \in 1..Len(rest)
  OBVIOUS
<1> HIDE DEF rest
<1>4. part \in Seq(Bytes) /\ Len(part) = n /\ \A k \in 1..n : part[k] = rest[k]
  BY <1>1, <1>3
<1> HIDE DEF part
<1>5. Len(s \o part) = Len(s) + n
  BY <1>4
<1>6. Len(s) + n <= Len(t)
  BY <1>1, <1>3
<1>7. ASSUME NEW k \in 1..Len(s) + n PROVE (s \o part)[k] = t[k]
  <2>1. CASE k <= Len(s)
    BY <1>1, <1>4, <2>1 DEF Begins
  <2>2. CASE k > Len(s)
    <3>1. k - Len(s) \in 1..n /\ Len(s) + (k - Len(s)) = k
      BY <1>1, <1>3, <2>2
    <3>2. (s \o part)[k] = part[k - Len(s)]
      BY <1>1, <1>4, <2>2, <3>1
    <3>3. k - Len(s) \in 1..Len(rest)
      BY <1>1, <1>3, <3>1
    <3> QED BY <1>2, <1>4, <3>1, <3>2, <3>3
  <2>3. k <= Len(s) \/ k > Len(s)
    BY <1>1, <1>3
  <2> QED BY <2>1, <2>2, <2>3, Zenon
<1> QED BY <1>5, <1>6, <1>7 DEF Begins, part, rest

Same == change # "other"

Whole(s) == change = "none" => s = inode[path]

(* As long as the file has at most grown since it was looked at, it is the  *)
(* one that is hashed and sent, and both have read a beginning of it.  Once *)
(* the body is over, what was sent no longer depends on the file.           *)
Following ==
  /\ reader # "ready" \/ sent # <<>> => exportPc \in {"send", "over"}
  /\ exportPc \in {"stat", "open"} => digest = <<>>
  /\ Same /\ reader # "over" /\ exportPc \in {"open", "hash", "upload", "send"} =>
       /\ path # 0
       /\ exportSize <= Len(inode[path])
       /\ change = "none" => exportSize = Len(inode[path])
       /\ Begins(digest, inode[path])
  /\ Same /\ reader # "over" /\ exportPc = "hash" => opened = path
  /\ Same /\ reader # "over" /\ exportPc \in {"upload", "send"} =>
       /\ exportSize <= Len(digest)
       /\ Whole(digest)
  /\ Same /\ reader # "over" /\ exportPc = "send" => body = path /\ Begins(sent, inode[path])
  /\ Same /\ reader = "over" =>
       /\ IsPrefix(digest, sent) /\ exportSize <= Len(digest)
       /\ change = "none" => digest = sent /\ exportSize = Len(sent)
  /\ outcome = "ok" => reader = "over"

LEMMA FollowingInit == TransferInit => Following
BY DEF TransferInit, Following, Begins

LEMMA FollowingStep ==
  TransferTypeOK /\ Opened /\ Following /\ [TransferNext]_transferVars => Following'
<1> SUFFICES ASSUME TransferTypeOK, Opened, Following,
       [TransferNext]_transferVars PROVE Following'
  OBVIOUS
<1> USE DEF Following, Same, Whole
<1>1. CASE Stat
  BY <1>1 DEF Stat, fileVars, request, window, Begins,
         TransferTypeOK
<1>2. CASE Open
  BY <1>2 DEF Open, fileVars, request, window
<1>3. CASE Hash
  <2>1. PICK n \in 1..Len(Rest(opened, digest)) :
           digest' = digest \o SubSeq(Rest(opened, digest), 1, n)
    BY <1>3 DEF Hash
  <2>2. ASSUME Same, reader # "over" PROVE Begins(digest', inode[path])
    <3>1. opened = path /\ Begins(digest, inode[path]) /\ path # 0
      BY <1>3, <2>2 DEF Hash
    <3>2. inode[path] \in Seq(Bytes) /\ digest \in Seq(Bytes)
      BY <3>1 DEF TransferTypeOK
    <3> QED BY <2>1, <3>1, <3>2, BeginsReads DEF Rest
  <2> QED BY <1>3, <2>2 DEF Hash, fileVars, request, window,
         TransferTypeOK
<1>4. CASE HashEnds
  <2>1. ASSUME Same, reader # "over" PROVE exportSize <= Len(digest) /\ Whole(digest)
    <3>1. /\ opened = path /\ Begins(digest, inode[path]) /\ path # 0
          /\ exportSize <= Len(inode[path])
      BY <1>4, <2>1 DEF HashEnds
    <3>2. inode[path] \in Seq(Bytes) /\ digest \in Seq(Bytes)
      BY <3>1 DEF TransferTypeOK
    <3>3. digest = inode[path]
      BY <1>4, <3>1, <3>2, BeginsWhole DEF HashEnds, Rest
    <3> QED BY <3>1, <3>3
  <2> QED BY <1>4, <2>1 DEF HashEnds, fileVars, request,
         window, TransferTypeOK
<1>5. CASE Upload
  <2>1. sent = <<>>
    BY <1>5 DEF Upload
  <2>2. ASSUME path # 0 PROVE Begins(sent, inode[path])
    BY <2>1, <2>2 DEF Begins, TransferTypeOK
  <2> QED BY <1>5, <2>1, <2>2 DEF Upload, fileVars, window
<1>6. CASE Fails
  BY <1>6 DEF Fails, fileVars, request, window
<1>7. CASE Accepts
  BY <1>7 DEF Accepts, Sending, fileVars, request,
         window
<1>8. CASE GivesUp
  BY <1>8 DEF GivesUp, fileVars, request, window
<1>9. CASE Enter \/ Wake
  <2>1. exportPc = "send" /\ reader # "over" /\ reader' # "over"
    BY <1>9 DEF Enter, Wake, Sending
  <2>2. UNCHANGED <<fileVars, exportVars, body, sent>>
    BY <1>9 DEF Enter, Wake
  <2> QED BY <2>1, <2>2 DEF fileVars, exportVars
<1>10. CASE Read
  <2>1. PICK n \in 1..Least(clip, Len(Rest(body, sent))) :
           sent' = sent \o SubSeq(Rest(body, sent), 1, n)
    BY <1>10 DEF Read
  <2>2. ASSUME Same PROVE Begins(sent', inode[path])
    <3>1. body = path /\ Begins(sent, inode[path]) /\ path # 0
      BY <1>10, <2>2 DEF Read, Sending
    <3>2. inode[path] \in Seq(Bytes) /\ sent \in Seq(Bytes) /\ clip \in Nat
      BY <3>1, TransferAssumption DEF TransferTypeOK
    <3>3. n \in 1..Len(Rest(body, sent))
      <4>1. Len(Rest(body, sent)) \in Nat
        BY <3>1, <3>2, RestIsBytes DEF Rest
      <4> QED BY <2>1, <3>2, <4>1 DEF Least
    <3> QED BY <2>1, <3>1, <3>2, <3>3, BeginsReads DEF Rest
  <2>3. /\ exportPc = "send" /\ reader = "reading" /\ reader' = "ready"
        /\ UNCHANGED <<fileVars, exportVars, body>>
    BY <1>10 DEF Read, Sending
  <2> QED BY <2>2, <2>3 DEF fileVars, exportVars
<1>11. CASE EndOfBody
  <2>1. ASSUME Same
        PROVE  /\ IsPrefix(digest, sent) /\ exportSize <= Len(digest)
               /\ change = "none" => digest = sent /\ exportSize = Len(sent)
    <3>1. /\ body = path /\ Begins(sent, inode[path]) /\ path # 0 /\ Begins(digest, inode[path])
          /\ exportSize <= Len(digest) /\ Whole(digest)
          /\ change = "none" => exportSize = Len(inode[path])
      BY <1>11, <2>1 DEF EndOfBody, Sending
    <3>2. /\ inode[path] \in Seq(Bytes)
          /\ sent \in Seq(Bytes) /\ digest \in Seq(Bytes)
      BY <3>1 DEF TransferTypeOK
    <3>3. sent = inode[path]
      BY <1>11, <3>1, <3>2, BeginsWhole DEF EndOfBody, Rest
    <3>4. IsPrefix(digest, sent)
      BY <3>1, <3>2, <3>3, BeginsWhole
    <3> QED BY <3>1, <3>3, <3>4
  <2> QED BY <1>11, <2>1 DEF EndOfBody, Sending, fileVars,
         exportVars, window
<1>12. CASE TimesOut \/ Tick
  BY <1>12 DEF TimesOut, Tick, fileVars, exportVars,
         request, window
<1>13. CASE Grows
  <2>1. /\ exportPc # "over" /\ UNCHANGED <<path, exportPc, exportSize, opened, digest,
         outcome, body, reader, sent>>
        /\ inode' = [inode EXCEPT ![path] = Append(@, fresh)]
        /\ path \in Files
    BY <1>13 DEF Grows, FileChanges, exportVars, request,
           window, TransferTypeOK
  <2>2. /\ change' = "other" <=> change = "other"
        /\ change' = "none" => exportPc = "stat" \/ reader = "over"
        /\ reader = "over" \/ exportPc = "stat" => change' = change
    BY <1>13 DEF Grows, FileChanges, TransferTypeOK
  <2>3. /\ inode[path] \in Seq(Bytes) /\ digest \in Seq(Bytes)
        /\ sent \in Seq(Bytes) /\ fresh \in Bytes
    BY <2>1 DEF TransferTypeOK
  <2>4. inode'[path] = Append(inode[path], fresh)
    BY <2>1 DEF TransferTypeOK
  <2>5. Len(inode'[path]) = Len(inode[path]) + 1
    BY <2>3, <2>4
  <2>6. /\ Begins(digest, inode[path]) => Begins(digest, inode'[path])
        /\ Begins(sent, inode[path]) => Begins(sent, inode'[path])
    BY <2>3, <2>4, BeginsGrows
  <2>7. exportSize <= Len(inode[path]) => exportSize <= Len(inode'[path])
    BY <2>3, <2>5 DEF TransferTypeOK
  <2> QED BY <2>1, <2>2, <2>6, <2>7
<1>14. CASE Restarts \/ Replaced \/ Deleted
  <2>1. FileChanges("other")
    BY <1>14 DEF Restarts, Replaced, Deleted
  <2>2. /\ exportPc # "over" /\ UNCHANGED <<exportPc, exportSize, opened, digest, outcome,
         body, reader, sent>>
        /\ change' # "other" => exportPc = "stat" \/ reader = "over"
        /\ reader = "over" => change' = change
    BY <2>1 DEF FileChanges, exportVars, request, window
  <2> QED BY <2>2
<1>15. CASE UNCHANGED transferVars
  BY <1>15 DEF transferVars, fileVars, exportVars, request, window
<1> HIDE DEF Following
<1> QED BY <1>1, <1>2, <1>3, <1>4, <1>5, <1>6, <1>7, <1>8, <1>9, <1>10, <1>11, <1>12, <1>13,
           <1>14, <1>15 DEF TransferNext, Export, Body

(* The digest and the size that the upload announces are those of the body   *)
(* when the file stays as it was, and of a beginning of it when it grows.   *)
THEOREM DigestIsTrue ==
  TransferSpec => []DigestTrue
<1>1. TransferTypeOK /\ Following => DigestTrue
  BY DEF Following, Same, DigestTrue
<1> QED BY <1>1, TransferTypeInit, TransferTypeStep, FollowingInit, FollowingStep,
       PTL DEF TransferSpec
=============================================================================
