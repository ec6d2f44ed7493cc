------------------------ MODULE RecordsOrderProofs ------------------------
(***************************************************************************)
(* Proofs about what Records keeps in an order: the cache of traces, and   *)
(* the lines of a message's headers; for any messages, header blocks,      *)
(* cache sizes and bounds.  And the types of all of it.                    *)
(***************************************************************************)
EXTENDS RecordsProofs, FunctionTheorems, FiniteSetTheorems, WellFoundedInduction

\* What a scan makes of it.
Scored ==
    symbol # "unscored" =>
        symbol = IF tag = NoTag THEN "none"
                 ELSE IF late \/ ~Plain(tag) \/ Spills(arrived) THEN "SPAMALLAM_SIG_INVALID"
                 ELSE Symbol(tag)

\* The block is what was kept of the message, behind the headers of its tag.
HeadersInv ==
    /\ arrived \in Inbound
    /\ tag \in {NoTag} \union Opinions
    /\ block = IF tag = NoTag THEN Strip(arrived)
               ELSE Prepend(Strip(arrived), Build(tag, "now"))
    /\ late \in BOOLEAN
    /\ Scored

\* Traces are numbered as they are written, on disk and in the cache: on disk in
\* a day's file, in the cache also by their days.
WrittenTraces == {t \in Traces : nth[t] > 0}
NumbersInv ==
    /\ begun \subseteq Traces
    /\ nth \in [Traces -> Nat]
    /\ \A t \in Traces : nth[t] <= Cardinality(WrittenTraces)
    /\ WrittenTraces \subseteq begun \ open
    /\ \A d \in Days : \A i, j \in DOMAIN disk[d] : i < j => nth[disk[d][i]] < nth[disk[d][j]]
Newer(t, u) == day[u] < day[t] \/ nth[u] < nth[t]
CacheInv ==
    /\ KeepInv /\ NumbersInv
    /\ cached \in Seq(begun \ open) /\ Len(cached) <= CacheMax
    /\ \A i, j \in 1..Len(cached) : i < j => Newer(cached[i], cached[j])
    /\ CacheMissesNothing

-----------------------------------------------------------------------------
(* Ordering *)

LEMMA NatLeast ==
    ASSUME NEW S, S \subseteq Nat, S # {}
    PROVE  \E i \in S : \A j \in S : i <= j
<1> DEFINE R == {pair \in Nat \X Nat : pair[1] < pair[2]}
<1>1. IsWellFoundedOn(R, Nat)
  BY NatLessThanWellFounded DEF OpToRel
<1>2. \A i, j \in Nat : j < i => <<j, i>> \in R
  OBVIOUS
<1> HIDE DEF R
<1>3. PICK i \in S : \A j \in S : ~(<<j, i>> \in R)
  BY <1>1, WFMin
<1>4. \A j \in S : ~(j < i)
  BY <1>2, <1>3
<1>5. \A j \in S : i <= j
  BY <1>4
<1> QED
  BY <1>5

\* A relation that orders a set strictly and totally.
Orders(R, S) ==
    /\ \A x \in S : <<x, x>> \notin R
    /\ \A x, y \in S : x # y => <<x, y>> \in R \/ <<y, x>> \in R
    /\ \A x, y, z \in S : <<x, y>> \in R /\ <<y, z>> \in R => <<x, z>> \in R

\* A finite set that is not empty has a last member: the least cardinality of
\* a set without one would be that of a set with one member more than another.
LEMMA LastExists ==
    ASSUME NEW S, IsFiniteSet(S), NEW R, Orders(R, S)
    PROVE  \A T \in SUBSET S : T # {} => \E m \in T : \A x \in T \ {m} : <<x, m>> \in R
<1> DEFINE HasLast(T) == T # {} => \E m \in T : \A x \in T \ {m} : <<x, m>> \in R
           Sizes == {n \in Nat : \E T \in SUBSET S : Cardinality(T) = n /\ ~HasLast(T)}
<1>1. ASSUME Sizes # {} PROVE FALSE
  <2>1. Sizes \subseteq Nat
    OBVIOUS
  <2>2. PICK n \in Sizes : \A j \in Sizes : n <= j
    BY <1>1, <2>1, NatLeast
  <2>3. PICK T \in SUBSET S : Cardinality(T) = n /\ ~HasLast(T)
    BY <2>2
  <2>4. PICK x \in T : TRUE
    BY <2>3
  <2> DEFINE U == T \ {x}
  <2>5. IsFiniteSet(T) /\ IsFiniteSet(U) /\ Cardinality(U) = n - 1 /\ n - 1 \in Nat
    <3>1. IsFiniteSet(T)
      BY FS_Subset
    <3>2. IsFiniteSet(U) /\ Cardinality(U) = Cardinality(T) - 1
      BY <2>4, <3>1, FS_RemoveElement
    <3>3. Cardinality(U) \in Nat
      BY <3>2, FS_CardinalityType
    <3> QED
      BY <2>3, <3>1, <3>2, <3>3
  <2>6. HasLast(U)
    <3>1. n - 1 \notin Sizes
      BY <2>2, <2>5
    <3> QED
      BY <2>5, <3>1
  <2>7. CASE U = {}
    BY <2>3, <2>4, <2>7
  <2>8. CASE U # {}
    <3>1. PICK m \in U : \A y \in U \ {m} : <<y, m>> \in R
      BY <2>6, <2>8
    <3>2. x \in S /\ m \in S /\ x # m /\ T \subseteq S
      BY <2>4, <3>1
    <3>3. CASE <<x, m>> \in R
      <4>1. \A y \in T \ {m} : <<y, m>> \in R
        BY <3>1, <3>3
      <4> QED
        BY <2>3, <3>1, <4>1
    <3>4. CASE <<m, x>> \in R
      <4>1. \A y \in T \ {x} : <<y, x>> \in R
        BY <3>1, <3>2, <3>4 DEF Orders
      <4> QED
        BY <2>3, <2>4, <4>1
    <3> QED
      BY <3>2, <3>3, <3>4 DEF Orders
  <2> QED
    BY <2>7, <2>8
<1>2. \A T \in SUBSET S : Cardinality(T) \in Nat
  BY FS_Subset, FS_CardinalityType
<1> QED
  BY <1>1, <1>2

\* A finite set can be put in order: what is left without the last member can.
LEMMA OrderExists ==
    ASSUME NEW S, IsFiniteSet(S), NEW R, Orders(R, S)
    PROVE  \E f \in [1..Cardinality(S) -> S] :
              \A i, j \in 1..Cardinality(S) : i < j => <<f[i], f[j]>> \in R
<1> DEFINE HasOrder(T) == \E f \in [1..Cardinality(T) -> T] :
              \A i, j \in 1..Cardinality(T) : i < j => <<f[i], f[j]>> \in R
           Sizes == {n \in Nat : \E T \in SUBSET S : Cardinality(T) = n /\ ~HasOrder(T)}
<1>1. ASSUME Sizes # {} PROVE FALSE
  <2>1. Sizes \subseteq Nat
    OBVIOUS
  <2>2. PICK n \in Sizes : \A j \in Sizes : n <= j
    BY <1>1, <2>1, NatLeast
  <2>3. PICK T \in SUBSET S : Cardinality(T) = n /\ ~HasOrder(T)
    BY <2>2
  <2>4. IsFiniteSet(T)
    BY FS_Subset
  <2>5. CASE T = {}
    <3>1. Cardinality(T) = 0
      BY <2>5, FS_EmptySet
    <3>2. [i \in 1..0 |-> i] \in [1..0 -> T] /\ \A i \in 1..0 : FALSE
      OBVIOUS
    <3> QED
      BY <2>3, <3>1, <3>2
  <2>6. CASE T # {}
    <3>1. PICK m \in T : \A x \in T \ {m} : <<x, m>> \in R
      BY <2>6, LastExists
    <3> DEFINE U == T \ {m}
    <3>2. Cardinality(U) = n - 1 /\ n - 1 \in Nat
      <4>1. IsFiniteSet(U) /\ Cardinality(U) = Cardinality(T) - 1
        BY <2>4, <3>1, FS_RemoveElement
      <4>2. Cardinality(U) \in Nat
        BY <4>1, FS_CardinalityType
      <4> QED
        BY <2>3, <4>1, <4>2
    <3>3. HasOrder(U)
      <4>1. n - 1 \notin Sizes
        BY <2>2, <3>2
      <4> QED
        BY <3>2, <4>1
    <3>4. PICK f \in [1..n - 1 -> U] : \A i, j \in 1..n - 1 : i < j => <<f[i], f[j]>> \in R
      BY <3>2, <3>3
    <3> DEFINE g == [i \in 1..n |-> IF i = n THEN m ELSE f[i]]
    <3>5. n \in Nat /\ \A i \in 1..n : i = n \/ i \in 1..n - 1
      BY <2>2
    <3>6. g \in [1..n -> T]
      BY <3>4, <3>5
    <3>7. ASSUME NEW i \in 1..n, NEW j \in 1..n, i < j PROVE <<g[i], g[j]>> \in R
      <4>1. i \in 1..n - 1 /\ i # n /\ g[i] = f[i] /\ f[i] \in T \ {m}
        BY <3>4, <3>5, <3>7
      <4>2. CASE j = n
        BY <3>1, <4>1, <4>2
      <4>3. CASE j \in 1..n - 1
        BY <3>4, <3>5, <3>7, <4>1, <4>3
      <4> QED
        BY <3>5, <4>2, <4>3
    <3> QED
      BY <2>3, <3>6, <3>7
  <2> QED
    BY <2>5, <2>6
<1>2. Cardinality(S) \in Nat
  BY FS_CardinalityType
<1>3. HasOrder(S)
  BY <1>1, <1>2
<1> QED
  BY <1>3

\* InOrder gives each member one place, and the places are in order.
LEMMA InOrderEnumerates ==
    ASSUME NEW S, IsFiniteSet(S), NEW R, Orders(R, S)
    PROVE  /\ Cardinality(S) \in Nat
           /\ InOrder(S, R) \in [1..Cardinality(S) -> S]
           /\ \A i, j \in 1..Cardinality(S) :
                 /\ i < j => <<InOrder(S, R)[i], InOrder(S, R)[j]>> \in R
                 /\ i # j => InOrder(S, R)[i] # InOrder(S, R)[j]
           /\ \A x \in S : \E i \in 1..Cardinality(S) : InOrder(S, R)[i] = x
<1> DEFINE n == Cardinality(S)
           f == InOrder(S, R)
<1>1. n \in Nat
  BY FS_CardinalityType
<1>2. f \in [1..n -> S] /\ \A i, j \in 1..n : i < j => <<f[i], f[j]>> \in R
  BY OrderExists DEF InOrder
<1> HIDE DEF f
<1>3. ASSUME NEW i \in 1..n, NEW j \in 1..n, i # j PROVE f[i] # f[j]
  <2>1. i < j \/ j < i
    BY <1>1, <1>3
  <2>2. f[i] \in S /\ f[j] \in S
    BY <1>2
  <2> QED
    BY <1>2, <2>1, <2>2 DEF Orders
<1>4. f \in Injection(1..n, S)
  BY <1>2, <1>3, Fun_IsInj
<1>5. IsFiniteSet(1..n) /\ Cardinality(1..n) = n
  BY <1>1, FS_Interval
<1>6. f \in Surjection(1..n, S)
  BY <1>4, <1>5, FS_Injection
<1>7. \A x \in S : \E i \in 1..n : f[i] = x
  BY <1>6 DEF Surjection
<1> QED
  BY <1>1, <1>2, <1>3, <1>7 DEF f

-----------------------------------------------------------------------------
(* Sequences of lines *)

LEMMA ConcatIs ==
    ASSUME NEW p, NEW q, IsSeq(p), IsSeq(q)
    PROVE  /\ IsSeq(p \o q) /\ DOMAIN (p \o q) = 1..Len(p \o q)
           /\ Len(p) \in Nat /\ Len(q) \in Nat /\ Len(p \o q) = Len(p) + Len(q)
           /\ \A i \in 1..Len(p) : (p \o q)[i] = p[i]
           /\ \A i \in 1..Len(q) : (p \o q)[Len(p) + i] = q[i]
           /\ \A i \in 1..Len(p \o q) : i \in 1..Len(p) \/ i - Len(p) \in 1..Len(q)
<1> DEFINE S == {p[i] : i \in 1..Len(p)} \union {q[i] : i \in 1..Len(q)}
<1>1. p \in Seq(S) /\ q \in Seq(S)
  BY SeqOfIts
<1> HIDE DEF S
<1>2. p \o q \in Seq(S)
  BY <1>1
<1>3. /\ Len(p) \in Nat /\ Len(q) \in Nat /\ Len(p \o q) = Len(p) + Len(q)
      /\ \A i \in 1..Len(p) + Len(q) :
            (p \o q)[i] = IF i <= Len(p) THEN p[i] ELSE q[i - Len(p)]
  BY <1>1
<1>4. \A i \in 1..Len(q) : /\ Len(p) + i \in 1..Len(p) + Len(q) /\ ~(Len(p) + i <= Len(p))
                           /\ (Len(p) + i) - Len(p) = i
  BY <1>3
<1> DEFINE pq == p \o q
<1>5. pq \in Seq(S)
  BY <1>2
<1> HIDE DEF pq
<1>6. DOMAIN pq = 1..Len(pq) /\ Len(pq) \in Nat /\ pq = [i \in 1..Len(pq) |-> pq[i]]
  BY <1>5
<1> QED
  BY <1>3, <1>4, <1>6 DEF pq, IsSeq

LEMMA SingleIs ==
    ASSUME NEW x
    PROVE  IsSeq(<<x>>) /\ Len(<<x>>) = 1 /\ DOMAIN <<x>> = {1} /\ <<x>>[1] = x
BY DEF IsSeq

LEMMA FirstPlaceIs ==
    ASSUME NEW lines, NEW name, DOMAIN lines \subseteq Nat
    PROVE  /\ Places(lines, name) # {} =>
                 /\ FirstPlace(lines, name) \in Places(lines, name)
                 /\ \A j \in Places(lines, name) : FirstPlace(lines, name) <= j
           /\ \A i \in Places(lines, name) :
                 (\A j \in Places(lines, name) : i <= j) => FirstPlace(lines, name) = i
<1> DEFINE places == Places(lines, name)
<1>1. places \subseteq Nat
  BY DEF Places
<1>2. places # {} => \E i \in places : \A j \in places : i <= j
  BY <1>1, NatLeast
<1> HIDE DEF places
<1> DEFINE first == CHOOSE i \in places : \A j \in places : i <= j
<1>3. places # {} => first \in places /\ \A j \in places : first <= j
  BY <1>2
<1>4. FirstPlace(lines, name) = first
  BY DEF FirstPlace, places
<1> HIDE DEF first
<1>5. ASSUME NEW i \in places, \A j \in places : i <= j PROVE first = i
  <2>1. first \in places /\ first <= i /\ i <= first
    BY <1>3, <1>5
  <2>2. first \in Nat /\ i \in Nat
    BY <1>1, <2>1
  <2> QED
    BY <2>1, <2>2
<1> QED
  BY <1>3, <1>4, <1>5 DEF places

\* A header is looked for in the first lines, then in those behind them.
LEMMA LookUp ==
    ASSUME NEW p, NEW q, IsSeq(p), IsSeq(q), NEW name
    PROVE  /\ Places(p, name) # {} =>
                 /\ Places(p \o q, name) # {}
                 /\ GetHeader(p \o q, name) = GetHeader(p, name)
                 /\ FirstPlace(p \o q, name) = FirstPlace(p, name)
           /\ Places(p, name) = {} =>
                 /\ (Places(p \o q, name) = {} <=> Places(q, name) = {})
                 /\ GetHeader(p \o q, name) = GetHeader(q, name)
                 /\ Places(q, name) # {} =>
                       FirstPlace(p \o q, name) = Len(p) + FirstPlace(q, name)
<1>1. /\ DOMAIN p = 1..Len(p) /\ DOMAIN q = 1..Len(q) /\ DOMAIN (p \o q) = 1..Len(p \o q)
      /\ Len(p) \in Nat /\ Len(q) \in Nat /\ Len(p \o q) = Len(p) + Len(q)
      /\ \A i \in 1..Len(p) : (p \o q)[i] = p[i]
      /\ \A i \in 1..Len(q) : (p \o q)[Len(p) + i] = q[i]
      /\ \A i \in 1..Len(p \o q) : i \in 1..Len(p) \/ i - Len(p) \in 1..Len(q)
  BY ConcatIs DEF IsSeq
<1> DEFINE pq == p \o q
<1>2. DOMAIN pq \subseteq Nat
  BY <1>1
<1> HIDE DEF pq
<1>3. \A i \in 1..Len(p) : i \in Places(pq, name) <=> i \in Places(p, name)
  BY <1>1 DEF Places, pq
<1>4. \A i \in 1..Len(q) : Len(p) + i \in Places(pq, name) <=> i \in Places(q, name)
  BY <1>1 DEF Places, pq
<1>5. \A i \in Places(pq, name) :
         \/ i \in Places(p, name)
         \/ i - Len(p) \in Places(q, name) /\ i = Len(p) + (i - Len(p))
  <2>1. \A i \in Places(pq, name) : i \in 1..Len(pq)
    BY <1>1 DEF Places, pq
  <2>2. \A i \in 1..Len(pq) : i = Len(p) + (i - Len(p))
    BY <1>1 DEF pq
  <2> QED
    BY <1>1, <1>3, <1>4, <2>1, <2>2 DEF pq
<1>6. CASE Places(p, name) # {}
  <2> DEFINE i == FirstPlace(p, name)
  <2>1. i \in Places(p, name) /\ \A j \in Places(p, name) : i <= j
    BY <1>1, <1>6, FirstPlaceIs
  <2> HIDE DEF i
  <2>2. i \in 1..Len(p) /\ i \in Places(pq, name)
    BY <1>1, <1>3, <2>1 DEF Places
  <2>3. \A j \in Places(pq, name) : i <= j
    <3>1. \A j \in Places(q, name) : j \in 1..Len(q)
      BY <1>1 DEF Places
    <3>2. \A j \in 1..Len(q) : i <= Len(p) + j
      BY <1>1, <2>2
    <3> QED
      BY <1>5, <2>1, <3>1, <3>2
  <2>4. FirstPlace(pq, name) = i
    BY <1>2, <2>2, <2>3, FirstPlaceIs
  <2> QED
    BY <1>1, <1>6, <2>2, <2>4 DEF GetHeader, pq, i
<1>7. CASE Places(p, name) = {} /\ Places(q, name) # {}
  <2> DEFINE i == FirstPlace(q, name)
  <2>1. i \in Places(q, name) /\ \A j \in Places(q, name) : i <= j
    BY <1>1, <1>7, FirstPlaceIs
  <2> HIDE DEF i
  <2>2. i \in 1..Len(q) /\ Len(p) + i \in Places(pq, name)
    BY <1>1, <1>4, <2>1 DEF Places
  <2>3. \A j \in Places(pq, name) : Len(p) + i <= j
    <3>1. \A j \in Places(q, name) : j \in 1..Len(q)
      BY <1>1 DEF Places
    <3>2. \A j \in Places(q, name) : Len(p) + i <= Len(p) + j
      BY <1>1, <2>1, <2>2, <3>1
    <3> QED
      BY <1>5, <1>7, <3>2
  <2>4. FirstPlace(pq, name) = Len(p) + i
    BY <1>2, <2>2, <2>3, FirstPlaceIs
  <2> QED
    BY <1>1, <1>7, <2>2, <2>4 DEF GetHeader, pq, i
<1>8. CASE Places(p, name) = {} /\ Places(q, name) = {}
  BY <1>5, <1>8 DEF GetHeader, pq
<1> QED
  BY <1>6, <1>7, <1>8 DEF pq

-----------------------------------------------------------------------------
(* What strip_spam_headers leaves *)

LEMMA AscendingOrders ==
    ASSUME NEW S, S \subseteq Nat
    PROVE  Orders(Ascending(S), S)
BY DEF Orders, Ascending

LEMMA NoSpamName == None \notin SpamNames
BY DEF None, SpamNames

\* Of the headers that begin up to a line, one is the last.
LEMMA LastBegun ==
    ASSUME NEW lines, NEW i \in Nat, Begun(lines, i) # {}
    PROVE  \E q \in Begun(lines, i) :
              q \in 1..i /\ q <= i /\ q \in Nat /\ \A x \in Begun(lines, i) : x <= q
<1> DEFINE T == Begun(lines, i)
           upTo == 1..i
           before == Ascending(upTo)
<1>1. T \in SUBSET upTo /\ T # {}
  BY Zenon DEF Begun
<1>2. IsFiniteSet(upTo) /\ upTo \subseteq Nat /\ \A x \in upTo : x <= i
  BY FS_Interval
<1>3. Orders(before, upTo)
  BY <1>2, AscendingOrders
<1>4. \A x, y : <<x, y>> \in before => x < y
  BY DEF Ascending
<1> HIDE DEF T, before, upTo
<1>5. PICK q \in T : \A x \in T \ {q} : <<x, q>> \in before
  <2>1. \A U \in SUBSET upTo : U # {} => \E m \in U : \A x \in U \ {m} : <<x, m>> \in before
    BY <1>2, <1>3, LastExists, Zenon
  <2> QED
    BY <1>1, <2>1
<1>6. q \in Nat /\ \A x \in T : x \in Nat /\ (x = q \/ x < q)
  BY <1>1, <1>2, <1>4, <1>5
<1>7. q \in upTo /\ q <= i /\ \A x \in T : x <= q
  BY <1>1, <1>2, <1>6
<1> QED
  BY <1>5, <1>6, <1>7 DEF T, upTo

\* No line of a spam header stays; and a block begins with a continuation that
\* reads as a signature after it exactly if it does before: in front of such a
\* line nothing was taken away.
LEMMA StripIs ==
    ASSUME NEW S, NEW lines \in Seq(S)
    PROVE  /\ IsSeq(Strip(lines))
           /\ \A i \in 1..Len(Strip(lines)) : Strip(lines)[i].name \notin SpamNames
           /\ Spills(Strip(lines)) <=> Spills(lines)
<1> DEFINE stay == {i \in DOMAIN lines : Kept(lines, i)}
           order == InOrder(stay, Ascending(stay))
           n == Cardinality(stay)
<1>1. DOMAIN lines = 1..Len(lines) /\ Len(lines) \in Nat
  OBVIOUS
<1>2. stay \subseteq Nat /\ IsFiniteSet(stay)
  <2>1. IsFiniteSet(1..Len(lines)) /\ stay \subseteq 1..Len(lines)
    BY <1>1, FS_Interval
  <2> QED
    BY <2>1, FS_Subset
<1>3. \A i \in 1..Len(lines) : i \in stay <=> Kept(lines, i)
  BY <1>1
<1>4. stay \subseteq 1..Len(lines)
  BY <1>1
<1> HIDE DEF stay
<1>5. /\ n \in Nat /\ order \in [1..n -> stay]
      /\ \A i, j \in 1..n : i < j => order[i] < order[j]
      /\ \A x \in stay : \E i \in 1..n : order[i] = x
  <2>1. Orders(Ascending(stay), stay)
    BY <1>2, AscendingOrders
  <2> HIDE DEF order
  <2>2. /\ n \in Nat /\ order \in [1..n -> stay]
        /\ \A i, j \in 1..n : i < j => <<order[i], order[j]>> \in Ascending(stay)
        /\ \A x \in stay : \E i \in 1..n : order[i] = x
    BY <1>2, <2>1, InOrderEnumerates DEF order
  <2> HIDE DEF n
  <2>3. \A x, y : <<x, y>> \in Ascending(stay) => x < y
    BY DEF Ascending
  <2> QED
    BY <2>2, <2>3
<1>6. Strip(lines) = [i \in 1..n |-> lines[order[i]]]
  <2>1. DOMAIN order = 1..n
    BY <1>5
  <2> QED
    BY <2>1 DEF Strip, stay
<1> DEFINE s == Strip(lines)
<1> HIDE DEF n, order, s
<1>7. \A i \in 1..Len(lines) :
         i \in Nat /\ i \in 1..i /\ \A j \in 1..i : j \in 1..Len(lines) /\ j \in Nat /\ j <= i
  BY <1>1
<1>8. DOMAIN s = 1..n /\ Len(s) = n /\ IsSeq(s) /\ \A i \in 1..n : s[i] = lines[order[i]]
  BY <1>5, <1>6 DEF s, IsSeq
<1>9. \A i \in 1..n : order[i] \in stay /\ order[i] \in 1..Len(lines)
  BY <1>4, <1>5
<1>10. ASSUME NEW q \in 1..Len(lines), lines[q].name # None
      PROVE  q \in stay <=> lines[q].name \notin SpamNames
  <2>1. q \in Begun(lines, q) /\ \A k \in Begun(lines, q) : k <= q /\ k \in Nat
    BY <1>7, <1>10 DEF Begun
  <2>2. \A j \in Begun(lines, q) : (\A k \in Begun(lines, q) : k <= j) <=> j = q
    BY <2>1
  <2> QED
    BY <1>3, <2>1, <2>2 DEF Kept
<1>11. \A i \in 1..n : s[i].name \notin SpamNames
  BY <1>8, <1>9, <1>10, NoSpamName
<1>12. ASSUME Spills(lines) PROVE Spills(s)
  <2>1. PICK i \in 1..Len(lines) :
           (\A j \in 1..i : lines[j].name = None) /\ lines[i].value = "sig="
    BY <1>1, <1>12 DEF Spills
  <2>2. i \in stay
    <3>1. Begun(lines, i) = {}
      BY <2>1 DEF Begun
    <3> QED
      BY <1>3, <3>1 DEF Kept
  <2>3. PICK k \in 1..n : order[k] = i
    BY <1>5, <2>2
  <2>4. ASSUME NEW j \in 1..k PROVE s[j].name = None
    <3>1. j \in 1..n /\ (j < k \/ j = k)
      BY <1>5
    <3>2. order[j] \in 1..i
      BY <1>1, <1>5, <1>9, <2>3, <3>1
    <3> QED
      BY <1>8, <2>1, <3>1, <3>2
  <2> QED
    BY <1>8, <2>1, <2>3, <2>4 DEF Spills
<1>13. ASSUME Spills(s) PROVE Spills(lines)
  <2>1. PICK k \in 1..n : (\A j \in 1..k : s[j].name = None) /\ s[k].value = "sig="
    BY <1>8, <1>13 DEF Spills
  <2>2. PICK i \in 1..Len(lines) :
           i = order[k] /\ i \in stay /\ lines[i].value = "sig=" /\ Kept(lines, i)
    BY <1>3, <1>8, <1>9, <2>1
  <2>3. i \in Nat
    BY <1>7
  <2>4. ASSUME Begun(lines, i) # {} PROVE FALSE
    <3>1. PICK q \in Begun(lines, i) :
             q \in 1..i /\ q <= i /\ q \in Nat /\ \A x \in Begun(lines, i) : x <= q
      BY <2>4, <2>3, LastBegun
    <3>2. lines[q].name # None
      BY DEF Begun
    <3>3. q \in 1..Len(lines)
      BY <1>7, <3>1
    <3>4. q \in stay
      BY <1>10, <2>2, <3>1, <3>2, <3>3 DEF Kept
    <3>5. PICK m \in 1..n : order[m] = q
      BY <1>5, <3>4
    <3>6. m \in 1..k
      <4>1. m > k => i < q
        BY <1>5, <2>2, <3>5
      <4> QED
        BY <1>5, <2>3, <3>1, <4>1
    <3>7. s[m].name = None
      BY <2>1, <3>6
    <3>8. s[m] = lines[q]
      BY <1>8, <3>5
    <3> QED
      BY <3>2, <3>7, <3>8
  <2>5. \A j \in 1..i : lines[j].name = None
    BY <2>4 DEF Begun
  <2> QED
    BY <1>1, <2>2, <2>5 DEF Spills
<1> QED
  BY <1>8, <1>11, <1>12, <1>13 DEF s

-----------------------------------------------------------------------------
(* What the plugin reads of a tagged message *)

LEMMA LineIs ==
    ASSUME NEW name, NEW value
    PROVE  /\ IsSeq(<<Line(name, value)>>)
           /\ Places(<<Line(name, value)>>, name) = {1}
           /\ FirstPlace(<<Line(name, value)>>, name) = 1
           /\ GetHeader(<<Line(name, value)>>, name) = value
           /\ \A other : other # name => Places(<<Line(name, value)>>, other) = {}
<1> DEFINE one == <<Line(name, value)>>
<1>1. IsSeq(one) /\ DOMAIN one = {1} /\ one[1] = Line(name, value)
  BY SingleIs
<1> HIDE DEF one
<1>2. \A other : Places(one, other) = {i \in {1} : Line(name, value).name = other}
  BY <1>1 DEF Places
<1>3. Line(name, value).name = name /\ Line(name, value).value = value
  BY DEF Line
<1>4. Places(one, name) = {1}
  BY <1>2, <1>3
<1>5. FirstPlace(one, name) = 1
  BY <1>1, <1>4, FirstPlaceIs
<1>6. \A other : other # name => Places(one, other) = {}
  BY <1>2, <1>3
<1> QED
  BY <1>1, <1>3, <1>4, <1>5, <1>6 DEF one, GetHeader

LEMMA PresentIs ==
    ASSUME NEW name, NEW value
    PROVE  /\ IsSeq(Present(name, value))
           /\ value # None => Places(Present(name, value), name) # {}
           /\ value = None => Places(Present(name, value), name) = {}
           /\ GetHeader(Present(name, value), name) = IF value = None THEN None ELSE Fold[value]
           /\ \A other : other # name => Places(Present(name, value), other) = {}
<1>1. CASE value = None
  <2>1. IsSeq(<<>>) /\ \A other : Places(<<>>, other) = {}
    BY DEF IsSeq, Places
  <2>2. Present(name, value) = <<>>
    BY <1>1 DEF Present
  <2> QED
    BY <1>1, <2>1, <2>2 DEF GetHeader
<1>2. CASE value # None
  <2>1. Present(name, value) = <<Line(name, Fold[value])>>
    BY <1>2 DEF Present
  <2> DEFINE one == <<Line(name, Fold[value])>>
  <2>2. /\ IsSeq(one) /\ Places(one, name) # {} /\ GetHeader(one, name) = Fold[value]
        /\ \A other : other # name => Places(one, other) = {}
    BY LineIs
  <2> HIDE DEF one
  <2> QED
    BY <1>2, <2>1, <2>2 DEF one
<1> QED
  BY <1>1, <1>2

\* LookUp, for any name.
Behind(p, q, pq) ==
    /\ IsSeq(pq) /\ Len(p) \in Nat /\ Len(pq) = Len(p) + Len(q)
    /\ \A name :
          /\ Places(p, name) # {} =>
                /\ Places(pq, name) # {}
                /\ GetHeader(pq, name) = GetHeader(p, name)
                /\ FirstPlace(pq, name) = FirstPlace(p, name)
          /\ Places(p, name) = {} =>
                /\ (Places(pq, name) = {} <=> Places(q, name) = {})
                /\ GetHeader(pq, name) = GetHeader(q, name)
                /\ Places(q, name) # {} => FirstPlace(pq, name) = Len(p) + FirstPlace(q, name)

LEMMA ConcatBehind ==
    ASSUME NEW p, NEW q, IsSeq(p), IsSeq(q)
    PROVE  Behind(p, q, p \o q)
<1>1. IsSeq(p \o q) /\ Len(p) \in Nat /\ Len(p \o q) = Len(p) + Len(q)
  BY ConcatIs
<1> QED
  BY <1>1, LookUp DEF Behind

\* Lines with no spam header.
Stripped(s) == IsSeq(s) /\ \A i \in 1..Len(s) : s[i].name \notin SpamNames

\* In front of lines with no spam header, the headers of a verdict are what the
\* plugin finds; behind the signature come those lines.
LEMMA BuildSays ==
    ASSUME NEW v, NEW ts, NEW s, Stripped(s)
    PROVE  /\ IsSeq(Build(v, ts)) /\ IsSeq(Prepend(s, Build(v, ts)))
           /\ Places(Prepend(s, Build(v, ts)), "Verdict") # {}
           /\ Places(Prepend(s, Build(v, ts)), "Signature") # {}
           /\ GetHeader(Prepend(s, Build(v, ts)), "Verdict") = v.verdict
           /\ GetHeader(Prepend(s, Build(v, ts)), "Category") = Fold[v.category]
           /\ GetHeader(Prepend(s, Build(v, ts)), "Whitelisted") = Fold[v.whitelisted]
           /\ GetHeader(Prepend(s, Build(v, ts)), "Signature") = Canonical(v, ts)
           /\ FirstPlace(Prepend(s, Build(v, ts)), "Signature") = Len(Build(v, ts))
<1> DEFINE p1 == <<Line("Verdict", v.verdict)>>
           p2 == Present("Category", v.category)
           p3 == Present("Whitelisted", v.whitelisted)
           p4 == <<Line("Signature", Canonical(v, ts))>>
           p12 == p1 \o p2
           p123 == p12 \o p3
           b == p123 \o p4
           all == b \o s
<1>1. /\ IsSeq(p1) /\ Places(p1, "Verdict") # {} /\ GetHeader(p1, "Verdict") = v.verdict
      /\ \A other : other # "Verdict" => Places(p1, other) = {}
  BY LineIs
<1>2. /\ IsSeq(p2) /\ GetHeader(p2, "Category") = Fold[v.category]
      /\ \A other : other # "Category" => Places(p2, other) = {}
      /\ v.category # None => Places(p2, "Category") # {}
      /\ v.category = None => Places(p2, "Category") = {}
  BY PresentIs, HeadersAssumption
<1>3. /\ IsSeq(p3) /\ GetHeader(p3, "Whitelisted") = Fold[v.whitelisted]
      /\ \A other : other # "Whitelisted" => Places(p3, other) = {}
      /\ v.whitelisted # None => Places(p3, "Whitelisted") # {}
      /\ v.whitelisted = None => Places(p3, "Whitelisted") = {}
  BY PresentIs, HeadersAssumption
<1>4. /\ IsSeq(p4) /\ Places(p4, "Signature") # {} /\ Len(p4) = 1
      /\ GetHeader(p4, "Signature") = Canonical(v, ts) /\ FirstPlace(p4, "Signature") = 1
      /\ \A other : other # "Signature" => Places(p4, other) = {}
  BY LineIs, SingleIs
<1>5. \A name \in SpamNames : Places(s, name) = {} /\ GetHeader(s, name) = None
  BY DEF Places, GetHeader, IsSeq, Stripped
<1>6. {"Verdict", "Category", "Whitelisted", "Signature"} \subseteq SpamNames
  BY DEF SpamNames
<1> HIDE DEF p1, p2, p3, p4
<1>7. Behind(p1, p2, p12)
  BY <1>1, <1>2, ConcatBehind
<1>8. IsSeq(p12)
  BY <1>7 DEF Behind
<1> HIDE DEF p12
<1>9. Behind(p12, p3, p123)
  BY <1>3, <1>8, ConcatBehind
<1>10. IsSeq(p123)
  BY <1>9 DEF Behind
<1> HIDE DEF p123
<1>11. Behind(p123, p4, b)
  BY <1>4, <1>10, ConcatBehind
<1>12. IsSeq(b)
  BY <1>11 DEF Behind
<1> HIDE DEF b
<1>13. Behind(b, s, all)
  BY <1>12, ConcatBehind DEF Stripped
<1> HIDE DEF all
<1>14. Places(all, "Verdict") # {} /\ GetHeader(all, "Verdict") = v.verdict
  BY <1>1, <1>7, <1>9, <1>11, <1>13 DEF Behind
<1>15. GetHeader(all, "Category") = Fold[v.category]
  <2>1. /\ Places(p12, "Category") = {} <=> v.category = None
        /\ GetHeader(p12, "Category") = Fold[v.category]
    BY <1>1, <1>2, <1>7 DEF Behind
  <2>2. CASE v.category # None
    BY <1>9, <1>11, <1>13, <2>1, <2>2 DEF Behind
  <2>3. CASE v.category = None
    <3>1. Places(b, "Category") = {}
      BY <1>3, <1>4, <1>9, <1>11, <2>1, <2>3 DEF Behind
    <3> QED
      BY <1>5, <1>6, <1>13, <2>3, <3>1, HeadersAssumption DEF Behind
  <2> QED
    BY <2>2, <2>3
<1>16. GetHeader(all, "Whitelisted") = Fold[v.whitelisted]
  <2>1. Places(p12, "Whitelisted") = {}
    BY <1>1, <1>2, <1>7 DEF Behind
  <2>2. /\ Places(p123, "Whitelisted") = {} <=> v.whitelisted = None
        /\ GetHeader(p123, "Whitelisted") = Fold[v.whitelisted]
    BY <1>3, <1>9, <2>1 DEF Behind
  <2>3. CASE v.whitelisted # None
    BY <1>11, <1>13, <2>2, <2>3 DEF Behind
  <2>4. CASE v.whitelisted = None
    <3>1. Places(b, "Whitelisted") = {}
      <4>1. Places(p4, "Whitelisted") = {} /\ Places(p123, "Whitelisted") = {}
        BY <1>4, <2>2, <2>4
      <4> QED
        BY <1>11, <4>1 DEF Behind
    <3> QED
      BY <1>5, <1>6, <1>13, <2>4, <3>1, HeadersAssumption DEF Behind
  <2> QED
    BY <2>3, <2>4
<1>17. /\ Places(all, "Signature") # {} /\ GetHeader(all, "Signature") = Canonical(v, ts)
       /\ FirstPlace(all, "Signature") = Len(b)
  <2>1. Places(p123, "Signature") = {}
    BY <1>1, <1>2, <1>3, <1>7, <1>9 DEF Behind
  <2>2. /\ Places(b, "Signature") # {} /\ GetHeader(b, "Signature") = Canonical(v, ts)
        /\ FirstPlace(b, "Signature") = Len(p123) + 1
    BY <1>4, <1>11, <2>1 DEF Behind
  <2>3. Len(b) = Len(p123) + 1
    BY <1>4, <1>11 DEF Behind
  <2> QED
    BY <1>13, <2>2, <2>3 DEF Behind
<1>18. Build(v, ts) = b /\ Prepend(s, Build(v, ts)) = all
  BY DEF Build, Prepend, all, b, p123, p12, p1, p2, p3, p4
<1>19. IsSeq(all)
  BY <1>13 DEF Behind
<1> QED
  BY <1>12, <1>14, <1>15, <1>16, <1>17, <1>18, <1>19

\* What continues the signature is what the message begins with.
LEMMA TailsAre ==
    ASSUME NEW v, NEW ts, NEW s, Stripped(s)
    PROVE  "sig=" \in Tails(Prepend(s, Build(v, ts))) <=> Spills(s)
<1> DEFINE b == Build(v, ts)
           all == b \o s
<1>1. IsSeq(b) /\ FirstPlace(all, "Signature") = Len(b)
  BY BuildSays DEF Prepend
<1> HIDE DEF b
<1>2. PICK n \in Nat : n = Len(b)
  BY <1>1 DEF IsSeq
<1>3. PICK m \in Nat : m = Len(s)
  BY DEF IsSeq, Stripped
<1>4. Len(all) = n + m /\ DOMAIN s = 1..m /\ \A i \in 1..m : all[n + i] = s[i]
  <2>1. IsSeq(s) /\ DOMAIN s = 1..m
    BY <1>3 DEF IsSeq, Stripped
  <2> QED
    BY <1>1, <1>2, <1>3, <2>1, ConcatIs
<1> DEFINE tails == {i \in n + 1..n + m : \A k \in n + 1..i : all[k].name = None}
<1>5. Tails(all) = {all[i].value : i \in tails}
  BY <1>1, <1>2, <1>4 DEF Tails
<1> HIDE DEF all
<1>6. \A k \in n + 1..n + m : k - n \in 1..m /\ k = n + (k - n)
  OBVIOUS
<1>7. \A k \in n + 1..n + m : all[k] = s[k - n]
  BY <1>4, <1>6
<1>8. ASSUME Spills(s) PROVE \E i \in tails : all[i].value = "sig="
  <2>1. PICK i \in 1..m : (\A j \in 1..i : s[j].name = None) /\ s[i].value = "sig="
    BY <1>4, <1>8 DEF Spills
  <2>2. n + i \in n + 1..n + m
    OBVIOUS
  <2>3. ASSUME NEW k \in n + 1..n + i PROVE all[k].name = None
    <3>1. k \in n + 1..n + m /\ k - n \in 1..i
      OBVIOUS
    <3> QED
      BY <1>7, <2>1, <3>1
  <2>4. n + i \in tails /\ all[n + i].value = "sig="
    BY <1>4, <2>1, <2>2, <2>3
  <2> QED
    BY <2>4
<1>9. ASSUME NEW i \in tails, all[i].value = "sig=" PROVE Spills(s)
  <2>1. i \in n + 1..n + m /\ \A k \in n + 1..i : all[k].name = None
    OBVIOUS
  <2>2. PICK l \in 1..m : l = i - n /\ i = n + l
    BY <1>6, <2>1
  <2>3. s[l].value = "sig="
    BY <1>7, <1>9, <2>1, <2>2
  <2>4. ASSUME NEW j \in 1..l PROVE s[j].name = None
    <3>1. n + j \in n + 1..n + l /\ j \in 1..m
      BY <2>2
    <3> QED
      BY <1>4, <2>1, <2>2, <3>1
  <2> QED
    BY <1>4, <2>3, <2>4 DEF Spills
<1>10. "sig=" \in Tails(all) <=> Spills(s)
  BY <1>5, <1>8, <1>9
<1> QED
  BY <1>10 DEF all, b, Prepend

LEMMA SignatureHolds ==
    ASSUME NEW v, NEW s, Stripped(s), NEW fresh \in BOOLEAN
    PROVE  Verifies(Prepend(s, Build(v, "now")), fresh) <=> fresh /\ Plain(v) /\ ~Spills(s)
<1> DEFINE all == Prepend(s, Build(v, "now"))
<1>1. /\ Places(all, "Signature") # {}
      /\ GetHeader(all, "Verdict") = v.verdict
      /\ GetHeader(all, "Category") = Fold[v.category]
      /\ GetHeader(all, "Whitelisted") = Fold[v.whitelisted]
      /\ GetHeader(all, "Signature") = Canonical(v, "now")
  BY BuildSays
<1>2. "sig=" \in Tails(all) <=> Spills(s)
  BY TailsAre
<1> HIDE DEF all
<1>3. Parses(all) <=> ~Spills(s)
  BY <1>1, <1>2 DEF Parses
<1>4. Canonical(v, "now") =
         [ts |-> Canonical(v, "now").ts, verdict |-> v.verdict,
          category |-> Fold[v.category], whitelisted |-> Fold[v.whitelisted]] <=> Plain(v)
  BY DEF Canonical, Plain
<1>5. Verifies(all, fresh) <=> Parses(all) /\ fresh /\ Plain(v)
  BY <1>1, <1>4 DEF Verifies
<1> QED
  BY <1>3, <1>5 DEF all

LEMMA OpinionVerdicts ==
    ASSUME NEW v \in Opinions
    PROVE  v.verdict \in {"HAM", "SPAM", "PHISHING", "MALICIOUS", "SKIPPED", "ERROR"}
<1> DEFINE Judged == {[verdict |-> n, category |-> c, whitelisted |-> None] :
                         n \in {"HAM", "SPAM", "PHISHING", "MALICIOUS", "SKIPPED", "ERROR"},
                         c \in Categories}
           Listed == {[verdict |-> "HAM", category |-> "whitelisted", whitelisted |-> r] :
                         r \in Rules \ {None}}
<1>1. \A u \in Judged : u.verdict \in {"HAM", "SPAM", "PHISHING", "MALICIOUS", "SKIPPED", "ERROR"}
  OBVIOUS
<1>2. \A u \in Listed : u.verdict = "HAM"
  OBVIOUS
<1>3. Opinions = Judged \union Listed
  BY DEF Opinions
<1> HIDE DEF Judged, Listed
<1>4. v \in Judged \/ v \in Listed
  BY <1>3
<1> QED
  BY <1>1, <1>2, <1>4

LEMMA SymbolOfName ==
    ASSUME NEW name \in {"HAM", "SPAM", "PHISHING", "MALICIOUS", "SKIPPED", "ERROR"}
    PROVE  SymbolsOf[name] = CASE name = "SPAM" -> "SPAMALLAM_SPAM"
                               [] name = "PHISHING" -> "SPAMALLAM_PHISH"
                               [] name = "MALICIOUS" -> "SPAMALLAM_MALICIOUS"
                               [] name = "HAM" -> "SPAMALLAM_HAM"
                               [] OTHER -> "SPAMALLAM_SKIPPED"
<1>1. CASE name = "HAM"
  BY <1>1 DEF SymbolsOf
<1>2. CASE name = "SPAM"
  BY <1>2 DEF SymbolsOf
<1>3. CASE name = "PHISHING"
  BY <1>3 DEF SymbolsOf
<1>4. CASE name = "MALICIOUS"
  BY <1>4 DEF SymbolsOf
<1>5. CASE name = "SKIPPED" \/ name = "ERROR"
  BY <1>5 DEF SymbolsOf
<1> QED
  BY <1>1, <1>2, <1>3, <1>4, <1>5

LEMMA PluginReads ==
    ASSUME NEW v \in Opinions, NEW s, Stripped(s), NEW fresh \in BOOLEAN
    PROVE  Plugin(Prepend(s, Build(v, "now")), fresh) =
               IF ~fresh \/ ~Plain(v) \/ Spills(s) THEN "SPAMALLAM_SIG_INVALID" ELSE Symbol(v)
<1> DEFINE all == Prepend(s, Build(v, "now"))
<1>1. /\ Places(all, "Verdict") # {}
      /\ GetHeader(all, "Verdict") = v.verdict
      /\ GetHeader(all, "Whitelisted") = Fold[v.whitelisted]
  BY BuildSays
<1>2. Verifies(all, fresh) <=> fresh /\ Plain(v) /\ ~Spills(s)
  BY SignatureHolds
<1> HIDE DEF all
<1>3. v.verdict \in {"HAM", "SPAM", "PHISHING", "MALICIOUS", "SKIPPED", "ERROR"}
  BY OpinionVerdicts
<1>4. CASE ~Verifies(all, fresh)
  BY <1>1, <1>2, <1>4 DEF Plugin, all
<1>5. CASE Verifies(all, fresh)
  <2>1. Fold[v.whitelisted] = v.whitelisted
    BY <1>2, <1>5 DEF Plain
  <2>2. CASE v.whitelisted # None
    BY <1>1, <1>2, <1>5, <2>1, <2>2 DEF Plugin, Symbol, all
  <2>3. CASE v.whitelisted = None
    <3>1. Symbol(v) = SymbolsOf[v.verdict]
      BY <2>3 DEF Symbol
    <3>2. Plugin(all, fresh) =
             CASE v.verdict = "SPAM" -> "SPAMALLAM_SPAM"
               [] v.verdict = "PHISHING" -> "SPAMALLAM_PHISH"
               [] v.verdict = "MALICIOUS" -> "SPAMALLAM_MALICIOUS"
               [] v.verdict = "HAM" -> "SPAMALLAM_HAM"
               [] OTHER -> "SPAMALLAM_SKIPPED"
      BY <1>1, <1>5, <2>1, <2>3 DEF Plugin
    <3>3. Plugin(all, fresh) = SymbolsOf[v.verdict]
      BY <1>3, <3>2, SymbolOfName
    <3> QED
      BY <1>2, <1>5, <3>1, <3>3 DEF all
  <2> QED
    BY <2>2, <2>3
<1> QED
  BY <1>4, <1>5

LEMMA ArrivedIs ==
    ASSUME NEW lines \in Inbound
    PROVE  Stripped(Strip(lines)) /\ (Spills(Strip(lines)) <=> Spills(lines))
<1>1. lines \in Seq({lines[i] : i \in DOMAIN lines})
  BY HeadersAssumption
<1> QED
  BY <1>1, StripIs DEF Stripped

LEMMA HeadersStart == Init => HeadersInv
<1> SUFFICES ASSUME Init PROVE HeadersInv
  OBVIOUS
<1> QED
  BY DEF Init, HeadersInit, HeadersInv, Scored

LEMMA HeadersStep == HeadersInv /\ [Next]_vars => HeadersInv'
<1> SUFFICES ASSUME HeadersInv, [Next]_vars PROVE HeadersInv'
  OBVIOUS
<1>1. CASE UNCHANGED headersVars
  BY <1>1 DEF HeadersInv, Scored, headersVars
<1>2. ASSUME NEW v \in Opinions, Tag(v) PROVE HeadersInv'
  <2>1. tag' = v /\ v # NoTag /\ tag = NoTag
    BY <1>2, TagAssumption DEF Tag
  <2>2. block' = Prepend(Strip(arrived), Build(v, "now"))
    BY <1>2, <2>1 DEF Tag, HeadersInv
  <2>3. UNCHANGED <<arrived, late>> /\ symbol' = "unscored"
    BY <1>2 DEF Tag
  <2> QED
    BY <2>1, <2>2, <2>3 DEF HeadersInv, Scored
<1>3. ASSUME NEW fresh \in BOOLEAN, Scan(fresh) PROVE HeadersInv'
  <2>1. /\ symbol' = Plugin(block, fresh) /\ late' = ~fresh
        /\ UNCHANGED <<block, arrived, tag>>
    BY <1>3 DEF Scan
  <2>2. Stripped(Strip(arrived)) /\ (Spills(Strip(arrived)) <=> Spills(arrived))
    BY ArrivedIs DEF HeadersInv
  <2>3. CASE tag = NoTag
    <3>1. Places(Strip(arrived), "Verdict") = {}
      BY <2>2 DEF Stripped, Places, IsSeq, SpamNames
    <3>2. symbol' = "none"
      BY <2>1, <2>3, <3>1 DEF Plugin, HeadersInv
    <3> QED
      BY <2>1, <2>3, <3>2 DEF HeadersInv, Scored
  <2>4. CASE tag # NoTag
    <3>1. tag \in Opinions /\ block = Prepend(Strip(arrived), Build(tag, "now"))
      BY <2>4 DEF HeadersInv
    <3>2. Plugin(block, fresh) = IF ~fresh \/ ~Plain(tag) \/ Spills(arrived)
                                 THEN "SPAMALLAM_SIG_INVALID" ELSE Symbol(tag)
      BY <2>2, <3>1, PluginReads
    <3> QED
      BY <2>1, <2>4, <3>2 DEF HeadersInv, Scored
  <2> QED
    BY <2>3, <2>4
<1> QED
  BY <1>1, <1>2, <1>3 DEF Next, SettingsNext, LogsNext, HeadersNext, vars

\* Whatever the message arrives with, of any header lines, and whatever it is
\* judged: no verdict but this gateway's is scored, and its own is unless it is
\* stale, changed by the clean-up, or spilt into (strip_spam_headers,
\* build_spamallam_headers, rspamd.local.lua).
THEOREM HeadersAreHonoured == Spec => []HeadersHonoured
<1>1. HeadersInv => HeadersHonoured
  BY DEF HeadersInv, Scored, HeadersHonoured
<1> QED
  BY <1>1, HeadersStart, HeadersStep, PTL DEF Spec

-----------------------------------------------------------------------------
(* The cache of traces *)

\* The first n of a sequence.
LEMMA FirstNIs ==
    ASSUME NEW S, NEW s \in Seq(S), NEW n \in Nat
    PROVE  /\ FirstN(s, n) \in Seq(S)
           /\ Len(FirstN(s, n)) = IF Len(s) <= n THEN Len(s) ELSE n
           /\ \A i \in 1..Len(FirstN(s, n)) : i \in 1..Len(s) /\ FirstN(s, n)[i] = s[i]
<1> DEFINE m == IF Len(s) <= n THEN Len(s) ELSE n
<1>1. Len(s) \in Nat /\ m \in Nat /\ m <= Len(s)
  OBVIOUS
<1> HIDE DEF m
<1>2. /\ SubSeq(s, 1, m) \in Seq(S) /\ Len(SubSeq(s, 1, m)) = m
      /\ \A i \in 1..m : i \in 1..Len(s) /\ SubSeq(s, 1, m)[i] = s[i]
  BY <1>1
<1>3. FirstN(s, n) = SubSeq(s, 1, m)
  BY DEF FirstN, m
<1> QED
  BY <1>2, <1>3 DEF m

\* A line's trace.
TraceAt(line) == disk[line[1]][line[2]]

\* Lines of other places are other traces.
LEMMA LinesOrdered ==
    ASSUME CacheInv, NEW bad
    PROVE  /\ Orders(NewestFirst(DiskLines(bad)), DiskLines(bad))
           /\ \A x, y : <<x, y>> \in NewestFirst(DiskLines(bad)) =>
                 x \in DiskLines(bad) /\ y \in DiskLines(bad) /\ Newer(TraceAt(x), TraceAt(y))
           /\ \A x \in DiskLines(bad) : TraceAt(x) \in begun \ open
<1> DEFINE lines == DiskLines(bad)
<1>1. \A x \in lines : /\ x[1] \in Days \ bad /\ x[2] \in DOMAIN disk[x[1]]
                       /\ x = <<x[1], x[2]>> /\ x[1] \in Nat /\ x[2] \in Nat
  <2>1. \A d \in Days : d \in Nat /\ DOMAIN disk[d] \subseteq Nat
    <3>1. Days \subseteq Nat
      BY LogsAssumption DEF Days
    <3>2. \A d \in Days : disk[d] \in Seq(Traces)
      BY DEF CacheInv, KeepInv
    <3>3. \A s \in Seq(Traces) : DOMAIN s \subseteq Nat
      OBVIOUS
    <3> QED
      BY <3>1, <3>2, <3>3
  <2> QED
    BY <2>1 DEF DiskLines
<1>2. \A x \in lines : TraceAt(x) \in begun \ open /\ day[TraceAt(x)] = x[1]
  BY <1>1 DEF CacheInv, KeepInv, TraceAt
<1>3. ASSUME NEW x \in lines, NEW y \in lines, x[1] = y[1], x[2] > y[2]
      PROVE  nth[TraceAt(y)] < nth[TraceAt(x)]
  BY <1>1, <1>3 DEF CacheInv, NumbersInv, TraceAt
<1> HIDE DEF lines
<1>4. \A x, y : <<x, y>> \in NewestFirst(lines) <=>
         x \in lines /\ y \in lines /\ (x[1] > y[1] \/ (x[1] = y[1] /\ x[2] > y[2]))
  BY DEF NewestFirst
<1>5. Orders(NewestFirst(lines), lines)
  <2>1. ASSUME NEW x \in lines, NEW y \in lines, x # y
        PROVE  <<x, y>> \in NewestFirst(lines) \/ <<y, x>> \in NewestFirst(lines)
    <3>1. x[1] # y[1] \/ x[2] # y[2]
      BY <1>1, <2>1
    <3> QED
      BY <1>1, <1>4, <3>1
  <2>2. \A x \in lines : <<x, x>> \notin NewestFirst(lines)
    BY <1>1, <1>4
  <2>3. ASSUME NEW x \in lines, NEW y \in lines, NEW z \in lines,
               <<x, y>> \in NewestFirst(lines), <<y, z>> \in NewestFirst(lines)
        PROVE  <<x, z>> \in NewestFirst(lines)
    BY <1>1, <1>4, <2>3
  <2> QED
    BY <2>1, <2>2, <2>3 DEF Orders
<1>6. \A x, y : <<x, y>> \in NewestFirst(lines) => Newer(TraceAt(x), TraceAt(y))
  BY <1>1, <1>2, <1>3, <1>4 DEF Newer
<1> QED
  BY <1>2, <1>4, <1>5, <1>6 DEF lines

\* There are no more lines than traces.
LEMMA LinesFinite ==
    ASSUME CacheInv, NEW bad
    PROVE  IsFiniteSet(DiskLines(bad))
<1> DEFINE lines == DiskLines(bad)
           f == [x \in lines |-> TraceAt(x)]
<1>1. \A x \in lines : TraceAt(x) \in Traces /\ nth[TraceAt(x)] \in Nat /\ day[TraceAt(x)] \in Nat
  <2>1. \A t \in Traces : nth[t] \in Nat /\ day[t] \in Nat
    <3>1. Days \subseteq Nat
      BY LogsAssumption DEF Days
    <3> QED
      BY <3>1 DEF CacheInv, KeepInv, NumbersInv
  <2>2. \A x \in lines : TraceAt(x) \in Traces
    BY LinesOrdered DEF CacheInv, NumbersInv
  <2> QED
    BY <2>1, <2>2
<1>2. ASSUME NEW x \in lines, NEW y \in lines, x # y PROVE TraceAt(x) # TraceAt(y)
  <2>1. <<x, y>> \in NewestFirst(lines) \/ <<y, x>> \in NewestFirst(lines)
    BY <1>2, LinesOrdered DEF Orders
  <2>2. Newer(TraceAt(x), TraceAt(y)) \/ Newer(TraceAt(y), TraceAt(x))
    BY <2>1, LinesOrdered
  <2> QED
    BY <1>1, <2>2 DEF Newer
<1>3. f \in Injection(lines, Traces)
  <2>1. f \in [lines -> Traces] /\ \A x, y \in lines : x # y => f[x] # f[y]
    BY <1>1, <1>2
  <2> HIDE DEF f, lines
  <2> QED
    BY <2>1, Fun_IsInj
<1> QED
  BY <1>3, LogsAssumption, FS_Injection

\* What a load of the cache leaves in it.
LEMMA FromDiskIs ==
    ASSUME CacheInv, NEW bad, NEW n \in Nat
    PROVE  /\ FromDisk(n, bad) \in Seq(begun \ open) /\ Len(FromDisk(n, bad)) <= n
           /\ \A i, j \in 1..Len(FromDisk(n, bad)) :
                 i < j => Newer(FromDisk(n, bad)[i], FromDisk(n, bad)[j])
           /\ \A x \in DiskLines(bad) :
                 \/ \E i \in 1..Len(FromDisk(n, bad)) : FromDisk(n, bad)[i] = TraceAt(x)
                 \/ /\ Len(FromDisk(n, bad)) = n
                    /\ \A i \in 1..n : Newer(FromDisk(n, bad)[i], TraceAt(x))
<1> DEFINE lines == DiskLines(bad)
           order == InOrder(lines, NewestFirst(lines))
           m == Cardinality(lines)
           s == [i \in 1..m |-> TraceAt(order[i])]
           c == FirstN(s, n)
<1> HIDE DEF lines, order, m
<1>1. /\ m \in Nat /\ order \in [1..m -> lines]
      /\ \A i, j \in 1..m : i < j => <<order[i], order[j]>> \in NewestFirst(lines)
      /\ \A x \in lines : \E i \in 1..m : order[i] = x
  BY LinesOrdered, LinesFinite, InOrderEnumerates DEF lines, order, m
<1>2. \A x \in lines : TraceAt(x) \in begun \ open
  BY LinesOrdered DEF lines
<1>3. s \in Seq(begun \ open) /\ Len(s) = m /\ \A i \in 1..m : s[i] = TraceAt(order[i])
  <2>1. \A i \in 1..m : TraceAt(order[i]) \in begun \ open
    BY <1>1, <1>2
  <2>2. s \in [1..m -> begun \ open]
    BY <2>1
  <2> HIDE DEF s
  <2>3. s \in Seq(begun \ open) /\ Len(s) = m
    BY <1>1, <2>2, IsASeq, LenProperties
  <2> QED
    BY <2>3 DEF s
<1> HIDE DEF s
<1>4. \A i, j \in 1..m : i < j => Newer(s[i], s[j])
  <2>1. \A x, y : <<x, y>> \in NewestFirst(lines) => Newer(TraceAt(x), TraceAt(y))
    BY LinesOrdered DEF lines
  <2>2. ASSUME NEW i \in 1..m, NEW j \in 1..m, i < j PROVE Newer(s[i], s[j])
    <3>1. <<order[i], order[j]>> \in NewestFirst(lines)
      BY <1>1, <2>2
    <3>2. s[i] = TraceAt(order[i]) /\ s[j] = TraceAt(order[j])
      BY <1>3
    <3> QED
      BY <2>1, <3>1, <3>2
  <2> QED
    BY <2>2
<1>5. FromDisk(n, bad) = c
  <2>1. DOMAIN order = 1..m
    BY <1>1
  <2> QED
    BY <2>1 DEF FromDisk, TraceAt, order, lines, s
<1>6. /\ c \in Seq(begun \ open) /\ Len(c) = IF m <= n THEN m ELSE n
      /\ \A i \in 1..Len(c) : i \in 1..m /\ c[i] = s[i]
  BY <1>3, FirstNIs
<1> HIDE DEF c
<1>7. \A i, j \in 1..Len(c) : i < j => Newer(c[i], c[j])
  BY <1>4, <1>6
<1>8. ASSUME NEW x \in lines, ~(\E i \in 1..Len(c) : c[i] = TraceAt(x))
      PROVE  Len(c) = n /\ \A i \in 1..n : Newer(c[i], TraceAt(x))
  <2>1. PICK k \in 1..m : order[k] = x
    BY <1>1
  <2>2. s[k] = TraceAt(x)
    BY <1>3, <2>1
  <2>3. ~(k <= Len(c))
    BY <1>1, <1>6, <1>8, <2>2
  <2>4. Len(c) = n /\ n < k
    BY <1>1, <1>6, <2>3
  <2>5. \A i \in 1..n : Newer(c[i], s[k])
    BY <1>1, <1>4, <1>6, <2>4
  <2> QED
    BY <2>2, <2>4, <2>5
<1>9. Len(c) <= n
  BY <1>1, <1>6
<1> QED
  BY <1>5, <1>6, <1>7, <1>8, <1>9 DEF lines

LEMMA CacheStart == Init => CacheInv
<1> SUFFICES ASSUME Init PROVE CacheInv
  OBVIOUS
<1>1. \A t \in Traces : nth[t] = 0
  BY DEF Init, LogsInit
<1>2. WrittenTraces = {} /\ Cardinality(WrittenTraces) = 0
  BY <1>1, FS_EmptySet DEF WrittenTraces
<1>3. cached = <<>> /\ ~loaded /\ begun = {} /\ \A d \in Days : disk[d] = <<>>
  BY DEF Init, LogsInit
<1>4. NumbersInv
  BY <1>1, <1>2, <1>3 DEF NumbersInv, Init, LogsInit
<1>5. CacheMissesNothing
  BY <1>3 DEF CacheMissesNothing
<1>6. Len(<<>>) = 0 /\ <<>> \in Seq(begun \ open)
  OBVIOUS
<1> QED
  BY <1>3, <1>4, <1>5, <1>6, KeepInit, LogsAssumption DEF CacheInv

LEMMA ArriveCaches ==
    ASSUME CacheInv, NEW t \in Traces, Arrive(t)
    PROVE  CacheInv'
<1>1. KeepInv'
  BY ArriveKeeps DEF CacheInv
<1>2. /\ t \notin begun /\ begun' = begun \union {t} /\ open' = open \union {t}
      /\ UNCHANGED <<disk, cached, loaded, nth, unread>>
      /\ \A u \in Traces \ {t} : day'[u] = day[u]
  BY DEF Arrive, CacheInv, KeepInv
<1>3. begun \ open \subseteq begun' \ open' /\ begun \ open \subseteq Traces \ {t}
  BY <1>2 DEF CacheInv, NumbersInv
<1>4. NumbersInv'
  BY <1>2, <1>3 DEF CacheInv, NumbersInv, WrittenTraces
<1>5. cached' \in Seq(begun' \ open') /\ \A i \in 1..Len(cached) : cached[i] \in Traces \ {t}
  <2>1. \A i \in 1..Len(cached) : cached[i] \in begun \ open
    BY DEF CacheInv
  <2>2. cached \in Seq(begun' \ open')
    BY <1>3, <2>1, IsASeq DEF CacheInv
  <2> QED
    BY <1>2, <1>3, <2>1, <2>2
<1>6. \A i, j \in 1..Len(cached) : i < j => Newer(cached[i], cached[j])'
  BY <1>2, <1>5 DEF CacheInv, Newer
<1>7. OnDisk' = OnDisk /\ t \notin OnDisk
  BY <1>2 DEF CacheInv, KeepInv, OnDisk, Range
<1>8. Range(cached) \subseteq Traces \ {t}
  BY <1>5 DEF Range, CacheInv
<1>9. CacheMissesNothing'
  BY <1>2, <1>7, <1>8 DEF CacheInv, CacheMissesNothing, OnDisk
<1> QED
  BY <1>1, <1>2, <1>4, <1>5, <1>6, <1>9 DEF CacheInv

\* A trace that is written is put in front of all others, and what it pushes out
\* is older than what stays.
LEMMA RememberedCaches ==
    ASSUME CacheInv, NEW t \in Traces, t \notin begun \ open,
           UNCHANGED <<begun, day, loaded, unread>>, open' = open \ {t}, t \in begun,
           cached' = Remembered(t),
           \A u \in begun \ open : nth'[u] = nth[u] /\ nth'[u] < nth'[t],
           KeepInv', NumbersInv',
           OnDisk' \subseteq OnDisk \union {t}
    PROVE  CacheInv'
<1> DEFINE After(x, y) == day[y] < day[x] \/ nth'[y] < nth'[x]
<1>1. \A i \in 1..Len(cached) : cached[i] \in begun \ open
  BY DEF CacheInv
<1>2. \A t1, t2 \in begun \ open : Newer(t1, t2) => After(t1, t2)
  BY DEF Newer
<1>3. \A u \in begun \ open : After(t, u)
  BY DEF Newer
<1>4. begun \ open \subseteq begun' \ open' /\ t \in begun' \ open'
  OBVIOUS
<1>5. CASE ~loaded
  <2>1. cached' = cached
    BY <1>5 DEF Remembered
  <2>2. cached' \in Seq(begun' \ open')
    BY <1>1, <1>4, <2>1, IsASeq DEF CacheInv
  <2>3. \A i, j \in 1..Len(cached)' : i < j => Newer(cached[i], cached[j])'
    BY <1>1, <1>2, <2>1 DEF CacheInv, Newer
  <2> QED
    BY <1>5, <2>1, <2>2, <2>3 DEF CacheInv, CacheMissesNothing
<1>6. CASE loaded
  <2> DEFINE s == <<t>> \o cached
             c == FirstN(s, CacheMax)
  <2>1. PICK n \in Nat : n = Len(cached) /\ n <= CacheMax
    BY DEF CacheInv
  <2>2. CacheMax \in Nat /\ CacheMax >= 1
    BY LogsAssumption
  <2>3. /\ s \in Seq(begun' \ open') /\ Len(s) = n + 1 /\ s[1] = t
        /\ \A i \in 1..n : s[i + 1] = cached[i]
        /\ \A i \in 2..n + 1 : i - 1 \in 1..n /\ s[i] = cached[i - 1]
    <3>1. cached \in Seq(begun' \ open')
      BY <1>1, <1>4, IsASeq DEF CacheInv
    <3>2. <<t>> \in Seq(begun' \ open') /\ Len(<<t>>) = 1 /\ <<t>>[1] = t
      BY <1>4
    <3>3. /\ s \in Seq(begun' \ open') /\ Len(s) = n + 1
          /\ \A i \in 1..n + 1 : s[i] = IF i <= 1 THEN <<t>>[i] ELSE cached[i - 1]
      BY <2>1, <3>1, <3>2
    <3>4. \A i \in 1..n : i + 1 \in 1..n + 1 /\ ~(i + 1 <= 1) /\ (i + 1) - 1 = i
      BY <2>1
    <3>5. \A i \in 2..n + 1 : i \in 1..n + 1 /\ ~(i <= 1) /\ i - 1 \in 1..n
      BY <2>1
    <3>6. s[1] = t
      BY <2>1, <3>2, <3>3
    <3> HIDE DEF s
    <3> QED
      BY <3>3, <3>4, <3>5, <3>6
  <2> HIDE DEF s
  <2>4. \A i, j \in 1..n + 1 : i < j => After(s[i], s[j])
    <3> SUFFICES ASSUME NEW i \in 1..n + 1, NEW j \in 1..n + 1, i < j PROVE After(s[i], s[j])
      OBVIOUS
    <3>1. j \in 2..n + 1 /\ j - 1 \in 1..n /\ (i = 1 \/ (i \in 2..n + 1 /\ i - 1 \in 1..n))
      BY <2>1
    <3>2. CASE i = 1
      BY <1>1, <1>3, <2>1, <2>3, <3>1, <3>2
    <3>3. CASE i \in 2..n + 1
      <4>1. PICK k \in 1..n, m \in 1..n : k = i - 1 /\ m = j - 1 /\ k < m
        BY <2>1, <3>1, <3>3
      <4>2. s[i] = cached[k] /\ s[j] = cached[m]
        BY <2>3, <3>1, <3>3, <4>1
      <4>3. Newer(cached[k], cached[m]) /\ cached[k] \in begun \ open /\ cached[m] \in begun \ open
        BY <1>1, <2>1, <4>1 DEF CacheInv
      <4> QED
        BY <1>2, <4>2, <4>3
    <3> QED
      BY <3>1, <3>2, <3>3
  <2>5. /\ c \in Seq(begun' \ open') /\ Len(c) = IF n + 1 <= CacheMax THEN n + 1 ELSE CacheMax
        /\ \A i \in 1..Len(c) : i \in 1..n + 1 /\ c[i] = s[i]
    BY <2>2, <2>3, FirstNIs
  <2>6. cached' = c
    BY <1>6 DEF Remembered, s
  <2> HIDE DEF c
  <2>7. Len(c) \in Nat /\ Len(c) >= 1 /\ Len(c) <= CacheMax
    BY <2>1, <2>2, <2>5
  <2>8. \A i, j \in 1..Len(c) : i < j => After(c[i], c[j])
    BY <2>4, <2>5
  <2>9. ASSUME NEW x \in OnDisk', x \notin Range(c), day[x] \notin unread
        PROVE  Len(c) = CacheMax /\ \A i \in 1..Len(c) : After(c[i], x)
    <3>1. x # t
      BY <2>3, <2>5, <2>7, <2>9 DEF Range
    <3>2. x \in OnDisk /\ x \in begun \ open
      <4>1. x \in OnDisk
        BY <2>9, <3>1
      <4> QED
        BY <4>1 DEF CacheInv, KeepInv, OnDisk, Range
    <3>3. CASE x \in Range(cached)
      <4>1. PICK k \in 1..n : cached[k] = x
        BY <2>1, <3>3 DEF Range, CacheInv
      <4>2. s[k + 1] = x /\ k + 1 \in 1..n + 1
        BY <2>1, <2>3, <4>1
      <4>3. ~(k + 1 <= Len(c))
        BY <2>1, <2>5, <2>7, <2>9, <4>2 DEF Range
      <4>4. Len(c) = CacheMax /\ \A i \in 1..Len(c) : i \in 1..n + 1 /\ i < k + 1
        BY <2>1, <2>2, <2>5, <4>3
      <4> QED
        BY <2>4, <2>5, <4>2, <4>4
    <3>4. CASE x \notin Range(cached)
      <4>1. n = CacheMax /\ \A i \in 1..n : Newer(cached[i], x)
        BY <1>6, <2>1, <2>9, <3>2, <3>4 DEF CacheInv, CacheMissesNothing, Newer, Range
      <4>2. Len(c) = CacheMax
        BY <2>1, <2>2, <2>5, <4>1
      <4>3. \A i \in 2..n + 1 : After(s[i], x)
        <5> SUFFICES ASSUME NEW i \in 2..n + 1 PROVE After(s[i], x)
          OBVIOUS
        <5>1. PICK k \in 1..n : s[i] = cached[k]
          BY <2>3
        <5>2. Newer(cached[k], x) /\ cached[k] \in begun \ open
          BY <1>1, <2>1, <4>1
        <5> QED
          BY <1>2, <3>2, <5>1, <5>2
      <4>4. After(s[1], x)
        BY <1>3, <2>3, <3>2
      <4> QED
        BY <2>1, <2>5, <4>2, <4>3, <4>4
    <3> QED
      BY <3>3, <3>4
  <2>10. CacheMissesNothing'
    <3>1. \A u \in Range(c) : \E i \in 1..Len(c) : u = c[i]
      BY <2>5 DEF Range
    <3>2. \A x \in OnDisk' : x \notin Range(c) /\ day[x] \notin unread =>
             Len(c) = CacheMax /\ \A u \in Range(c) : day[x] < day[u] \/ nth'[x] < nth'[u]
      BY <2>9, <3>1
    <3> QED
      BY <2>6, <3>2 DEF CacheMissesNothing
  <2>11. \A i, j \in 1..Len(cached)' : i < j => Newer(cached[i], cached[j])'
    BY <2>6, <2>8 DEF Newer
  <2> QED
    BY <2>5, <2>6, <2>7, <2>10, <2>11 DEF CacheInv
<1> QED
  BY <1>5, <1>6

LEMMA FinishCaches ==
    ASSUME CacheInv, NEW t \in Traces, NEW copy \in BOOLEAN, NEW ok \in BOOLEAN,
           Finish(t, copy, ok)
    PROVE  CacheInv'
<1> DEFINE d0 == day[t]
<1>1. KeepInv'
  BY FinishKeeps DEF CacheInv
<1>2. /\ t \in open /\ t \in begun /\ d0 \in Days
      /\ UNCHANGED <<begun, day, loaded, unread>> /\ open' = open \ {t}
  BY DEF Finish, CacheInv, KeepInv
<1>3. begun \ open \subseteq begun' \ open' /\ t \in begun' \ open' /\ t \notin begun \ open
  BY <1>2
<1>4. \A i \in 1..Len(cached) : cached[i] \in begun \ open
  BY DEF CacheInv
<1>5. cached \in Seq(begun' \ open')
  BY <1>3, <1>4, IsASeq DEF CacheInv
<1>6. CASE ~ok
  <2>1. UNCHANGED <<disk, cached, nth>>
    BY <1>6 DEF Finish
  <2>2. NumbersInv' /\ OnDisk' = OnDisk
    BY <1>2, <1>3, <2>1 DEF CacheInv, NumbersInv, WrittenTraces, OnDisk
  <2>3. CacheMissesNothing'
    BY <1>2, <2>1, <2>2 DEF CacheInv, CacheMissesNothing
  <2>4. \A i, j \in 1..Len(cached) : i < j => Newer(cached[i], cached[j])'
    BY <1>2, <2>1 DEF CacheInv, Newer
  <2> QED
    BY <1>1, <1>5, <2>1, <2>2, <2>3, <2>4 DEF CacheInv
<1>7. CASE ok
  <2>1. /\ disk' = [disk EXCEPT ![d0] = Append(@, t)]
        /\ cached' = Remembered(t)
        /\ nth' = [nth EXCEPT ![t] = 1 + Cardinality(WrittenTraces)]
    BY <1>7 DEF Finish, WrittenTraces
  <2> DEFINE n == Cardinality(WrittenTraces)
  <2>2. IsFiniteSet(WrittenTraces) /\ n \in Nat
    <3>1. WrittenTraces \in SUBSET Traces
      BY DEF WrittenTraces
    <3> QED
      BY <3>1, LogsAssumption, FS_Subset, FS_CardinalityType
  <2>3. t \notin WrittenTraces
    BY <1>3 DEF CacheInv, NumbersInv
  <2>4. /\ nth'[t] = 1 + n /\ nth' \in [Traces -> Nat]
        /\ \A u \in Traces \ {t} : nth'[u] = nth[u] /\ nth[u] \in Nat /\ nth[u] <= n
    BY <2>1, <2>2 DEF CacheInv, NumbersInv
  <2>5. WrittenTraces' = WrittenTraces \union {t}
    BY <2>2, <2>4 DEF WrittenTraces
  <2>6. Cardinality(WrittenTraces)' = n + 1
    BY <2>2, <2>3, <2>5, FS_AddElement
  <2>7. begun \ open \subseteq Traces \ {t} /\ begun \subseteq Traces
    BY <1>3 DEF CacheInv, NumbersInv
  <2>8. \A d \in Days : \A i \in DOMAIN disk[d] : disk[d][i] \in begun \ open
    BY DEF CacheInv, KeepInv
  <2>9. /\ \A d \in Days \ {d0} : disk'[d] = disk[d]
        /\ disk[d0] \in Seq(Traces) /\ disk'[d0] = Append(disk[d0], t)
    BY <1>2, <2>1 DEF CacheInv, KeepInv
  <2>10. PICK l \in Nat :
            /\ DOMAIN disk[d0] = 1..l /\ DOMAIN disk'[d0] = 1..l + 1
            /\ \A i \in 1..l : disk'[d0][i] = disk[d0][i]
            /\ disk'[d0][l + 1] = t
    <3>1. /\ DOMAIN Append(disk[d0], t) = 1..Len(disk[d0]) + 1
          /\ \A i \in 1..Len(disk[d0]) : Append(disk[d0], t)[i] = disk[d0][i]
          /\ Append(disk[d0], t)[Len(disk[d0]) + 1] = t
          /\ DOMAIN disk[d0] = 1..Len(disk[d0]) /\ Len(disk[d0]) \in Nat
      BY <2>9
    <3> QED
      BY <2>9, <3>1
  <2> HIDE DEF d0, n
  <2>11. \A u \in begun \ open : nth'[u] = nth[u] /\ nth'[u] < nth'[t]
    BY <2>2, <2>4, <2>7
  <2>12. ASSUME NEW d \in Days, NEW i \in DOMAIN disk'[d], NEW j \in DOMAIN disk'[d], i < j
         PROVE  nth'[disk'[d][i]] < nth'[disk'[d][j]]
    <3>1. \A u \in begun \ open : nth'[u] = nth[u] /\ nth'[u] < nth'[t]
      BY <2>11
    <3>2. CASE d # d0
      BY <2>8, <2>9, <2>12, <3>1, <3>2 DEF CacheInv, NumbersInv
    <3>3. CASE d = d0 /\ j \in 1..l
      <4>1. i \in 1..l
        BY <2>10, <2>12, <3>3
      <4> QED
        <5>1. /\ i \in DOMAIN disk[d0] /\ j \in DOMAIN disk[d0]
              /\ disk'[d][i] = disk[d0][i] /\ disk'[d][j] = disk[d0][j]
          BY <2>10, <3>3, <4>1
        <5>2. nth[disk[d0][i]] < nth[disk[d0][j]]
          BY <1>2, <2>12, <5>1 DEF CacheInv, NumbersInv
        <5> QED
          BY <1>2, <2>8, <3>1, <5>1, <5>2
    <3>4. CASE d = d0 /\ j = l + 1
      <4>1. i \in 1..l
        BY <2>10, <2>12, <3>4
      <4> QED
        BY <2>8, <2>10, <3>1, <3>4, <4>1
    <3>5. d = d0 => j \in 1..l \/ j = l + 1
      BY <2>10
    <3> QED
      BY <3>2, <3>3, <3>4, <3>5
  <2>13. NumbersInv'
    <3>1. begun' \subseteq Traces /\ WrittenTraces' \subseteq begun' \ open'
      BY <1>2, <1>3, <2>5, <2>7 DEF CacheInv, NumbersInv
    <3>2. \A u \in Traces : nth'[u] <= n + 1
      BY <2>2, <2>4
    <3> QED
      BY <2>4, <2>6, <2>12, <3>1, <3>2 DEF NumbersInv
  <2>14. OnDisk' \subseteq OnDisk \union {t}
    <3>1. ASSUME NEW d \in Days, NEW i \in DOMAIN disk'[d], disk'[d][i] # t
          PROVE  i \in DOMAIN disk[d] /\ disk'[d][i] = disk[d][i]
      <4>1. d = d0 => i \in 1..l
        BY <2>10, <3>1
      <4> QED
        BY <2>9, <2>10, <3>1, <4>1
    <3> QED
      BY <3>1 DEF OnDisk, Range
  <2> QED
    BY <1>1, <1>2, <1>3, <2>1, <2>4, <2>13, <2>14, <2>11, RememberedCaches
<1> QED
  BY <1>6, <1>7

LEMMA ViewCaches ==
    ASSUME CacheInv, NEW limit, View(limit)
    PROVE  CacheInv'
<1>1. KeepInv'
  BY DEF View, CacheInv, KeepInv, TraceKeepsRaw, OnDisk
<1>2. UNCHANGED <<begun, open, day, disk, nth>> /\ loaded'
  BY DEF View
<1>3. NumbersInv' /\ OnDisk' = OnDisk
  BY <1>2 DEF CacheInv, NumbersInv, WrittenTraces, OnDisk
<1>4. PICK bad : cached' = FromDisk(CacheMax, bad) /\ unread' = bad
  BY DEF View, ToLoad
<1> DEFINE c == FromDisk(CacheMax, bad)
<1> HIDE DEF c
<1>5. /\ c \in Seq(begun \ open) /\ Len(c) <= CacheMax
      /\ \A i, j \in 1..Len(c) : i < j => Newer(c[i], c[j])
      /\ \A x \in DiskLines(bad) :
            \/ \E i \in 1..Len(c) : c[i] = TraceAt(x)
            \/ Len(c) = CacheMax /\ \A i \in 1..CacheMax : Newer(c[i], TraceAt(x))
  BY LogsAssumption, FromDiskIs DEF c
<1>6. Range(c) = {c[i] : i \in 1..Len(c)}
  BY <1>5 DEF Range
<1>7. ASSUME NEW t \in OnDisk, t \notin Range(c), day[t] \notin bad
      PROVE  Len(c) = CacheMax /\ \A u \in Range(c) : Newer(u, t)
  <2>1. PICK d \in Days : \E k \in DOMAIN disk[d] : disk[d][k] = t
    BY DEF OnDisk, Range
  <2>2. PICK k \in DOMAIN disk[d] : disk[d][k] = t
    BY <2>1
  <2>3. d = day[t]
    BY <2>2 DEF CacheInv, KeepInv
  <2>4. <<d, k>> \in DiskLines(bad) /\ TraceAt(<<d, k>>) = t
    BY <1>7, <2>2, <2>3 DEF DiskLines, TraceAt
  <2>5. Len(c) = CacheMax /\ \A i \in 1..CacheMax : Newer(c[i], t)
    BY <1>5, <1>6, <1>7, <2>4
  <2> QED
    BY <1>6, <2>5
<1>8. CacheMissesNothing'
  BY <1>2, <1>3, <1>4, <1>7 DEF CacheMissesNothing, Newer, c
<1>9. \A i, j \in 1..Len(cached)' : i < j => Newer(cached[i], cached[j])'
  BY <1>2, <1>4, <1>5 DEF Newer, c
<1> QED
  BY <1>1, <1>2, <1>3, <1>4, <1>5, <1>8, <1>9 DEF CacheInv, c

LEMMA RetainCaches ==
    ASSUME CacheInv, NEW retention, Retain(retention)
    PROVE  CacheInv'
<1>1. KeepInv'
  BY RetainKeeps DEF CacheInv
<1>2. UNCHANGED <<begun, open, day, nth, cached, loaded, unread>>
  BY DEF Retain
<1>3. \A d \in Days : disk'[d] \in {disk[d], <<>>}
  BY PruneLeaves DEF Retain, CacheInv
<1>4. \A d \in Days : \A i \in DOMAIN disk'[d] : i \in DOMAIN disk[d] /\ disk'[d][i] = disk[d][i]
  BY <1>3
<1>5. NumbersInv'
  BY <1>2, <1>4 DEF CacheInv, NumbersInv, WrittenTraces
<1>6. OnDisk' \subseteq OnDisk
  BY <1>4 DEF OnDisk, Range
<1>7. CacheMissesNothing'
  BY <1>2, <1>6 DEF CacheInv, CacheMissesNothing
<1>8. \A i, j \in 1..Len(cached)' : i < j => Newer(cached[i], cached[j])'
  BY <1>2 DEF CacheInv, Newer
<1> QED
  BY <1>1, <1>2, <1>5, <1>7, <1>8 DEF CacheInv

LEMMA CacheStep == CacheInv /\ [Next]_vars => CacheInv'
<1> SUFFICES ASSUME CacheInv, [Next]_vars PROVE CacheInv'
  OBVIOUS
<1>1. KeepInv'
  BY KeepStep DEF CacheInv
<1>2. CASE Tick \/ UNCHANGED logsVars
  <2>1. UNCHANGED <<begun, open, day, disk, nth, cached, loaded, unread>>
    BY <1>2 DEF Tick, logsVars
  <2>2. NumbersInv' /\ OnDisk' = OnDisk
    BY <2>1 DEF CacheInv, NumbersInv, WrittenTraces, OnDisk
  <2>3. CacheMissesNothing'
    BY <2>1, <2>2 DEF CacheInv, CacheMissesNothing
  <2>4. \A i, j \in 1..Len(cached)' : i < j => Newer(cached[i], cached[j])'
    BY <2>1 DEF CacheInv, Newer
  <2> QED
    BY <1>1, <2>1, <2>2, <2>3, <2>4 DEF CacheInv
<1>3. CASE Restart
  <2>1. UNCHANGED <<begun, disk, nth>> /\ open' = {} /\ cached' = <<>> /\ ~loaded'
    BY <1>3 DEF Restart
  <2>2. NumbersInv'
    BY <2>1 DEF CacheInv, NumbersInv, WrittenTraces
  <2>3. Len(<<>>) = 0 /\ <<>> \in Seq(begun' \ open')
    OBVIOUS
  <2> QED
    BY <1>1, <2>1, <2>2, <2>3, LogsAssumption DEF CacheInv, CacheMissesNothing
<1>4. ASSUME LogsNext PROVE CacheInv'
  <2>1. CASE \E t \in Traces : Arrive(t)
    BY <2>1, ArriveCaches
  <2>2. CASE \E t \in Traces : \E copy, ok \in BOOLEAN : Finish(t, copy, ok)
    BY <2>2, FinishCaches
  <2>3. CASE Retain(saved["logging.retention_days"])
    BY <2>3, RetainCaches
  <2>4. CASE \E limit \in Limits : View(limit)
    BY <2>4, ViewCaches
  <2> QED
    BY <1>2, <1>3, <1>4, <2>1, <2>2, <2>3, <2>4 DEF LogsNext
<1> QED
  BY <1>2, <1>4 DEF Next, SettingsNext, HeadersNext, vars

\* A page that reads the cache instead of the log sees no less than the newest
\* traces, whenever the cache was loaded, whatever was written, pruned or could
\* not be written since then, and however long the log and the cache are
\* (tracelog.py:25-29).
THEOREM CacheMissesNoTrace == Spec => []CacheMissesNothing
<1>1. CacheInv => CacheMissesNothing
  BY DEF CacheInv
<1> QED
  BY <1>1, CacheStart, CacheStep, PTL DEF Spec

-----------------------------------------------------------------------------
(* The types *)

RecordsInv ==
    /\ SettingsInv /\ CacheInv /\ HeadersInv
    /\ loaded \in BOOLEAN /\ unread \subseteq Days /\ straddled \subseteq Days

LEMMA RecordsStart == Init => RecordsInv
BY SettingsStart, CacheStart, HeadersStart DEF Init, LogsInit, RecordsInv

LEMMA RecordsStep == RecordsInv /\ [Next]_vars => RecordsInv'
<1> SUFFICES ASSUME RecordsInv, [Next]_vars PROVE RecordsInv'
  OBVIOUS
<1>1. SettingsInv' /\ CacheInv' /\ HeadersInv'
  BY SettingsStep, CacheStep, HeadersStep DEF RecordsInv
<1>2. ASSUME LogsNext
      PROVE  loaded' \in BOOLEAN /\ unread' \subseteq Days /\ straddled' \subseteq Days
  <2>1. CASE \E t \in Traces : Arrive(t)
    BY <2>1 DEF Arrive, RecordsInv
  <2>2. CASE \E t \in Traces : \E copy, ok \in BOOLEAN : Finish(t, copy, ok)
    BY <2>2 DEF Finish, RecordsInv
  <2>3. CASE \E limit \in Limits : View(limit)
    BY <2>3 DEF View, RecordsInv
  <2>4. CASE Retain(saved["logging.retention_days"])
    BY <2>4 DEF Retain, RecordsInv
  <2>5. CASE Tick
    BY <2>5 DEF Tick, RecordsInv
  <2>6. CASE Restart
    BY <2>6 DEF Restart, RecordsInv
  <2> QED
    BY <1>2, <2>1, <2>2, <2>3, <2>4, <2>5, <2>6 DEF LogsNext
<1>3. UNCHANGED logsVars =>
         loaded' \in BOOLEAN /\ unread' \subseteq Days /\ straddled' \subseteq Days
  BY DEF logsVars, RecordsInv
<1> QED
  BY <1>1, <1>2, <1>3 DEF RecordsInv, Next, SettingsNext, HeadersNext, vars

\* Every variable has its type: a setting is one that DEFAULTS or a form gives
\* its key, with the days of both retentions within bounds, and a symbol stands
\* for a verdict or for none.
THEOREM RecordsType == Spec => []TypeOK
<1>1. RecordsInv => LogsTypeOK
  <2> SUFFICES ASSUME RecordsInv PROVE LogsTypeOK
    OBVIOUS
  <2>1. nth \in [Traces -> 0..Cardinality(Traces)]
    <3>1. WrittenTraces \in SUBSET Traces
      BY DEF WrittenTraces
    <3>2. /\ Cardinality(WrittenTraces) \in Nat /\ Cardinality(Traces) \in Nat
          /\ Cardinality(WrittenTraces) <= Cardinality(Traces)
      BY <3>1, LogsAssumption, FS_Subset, FS_CardinalityType
    <3>3. \A t \in Traces : nth[t] \in Nat /\ nth[t] <= Cardinality(WrittenTraces)
      BY DEF RecordsInv, CacheInv, NumbersInv
    <3>4. \A t \in Traces : nth[t] \in 0..Cardinality(Traces)
      BY <3>2, <3>3
    <3> QED
      BY <3>4 DEF RecordsInv, CacheInv, NumbersInv
  <2>2. cached \in Seq(Traces)
    <3>1. \A i \in 1..Len(cached) : cached[i] \in Traces
      BY DEF RecordsInv, CacheInv, NumbersInv
    <3> QED
      BY <3>1, IsASeq DEF RecordsInv, CacheInv
  <2>3. copied \subseteq Traces /\ open \subseteq begun /\ begun \subseteq Traces
    BY DEF RecordsInv, CacheInv, KeepInv, NumbersInv
  <2> QED
    BY <2>1, <2>2, <2>3 DEF RecordsInv, CacheInv, KeepInv, LogsTypeOK
<1>2. RecordsInv => HeadersTypeOK
  BY DEF RecordsInv, HeadersInv, Scored, HeadersTypeOK
<1>3. RecordsInv => TypeOK
  <2> SUFFICES ASSUME RecordsInv PROVE TypeOK
    OBVIOUS
  <2>1. DOMAIN saved = KeyNames /\ \A k \in KeyNames : saved[k] \in Given[k]
    BY DEF RecordsInv, SettingsInv
  <2>2. {saved["logging.retention_days"], saved["quarantine.retention_days"]} \subseteq 1..MaxRetention
    BY DEF RecordsInv, SettingsInv, Holds
  <2> QED
    BY <1>1, <1>2, <2>1, <2>2 DEF RecordsInv, SettingsInv, TypeOK
<1> QED
  BY <1>3, RecordsStart, RecordsStep, PTL DEF Spec
=============================================================================
