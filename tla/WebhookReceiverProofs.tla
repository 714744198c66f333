------------------------ MODULE WebhookReceiverProofs ------------------------
(***************************************************************************)
(* The arithmetic of the receivers, for ledger events of any length.       *)
(*                                                                         *)
(* Balanced is a fold: a function defined by recursion over the subsets of *)
(* a finite domain.  Induction is done here on sets: the sets of numbers,  *)
(* or of subsets, for which a claim holds, of which the complement has no  *)
(* least element (NatLeast, SubsetLeast).  FoldExists says that such       *)
(* recursions define functions at all, SumRemove that a sum does not       *)
(* depend on the order of its terms, and BalancedIsExact that the running  *)
(* balances of Balanced and the sums of SumsToZero are the same.           *)
(***************************************************************************)
EXTENDS WebhookReceiver, FiniteSetTheorems, WellFoundedInduction, TLAPS

(* Induction.                                                              *)

\* A set of natural numbers has a least element.
LEMMA NatLeast ==
    ASSUME NEW T, T \subseteq Nat, T # {}
    PROVE  \E x \in T : \A y \in T : x <= y
<1> DEFINE R == OpToRel(<, Nat)
<1>1. IsWellFoundedOn(R, Nat)
  BY NatLessThanWellFounded
<1>2. \E x \in T : \A y \in T : ~(<<y, x>> \in R)
  <2> HIDE DEF R
  <2> QED
    BY <1>1, WFMin
<1>3. \E x \in T : \A y \in T : ~(y < x)
  BY <1>2 DEF OpToRel
<1> QED
  BY <1>3

\* Numbers reached from 0 step by step are all numbers.
LEMMA NatSteps ==
    ASSUME NEW T, 0 \in T, \A n \in Nat : n \in T => n + 1 \in T
    PROVE  \A n \in Nat : n \in T
<1> DEFINE U == {n \in Nat : n \notin T}
<1>1. ASSUME U # {}
      PROVE  FALSE
  <2>1. PICK x \in U : \A y \in U : x <= y
    BY <1>1, NatLeast
  <2>2. x # 0 /\ x - 1 \in Nat /\ ~(x <= x - 1)
    BY <2>1
  <2>3. x - 1 \in T
    BY <2>1, <2>2
  <2> QED
    BY <2>2, <2>3
<1> QED
  BY <1>1

\* A set of subsets of a finite set has a member that includes no other.
LEMMA SubsetLeast ==
    ASSUME NEW S, IsFiniteSet(S), NEW T, T \subseteq SUBSET S, T # {}
    PROVE  \E x \in T : \A y \in T : y \subseteq x => y = x
<1> DEFINE R == StrictSubsetOrdering(S)
<1>1. IsWellFoundedOn(R, SUBSET S)
  BY FS_StrictSubsetOrderingWellFounded, FS_FiniteSubsetsOfFinite
<1>2. \E x \in T : \A y \in T : ~(<<y, x>> \in R)
  <2> HIDE DEF R
  <2> QED
    BY <1>1, WFMin
<1> QED
  BY <1>2 DEF StrictSubsetOrdering

-----------------------------------------------------------------------------
(* Folds.                                                                  *)

\* it is the recursion that takes out c[s] and steps by h, on the subsets of at most
\* n elements.
FoldsTo(n, it, D, base, c, h) ==
    \A s \in SUBSET D : Cardinality(s) <= n =>
        it[s] = IF s = {} THEN base ELSE h[<<it[s \ {c[s]}], c[s]>>]

\* It is one more subset further.
LEMMA FoldExtends ==
    ASSUME NEW D, IsFiniteSet(D), NEW X, NEW base \in X, NEW c, NEW h,
           \A s \in SUBSET D : s # {} => c[s] \in s,
           \A x \in X, i \in D : h[<<x, i>>] \in X,
           NEW n \in Nat, NEW it \in [SUBSET D -> X], FoldsTo(n, it, D, base, c, h)
    PROVE  \E jt \in [SUBSET D -> X] : FoldsTo(n + 1, jt, D, base, c, h)
<1> DEFINE jt == [s \in SUBSET D |-> IF s = {} THEN base ELSE h[<<it[s \ {c[s]}], c[s]>>]]
<1>1. jt \in [SUBSET D -> X]
  <2>1. ASSUME NEW s \in SUBSET D, s # {}
        PROVE  h[<<it[s \ {c[s]}], c[s]>>] \in X
    <3>1. c[s] \in D /\ s \ {c[s]} \in SUBSET D
      BY <2>1
    <3>2. it[s \ {c[s]}] \in X
      BY <3>1
    <3> QED
      BY <3>1, <3>2
  <2> QED
    BY <2>1
<1>2. \A s \in SUBSET D : Cardinality(s) <= n => jt[s] = it[s]
  BY DEF FoldsTo
<1>3. ASSUME NEW s \in SUBSET D, Cardinality(s) <= n + 1, s # {}
      PROVE  jt[s \ {c[s]}] = it[s \ {c[s]}]
  <2> DEFINE x == c[s]
             r == s \ {x}
  <2>1. x \in s /\ r \in SUBSET D
    BY <1>3
  <2>2. IsFiniteSet(s) /\ Cardinality(s) \in Nat
    BY FS_Subset, FS_CardinalityType
  <2>3. Cardinality(r) = Cardinality(s) - 1
    <3> HIDE DEF x
    <3> QED
      BY <2>1, <2>2, FS_RemoveElement
  <2>4. Cardinality(r) <= n
    BY <1>3, <2>2, <2>3
  <2>5. jt[r] = it[r]
    <3> HIDE DEF jt, r
    <3> QED
      BY <1>2, <2>1, <2>4
  <2> QED
    BY <2>5
<1>4. FoldsTo(n + 1, jt, D, base, c, h)
  BY <1>3 DEF FoldsTo
<1> QED
  BY <1>1, <1>4

\* There is such a function.
LEMMA FoldExists ==
    ASSUME NEW D, IsFiniteSet(D), NEW X, NEW base \in X, NEW c, NEW h,
           \A s \in SUBSET D : s # {} => c[s] \in s,
           \A x \in X, i \in D : h[<<x, i>>] \in X
    PROVE  \E it \in [SUBSET D -> X] : FoldsTo(Cardinality(D), it, D, base, c, h)
<1> DEFINE T == {n \in Nat : \E it \in [SUBSET D -> X] : FoldsTo(n, it, D, base, c, h)}
<1>1. 0 \in T
  <2>1. [s \in SUBSET D |-> base] \in [SUBSET D -> X]
    OBVIOUS
  <2>2. \A s \in SUBSET D : Cardinality(s) <= 0 => s = {}
    BY FS_Subset, FS_EmptySet, FS_CardinalityType
  <2>3. FoldsTo(0, [s \in SUBSET D |-> base], D, base, c, h)
    BY <2>2 DEF FoldsTo
  <2> QED
    BY <2>1, <2>3
<1>2. ASSUME NEW n \in Nat, n \in T
      PROVE  n + 1 \in T
  <2>1. PICK it \in [SUBSET D -> X] : FoldsTo(n, it, D, base, c, h)
    BY <1>2
  <2>2. \E jt \in [SUBSET D -> X] : FoldsTo(n + 1, jt, D, base, c, h)
    BY <2>1, FoldExtends
  <2> QED
    BY <2>2
<1>3. Cardinality(D) \in T
  <2> HIDE DEF T
  <2> QED
    BY <1>1, <1>2, NatSteps, FS_CardinalityType
<1> QED
  BY <1>3

\* And it is the recursion on every subset.
LEMMA FoldEverywhere ==
    ASSUME NEW D, IsFiniteSet(D), NEW base, NEW c, NEW h, NEW it,
           FoldsTo(Cardinality(D), it, D, base, c, h)
    PROVE  \A s \in SUBSET D : it[s] = IF s = {} THEN base ELSE h[<<it[s \ {c[s]}], c[s]>>]
BY FS_Subset DEF FoldsTo

-----------------------------------------------------------------------------
(* Sums.                                                                   *)

\* The recursion by which a sum is defined.
Summing(it, f, S) ==
    it = [s \in SUBSET S |-> IF s = {} THEN 0
                             ELSE f[CHOOSE x \in s : TRUE] + it[s \ {CHOOSE x \in s : TRUE}]]

\* It is defined by the recursion it looks like.
LEMMA SumIsFold ==
    ASSUME NEW f, NEW S
    PROVE  SumFunctionOnSet(f, S) = (CHOOSE it : Summing(it, f, S))[S]
BY DEF SumFunctionOnSet, FoldFunctionOnSet, MapThenFoldSet, Summing

\* The recursion has a solution.
LEMMA SummingExists ==
    ASSUME NEW S, IsFiniteSet(S), NEW f, \A x \in S : f[x] \in Int
    PROVE  \E it \in [SUBSET S -> Int] : Summing(it, f, S)
<1> DEFINE c == [s \in SUBSET S |-> CHOOSE x \in s : TRUE]
           h == [p \in Int \X S |-> f[p[2]] + p[1]]
<1>1. \A s \in SUBSET S : s # {} => c[s] \in s
  OBVIOUS
<1>2. \A x \in Int, i \in S : h[<<x, i>>] = f[i] + x
  OBVIOUS
<1>3. \A x \in Int, i \in S : h[<<x, i>>] \in Int
  <2> SUFFICES ASSUME NEW x \in Int, NEW i \in S PROVE h[<<x, i>>] \in Int
    OBVIOUS
  <2>1. h[<<x, i>>] = f[i] + x /\ f[i] \in Int
    BY <1>2
  <2> HIDE DEF h
  <2> QED
    BY <2>1
<1>4. \E it \in [SUBSET S -> Int] : FoldsTo(Cardinality(S), it, S, 0, c, h)
  <2>1. 0 \in Int
    OBVIOUS
  <2> HIDE DEF c, h
  <2> QED
    BY <1>1, <1>3, <2>1, FoldExists
<1>5. PICK it \in [SUBSET S -> Int] : \A s \in SUBSET S :
            it[s] = IF s = {} THEN 0 ELSE h[<<it[s \ {c[s]}], c[s]>>]
  <2> HIDE DEF c, h
  <2> QED
    BY <1>4, FoldEverywhere
<1>6. ASSUME NEW s \in SUBSET S, s # {}
      PROVE  it[s] = f[c[s]] + it[s \ {c[s]}]
  <2>1. c[s] \in S /\ it[s \ {c[s]}] \in Int
    BY <1>1, <1>6
  <2> HIDE DEF c, h
  <2> QED
    BY <1>2, <1>5, <1>6, <2>1
<1>7. it = [s \in SUBSET S |-> IF s = {} THEN 0 ELSE f[c[s]] + it[s \ {c[s]}]]
  <2> HIDE DEF c, h
  <2> QED
    BY <1>5, <1>6
<1>8. Summing(it, f, S)
  BY <1>7 DEF Summing
<1> QED
  BY <1>8

\* On a smaller set the solution is the same.
LEMMA SummingIsUnique ==
    ASSUME NEW S, IsFiniteSet(S), NEW f, NEW T \in SUBSET S,
           NEW it, NEW jt, Summing(it, f, S), Summing(jt, f, T)
    PROVE  \A s \in SUBSET T : it[s] = jt[s]
<1> DEFINE U == {s \in SUBSET T : it[s] # jt[s]}
<1>1. ASSUME U # {}
      PROVE  FALSE
  <2>1. IsFiniteSet(T)
    BY FS_Subset
  <2>2. PICK s \in U : \A u \in U : u \subseteq s => u = s
    <3>1. U \subseteq SUBSET T
      OBVIOUS
    <3> HIDE DEF U
    <3> QED
      BY <1>1, <2>1, <3>1, SubsetLeast
  <2> DEFINE x == CHOOSE y \in s : TRUE
  <2>3. s # {}
    BY <2>2 DEF Summing
  <2>4. x \in s
    BY <2>3
  <2>5. it[s \ {x}] = jt[s \ {x}]
    BY <2>2, <2>4
  <2> QED
    BY <2>2, <2>3, <2>5 DEF Summing
<1> QED
  BY <1>1

\* A sum over a part of S is found in the solution for S.
LEMMA SumOfPart ==
    ASSUME NEW S, IsFiniteSet(S), NEW f, \A x \in S : f[x] \in Int,
           NEW it, Summing(it, f, S), NEW T \in SUBSET S
    PROVE  SumFunctionOnSet(f, T) = it[T]
<1>1. IsFiniteSet(T)
  BY FS_Subset
<1>2. \E jt : Summing(jt, f, T)
  BY <1>1, SummingExists
<1> DEFINE jt == CHOOSE kt : Summing(kt, f, T)
<1>3. Summing(jt, f, T)
  BY <1>2
<1>4. SumFunctionOnSet(f, T) = jt[T]
  BY SumIsFold
<1>5. \A s \in SUBSET T : it[s] = jt[s]
  <2> HIDE DEF jt
  <2> QED
    BY <1>3, SummingIsUnique
<1> QED
  BY <1>4, <1>5

\* Whatever term is taken out of it, the sum is that term and the rest.
LEMMA SumRemove ==
    ASSUME NEW S, IsFiniteSet(S), NEW f, \A x \in S : f[x] \in Int
    PROVE  /\ SumFunctionOnSet(f, {}) = 0
           /\ SumFunctionOnSet(f, S) \in Int
           /\ \A x \in S : SumFunctionOnSet(f, S) = f[x] + SumFunctionOnSet(f, S \ {x})
<1>1. PICK it \in [SUBSET S -> Int] : Summing(it, f, S)
  BY SummingExists
<1>2. \A T \in SUBSET S : SumFunctionOnSet(f, T) = it[T]
  BY <1>1, SumOfPart
<1> DEFINE AnyFirst(s) == \A x \in s : it[s] = f[x] + it[s \ {x}]
           U == {s \in SUBSET S : ~AnyFirst(s)}
<1>3. ASSUME U # {}
      PROVE  FALSE
  <2>1. PICK s \in U : \A u \in U : u \subseteq s => u = s
    <3>1. U \subseteq SUBSET S
      OBVIOUS
    <3> HIDE DEF U
    <3> QED
      BY <1>3, <3>1, SubsetLeast
  <2>2. PICK x \in s : it[s] # f[x] + it[s \ {x}]
    BY <2>1
  <2> DEFINE y == CHOOSE z \in s : TRUE
  <2>3. y \in s /\ it[s] = f[y] + it[s \ {y}]
    BY <1>1, <2>2 DEF Summing
  <2>4. x # y
    BY <2>2, <2>3
  <2>5. AnyFirst(s \ {x}) /\ AnyFirst(s \ {y})
    <3>1. \A r \in SUBSET S : r \subseteq s /\ r # s => AnyFirst(r)
      BY <2>1
    <3> HIDE DEF AnyFirst, y
    <3> QED
      BY <2>1, <2>2, <2>3, <3>1
  <2> HIDE DEF y
  <2>6. /\ it[s \ {x}] = f[y] + it[(s \ {x}) \ {y}]
        /\ it[s \ {y}] = f[x] + it[(s \ {y}) \ {x}]
    BY <2>2, <2>3, <2>4, <2>5
  <2>7. (s \ {x}) \ {y} = (s \ {y}) \ {x} /\ (s \ {x}) \ {y} \in SUBSET S
    OBVIOUS
  <2>8. f[x] \in Int /\ f[y] \in Int /\ it[(s \ {x}) \ {y}] \in Int
    BY <2>2, <2>3, <2>7
  <2> DEFINE z == it[(s \ {x}) \ {y}]
  <2>9. /\ it[s] = f[y] + (f[x] + z)
        /\ it[s] # f[x] + (f[y] + z)
        /\ f[x] \in Int /\ f[y] \in Int /\ z \in Int
    BY <2>2, <2>3, <2>6, <2>7, <2>8
  <2> HIDE DEF z
  <2> QED
    BY <2>9
<1>4. AnyFirst(S)
  BY <1>3
<1>5. it[{}] = 0
  BY <1>1 DEF Summing
<1> QED
  BY <1>1, <1>2, <1>4, <1>5
-----------------------------------------------------------------------------
(* The running balances.                                                   *)

Accounts == Rails \X Units

ZeroBalances == [b \in Accounts |-> 0]

\* The recursion by which the balances are defined.
Running(it, p) ==
    it = [s \in SUBSET DOMAIN p |-> IF s = {} THEN ZeroBalances
                                    ELSE Post(it[s \ {Max(s)}], p[Max(s)])]

\* They are defined by the recursion they look like.
LEMMA BalancedIsFold ==
    ASSUME NEW p
    PROVE  LET balances == (CHOOSE it : Running(it, p))[DOMAIN p]
           IN  Balanced(p) <=> \A b \in Accounts : balances[b] = 0
BY DEF Balanced, FoldLeft, MapThenFoldSet, Running, ZeroBalances, Accounts

\* A set of indices has a last one.
LEMMA LastIndex ==
    ASSUME NEW n \in Nat, NEW s \in SUBSET (1..n), s # {}
    PROVE  Max(s) \in s /\ \A i \in s : i <= Max(s)
<1> DEFINE T == {n - i : i \in s}
<1>0. \A i \in s : i \in Int /\ i <= n
  OBVIOUS
<1>1. T \subseteq Nat /\ T # {}
  <2>1. \A i \in s : n - i \in Nat
    BY <1>0
  <2> QED
    BY <2>1
<1>2. PICK t \in T : \A u \in T : t <= u
  <2> HIDE DEF T
  <2> QED
    BY <1>1, NatLeast
<1>3. PICK m \in s : t = n - m
  BY <1>2
<1>4. \A i \in s : i <= m
  <2> SUFFICES ASSUME NEW i \in s PROVE i <= m
    OBVIOUS
  <2>1. n - m <= n - i
    BY <1>2, <1>3
  <2>2. i \in Int /\ m \in Int
    BY <1>0
  <2> QED
    BY <2>1, <2>2
<1>5. \E x \in s : \A y \in s : x >= y
  <2>1. \A y \in s : m >= y
    BY <1>4
  <2> QED
    BY <2>1
<1>6. Max(s) \in s /\ \A y \in s : Max(s) >= y
  BY <1>5 DEF Max
<1>7. Max(s) \in Int
  BY <1>0, <1>6
<1> QED
  BY <1>0, <1>6, <1>7

\* A posting is added to its account, and balances stay integers.
LEMMA PostAdds ==
    ASSUME NEW x \in [Accounts -> Int], NEW q \in Posting
    PROVE  /\ Post(x, q) \in [Accounts -> Int]
           /\ \A b \in Accounts : Post(x, q)[b] =
                IF <<q.rail, q.unit>> = b THEN x[b] + q.amount.value ELSE x[b]
<1> DEFINE a == <<q.rail, q.unit>>
           n == q.amount.value
<1>1. n \in Int
  BY DEF Posting, SignedAmounts
<1>2. Post(x, q) = [x EXCEPT ![a] = x[a] + n]
  BY DEF Post
<1> HIDE DEF a, n
<1>3. ASSUME NEW b \in Accounts
      PROVE  Post(x, q)[b] = (IF a = b THEN x[b] + n ELSE x[b]) /\ Post(x, q)[b] \in Int
  BY <1>1, <1>2
<1>4. Post(x, q) = [b \in Accounts |-> Post(x, q)[b]]
  BY <1>2
<1>5. Post(x, q) \in [Accounts -> Int]
  BY <1>3, <1>4
<1> QED
  BY <1>3, <1>5 DEF a, n

\* The recursion has a solution.
LEMMA RunningExists ==
    ASSUME NEW p \in Seq(Posting)
    PROVE  \E it \in [SUBSET DOMAIN p -> [Accounts -> Int]] : Running(it, p)
<1> DEFINE D == DOMAIN p
           X == [Accounts -> Int]
           c == [s \in SUBSET D |-> Max(s)]
           h == [q \in X \X D |-> Post(q[1], p[q[2]])]
<1>1. D = 1..Len(p) /\ Len(p) \in Nat /\ \A i \in D : p[i] \in Posting
  OBVIOUS
<1>2. IsFiniteSet(D)
  BY <1>1, FS_Interval
<1>3. \A s \in SUBSET D : s # {} => c[s] \in s
  BY <1>1, LastIndex
<1>4. \A x \in X, i \in D : h[<<x, i>>] = Post(x, p[i])
  OBVIOUS
<1>5. \A x \in X, i \in D : h[<<x, i>>] \in X
  BY <1>1, <1>4, PostAdds
<1>6. ZeroBalances \in X
  BY DEF ZeroBalances
<1>7. PICK it \in [SUBSET D -> X] : FoldsTo(Cardinality(D), it, D, ZeroBalances, c, h)
  <2> HIDE DEF c, h, D, X
  <2> QED
    BY <1>2, <1>3, <1>5, <1>6, FoldExists
<1>8. \A s \in SUBSET D : it[s] = IF s = {} THEN ZeroBalances ELSE h[<<it[s \ {c[s]}], c[s]>>]
  <2> HIDE DEF c, h, D, X
  <2> QED
    BY <1>2, <1>7, FoldEverywhere
<1>9. ASSUME NEW s \in SUBSET D, s # {}
      PROVE  it[s] = Post(it[s \ {c[s]}], p[c[s]])
  <2>1. c[s] \in D /\ it[s \ {c[s]}] \in X
    BY <1>3, <1>9
  <2> HIDE DEF c, h, D, X
  <2> QED
    BY <1>4, <1>8, <1>9, <2>1
<1>10. it = [s \in SUBSET D |-> IF s = {} THEN ZeroBalances ELSE Post(it[s \ {c[s]}], p[c[s]])]
  <2> HIDE DEF c, h, D, X
  <2> QED
    BY <1>8, <1>9
<1>11. Running(it, p)
  BY <1>10 DEF Running
<1> QED
  BY <1>11

\* The bookings of one account, among the first k.
Booked(p, b, k) == {i \in 1..k : p[i].rail = b[1] /\ p[i].unit = b[2]}

Values(p) == [i \in DOMAIN p |-> p[i].amount.value]

\* One more booking changes the account it is on and no other.
LEMMA BookedNext ==
    ASSUME NEW p, NEW b, NEW k \in Nat
    PROVE  Booked(p, b, k + 1) =
            IF p[k + 1].rail = b[1] /\ p[k + 1].unit = b[2]
            THEN Booked(p, b, k) \cup {k + 1} ELSE Booked(p, b, k)
BY DEF Booked

\* After k postings the balance of an account is the sum of its bookings.
LEMMA RunningIsSum ==
    ASSUME NEW p \in Seq(Posting),
           \A i \in DOMAIN p : p[i].rail \in Rails /\ p[i].unit \in Units,
           NEW it, Running(it, p), NEW b \in Accounts
    PROVE  \A k \in Nat : k <= Len(p) =>
                /\ it[1..k] \in [Accounts -> Int]
                /\ it[1..k][b] = SumFunctionOnSet(Values(p), Booked(p, b, k))
<1> DEFINE v == Values(p)
           Holds(k) == /\ it[1..k] \in [Accounts -> Int]
                       /\ it[1..k][b] = SumFunctionOnSet(v, Booked(p, b, k))
           T == {k \in Nat : k <= Len(p) => Holds(k)}
<1>1. /\ DOMAIN p = 1..Len(p) /\ Len(p) \in Nat
      /\ \A i \in 1..Len(p) : p[i] \in Posting /\ v[i] = p[i].amount.value /\ v[i] \in Int
  <2>1. DOMAIN p = 1..Len(p) /\ Len(p) \in Nat /\ \A i \in 1..Len(p) : p[i] \in Posting
    OBVIOUS
  <2>2. \A q \in Posting : q.amount.value \in Int
    BY DEF Posting, SignedAmounts
  <2>3. \A i \in 1..Len(p) : v[i] = p[i].amount.value
    BY <2>1 DEF Values
  <2> HIDE DEF v
  <2> QED
    BY <2>1, <2>2, <2>3
<1>2. ASSUME NEW k \in Nat, k <= Len(p)
      PROVE  /\ IsFiniteSet(Booked(p, b, k))
             /\ \A i \in Booked(p, b, k) : v[i] \in Int
  <2>1. Booked(p, b, k) \in SUBSET (1..k)
    BY DEF Booked
  <2>2. IsFiniteSet(1..k)
    BY FS_Interval
  <2>3. 1..k \subseteq 1..Len(p)
    BY <1>1, <1>2
  <2> HIDE DEF v
  <2> QED
    BY <1>1, <2>1, <2>2, <2>3, FS_Subset
<1>3. 0 \in T
  <2>1. 1..0 = {} /\ Booked(p, b, 0) = {}
    BY DEF Booked
  <2>2. it[1..0] = ZeroBalances
    BY <2>1 DEF Running
  <2>3. SumFunctionOnSet(v, {}) = 0
    <3> HIDE DEF v
    <3> QED
      BY FS_EmptySet, SumRemove
  <2>4. ZeroBalances \in [Accounts -> Int] /\ ZeroBalances[b] = 0
    BY DEF ZeroBalances
  <2>5. Holds(0)
    <3> HIDE DEF v
    <3> QED
      BY <2>1, <2>2, <2>3, <2>4
  <2> HIDE DEF Holds
  <2> QED
    BY <2>5
<1>4. ASSUME NEW k \in Nat, k \in T
      PROVE  k + 1 \in T
  <2> SUFFICES ASSUME k + 1 <= Len(p) PROVE Holds(k + 1)
    OBVIOUS
  <2> DEFINE q == p[k + 1]
             a == <<q.rail, q.unit>>
  <2>1. Holds(k) /\ k + 1 \in 1..Len(p) /\ k + 1 \in DOMAIN p
    BY <1>1, <1>4
  <2>2. q \in Posting /\ a \in Accounts /\ v[k + 1] = q.amount.value /\ v[k + 1] \in Int
    BY <1>1, <2>1 DEF Accounts
  <2>3. it[1..(k + 1)] = Post(it[1..k], q)
    <3>1. 1..(k + 1) \in SUBSET DOMAIN p /\ 1..(k + 1) # {}
      BY <1>1, <2>1
    <3>2. Max(1..(k + 1)) = k + 1
      <4> DEFINE m == Max(1..(k + 1))
      <4>1. m \in 1..(k + 1) /\ \A i \in 1..(k + 1) : i <= m
        <5>1. k + 1 \in Nat
          OBVIOUS
        <5> QED
          BY <3>1, <5>1, LastIndex
      <4> HIDE DEF m
      <4>2. m = k + 1
        BY <4>1
      <4> QED
        BY <4>2 DEF m
    <3>3. (1..(k + 1)) \ {k + 1} = 1..k
      OBVIOUS
    <3> QED
      BY <3>1, <3>2, <3>3 DEF Running
  <2>4. /\ it[1..(k + 1)] \in [Accounts -> Int]
        /\ it[1..(k + 1)][b] = IF a = b THEN it[1..k][b] + v[k + 1] ELSE it[1..k][b]
    <3> HIDE DEF v
    <3> QED
      BY <2>1, <2>2, <2>3, PostAdds
  <2>5. a = b <=> q.rail = b[1] /\ q.unit = b[2]
    BY DEF Accounts
  <2> DEFINE B == Booked(p, b, k)
  <2>6. k + 1 \notin B
    BY DEF Booked
  <2>7. CASE a = b
    <3>1. Booked(p, b, k + 1) = B \cup {k + 1}
      BY <2>5, <2>7, BookedNext
    <3>2. /\ IsFiniteSet(B \cup {k + 1})
          /\ \A i \in B \cup {k + 1} : v[i] \in Int
      <4>1. k + 1 \in Nat /\ k + 1 <= Len(p)
        BY <1>1, <2>1
      <4> HIDE DEF v, B
      <4> QED
        BY <1>2, <3>1, <4>1
    <3>3. (B \cup {k + 1}) \ {k + 1} = B
      BY <2>6
    <3>4. SumFunctionOnSet(v, B \cup {k + 1}) = v[k + 1] + SumFunctionOnSet(v, B)
      <4> HIDE DEF v, B
      <4> QED
        BY <3>2, <3>3, SumRemove
    <3>5. SumFunctionOnSet(v, B) \in Int
      <4>1. IsFiniteSet(B) /\ \A i \in B : v[i] \in Int
        BY <1>2, <1>1, <2>1
      <4> HIDE DEF v, B
      <4> QED
        BY <4>1, SumRemove
    <3>6. it[1..k][b] = SumFunctionOnSet(v, B)
      BY <2>1
    <3> HIDE DEF v, a, q, B
    <3>7. it[1..(k + 1)][b] = SumFunctionOnSet(v, B) + v[k + 1]
      BY <2>4, <2>7, <3>6
    <3>8. it[1..(k + 1)][b] = SumFunctionOnSet(v, B \cup {k + 1})
      BY <2>2, <3>4, <3>5, <3>7
    <3> QED
      BY <2>4, <3>1, <3>8
  <2>8. CASE a # b
    <3>1. Booked(p, b, k + 1) = B
      BY <2>5, <2>8, BookedNext
    <3> HIDE DEF v, a, q
    <3> QED
      BY <2>1, <2>4, <2>8, <3>1
  <2> QED
    BY <2>7, <2>8
<1>5. \A k \in Nat : k \in T
  <2> HIDE DEF T
  <2> QED
    BY <1>3, <1>4, NatSteps
<1> QED
  BY <1>5

\* Postings that Balanced accepts sum to exactly zero, account by account, and those
\* that do are accepted: no order of postings and no size of amounts matters.
THEOREM BalancedIsExact ==
    ASSUME NEW p \in Seq(Posting),
           \A i \in DOMAIN p : p[i].rail \in Rails /\ p[i].unit \in Units
    PROVE  Balanced(p) <=> SumsToZero(p)
<1> DEFINE it == CHOOSE jt : Running(jt, p)
<1>1. Running(it, p)
  BY RunningExists
<1>2. DOMAIN p = 1..Len(p) /\ Len(p) \in Nat
  OBVIOUS
<1>3. \A b \in Accounts : it[DOMAIN p][b] = SumFunctionOnSet(Values(p), Booked(p, b, Len(p)))
  <2> HIDE DEF it
  <2> QED
    BY <1>1, <1>2, RunningIsSum
<1>4. Balanced(p) <=> \A b \in Accounts : it[DOMAIN p][b] = 0
  BY BalancedIsFold
<1>5. SumsToZero(p) <=>
        \A b \in Accounts : SumFunctionOnSet(Values(p), Booked(p, b, Len(p))) = 0
  <2>1. ASSUME NEW r \in Rails, NEW u \in Units
        PROVE  {i \in DOMAIN p : p[i].rail = r /\ p[i].unit = u} = Booked(p, <<r, u>>, Len(p))
    BY <1>2 DEF Booked
  <2>2. SumsToZero(p) <=> \A r \in Rails, u \in Units :
            SumFunctionOnSet(Values(p), {i \in DOMAIN p : p[i].rail = r /\ p[i].unit = u}) = 0
    BY DEF SumsToZero, Values
  <2>3. \A r \in Rails, u \in Units :
            SumFunctionOnSet(Values(p), {i \in DOMAIN p : p[i].rail = r /\ p[i].unit = u})
                = SumFunctionOnSet(Values(p), Booked(p, <<r, u>>, Len(p)))
    BY <2>1
  <2>4. SumsToZero(p) <=> \A r \in Rails, u \in Units :
            SumFunctionOnSet(Values(p), Booked(p, <<r, u>>, Len(p))) = 0
    BY <2>2, <2>3
  <2> QED
    BY <2>4 DEF Accounts
<1> HIDE DEF it
<1> QED
  BY <1>3, <1>4, <1>5
-----------------------------------------------------------------------------
(* The answers.                                                            *)

\* The first failing check decides.
LEMMA FirstFailingDecides ==
    ASSUME NEW n \in Nat, NEW checks, DOMAIN checks = 1..n
    PROVE  \/ FirstFailing(checks) = Passed /\ \A i \in 1..n : ~checks[i][1]
           \/ \E i \in 1..n : /\ checks[i][1] /\ FirstFailing(checks) = checks[i][2]
                              /\ \A j \in 1..n : checks[j][1] => i <= j
<1> DEFINE failing == {i \in DOMAIN checks : checks[i][1]}
<1>1. CASE failing = {}
  BY <1>1 DEF FirstFailing
<1>2. CASE failing # {}
  <2>1. failing \subseteq Nat
    OBVIOUS
  <2>2. \E i \in failing : \A j \in failing : i <= j
    <3> HIDE DEF failing
    <3> QED
      BY <1>2, <2>1, NatLeast
  <2>3. Min(failing) \in failing /\ \A j \in failing : Min(failing) <= j
    <3> HIDE DEF failing
    <3> QED
      BY <2>2 DEF Min
  <2>4. FirstFailing(checks) = checks[Min(failing)][2]
    BY <1>2 DEF FirstFailing
  <2> QED
    BY <2>3, <2>4
<1> QED
  BY <1>1, <1>2

\* The first of five checks.
LEMMA FirstOfFive ==
    ASSUME NEW b1 \in BOOLEAN, NEW b2 \in BOOLEAN, NEW b3 \in BOOLEAN,
           NEW b4 \in BOOLEAN, NEW b5 \in BOOLEAN,
           NEW s1, NEW s2, NEW s3, NEW s4, NEW s5
    PROVE  FirstFailing(<< <<b1, s1>>, <<b2, s2>>, <<b3, s3>>, <<b4, s4>>, <<b5, s5>> >>)
                = IF b1 THEN s1
                  ELSE IF b2 THEN s2
                  ELSE IF b3 THEN s3
                  ELSE IF b4 THEN s4
                  ELSE IF b5 THEN s5 ELSE Passed
<1> DEFINE checks == << <<b1, s1>>, <<b2, s2>>, <<b3, s3>>, <<b4, s4>>, <<b5, s5>> >>
<1>1. DOMAIN checks = 1..5
  OBVIOUS
<1>2. (checks[1][1] <=> b1) /\ checks[1][2] = s1
  OBVIOUS
<1>3. (checks[2][1] <=> b2) /\ checks[2][2] = s2
  OBVIOUS
<1>4. (checks[3][1] <=> b3) /\ checks[3][2] = s3
  OBVIOUS
<1>5. (checks[4][1] <=> b4) /\ checks[4][2] = s4
  OBVIOUS
<1>6. (checks[5][1] <=> b5) /\ checks[5][2] = s5
  OBVIOUS
<1> HIDE DEF checks
<1>7. \/ FirstFailing(checks) = Passed /\ \A i \in 1..5 : ~checks[i][1]
      \/ \E i \in 1..5 : /\ checks[i][1] /\ FirstFailing(checks) = checks[i][2]
                         /\ \A j \in 1..5 : checks[j][1] => i <= j
  BY <1>1, FirstFailingDecides
<1>8. FirstFailing(checks) = IF b1 THEN s1
                             ELSE IF b2 THEN s2
                             ELSE IF b3 THEN s3
                             ELSE IF b4 THEN s4
                             ELSE IF b5 THEN s5 ELSE Passed
  BY <1>2, <1>3, <1>4, <1>5, <1>6, <1>7
<1> QED
  BY <1>8 DEF checks

\* The first of six.
LEMMA FirstOfSix ==
    ASSUME NEW b1 \in BOOLEAN, NEW b2 \in BOOLEAN, NEW b3 \in BOOLEAN,
           NEW b4 \in BOOLEAN, NEW b5 \in BOOLEAN, NEW b6 \in BOOLEAN,
           NEW s1, NEW s2, NEW s3, NEW s4, NEW s5, NEW s6
    PROVE  FirstFailing(<< <<b1, s1>>, <<b2, s2>>, <<b3, s3>>, <<b4, s4>>, <<b5, s5>>, <<b6, s6>> >>)
                = IF b1 THEN s1
                  ELSE IF b2 THEN s2
                  ELSE IF b3 THEN s3
                  ELSE IF b4 THEN s4
                  ELSE IF b5 THEN s5
                  ELSE IF b6 THEN s6 ELSE Passed
<1> DEFINE checks == << <<b1, s1>>, <<b2, s2>>, <<b3, s3>>, <<b4, s4>>, <<b5, s5>>, <<b6, s6>> >>
<1>1. DOMAIN checks = 1..6
  OBVIOUS
<1>2. (checks[1][1] <=> b1) /\ checks[1][2] = s1
  OBVIOUS
<1>3. (checks[2][1] <=> b2) /\ checks[2][2] = s2
  OBVIOUS
<1>4. (checks[3][1] <=> b3) /\ checks[3][2] = s3
  OBVIOUS
<1>5. (checks[4][1] <=> b4) /\ checks[4][2] = s4
  OBVIOUS
<1>6. (checks[5][1] <=> b5) /\ checks[5][2] = s5
  OBVIOUS
<1>7. (checks[6][1] <=> b6) /\ checks[6][2] = s6
  OBVIOUS
<1> HIDE DEF checks
<1>8. \/ FirstFailing(checks) = Passed /\ \A i \in 1..6 : ~checks[i][1]
      \/ \E i \in 1..6 : /\ checks[i][1] /\ FirstFailing(checks) = checks[i][2]
                         /\ \A j \in 1..6 : checks[j][1] => i <= j
  BY <1>1, FirstFailingDecides
<1>9. FirstFailing(checks) = IF b1 THEN s1
                             ELSE IF b2 THEN s2
                             ELSE IF b3 THEN s3
                             ELSE IF b4 THEN s4
                             ELSE IF b5 THEN s5
                             ELSE IF b6 THEN s6 ELSE Passed
  BY <1>2, <1>3, <1>4, <1>5, <1>6, <1>7, <1>8
<1> QED
  BY <1>9 DEF checks

\* The transport checks of both receivers, one after the other.
LEMMA TransportIs ==
    ASSUME NEW d \in Reading
    PROVE  /\ PyTransport(d) = IF ~d.auth THEN 401
                               ELSE IF ~d.outbox \/ d.size = "empty" THEN 400
                               ELSE IF d.json = "raises" THEN 500
                               ELSE IF d.json = "garbage" THEN 400
                               ELSE IF d.size = "exceeds" THEN 413
                               ELSE IF d.json # "object" THEN 400 ELSE Passed
           /\ GoTransport(d) = IF d.size = "exceeds" THEN 413
                               ELSE IF d.size = "empty" THEN 400
                               ELSE IF ~d.auth THEN 401
                               ELSE IF ~d.outbox \/ d.json # "object" THEN 400 ELSE Passed
<1> DEFINE b1 == ~d.auth
           b2 == ~d.outbox
           b3 == d.size = "empty"
           b4 == d.json = "raises"
           b5 == d.json = "garbage"
           b6 == d.size = "exceeds"
           b7 == d.json # "object"
<1>1. /\ b1 \in BOOLEAN /\ b2 \in BOOLEAN /\ b3 \in BOOLEAN /\ b4 \in BOOLEAN
      /\ b5 \in BOOLEAN /\ b6 \in BOOLEAN /\ b7 \in BOOLEAN
  BY DEF Reading
<1>2. /\ PyTransport(d) = FirstFailing(<< <<b1, 401>>, <<b2, 400>>, <<b3, 400>>, <<b4, 500>>,
                                          <<b5, 400>>, <<b6, 413>>, <<b7, 400>> >>)
      /\ GoTransport(d) = FirstFailing(<< <<b6, 413>>, <<b3, 400>>, <<b1, 401>>,
                                          <<b2, 400>>, <<b7, 400>> >>)
  BY DEF PyTransport, GoTransport
<1> HIDE DEF b1, b2, b3, b4, b5, b6, b7
<1>3. FirstFailing(<< <<b1, 401>>, <<b2, 400>>, <<b3, 400>>, <<b4, 500>>,
                      <<b5, 400>>, <<b6, 413>>, <<b7, 400>> >>)
        = IF b1 THEN 401 ELSE IF b2 THEN 400 ELSE IF b3 THEN 400 ELSE IF b4 THEN 500
          ELSE IF b5 THEN 400 ELSE IF b6 THEN 413 ELSE IF b7 THEN 400 ELSE Passed
  <2> DEFINE checks == << <<b1, 401>>, <<b2, 400>>, <<b3, 400>>, <<b4, 500>>,
                          <<b5, 400>>, <<b6, 413>>, <<b7, 400>> >>
  <2>0. DOMAIN checks = 1..7
    OBVIOUS
  <2>1. (checks[1][1] <=> b1) /\ checks[1][2] = 401
    OBVIOUS
  <2>2. (checks[2][1] <=> b2) /\ checks[2][2] = 400
    OBVIOUS
  <2>3. (checks[3][1] <=> b3) /\ checks[3][2] = 400
    OBVIOUS
  <2>4. (checks[4][1] <=> b4) /\ checks[4][2] = 500
    OBVIOUS
  <2>5. (checks[5][1] <=> b5) /\ checks[5][2] = 400
    OBVIOUS
  <2>6. (checks[6][1] <=> b6) /\ checks[6][2] = 413
    OBVIOUS
  <2>7. (checks[7][1] <=> b7) /\ checks[7][2] = 400
    OBVIOUS
  <2> HIDE DEF checks
  <2>8. \/ FirstFailing(checks) = Passed /\ \A i \in 1..7 : ~checks[i][1]
        \/ \E i \in 1..7 : /\ checks[i][1] /\ FirstFailing(checks) = checks[i][2]
                           /\ \A j \in 1..7 : checks[j][1] => i <= j
    BY <2>0, FirstFailingDecides
  <2>9. FirstFailing(checks)
        = IF b1 THEN 401 ELSE IF b2 THEN 400 ELSE IF b3 THEN 400 ELSE IF b4 THEN 500
          ELSE IF b5 THEN 400 ELSE IF b6 THEN 413 ELSE IF b7 THEN 400 ELSE Passed
    BY <2>1, <2>2, <2>3, <2>4, <2>5, <2>6, <2>7, <2>8, SMTT(90)
  <2> QED
    BY <2>9 DEF checks
<1>4. FirstFailing(<< <<b6, 413>>, <<b3, 400>>, <<b1, 401>>, <<b2, 400>>, <<b7, 400>> >>)
        = IF b6 THEN 413 ELSE IF b3 THEN 400 ELSE IF b1 THEN 401
          ELSE IF b2 THEN 400 ELSE IF b7 THEN 400 ELSE Passed
  BY <1>1, FirstOfFive
<1>5. /\ PyTransport(d) = IF b1 THEN 401 ELSE IF b2 THEN 400 ELSE IF b3 THEN 400
                          ELSE IF b4 THEN 500 ELSE IF b5 THEN 400 ELSE IF b6 THEN 413
                          ELSE IF b7 THEN 400 ELSE Passed
      /\ GoTransport(d) = IF b6 THEN 413 ELSE IF b3 THEN 400 ELSE IF b1 THEN 401
                          ELSE IF b2 THEN 400 ELSE IF b7 THEN 400 ELSE Passed
  BY <1>2, <1>3, <1>4
<1> QED
  BY <1>5 DEF b1, b2, b3, b4, b5, b6, b7

\* A posting has one of three answers, and an unhashable value the one of its own.
LEMMA PyPostingIs ==
    ASSUME NEW p \in Posting
    PROVE  /\ PyPosting(p) \in {Passed, 422, 500}
           /\ PyPosting(p) = 500 => Unhashable \in {p.rail, p.unit}
           /\ PyPosting(p) = Passed => /\ p.rail \in Rails /\ p.unit \in Units
                                       /\ p.account /\ PyCanonical(p.amount)
           /\ GoPosting(p) /\ Unhashable \notin {p.rail, p.unit} => PyPosting(p) = Passed
<1> DEFINE b1 == p.rail = Unhashable
           b2 == p.rail \notin Rails
           b3 == p.unit = Unhashable
           b4 == p.unit \notin Units
           b5 == ~p.account
           b6 == ~PyCanonical(p.amount)
<1>1. /\ b1 \in BOOLEAN /\ b2 \in BOOLEAN /\ b3 \in BOOLEAN
      /\ b4 \in BOOLEAN /\ b5 \in BOOLEAN /\ b6 \in BOOLEAN
  BY DEF Posting
<1>2. PyPosting(p) = FirstFailing(<< <<b1, 500>>, <<b2, 422>>, <<b3, 500>>,
                                     <<b4, 422>>, <<b5, 422>>, <<b6, 422>> >>)
  BY DEF PyPosting
<1>3. GoPosting(p) => ~b2 /\ ~b4 /\ ~b5 /\ ~b6
  BY DEF GoPosting, GoCanonical, PyCanonical, GoDigits, PyDigits
<1> HIDE DEF b1, b2, b3, b4, b5, b6
<1>4. FirstFailing(<< <<b1, 500>>, <<b2, 422>>, <<b3, 500>>,
                      <<b4, 422>>, <<b5, 422>>, <<b6, 422>> >>)
        = IF b1 THEN 500 ELSE IF b2 THEN 422 ELSE IF b3 THEN 500
          ELSE IF b4 THEN 422 ELSE IF b5 THEN 422 ELSE IF b6 THEN 422 ELSE Passed
  BY <1>1, FirstOfSix, SMTT(90)
<1>5. PyPosting(p) = IF b1 THEN 500 ELSE IF b2 THEN 422 ELSE IF b3 THEN 500
                     ELSE IF b4 THEN 422 ELSE IF b5 THEN 422 ELSE IF b6 THEN 422 ELSE Passed
  BY <1>2, <1>4
<1>6. /\ PyPosting(p) \in {Passed, 422, 500}
      /\ PyPosting(p) = 500 => b1 \/ b3
      /\ PyPosting(p) = Passed => ~b2 /\ ~b4 /\ ~b5 /\ ~b6
      /\ ~b1 /\ ~b2 /\ ~b3 /\ ~b4 /\ ~b5 /\ ~b6 => PyPosting(p) = Passed
  BY <1>5 DEF Passed
<1> QED
  BY <1>3, <1>6 DEF b1, b2, b3, b4, b5, b6

\* The first faulty posting answers for them all.
LEMMA PyPostingsIs ==
    ASSUME NEW p \in Seq(Posting)
    PROVE  /\ PyPostings(p) \in {Passed, 422, 500}
           /\ PyPostings(p) = 500 => \E i \in DOMAIN p : PyPosting(p[i]) = 500
           /\ PyPostings(p) = Passed <=>
                (\A i \in DOMAIN p : PyPosting(p[i]) = Passed) /\ Balanced(p)
<1> DEFINE faulty == {i \in DOMAIN p : PyPosting(p[i]) # Passed}
<1>1. \A i \in DOMAIN p : PyPosting(p[i]) \in {Passed, 422, 500}
  <2>1. \A i \in DOMAIN p : p[i] \in Posting
    OBVIOUS
  <2> QED
    BY <2>1, PyPostingIs
<1>2. PyPostings(p) = IF faulty # {} THEN PyPosting(p[Min(faulty)])
                      ELSE IF Balanced(p) THEN Passed ELSE 422
  BY DEF PyPostings
<1>3. CASE faulty = {}
  BY <1>2, <1>3 DEF Passed
<1>4. CASE faulty # {}
  <2>1. faulty \subseteq Nat
    OBVIOUS
  <2>2. \E i \in faulty : \A j \in faulty : i <= j
    <3> HIDE DEF faulty
    <3> QED
      BY <1>4, <2>1, NatLeast
  <2>3. Min(faulty) \in faulty
    <3> HIDE DEF faulty
    <3> QED
      BY <2>2 DEF Min
  <2>4. PyPostings(p) = PyPosting(p[Min(faulty)])
    BY <1>2, <1>4
  <2> QED
    BY <1>1, <2>3, <2>4
<1> QED
  BY <1>3, <1>4

\* What a ledger event is that an SDK accepts.
Accepted(l) ==
    /\ l.sequence \in Nat \ {0}
    /\ l.postings # Absent =>
            /\ l.postings \in Seq(Posting)
            /\ \A i \in DOMAIN l.postings :
                    l.postings[i].rail \in Rails /\ l.postings[i].unit \in Units
            /\ Balanced(l.postings)

\* Python's answers to a ledger event.
LEMMA PyLedgerIs ==
    ASSUME NEW l \in LedgerEvent
    PROVE  /\ PyLedger(l) \in {Passed, 422, 500}
           /\ PyLedger(l) = Passed => Accepted(l)
           /\ PyLedger(l) = 500 =>
                /\ l.postings \notin {Absent, Malformed}
                /\ \E i \in DOMAIN l.postings : Unhashable \in {l.postings[i].rail, l.postings[i].unit}
<1> DEFINE wrong == \/ ~l.identified
                    \/ l.sequence = Malformed \/ l.sequence < 1
                    \/ l.metadata # "object"
                    \/ l.postings \in {Absent, Malformed}
<1>1. CASE wrong
  BY <1>1 DEF PyLedger, Passed
<1>2. CASE ~wrong
  <2>1. l.sequence \in Int /\ l.sequence >= 1 /\ l.postings \in Seq(Posting)
    BY <1>2 DEF LedgerEvent
  <2>2. PyLedger(l) = PyPostings(l.postings)
    BY <1>2 DEF PyLedger
  <2>3. l.sequence \in Nat \ {0}
    BY <2>1
  <2>4. PyPostings(l.postings) = Passed =>
            /\ \A i \in DOMAIN l.postings :
                    l.postings[i].rail \in Rails /\ l.postings[i].unit \in Units
            /\ Balanced(l.postings)
    <3>1. \A i \in DOMAIN l.postings : l.postings[i] \in Posting
      BY <2>1
    <3> QED
      BY <2>1, <3>1, PyPostingsIs, PyPostingIs
  <2>5. PyPostings(l.postings) = 500 =>
            \E i \in DOMAIN l.postings : Unhashable \in {l.postings[i].rail, l.postings[i].unit}
    <3>1. \A i \in DOMAIN l.postings : l.postings[i] \in Posting
      BY <2>1
    <3> QED
      BY <2>1, <3>1, PyPostingsIs, PyPostingIs
  <2>6. l.postings \notin {Absent, Malformed}
    BY <1>2
  <2> HIDE DEF wrong
  <2> QED
    BY <2>1, <2>2, <2>3, <2>4, <2>5, <2>6, PyPostingsIs DEF Accepted
<1> QED
  BY <1>1, <1>2

\* Go's answers to a ledger event.
LEMMA GoLedgerIs ==
    ASSUME NEW l \in LedgerEvent
    PROVE  /\ GoLedger(l) \in {Passed, 422}
           /\ GoLedger(l) = Passed => Accepted(l)
<1>1. GoLedger(l) \in {Passed, 422}
  BY DEF GoLedger
<1>2. ASSUME GoLedger(l) = Passed
      PROVE  Accepted(l)
  <2>1. l.sequence \in 1..MaxInt /\ GoPostings(l.postings)
    BY <1>2 DEF GoLedger, Passed
  <2>2. l.sequence \in Nat \ {0}
    BY <2>1, MaxIntAssumption
  <2>3. ASSUME l.postings # Absent
        PROVE  /\ l.postings \in Seq(Posting)
               /\ \A i \in DOMAIN l.postings :
                    l.postings[i].rail \in Rails /\ l.postings[i].unit \in Units
               /\ Balanced(l.postings)
    <3>1. /\ l.postings # Malformed
          /\ \A i \in DOMAIN l.postings : GoPosting(l.postings[i])
          /\ Balanced(l.postings)
      BY <2>1, <2>3 DEF GoPostings
    <3>2. l.postings \in Seq(Posting)
      BY <2>3, <3>1 DEF LedgerEvent
    <3> QED
      BY <3>1, <3>2 DEF GoPosting
  <2> QED
    BY <2>2, <2>3 DEF Accepted
<1> QED
  BY <1>1, <1>2

\* What they agree on, of ledger events.
LEMMA LedgersAgree ==
    ASSUME NEW l \in LedgerEvent, l.plain, l.metadata # "other", l.postings # Absent,
           l.sequence = Malformed \/ l.sequence <= MaxInt,
           l.postings # Malformed => \A i \in DOMAIN l.postings :
                /\ l.postings[i].amount.form # "foreign"
                /\ Unhashable \notin {l.postings[i].rail, l.postings[i].unit}
    PROVE  PyLedger(l) = GoLedger(l)
<1> DEFINE p == l.postings
<1>1. CASE p = Malformed
  BY <1>1 DEF PyLedger, GoLedger, GoPostings
<1>2. CASE p # Malformed
  <2>1. p \in Seq(Posting) /\ \A i \in DOMAIN p : p[i] \in Posting
    BY <1>2 DEF LedgerEvent
  <2>2. \A i \in DOMAIN p : /\ p[i].amount.form # "foreign"
                            /\ Unhashable \notin {p[i].rail, p[i].unit}
    BY <1>2
  <2>3. ASSUME NEW i \in DOMAIN p
        PROVE  /\ PyPosting(p[i]) # 500
               /\ PyPosting(p[i]) = Passed <=> GoPosting(p[i])
    <3>1. /\ p[i] \in Posting /\ p[i].amount.form # "foreign"
          /\ Unhashable \notin {p[i].rail, p[i].unit}
      BY <2>1, <2>2
    <3>2. PyPosting(p[i]) = Passed => GoPosting(p[i])
      BY <3>1, PyPostingIs DEF GoPosting, PyCanonical, GoCanonical, PyDigits, GoDigits
    <3> QED
      BY <3>1, <3>2, PyPostingIs
  <2>4. GoPostings(p) <=> (\A i \in DOMAIN p : PyPosting(p[i]) = Passed) /\ Balanced(p)
    BY <1>2, <2>3 DEF GoPostings
  <2>5. PyPostings(p) = IF GoPostings(p) THEN Passed ELSE 422
    BY <2>1, <2>3, <2>4, PyPostingsIs
  <2>6. l.sequence # Malformed => (l.sequence < 1 <=> l.sequence \notin 1..MaxInt)
    BY MaxIntAssumption DEF LedgerEvent
  <2>7. l.metadata # "object" <=> l.metadata = "absent"
    BY DEF LedgerEvent
  <2> HIDE DEF p
  <2>8. CASE /\ l.identified /\ l.sequence # Malformed /\ l.sequence \in 1..MaxInt
             /\ l.metadata = "object"
    <3>1. PyLedger(l) = PyPostings(p)
      BY <1>2, <2>6, <2>8 DEF PyLedger, p
    <3>2. GoLedger(l) = IF GoPostings(p) THEN Passed ELSE 422
      BY <2>7, <2>8 DEF GoLedger, p
    <3> QED
      BY <2>5, <3>1, <3>2
  <2>9. CASE ~(/\ l.identified /\ l.sequence # Malformed /\ l.sequence \in 1..MaxInt
               /\ l.metadata = "object")
    <3>1. PyLedger(l) = 422
      BY <2>6, <2>9 DEF PyLedger
    <3>2. GoLedger(l) = 422
      BY <2>7, <2>9 DEF GoLedger
    <3> QED
      BY <3>1, <3>2
  <2> QED
    BY <2>8, <2>9
<1> QED
  BY <1>1, <1>2

\* The answers to a notification, and what the receivers agree on.
LEMMA NotificationIs ==
    ASSUME NEW n \in Notification
    PROVE  /\ PyNotification(n) \in {Passed, 422, 500}
           /\ PyNotification(n) = 500 => n.type = Unhashable
           /\ GoNotification(n) \in {Passed, 422}
           /\ /\ n.type # Unhashable /\ n.plain
              /\ n.projected.form # "foreign" /\ n.limit.form # "foreign"
              => PyNotification(n) = GoNotification(n)
<1> DEFINE b1 == ~n.identified
           b2 == n.type = Unhashable
           b3 == n.type = Malformed
           b4 == n.type \in {"threshold", "paused"} /\ ~n.period
           b5 == n.type = "threshold" /\ ~(PyUnsigned(n.projected) /\ PyUnsigned(n.limit))
<1>1. /\ b1 \in BOOLEAN /\ b2 \in BOOLEAN /\ b3 \in BOOLEAN
      /\ b4 \in BOOLEAN /\ b5 \in BOOLEAN
  BY DEF Notification
<1>2. PyNotification(n) = FirstFailing(<< <<b1, 422>>, <<b2, 500>>, <<b3, 422>>,
                                          <<b4, 422>>, <<b5, 422>> >>)
  BY DEF PyNotification
<1>3. ASSUME n.type # Unhashable, n.plain, n.projected.form # "foreign",
             n.limit.form # "foreign"
      PROVE  GoNotification(n) = IF b1 \/ b3 \/ b4 \/ b5 THEN 422 ELSE Passed
  <2>1. /\ PyUnsigned(n.projected) <=> GoUnsigned(n.projected)
        /\ PyUnsigned(n.limit) <=> GoUnsigned(n.limit)
    BY <1>3 DEF PyUnsigned, GoUnsigned, PyDigits, GoDigits
  <2>2. n.type \in Types \/ n.type = Malformed
    BY <1>3 DEF Notification
  <2>3. n.type = Malformed => n.type \notin Types
    BY TypesAssumption
  <2>4. n.type \in Types => (n.type # "manual" <=> n.type \in {"threshold", "paused"})
    BY DEF Types
  <2> QED
    BY <1>3, <2>1, <2>2, <2>3, <2>4 DEF GoNotification
<1>4. GoNotification(n) \in {Passed, 422}
  BY DEF GoNotification
<1>5. n.type # Unhashable <=> ~b2
  OBVIOUS
<1> HIDE DEF b1, b2, b3, b4, b5
<1>6. FirstFailing(<< <<b1, 422>>, <<b2, 500>>, <<b3, 422>>, <<b4, 422>>, <<b5, 422>> >>)
        = IF b1 THEN 422 ELSE IF b2 THEN 500 ELSE IF b3 THEN 422
          ELSE IF b4 THEN 422 ELSE IF b5 THEN 422 ELSE Passed
  BY <1>1, FirstOfFive
<1>7. PyNotification(n) = IF b1 THEN 422 ELSE IF b2 THEN 500 ELSE IF b3 THEN 422
                          ELSE IF b4 THEN 422 ELSE IF b5 THEN 422 ELSE Passed
  BY <1>2, <1>6
<1>8. PyNotification(n) \in {Passed, 422, 500} /\ (PyNotification(n) = 500 => b2)
  BY <1>7 DEF Passed
<1>9. ASSUME n.type # Unhashable, n.plain, n.projected.form # "foreign",
             n.limit.form # "foreign"
      PROVE  PyNotification(n) = GoNotification(n)
  BY <1>3, <1>5, <1>7, <1>9
<1> QED
  BY <1>4, <1>5, <1>8, <1>9

\* What an answer to a reading is.
Answer(d, r) ==
    /\ r.status \in Statuses
    /\ r.callback \in {"none", "ledger", "notification"}
    /\ r.callback # "none" => r.status \in {204, 500}
    /\ IF r.status = 204 /\ r.callback = "ledger" THEN r.ack \in Nat \ {0} ELSE r.ack = NoAck
    /\ r.callback = "ledger" => d.ledger \in LedgerEvent /\ Accepted(d.ledger)

\* A refusal is one, and so is what follows a callback.
LEMMA DispatchIs ==
    ASSUME NEW d \in Reading, NEW fails \in BOOLEAN,
           NEW lf, d.ledger # Absent => lf \in Statuses \cup {Passed},
           d.ledger # Absent /\ lf = Passed => Accepted(d.ledger),
           NEW nf, d.notification # Absent => nf \in Statuses \cup {Passed}
    PROVE  Answer(d, Dispatch(d, lf, nf, fails))
<1>1. ASSUME NEW status \in Statuses
      PROVE  Answer(d, Refuse(status))
  BY DEF Answer, Refuse, NoAnswer
<1>2. CASE d.ledger # Absent
  <2>1. CASE lf = Passed
    <3>1. Dispatch(d, lf, nf, fails) = Called("ledger", d.ledger, fails)
      BY <1>2, <2>1 DEF Dispatch
    <3>2. d.ledger \in LedgerEvent /\ Accepted(d.ledger)
      BY <1>2, <2>1 DEF Reading
    <3>3. d.ledger.sequence \in Nat \ {0}
      BY <3>2 DEF Accepted
    <3> QED
      BY <3>1, <3>2, <3>3 DEF Answer, Called, Statuses
  <2>2. CASE lf # Passed
    BY <1>1, <1>2, <2>2 DEF Dispatch
  <2> QED
    BY <2>1, <2>2
<1>3. CASE d.ledger = Absent /\ d.notification # Absent
  <2>1. CASE nf = Passed
    <3>1. Dispatch(d, lf, nf, fails) = Called("notification", d.notification, fails)
      BY <1>3, <2>1 DEF Dispatch
    <3> QED
      BY <3>1 DEF Answer, Called, Statuses
  <2>2. CASE nf # Passed
    BY <1>1, <1>3, <2>2 DEF Dispatch
  <2> QED
    BY <2>1, <2>2
<1>4. CASE d.ledger = Absent /\ d.notification = Absent
  <2>1. Dispatch(d, lf, nf, fails) = Refuse(422)
    BY <1>4 DEF Dispatch
  <2> QED
    BY <1>1, <2>1 DEF Statuses
<1> QED
  BY <1>2, <1>3, <1>4

\* So both receivers answer in this way.
LEMMA AnswersAreSound ==
    ASSUME NEW d \in Reading, NEW fails \in BOOLEAN
    PROVE  Answer(d, PyReceive(d, fails)) /\ Answer(d, GoReceive(d, fails))
<1>1. ASSUME NEW status \in Statuses
      PROVE  Answer(d, Refuse(status))
  BY DEF Answer, Refuse, NoAnswer
<1>2. /\ PyTransport(d) \in {Passed, 400, 401, 413, 500}
      /\ GoTransport(d) \in {Passed, 400, 401, 413}
  BY TransportIs
<1>3. /\ d.ledger # Absent => d.ledger \in LedgerEvent
      /\ d.notification # Absent => d.notification \in Notification
  BY DEF Reading
<1>4. Answer(d, Dispatch(d, PyLedger(d.ledger), PyNotification(d.notification), fails))
  BY <1>3, PyLedgerIs, NotificationIs, DispatchIs DEF Statuses
<1>5. Answer(d, Dispatch(d, GoLedger(d.ledger), GoNotification(d.notification), fails))
  BY <1>3, GoLedgerIs, NotificationIs, DispatchIs DEF Statuses
<1>6. Answer(d, PyReceive(d, fails))
  BY <1>1, <1>2, <1>4 DEF PyReceive, Statuses
<1>7. Answer(d, GoReceive(d, fails))
  BY <1>1, <1>2, <1>5 DEF GoReceive, Statuses
<1> QED
  BY <1>6, <1>7

\* What no callback has seen is a server error only when Python's code raises.
LEMMA UncalledErrors ==
    ASSUME NEW d \in Reading, NEW fails \in BOOLEAN
    PROVE  /\ PyReceive(d, fails).status = 500 /\ PyReceive(d, fails).callback = "none" =>
                d.auth /\ (d.json = "raises" \/ HasUnhashable(d))
           /\ ~(GoReceive(d, fails).status = 500 /\ GoReceive(d, fails).callback = "none")
<1> DEFINE Failed(r) == r.status = 500 /\ r.callback = "none"
<1>1. ASSUME NEW status
      PROVE  Failed(Refuse(status)) <=> status = 500
  BY DEF Refuse, NoAnswer
<1>2. ASSUME NEW stream \in {"ledger", "notification"}, NEW event
      PROVE  ~Failed(Called(stream, event, fails))
  BY DEF Called
<1>3. ASSUME NEW lf, NEW nf, Failed(Dispatch(d, lf, nf, fails))
      PROVE  \/ d.ledger # Absent /\ lf = 500
             \/ d.ledger = Absent /\ d.notification # Absent /\ nf = 500
  <2>1. Dispatch(d, lf, nf, fails) \in
            {Refuse(lf), Refuse(nf), Refuse(422), Called("ledger", d.ledger, fails),
             Called("notification", d.notification, fails)}
    BY DEF Dispatch
  <2>2. CASE d.ledger # Absent
    <3>1. Dispatch(d, lf, nf, fails) \in {Refuse(lf), Called("ledger", d.ledger, fails)}
      BY <2>2 DEF Dispatch
    <3> QED
      BY <1>1, <1>2, <1>3, <2>2, <3>1
  <2>3. CASE d.ledger = Absent /\ d.notification # Absent
    <3>1. Dispatch(d, lf, nf, fails) \in {Refuse(nf), Called("notification", d.notification, fails)}
      BY <2>3 DEF Dispatch
    <3> QED
      BY <1>1, <1>2, <1>3, <2>3, <3>1
  <2>4. CASE d.ledger = Absent /\ d.notification = Absent
    <3>1. Dispatch(d, lf, nf, fails) = Refuse(422)
      BY <2>4 DEF Dispatch
    <3> QED
      BY <1>1, <1>3, <3>1
  <2> QED
    BY <2>2, <2>3, <2>4
<1>4. /\ d.ledger # Absent => d.ledger \in LedgerEvent
      /\ d.notification # Absent => d.notification \in Notification
  BY DEF Reading
<1>5. ASSUME Failed(PyReceive(d, fails))
      PROVE  d.auth /\ (d.json = "raises" \/ HasUnhashable(d))
  <2>1. CASE PyTransport(d) # Passed
    <3>1. PyTransport(d) = 500
      BY <1>1, <1>5, <2>1 DEF PyReceive
    <3> QED
      BY <3>1, TransportIs DEF Passed
  <2>2. CASE PyTransport(d) = Passed
    <3>1. d.auth
      BY <2>2, TransportIs DEF Passed
    <3>2. \/ d.ledger # Absent /\ PyLedger(d.ledger) = 500
          \/ d.notification # Absent /\ PyNotification(d.notification) = 500
      BY <1>3, <1>5, <2>2 DEF PyReceive
    <3> QED
      BY <1>4, <3>1, <3>2, PyLedgerIs, NotificationIs DEF HasUnhashable
  <2> QED
    BY <2>1, <2>2
<1>6. ~Failed(GoReceive(d, fails))
  <2>1. GoTransport(d) # 500
    BY TransportIs DEF Passed
  <2>2. /\ d.ledger # Absent => GoLedger(d.ledger) # 500
        /\ d.notification # Absent => GoNotification(d.notification) # 500
    BY <1>4, GoLedgerIs, NotificationIs DEF Passed
  <2> QED
    BY <1>1, <1>3, <2>1, <2>2 DEF GoReceive
<1> QED
  BY <1>5, <1>6

\* And alike to one reading, but for where their checks part.
LEMMA AnswersAgree ==
    ASSUME NEW d \in Reading, NEW fails \in BOOLEAN,
           d.json # "raises", ~ChecksDiffer(d)
    PROVE  PyReceive(d, fails) = GoReceive(d, fails)
<1>1. /\ d.size = "exceeds" => d.auth /\ d.outbox /\ d.json # "garbage"
      /\ d.size = "empty" => d.auth
      /\ \A a \in AmountsOf(d) : a.form # "foreign"
      /\ ~HasUnhashable(d)
      /\ d.notification # Absent => d.notification.plain
      /\ d.ledger # Absent =>
            /\ d.ledger.sequence = Malformed \/ ~(d.ledger.sequence > MaxInt)
            /\ d.ledger.metadata # "other"
            /\ d.ledger.postings # Absent
            /\ d.ledger.plain
  <2>1. d.notification # Absent => d.notification.plain \in BOOLEAN
    BY DEF Reading, Notification
  <2>2. d.ledger # Absent => d.ledger.plain \in BOOLEAN
    BY DEF Reading, LedgerEvent
  <2> QED
    BY <2>1, <2>2 DEF ChecksDiffer, Reading
<1>2. PyTransport(d) = GoTransport(d)
  <2>1. /\ d.auth \in BOOLEAN /\ d.outbox \in BOOLEAN
        /\ d.size \in {"empty", "fits", "exceeds"} /\ d.json \in {"raises", "garbage", "other", "object"}
    BY DEF Reading
  <2> QED
    BY <1>1, <2>1, TransportIs
<1>3. ASSUME d.ledger # Absent
      PROVE  PyLedger(d.ledger) = GoLedger(d.ledger)
  <2> DEFINE l == d.ledger
  <2>1. l \in LedgerEvent
    BY <1>3 DEF Reading
  <2>2. l.sequence = Malformed \/ l.sequence <= MaxInt
    BY <1>1, <1>3, <2>1, MaxIntAssumption DEF LedgerEvent
  <2>3. ASSUME l.postings # Malformed, NEW i \in DOMAIN l.postings
        PROVE  /\ l.postings[i].amount.form # "foreign"
               /\ Unhashable \notin {l.postings[i].rail, l.postings[i].unit}
    <3>1. l.postings \notin {Absent, Malformed}
      BY <1>1, <1>3, <2>3
    <3>2. l.postings[i].amount \in AmountsOf(d)
      BY <1>3, <2>3, <3>1 DEF AmountsOf
    <3> QED
      BY <1>1, <1>3, <2>3, <3>1, <3>2 DEF HasUnhashable
  <2> QED
    BY <1>1, <1>3, <2>1, <2>2, <2>3, LedgersAgree
<1>4. ASSUME d.notification # Absent
      PROVE  PyNotification(d.notification) = GoNotification(d.notification)
  <2>1. d.notification \in Notification
    BY <1>4 DEF Reading
  <2>2. d.notification.type # Unhashable
    BY <1>1, <1>4 DEF HasUnhashable
  <2>3. d.notification.projected \in AmountsOf(d) /\ d.notification.limit \in AmountsOf(d)
    BY <1>4 DEF AmountsOf
  <2> QED
    BY <1>1, <1>4, <2>1, <2>2, <2>3, NotificationIs
<1>5. Dispatch(d, PyLedger(d.ledger), PyNotification(d.notification), fails)
        = Dispatch(d, GoLedger(d.ledger), GoNotification(d.notification), fails)
  BY <1>3, <1>4 DEF Dispatch
<1> QED
  BY <1>2, <1>5 DEF PyReceive, GoReceive
=============================================================================
