--------------------------- MODULE SdkContractProofs ---------------------------
(***************************************************************************)
(* The contract of the two SDKs, for every delivery, usage and payment of  *)
(* the kinds that the assumptions of SdkContract describe, whatever the    *)
(* vocabulary and the limits.                                              *)
(*                                                                         *)
(* The inductive invariant, Honest, says that what an SDK has answered is  *)
(* what its receiver or builder makes of the input.  The properties are    *)
(* then facts about those operators, one lemma each.                       *)
(***************************************************************************)
EXTENDS SdkContract, WebhookReceiverProofs

\* What an SDK answers to the input, or has not answered yet.
Result(s) ==
    IF s = "python"
    THEN CASE input.kind = "delivery" -> PyReceive(input.of["python"], input.fails)
           [] input.kind = "usage"    -> PyBuild(input.of)
           [] input.kind = "payment"  -> PyPayment(input.of)
    ELSE CASE input.kind = "delivery" -> GoReceive(input.of["go"], input.fails)
           [] input.kind = "usage"    -> GoBuild(input.of)
           [] input.kind = "payment"  -> GoPayment(input.of)

Honest ==
    /\ \/ input.kind = "delivery" /\ input.of \in Deliveries /\ input.fails \in BOOLEAN
       \/ input.kind = "usage" /\ input.of \in Usages
       \/ input.kind = "payment" /\ input.of \in Payments
    /\ answer = [s \in SDKs |-> answer[s]]
    /\ \A s \in SDKs : answer[s] \in {NotYet, Result(s)}

\* At first nobody has answered.
LEMMA HonestAtFirst == Init => Honest
BY DEF Init, Honest, Input

\* Each step is one SDK's answer.
LEMMA HonestStep == Honest /\ [Next]_vars => Honest'
<1> SUFFICES ASSUME Honest, [Next]_vars PROVE Honest'
  OBVIOUS
<1>1. ASSUME NEW s \in SDKs, NEW kind, NEW result, Answers(s, kind, result),
             input.kind = kind => result = Result(s)
      PROVE  Honest'
  <2>1. input' = input /\ answer' = [answer EXCEPT ![s] = Result(s)]
    BY <1>1 DEF Answers
  <2>2. \A t \in SDKs : Result(t)' = Result(t)
    BY <2>1 DEF Result
  <2>3. answer' = [t \in SDKs |-> answer'[t]]
    BY <2>1 DEF Honest
  <2>4. \A t \in SDKs : answer'[t] \in {NotYet, Result(t)'}
    BY <2>1, <2>2 DEF Honest
  <2> QED
    BY <2>1, <2>3, <2>4 DEF Honest
<1>2. CASE PyReceives
  BY <1>1, <1>2 DEF PyReceives, Result, SDKs
<1>3. CASE GoReceives
  BY <1>1, <1>3 DEF GoReceives, Result, SDKs
<1>4. CASE PyBuilds
  BY <1>1, <1>4 DEF PyBuilds, Result, SDKs
<1>5. CASE GoBuilds
  BY <1>1, <1>5 DEF GoBuilds, Result, SDKs
<1>6. CASE PyPays
  BY <1>1, <1>6 DEF PyPays, Result, SDKs
<1>7. CASE GoPays
  BY <1>1, <1>7 DEF GoPays, Result, SDKs
<1>8. CASE UNCHANGED vars
  <2>1. \A t \in SDKs : Result(t)' = Result(t)
    BY <1>8 DEF Result, vars
  <2> QED
    BY <1>8, <2>1 DEF Honest, vars
<1> QED
  BY <1>2, <1>3, <1>4, <1>5, <1>6, <1>7, <1>8 DEF Next

\* What an SDK has answered is what its code makes of the input.
THEOREM AnswersAreHonest == Spec => []Honest
BY HonestAtFirst, HonestStep, PTL DEF Spec

-----------------------------------------------------------------------------
(* Receivers.                                                              *)

\* An answer to a delivery is what the SDK's receiver makes of what it has read, and
\* in order.
LEMMA DeliveryAnswered ==
    ASSUME Honest, NEW s \in SDKs, Answered(s, "delivery")
    PROVE  /\ input.of[s] \in Reading
           /\ Answer(input.of[s], answer[s])
           /\ s = "python" => answer[s] = PyReceive(input.of[s], input.fails)
           /\ s = "go" => answer[s] = GoReceive(input.of[s], input.fails)
<1>1. /\ input.kind = "delivery" /\ input.of \in Deliveries /\ input.fails \in BOOLEAN
      /\ answer[s] = Result(s)
  BY DEF Honest, Answered
<1>2. input.of[s] \in Reading
  <2>1. input.of \in Delivery
    BY <1>1, DeliveriesAssumption
  <2> QED
    BY <2>1 DEF Delivery
<1>3. CASE s = "python"
  <2>1. answer[s] = PyReceive(input.of[s], input.fails)
    BY <1>1, <1>3 DEF Result
  <2> QED
    BY <1>1, <1>2, <1>3, <2>1, AnswersAreSound
<1>4. CASE s = "go"
  <2>1. answer[s] = GoReceive(input.of[s], input.fails)
    BY <1>1, <1>4 DEF Result
  <2> QED
    BY <1>1, <1>2, <1>4, <2>1, AnswersAreSound
<1> QED
  BY <1>2, <1>3, <1>4 DEF SDKs

\* A receiver answers with one of its statuses, and acknowledges the sequence of a
\* ledger event, which is positive, and nothing else.
THEOREM TypeCorrect == Spec => []TypeOK
<1>1. Honest => TypeOK
  BY DeliveryAnswered DEF TypeOK, Answer
<1> QED
  BY <1>1, AnswersAreHonest, PTL

\* No ledger event reaches the application that does not balance exactly, whatever the
\* number of its postings and their amounts.
THEOREM LedgerBalancesExactly == Spec => []LedgerBalances
<1>1. Honest => LedgerBalances
  <2> SUFFICES ASSUME Honest, NEW s \in SDKs, Answered(s, "delivery"),
                      answer[s].callback = "ledger", input.of[s].ledger.postings # Absent
               PROVE  SumsToZero(input.of[s].ledger.postings)
    BY DEF LedgerBalances
  <2>1. Accepted(input.of[s].ledger)
    BY DeliveryAnswered DEF Answer
  <2> QED
    BY <2>1, BalancedIsExact DEF Accepted
<1> QED
  BY <1>1, AnswersAreHonest, PTL

\* Nothing in the body, and nothing its decoder does, comes before the bearer token: an
\* unauthorized caller is refused, and learns of the JSON contract nothing.
THEOREM AuthenticationComesFirst == Spec => []AuthenticatedFirst
<1>1. Honest => AuthenticatedFirst
  <2> SUFFICES ASSUME Honest, NEW s \in SDKs, Answered(s, "delivery"), ~input.of[s].auth
               PROVE  \/ answer[s] = Refuse(401)
                      \/ s = "go" /\ input.of[s].size = "empty" /\ answer[s] = Refuse(400)
                      \/ s = "go" /\ input.of[s].size = "exceeds" /\ answer[s] = Refuse(413)
    BY DEF AuthenticatedFirst
  <2> DEFINE d == input.of[s]
  <2>1. /\ d \in Reading
        /\ s = "python" => answer[s] = PyReceive(d, input.fails)
        /\ s = "go" => answer[s] = GoReceive(d, input.fails)
    BY DeliveryAnswered
  <2>2. ~d.auth
    OBVIOUS
  <2> HIDE DEF d
  <2>3. /\ PyTransport(d) = 401
        /\ GoTransport(d) = IF d.size = "exceeds" THEN 413
                            ELSE IF d.size = "empty" THEN 400 ELSE 401
    BY <2>1, <2>2, TransportIs
  <2>4. /\ PyReceive(d, input.fails) = Refuse(401)
        /\ GoReceive(d, input.fails) = Refuse(GoTransport(d))
    BY <2>3 DEF PyReceive, GoReceive, Passed
  <2> QED
    BY <2>1, <2>3, <2>4 DEF SDKs, d
<1> QED
  BY <1>1, AnswersAreHonest, PTL

\* Of what no callback has seen, all is refused but what makes Python's code raise.
THEOREM OnlyRaisingFails == Spec => []UncalledErrorsRaise
<1>1. Honest => UncalledErrorsRaise
  <2> SUFFICES ASSUME Honest, NEW s \in SDKs, Answered(s, "delivery"),
                      answer[s].status = 500, answer[s].callback = "none"
               PROVE  /\ s = "python" /\ input.of[s].auth
                      /\ input.of[s].json = "raises" \/ HasUnhashable(input.of[s])
    BY DEF UncalledErrorsRaise
  <2> DEFINE d == input.of[s]
  <2>1. /\ d \in Reading
        /\ s = "python" => answer[s] = PyReceive(d, input.fails)
        /\ s = "go" => answer[s] = GoReceive(d, input.fails)
    BY DeliveryAnswered
  <2>2. input.fails \in BOOLEAN
    BY DEF Honest, Answered
  <2> HIDE DEF d
  <2> QED
    BY <2>1, <2>2, UncalledErrors DEF SDKs, d
<1> QED
  BY <1>1, AnswersAreHonest, PTL

\* Of a delivery that both SDKs read alike they make the same status, callback and
\* acknowledgement, but for what ChecksDiffer names.
THEOREM ReceiversAgree == Spec => []SameAnswer
<1>1. Honest => SameAnswer
  <2> SUFFICES ASSUME Honest, \A s \in SDKs : Answered(s, "delivery"),
                      ~ReceiversDiffer(input.of)
               PROVE  answer["python"] = answer["go"]
    BY DEF SameAnswer
  <2>1. /\ input.kind = "delivery" /\ input.of \in Deliveries /\ input.fails \in BOOLEAN
        /\ answer["python"] = Result("python") /\ answer["go"] = Result("go")
    BY DEF Honest, Answered, SDKs
  <2> DEFINE d == input.of["python"]
  <2>2. Result("python") = PyReceive(d, input.fails)
    BY <2>1 DEF Result
  <2>3. Result("go") = GoReceive(input.of["go"], input.fails)
    BY <2>1 DEF Result
  <2>4. /\ input.of["go"] = d /\ ~ChecksDiffer(d)
        /\ d \in Reading /\ input.of["go"].json # "raises"
    BY <2>1, DeliveriesAssumption DEF ReceiversDiffer, Delivery, SDKs
  <2> HIDE DEF d
  <2>5. PyReceive(d, input.fails) = GoReceive(d, input.fails)
    BY <2>1, <2>4, AnswersAgree
  <2> QED
    BY <2>1, <2>2, <2>3, <2>4, <2>5
<1> QED
  BY <1>1, AnswersAreHonest, PTL

-----------------------------------------------------------------------------
(* Exact scaling.                                                          *)

\* The recursion by which digits are read.
Parsing(it, p) ==
    it = [s \in SUBSET DOMAIN p |-> IF s = {} THEN 0 ELSE it[s \ {Max(s)}] * Base + p[Max(s)]]

\* They are read by the recursion it looks like.
LEMMA ParseIsFold ==
    ASSUME NEW p
    PROVE  Parse(p) = (CHOOSE it : Parsing(it, p))[DOMAIN p]
BY DEF Parse, FoldLeft, MapThenFoldSet, Parsing

\* The recursion has a solution.
LEMMA ParsingExists ==
    ASSUME NEW p \in Seq(Nat)
    PROVE  \E it \in [SUBSET DOMAIN p -> Nat] : Parsing(it, p)
<1> DEFINE D == DOMAIN p
           c == [s \in SUBSET D |-> Max(s)]
           h == [q \in Nat \X D |-> q[1] * Base + p[q[2]]]
<1>1. D = 1..Len(p) /\ Len(p) \in Nat /\ \A i \in D : p[i] \in Nat
  OBVIOUS
<1>2. IsFiniteSet(D)
  BY <1>1, FS_Interval
<1>3. \A s \in SUBSET D : s # {} => c[s] \in s
  BY <1>1, LastIndex
<1>4. \A x \in Nat, i \in D : h[<<x, i>>] = x * Base + p[i]
  OBVIOUS
<1>5. \A x \in Nat, i \in D : h[<<x, i>>] \in Nat
  <2> SUFFICES ASSUME NEW x \in Nat, NEW i \in D PROVE h[<<x, i>>] \in Nat
    OBVIOUS
  <2>1. h[<<x, i>>] = x * Base + p[i] /\ p[i] \in Nat
    BY <1>1, <1>4
  <2> HIDE DEF h
  <2> QED
    BY <2>1 DEF Base
<1>6. PICK it \in [SUBSET D -> Nat] : FoldsTo(Cardinality(D), it, D, 0, c, h)
  <2>1. 0 \in Nat
    OBVIOUS
  <2> HIDE DEF c, h, D
  <2> QED
    BY <1>2, <1>3, <1>5, <2>1, FoldExists
<1>7. \A s \in SUBSET D : it[s] = IF s = {} THEN 0 ELSE h[<<it[s \ {c[s]}], c[s]>>]
  <2> HIDE DEF c, h, D
  <2> QED
    BY <1>2, <1>6, FS_Subset DEF FoldsTo
<1>8. ASSUME NEW s \in SUBSET D, s # {}
      PROVE  it[s] = it[s \ {c[s]}] * Base + p[c[s]]
  <2>1. c[s] \in D /\ it[s \ {c[s]}] \in Nat
    BY <1>3, <1>8
  <2> HIDE DEF c, h, D
  <2> QED
    BY <1>4, <1>7, <1>8, <2>1
<1>9. it = [s \in SUBSET D |-> IF s = {} THEN 0 ELSE it[s \ {c[s]}] * Base + p[c[s]]]
  <2> HIDE DEF c, h, D
  <2> QED
    BY <1>7, <1>8
<1>10. Parsing(it, p)
  BY <1>9 DEF Parsing
<1> QED
  BY <1>10

\* The members of a sequence of numbers are numbers.
LEMMA AreNumbers ==
    ASSUME NEW p \in Seq(Nat)
    PROVE  \A i \in DOMAIN p : p[i] \in Nat
OBVIOUS

\* Three digits are read as a number of three digits.
LEMMA ParseThree ==
    ASSUME NEW p \in Seq(Nat), DOMAIN p = 1..3
    PROVE  Parse(p) = p[1] * 100 + p[2] * 10 + p[3]
<1> DEFINE it == CHOOSE jt : Parsing(jt, p)
<1>1. Parsing(it, p)
  BY ParsingExists
<1>2. Parse(p) = it[DOMAIN p] /\ DOMAIN p = 1..3
  BY ParseIsFold
<1> HIDE DEF it
<1>3. ASSUME NEW n \in 1..3
      PROVE  it[1..n] = it[1..(n - 1)] * Base + p[n]
  <2> DEFINE m == Max(1..n)
  <2>1. 1..n \in SUBSET DOMAIN p /\ 1..n # {}
    <3>1. n \in 1..n /\ \A i \in 1..n : i \in 1..3
      OBVIOUS
    <3> QED
      BY <1>2, <3>1
  <2>2. m \in 1..n /\ \A i \in 1..n : i <= m
    <3>1. n \in Nat
      OBVIOUS
    <3> QED
      BY <2>1, <3>1, LastIndex
  <2> HIDE DEF m
  <2>3. m = n
    BY <2>2
  <2>4. (1..n) \ {n} = 1..(n - 1)
    OBVIOUS
  <2> QED
    BY <1>1, <2>1, <2>3, <2>4 DEF Parsing, m
<1>4. it[1..0] = 0
  <2>1. 1..0 = {}
    OBVIOUS
  <2> QED
    BY <1>1, <2>1 DEF Parsing
<1>5. /\ it[1..1] = it[1..0] * Base + p[1]
      /\ it[1..2] = it[1..1] * Base + p[2]
      /\ it[1..3] = it[1..2] * Base + p[3]
  BY <1>3
<1>6. p[1] \in Nat /\ p[2] \in Nat /\ p[3] \in Nat
  <2>1. \A i \in DOMAIN p : p[i] \in Nat
    BY AreNumbers
  <2>2. 1 \in 1..3 /\ 2 \in 1..3 /\ 3 \in 1..3
    OBVIOUS
  <2> QED
    BY <1>2, <2>1, <2>2
<1> QED
  BY <1>2, <1>4, <1>5, <1>6 DEF Base

\* What the digits of a fraction are worth, if there are three at most.
LEMMA FractionIsExact ==
    ASSUME NEW a \in Decimals, Len(a.fraction) <= Places
    PROVE  /\ Milli(a) = a.whole * Scale + Parse(Pad(a.fraction))
           /\ Milli(a) \in Nat
           /\ IsWhole(a) => Milli(a) = a.whole * Scale
<1> DEFINE fr == a.fraction
           worth == [i \in DOMAIN fr |-> fr[i] * Base^(Places - i)]
           d(i) == IF i \in 1..Len(fr) THEN fr[i] ELSE 0
<1>1. fr \in Seq(0..9) /\ Len(fr) \in Nat /\ Len(fr) <= 3 /\ a.whole \in Nat
  <2>1. 0 .. Base - 1 = 0..9
    BY DEF Base
  <2>2. fr \in Seq(0..9) /\ a.whole \in Nat
    BY <2>1 DEF Decimals
  <2>3. Len(fr) \in Nat /\ Len(fr) <= 3
    BY <2>2 DEF Places
  <2> HIDE DEF fr
  <2> QED
    BY <2>2, <2>3
<1>2. Milli(a) = a.whole * Scale + SumFunctionOnSet(worth, DOMAIN fr)
  BY DEF Milli, SumFunction
<1> HIDE DEF fr
<1>3. DOMAIN fr = 1..Len(fr) /\ \A i \in 1..Len(fr) : fr[i] \in Nat
  BY <1>1
<1>4. /\ 1 \in 1..Len(fr) => worth[1] = fr[1] * 100
      /\ 2 \in 1..Len(fr) => worth[2] = fr[2] * 10
      /\ 3 \in 1..Len(fr) => worth[3] = fr[3]
  BY <1>1, <1>3 DEF Base, Places
<1>5. \A i \in 1..Len(fr) : worth[i] \in Int
  <2>1. \A i \in 1..Len(fr) : i = 1 \/ i = 2 \/ i = 3
    <3> SUFFICES ASSUME NEW i \in 1..Len(fr) PROVE i = 1 \/ i = 2 \/ i = 3
      OBVIOUS
    <3>1. i \in Int /\ 1 <= i /\ i <= 3
      BY <1>1
    <3> QED
      BY <3>1
  <2> HIDE DEF worth
  <2> QED
    BY <1>1, <1>3, <1>4, <2>1
<1>6. d(1) \in Nat /\ d(2) \in Nat /\ d(3) \in Nat
  BY <1>1, <1>3
<1>7. SumFunctionOnSet(worth, 1..Len(fr)) = d(1) * 100 + d(2) * 10 + d(3)
  <2> HIDE DEF worth
  <2>1. ASSUME NEW n \in 0..2, n + 1 <= Len(fr)
        PROVE  SumFunctionOnSet(worth, 1..(n + 1))
                = worth[n + 1] + SumFunctionOnSet(worth, 1..n)
    <3>1. IsFiniteSet(1..(n + 1)) /\ n + 1 \in 1..(n + 1)
      BY FS_Interval
    <3>2. \A i \in 1..(n + 1) : worth[i] \in Int
      BY <1>1, <1>5, <2>1
    <3>3. (1..(n + 1)) \ {n + 1} = 1..n
      OBVIOUS
    <3> QED
      BY <3>1, <3>2, <3>3, SumRemove
  <2>2. SumFunctionOnSet(worth, 1..0) = 0
    <3>1. 1..0 = {} /\ IsFiniteSet({})
      BY FS_EmptySet
    <3> QED
      BY <3>1, SumRemove
  <2>3. /\ 1 <= Len(fr) => SumFunctionOnSet(worth, 1..1) = worth[1] + SumFunctionOnSet(worth, 1..0)
        /\ 2 <= Len(fr) => SumFunctionOnSet(worth, 1..2) = worth[2] + SumFunctionOnSet(worth, 1..1)
        /\ 3 <= Len(fr) => SumFunctionOnSet(worth, 1..3) = worth[3] + SumFunctionOnSet(worth, 1..2)
    BY <2>1
  <2>4. CASE Len(fr) = 0
    BY <2>2, <2>4
  <2>5. CASE Len(fr) = 1
    <3>1. d(1) = fr[1] /\ d(2) = 0 /\ d(3) = 0 /\ worth[1] = fr[1] * 100
      BY <1>4, <2>5
    <3> QED
      BY <1>6, <2>2, <2>3, <2>5, <3>1
  <2>6. CASE Len(fr) = 2
    <3>1. d(1) = fr[1] /\ d(2) = fr[2] /\ d(3) = 0 /\ worth[1] = fr[1] * 100 /\ worth[2] = fr[2] * 10
      BY <1>4, <2>6
    <3> QED
      BY <1>6, <2>2, <2>3, <2>6, <3>1
  <2>7. CASE Len(fr) = 3
    <3>1. /\ d(1) = fr[1] /\ d(2) = fr[2] /\ d(3) = fr[3]
          /\ worth[1] = fr[1] * 100 /\ worth[2] = fr[2] * 10 /\ worth[3] = fr[3]
      BY <1>4, <2>7
    <3>2. SumFunctionOnSet(worth, 1..1) = d(1) * 100
      BY <1>6, <2>2, <2>3, <2>7, <3>1
    <3>3. SumFunctionOnSet(worth, 1..2) = d(2) * 10 + d(1) * 100
      BY <2>3, <2>7, <3>1, <3>2
    <3>4. SumFunctionOnSet(worth, 1..3) = d(3) + (d(2) * 10 + d(1) * 100)
      BY <2>3, <2>7, <3>1, <3>3
    <3> HIDE DEF d
    <3>5. SumFunctionOnSet(worth, 1..3) = d(1) * 100 + d(2) * 10 + d(3)
      BY <1>6, <3>4
    <3> QED
      BY <2>7, <3>5
  <2>8. Len(fr) = 0 \/ Len(fr) = 1 \/ Len(fr) = 2 \/ Len(fr) = 3
    <3> DEFINE n == Len(fr)
    <3>1. n \in Nat /\ n <= 3
      BY <1>1
    <3> HIDE DEF n
    <3>2. n = 0 \/ n = 1 \/ n = 2 \/ n = 3
      BY <3>1
    <3> QED
      BY <3>2 DEF n
  <2> QED
    BY <2>4, <2>5, <2>6, <2>7, <2>8
<1>8. Parse(Pad(fr)) = d(1) * 100 + d(2) * 10 + d(3)
  <2>1. /\ Pad(fr) \in Seq(Nat) /\ DOMAIN Pad(fr) = 1..3
        /\ \A i \in 1..3 : Pad(fr)[i] = d(i)
    BY <1>1, <1>3 DEF Pad, Zeros, Places
  <2>2. Parse(Pad(fr)) = Pad(fr)[1] * 100 + Pad(fr)[2] * 10 + Pad(fr)[3]
    BY <2>1, ParseThree
  <2>3. Pad(fr)[1] = d(1) /\ Pad(fr)[2] = d(2) /\ Pad(fr)[3] = d(3)
    BY <2>1
  <2> QED
    BY <2>2, <2>3
<1>9. IsWhole(a) => d(1) = 0 /\ d(2) = 0 /\ d(3) = 0
  BY DEF IsWhole, fr
<1> DEFINE e1 == d(1)
           e2 == d(2)
           e3 == d(3)
           m == Milli(a)
           q == Parse(Pad(fr))
<1>10. /\ e1 \in Nat /\ e2 \in Nat /\ e3 \in Nat
       /\ m = a.whole * Scale + (e1 * 100 + e2 * 10 + e3)
       /\ q = e1 * 100 + e2 * 10 + e3
       /\ IsWhole(a) => e1 = 0 /\ e2 = 0 /\ e3 = 0
  BY <1>2, <1>3, <1>6, <1>7, <1>8, <1>9
<1> HIDE DEF e1, e2, e3, m, q
<1>11. /\ m = a.whole * Scale + q
       /\ m \in Nat
       /\ IsWhole(a) => m = a.whole * Scale
  BY <1>1, <1>10 DEF Scale
<1> QED
  BY <1>11 DEF m, q, fr

\* A count is an exact and whole number of units.
LEMMA CountIsExact ==
    ASSUME NEW a \in Decimals
    PROVE  Count(a) <=> Exact(a) /\ IsWhole(a)
<1>1. IsWhole(a) => Len(a.fraction) <= Places
  BY DEF IsWhole, Places
<1>2. a.whole \in Nat
  BY DEF Decimals
<1>3. IsWhole(a) => (a.whole \in 1 .. MaxInt \div Scale <=> Milli(a) \in 1..MaxInt)
  <2> SUFFICES ASSUME IsWhole(a)
               PROVE  a.whole \in 1 .. MaxInt \div Scale <=> Milli(a) \in 1..MaxInt
    OBVIOUS
  <2>1. Milli(a) = a.whole * Scale
    BY <1>1, FractionIsExact
  <2> QED
    BY <1>2, <2>1, MaxIntAssumption DEF Scale
<1> QED
  BY <1>1, <1>3 DEF Count, Exact

\* A quantity is an exact number of milliunits.
LEMMA QuantityIsExact ==
    ASSUME NEW a \in Decimals
    PROVE  Quantity(a) <=> Exact(a)
<1>1. CASE Len(a.fraction) <= Places
  <2>1. Milli(a) \in Nat /\ Milli(a) = a.whole * Scale + Parse(Pad(a.fraction))
    BY <1>1, FractionIsExact
  <2>2. Quantity(a) <=> 0 < Milli(a) /\ Milli(a) <= MaxInt
    BY <1>1, <2>1 DEF Quantity
  <2> QED
    BY <1>1, <2>1, <2>2, MaxIntAssumption DEF Exact
<1>2. CASE ~(Len(a.fraction) <= Places)
  BY <1>2 DEF Quantity, Exact
<1> QED
  BY <1>1, <1>2

\* One unit is an exact quantity.
LEMMA OneIsExact == One \in Decimals /\ One.form = "ascii" /\ IsWhole(One) /\ Exact(One)
<1>1. One \in Decimals /\ One.form = "ascii" /\ IsWhole(One) /\ One.whole = 1
  BY DEF One, Decimals, Forms, IsWhole
<1>2. Len(One.fraction) <= Places
  BY <1>1 DEF IsWhole, Places
<1>3. Milli(One) = 1 * Scale
  BY <1>1, <1>2, FractionIsExact
<1> QED
  BY <1>1, <1>2, <1>3, MaxIntAssumption DEF Exact, Scale

-----------------------------------------------------------------------------
(* Texts and integers.                                                     *)

\* Stripping keeps a text a text; Python and Go measure it alike if it is narrow.
LEMMA TextFacts ==
    ASSUME NEW t \in Texts
    PROVE  /\ Strip(t) \in Texts /\ Strip(t).chars = t.chars /\ Strip(t).width = t.width
           /\ PyLen(t) \in Nat /\ PyLen(Strip(t)) = t.chars
           /\ GoLen(Strip(t)) \in Nat /\ (~IsBlank(t) => GoLen(Strip(t)) # 0)
           /\ IsBlank(Strip(t)) <=> IsBlank(t)
           /\ ~IsBlank(t) => PyLen(t) # 0 /\ GoLen(t) # 0
           /\ ~(t.width > 1) => /\ t.width = 1
                                /\ GoLen(t) = PyLen(t) /\ GoLen(Strip(t)) = PyLen(Strip(t))
<1>1. t.chars \in Nat /\ t.pad \in Nat /\ t.width \in Nat \ {0}
  BY DEF Texts
<1>2. /\ Strip(t) \in Texts /\ Strip(t).chars = t.chars /\ Strip(t).width = t.width
      /\ Strip(t).pad = 0
  BY DEF Texts, Strip
<1> DEFINE c == t.chars
           w == t.width
           k == t.pad
<1>3. /\ PyLen(t) = c + k /\ PyLen(Strip(t)) = c + 0
      /\ GoLen(t) = c * w + k /\ GoLen(Strip(t)) = c * w + 0
      /\ (IsBlank(t) <=> c = 0) /\ (IsBlank(Strip(t)) <=> c = 0)
  BY <1>2 DEF PyLen, GoLen, IsBlank
<1>4. c \in Nat /\ k \in Nat /\ w \in Nat /\ w # 0
  BY <1>1
<1> HIDE DEF c, w, k
<1>5. /\ c + k \in Nat /\ c + 0 = c /\ c * w + 0 \in Nat
      /\ c # 0 => c * w + 0 # 0 /\ c * w + k # 0 /\ c + k # 0
  BY <1>4
<1>6. ~(w > 1) => w = 1 /\ c * w + k = c + k /\ c * w + 0 = c + 0
  BY <1>4
<1> QED
  BY <1>2, <1>3, <1>5, <1>6 DEF c, w, k

\* Digits of other scripts apart, both SDKs take the same amounts.
LEMMA AmountsAlike ==
    ASSUME NEW a, a.form # "foreign"
    PROVE  /\ PyInteger(a, TRUE) <=> GoInteger(a, TRUE)
           /\ PyInteger(a, FALSE) <=> GoInteger(a, FALSE)
           /\ PyWholeCount(a) <=> GoWholeCount(a)
           /\ PyQuantity(a) <=> GoQuantity(a)
BY DEF PyInteger, GoInteger, PyWholeCount, GoWholeCount, PyQuantity, GoQuantity,
       PyDigits, GoDigits

\* Payments are refused for the same reasons.
LEMMA PaymentsAlike ==
    ASSUME NEW p, IsPayment(p), ~PaymentsDiffer(p)
    PROVE  PyPayment(p) = GoPayment(p)
<1>1. p.payment_event_id \in Texts /\ (p.reason = Absent \/ p.reason \in Texts)
  BY DEF IsPayment
<1>2. ~(p.payment_event_id.width > 1) /\ (p.reason # Absent => ~(p.reason.width > 1))
  BY <1>1 DEF PaymentsDiffer, Wide
<1>3. /\ GoLen(p.payment_event_id) = PyLen(p.payment_event_id)
      /\ p.reason # Absent => GoLen(p.reason) = PyLen(p.reason)
  BY <1>1, <1>2, TextFacts
<1>4. p.amount_minor.form # "foreign" /\ p.total_minor.form # "foreign"
  BY DEF PaymentsDiffer
<1>5. /\ PyInteger(p.amount_minor, FALSE) <=> GoInteger(p.amount_minor, FALSE)
      /\ PyInteger(p.total_minor, FALSE) <=> GoInteger(p.total_minor, FALSE)
  BY <1>4, AmountsAlike
<1> QED
  BY <1>3, <1>5 DEF PyPayment, GoPayment

-----------------------------------------------------------------------------
(* Metadata.                                                               *)

Narrow(t) == t \in Texts /\ ~(t.width > 1)

\* What both SDKs read alike in a field of the metadata.
PlainField(f, x) ==
    /\ x # Null
    /\ x # Absent =>
        /\ f # "custom"
        /\ f \in {"channel", "actor"} => x # Empty
        /\ f = "actor" => x = Malformed \/ Narrow(x)
        /\ f = "attributes" =>
                /\ x # {}
                /\ x = Malformed \/ \A a \in x : Narrow(a.key) /\ (a.value # Null => Narrow(a.value))
        /\ f \in TextFields => x \in Texts /\ x.width = 1 /\ PyLen(x) # 0
        /\ f = "original_amount_minor" => x.form \notin {"foreign", "empty"}

Plain(m) == m = [f \in Fields |-> m[f]] /\ \A f \in Fields : PlainField(f, m[f])

\* Such metadata is valid in both SDKs or in neither, and Go sends it as it is.
LEMMA PlainIsAlike ==
    ASSUME NEW m, m = Absent \/ Plain(m)
    PROVE  /\ PyValid(m) <=> GoValid(m)
           /\ GoWire(m) = m
<1>1. CASE m = Absent
  BY <1>1 DEF PyValid, GoValid, GoWire
<1>2. CASE m # Absent
  <2>1. Plain(m)
    BY <1>2
  <2>2. \A f \in Fields : m[f] # Null
    BY <2>1 DEF Plain, PlainField
  <2>3. ASSUME NEW f \in TextFields, m[f] # Absent
        PROVE  /\ PyLen(m[f]) \in 1..MaxText <=> GoLen(m[f]) <= MaxText
               /\ GoLen(m[f]) # 0
    <3>1. m[f] \in Texts /\ m[f].width = 1 /\ PyLen(m[f]) # 0
      BY <2>1, <2>3 DEF Plain, PlainField, Fields
    <3>2. GoLen(m[f]) = PyLen(m[f]) /\ PyLen(m[f]) \in Nat
      BY <3>1, TextFacts
    <3> QED
      BY <3>1, <3>2, MaxTextAssumption
  <2>4. /\ m["custom"] = Absent
        /\ m["channel"] # Absent => m["channel"] # Empty
        /\ m["actor"] # Absent =>
                m["actor"] # Empty /\ (m["actor"] = Malformed \/ Narrow(m["actor"]))
        /\ m["attributes"] # Absent => m["attributes"] # {}
        /\ m["original_amount_minor"] # Absent =>
                m["original_amount_minor"].form \notin {"foreign", "empty"}
    BY <2>1 DEF Plain, PlainField, Fields
  <2>5. m["actor"] # Absent /\ m["actor"] # Malformed => GoLen(m["actor"]) = PyLen(m["actor"])
    BY <2>4, TextFacts DEF Narrow
  <2>6. m["attributes"] # Absent /\ m["attributes"] # Malformed =>
            (PyBounded(m["attributes"]) <=> GoBounded(m["attributes"]))
    <3> SUFFICES ASSUME m["attributes"] # Absent, m["attributes"] # Malformed
                 PROVE  PyBounded(m["attributes"]) <=> GoBounded(m["attributes"])
      OBVIOUS
    <3>1. PlainField("attributes", m["attributes"])
      BY <2>1 DEF Plain, Fields
    <3>2. \A a \in m["attributes"] : Narrow(a.key) /\ (a.value # Null => Narrow(a.value))
      BY <3>1 DEF PlainField
    <3>3. \A a \in m["attributes"] :
                /\ GoLen(a.key) = PyLen(a.key)
                /\ a.value # Null => GoLen(a.value) = PyLen(a.value)
      BY <3>2, TextFacts DEF Narrow
    <3> QED
      BY <3>3 DEF PyBounded, GoBounded
  <2>7. m["original_amount_minor"] # Absent =>
            (PyInteger(m["original_amount_minor"], TRUE) <=> GoInteger(m["original_amount_minor"], TRUE))
    BY <2>4, AmountsAlike
  <2>8. PyValid(m) <=> GoValid(m)
    <3>1. /\ m["channel"] # Null /\ m["actor"] # Null /\ m["attributes"] # Null
          /\ m["original_amount_minor"] # Null /\ \A f \in TextFields : m[f] # Null
      BY <2>2 DEF Fields
    <3> QED
      BY <1>2, <2>3, <2>4, <2>7, <2>5, <2>6, <3>1 DEF PyValid, GoValid, Unset
  <2>9. \A f \in Fields : Lost(m, f) => m[f] = Absent
    <3> SUFFICES ASSUME NEW f \in Fields, Lost(m, f), m[f] # Absent PROVE FALSE
      OBVIOUS
    <3> QED
      BY <2>2, <2>3, <2>4 DEF Lost, Unset
  <2>10. GoWire(m) = [f \in Fields |-> m[f]]
    BY <1>2, <2>9 DEF GoWire
  <2> QED
    BY <2>1, <2>8, <2>10 DEF Plain
<1> QED
  BY <1>1, <1>2

\* What the arguments say wins; the rest is the caller's.
LEMMA MergeIs ==
    ASSUME NEW m, NEW arguments
    PROVE  /\ Merge(m, arguments) = [f \in Fields |-> Merge(m, arguments)[f]]
           /\ \A f \in Fields : Merge(m, arguments)[f] =
                IF f \in DOMAIN arguments THEN arguments[f]
                ELSE IF m = Absent THEN Absent ELSE m[f]
BY DEF Merge, NoMetadata

\* Merging plain arguments keeps metadata plain.
LEMMA MergeIsPlain ==
    ASSUME NEW m, m = Absent \/ Plain(m), NEW arguments,
           \A f \in Fields : f \in DOMAIN arguments => PlainField(f, arguments[f])
    PROVE  Plain(Merge(m, arguments))
<1>1. \A f \in Fields : PlainField(f, Absent)
  BY NullAssumption DEF PlainField
<1>2. m # Absent => \A f \in Fields : PlainField(f, m[f])
  BY DEF Plain
<1>3. \A f \in Fields : PlainField(f, Merge(m, arguments)[f])
  BY <1>1, <1>2, MergeIs
<1> QED
  BY <1>3, MergeIs DEF Plain

\* Metadata and what is merged into it are values of their types, so not missing.
LEMMA MergeIsTyped ==
    ASSUME NEW m, m = Absent \/ m \in [Fields -> FieldValues], NEW arguments,
           \A f \in Fields : f \in DOMAIN arguments => arguments[f] \in FieldValues
    PROVE  Merge(m, arguments) \in [Fields -> FieldValues] /\ Merge(m, arguments) # Absent
<1>1. Absent \in FieldValues
  BY DEF FieldValues
<1>2. \A f \in Fields : Merge(m, arguments)[f] \in FieldValues
  BY <1>1, MergeIs
<1>3. Merge(m, arguments) \in [Fields -> FieldValues]
  BY <1>2, MergeIs
<1> QED
  BY <1>3, MissingAssumption

\* Metadata that a caller can give is of its type.
LEMMA MetadataIsTyped ==
    ASSUME NEW m, IsMetadata(m)
    PROVE  m \in [Fields -> FieldValues]
<1>1. \A f \in Fields : m[f] \in FieldValues
  <2>1. \A f \in TextFields : m[f] \in FieldValues
    BY DEF IsMetadata, FieldValues, Unset
  <2>2. m["channel"] \in FieldValues
    BY DEF IsMetadata, FieldValues, Unset
  <2>3. m["actor"] \in FieldValues /\ m["attributes"] \in FieldValues
    BY DEF IsMetadata, IsAttributes, FieldValues, Unset
  <2>4. m["original_amount_minor"] \in FieldValues /\ m["custom"] \in FieldValues
    BY DEF IsMetadata, FieldValues, Unset
  <2> QED
    BY <2>1, <2>2, <2>3, <2>4 DEF Fields
<1> QED
  BY <1>1 DEF IsMetadata

\* What Python asks of a field of the metadata.
ValidField(f, x) ==
    x # Absent =>
        /\ f # "custom"
        /\ f = "attributes" => x \notin {Null, Malformed} /\ PyBounded(x)
        /\ x # Null =>
            /\ f = "channel" => x \in Channels
            /\ f = "actor" => x \notin {Empty, Malformed} /\ PyLen(x) \in 1..MaxId
            /\ f \in TextFields => PyLen(x) \in 1..MaxText
            /\ f = "original_amount_minor" => PyInteger(x, TRUE)

\* It asks it field by field.
LEMMA ValidIsByField ==
    ASSUME NEW m, m # Absent
    PROVE  PyValid(m) <=> \A f \in Fields : ValidField(f, m[f])
<1>1. ASSUME PyValid(m), NEW f \in Fields
      PROVE  ValidField(f, m[f])
  BY <1>1 DEF PyValid, ValidField, Unset
<1>2. ASSUME \A f \in Fields : ValidField(f, m[f])
      PROVE  PyValid(m)
  <2>1. \A f \in TextFields : m[f] \notin Unset => PyLen(m[f]) \in 1..MaxText
    BY <1>2 DEF ValidField, Fields, Unset
  <2>2. /\ ValidField("custom", m["custom"]) /\ ValidField("channel", m["channel"])
        /\ ValidField("actor", m["actor"]) /\ ValidField("attributes", m["attributes"])
        /\ ValidField("original_amount_minor", m["original_amount_minor"])
    BY <1>2 DEF Fields
  <2> QED
    BY <2>1, <2>2 DEF PyValid, ValidField, Unset, TextFields
<1> QED
  BY <1>1, <1>2

\* So merged metadata is valid when the arguments and what they leave are.
LEMMA MergeIsValid ==
    ASSUME NEW m, NEW arguments, Merge(m, arguments) # Absent
    PROVE  PyValid(Merge(m, arguments)) <=>
                /\ \A f \in Fields : f \in DOMAIN arguments => ValidField(f, arguments[f])
                /\ m # Absent => \A f \in Fields : f \notin DOMAIN arguments => ValidField(f, m[f])
<1>1. \A f : ValidField(f, Absent)
  BY DEF ValidField
<1> QED
  BY <1>1, MergeIs, ValidIsByField

-----------------------------------------------------------------------------
(* The arguments.                                                          *)

\* Which fields they set.
LEMMA ArgumentsAre ==
    ASSUME NEW u
    PROVE  /\ DOMAIN Attribution(u) = {"provider", "provider_event_id"}
           /\ Attribution(u)["provider"] = Provider(u)
           /\ Attribution(u)["provider_event_id"] = Strip(u.provider_event_id)
           /\ DOMAIN Conversation(u) = {"conversation_id", "channel"}
           /\ Conversation(u)["conversation_id"] = Strip(u.conversation_id)
           /\ Conversation(u)["channel"] = u.channel
           /\ DOMAIN Invoice(u) = {"provider_invoice_id", "original_amount_minor",
                                   "original_currency", "tariff_version"}
           /\ Invoice(u)["provider_invoice_id"] = Strip(u.provider_invoice_id)
           /\ Invoice(u)["original_amount_minor"] = u.original_amount_minor
           /\ Invoice(u)["original_currency"] = Currency(u)
           /\ Invoice(u)["tariff_version"] = Strip(u.tariff_version)
BY DEF Attribution, Conversation, Invoice

\* A currency is three letters.
LEMMA CurrencyFacts ==
    ASSUME NEW u, IsUsage(u), u.original_currency # Malformed
    PROVE  /\ Currency(u) \in Texts /\ Currency(u).width = 1
           /\ PyLen(Currency(u)) = 3 /\ GoLen(Currency(u)) = 3
<1> DEFINE t == Strip(u.original_currency)
<1>1. u.original_currency \in Texts /\ u.original_currency.chars = 3 /\ u.original_currency.width = 1
  BY DEF IsUsage, Currencies
<1>2. t \in Texts /\ t.chars = 3 /\ t.width = 1 /\ t.pad = 0
  <2>1. t.pad = 0
    BY <1>1 DEF Strip, Texts
  <2> QED
    BY <1>1, <2>1, TextFacts
<1> HIDE DEF t
<1>3. Upper(t) \in Texts /\ Upper(t).chars = 3 /\ Upper(t).width = 1 /\ Upper(t).pad = 0
  <2> DEFINE n == IF t.name = "sar" THEN "SAR" ELSE t.name
  <2>1. n \in Names
    BY <1>2, NamesAssumption DEF Texts
  <2>2. Upper(t) = [t EXCEPT !.name = n]
    BY DEF Upper
  <2> HIDE DEF n
  <2> QED
    BY <1>2, <2>1, <2>2 DEF Texts
<1>4. Currency(u) = Upper(t)
  BY DEF Currency, t
<1> QED
  BY <1>3, <1>4 DEF PyLen, GoLen

\* The provider is a text, and so are the others.
LEMMA UsageTexts ==
    ASSUME NEW u, IsUsage(u)
    PROVE  /\ u.source_event_id \in Texts /\ u.provider \in Texts
           /\ u.provider_event_id \in Texts /\ u.conversation_id \in Texts
           /\ u.provider_invoice_id \in Texts /\ u.tariff_version \in Texts
           /\ u.fx_rule # Absent => u.fx_rule \in Texts
           /\ Provider(u) \in Texts
           /\ ~(u.provider.width > 1) => Provider(u).width = 1
           /\ u.feature # "whatsapp_meta_marketing_msg" =>
                    PyLen(Provider(u)) = PyLen(Strip(u.provider))
<1>1. /\ u.source_event_id \in Texts /\ u.provider \in Texts
      /\ u.provider_event_id \in Texts /\ u.conversation_id \in Texts
      /\ u.provider_invoice_id \in Texts /\ u.tariff_version \in Texts
      /\ u.fx_rule # Absent => u.fx_rule \in Texts
  BY DEF IsUsage
<1>2. Strip(u.provider) \in Texts /\ (~(u.provider.width > 1) => Strip(u.provider).width = 1)
  BY <1>1, TextFacts
<1>3. Meta \in Texts /\ Meta.width = 1
  BY MaxTextAssumption
<1> QED
  BY <1>1, <1>2, <1>3 DEF Provider

\* What a usage is that is not in BuildersDiffer.
Ordinary(u) ==
    /\ \A t \in {u.source_event_id, u.provider, u.provider_event_id, u.conversation_id,
                 u.provider_invoice_id, u.tariff_version} : ~(t.width > 1)
    /\ u.fx_rule # Absent => ~(u.fx_rule.width > 1)
    /\ u.amount # Absent => u.amount.form \notin {"foreign", "empty"}
    /\ u.original_amount_minor.form \notin {"foreign", "empty"}
    /\ u.occurred_at \notin {"naive", "zero"}
    /\ u.metadata = Absent \/ Plain(u.metadata)
    /\ u.feature \in ProviderFeatures /\ u.metadata # Absent =>
            \A f \in {"provider", "provider_event_id"} : ValidField(f, u.metadata[f])
    /\ u.feature = "other_provider_charge" =>
            /\ PyLen(Strip(u.provider)) <= MaxText /\ PyLen(Strip(u.provider_event_id)) <= MaxText
            /\ u.fx_rule # Absent => ~IsBlank(u.fx_rule)
            /\ u.fx_rule = Absent /\ u.metadata # Absent => u.metadata["fx_rule"] = Absent

\* What ~BuildersDiffer(u) says, fact by fact.
LEMMA OrdinaryUsages ==
    ASSUME NEW u, IsUsage(u), ~BuildersDiffer(u)
    PROVE  Ordinary(u)
<1> DEFINE m == u.metadata
<1>1. \A t \in TextsOf(u) : t \in Texts => ~(t.width > 1)
  BY DEF BuildersDiffer, Wide
<1>2. /\ \A t \in {u.source_event_id, u.provider, u.provider_event_id, u.conversation_id,
                   u.provider_invoice_id, u.tariff_version} : ~(t.width > 1)
      /\ u.fx_rule # Absent => ~(u.fx_rule.width > 1)
  <2>1. \A t \in {u.source_event_id, u.provider, u.provider_event_id, u.conversation_id,
                  u.provider_invoice_id, u.tariff_version} : t \in Texts /\ t \in TextsOf(u)
    BY UsageTexts DEF TextsOf
  <2>2. u.fx_rule \in TextsOf(u) /\ (u.fx_rule # Absent => u.fx_rule \in Texts)
    BY UsageTexts DEF TextsOf
  <2> QED
    BY <1>1, <2>1, <2>2
<1>3. /\ u.amount # Absent => u.amount.form \notin {"foreign", "empty"}
      /\ u.original_amount_minor.form \notin {"foreign", "empty"}
      /\ m # Absent /\ m["original_amount_minor"] \notin Unset =>
            m["original_amount_minor"].form \notin {"foreign", "empty"}
  <2>1. u.original_amount_minor \notin Unset /\ (u.amount # Absent => u.amount \notin Unset)
    BY MissingAssumption, NullAssumption DEF IsUsage, Unset
  <2>2. \A a \in IntegersOf(u) : a \notin Unset => a.form \notin {"foreign", "empty"}
    BY DEF BuildersDiffer
  <2>3. m # Absent => m["original_amount_minor"] \in IntegersOf(u)
    BY DEF IntegersOf
  <2>4. u.amount \in IntegersOf(u) /\ u.original_amount_minor \in IntegersOf(u)
    BY DEF IntegersOf
  <2> QED
    BY <2>1, <2>2, <2>3, <2>4
<1>4. m # Absent =>
        /\ m["custom"] = Absent /\ \A f \in Fields : m[f] # Null
        /\ m["channel"] # Empty /\ m["actor"] # Empty /\ m["attributes"] # {}
        /\ \A f \in TextFields : m[f] \notin Unset => PyLen(m[f]) # 0
        /\ u.feature \in ProviderFeatures => \A f \in {"provider", "provider_event_id"} :
                m[f] \notin Unset => ~(PyLen(m[f]) > MaxText)
        /\ u.feature = "other_provider_charge" /\ u.fx_rule = Absent => m["fx_rule"] = Absent
  BY DEF BuildersDiffer
<1>5. ASSUME m # Absent, NEW f \in TextFields, m[f] # Absent
      PROVE  m[f] \in Texts /\ m[f].width = 1 /\ PyLen(m[f]) # 0 /\ PyLen(m[f]) \in Nat
  <2>1. m[f] \notin Unset
    BY <1>4, <1>5 DEF Fields, Unset
  <2>2. m[f] \in Texts
    BY <1>5, <2>1 DEF IsUsage, IsMetadata
  <2>3. m[f] \in TextsOf(u)
    BY <1>5 DEF TextsOf
  <2> HIDE DEF m
  <2> QED
    BY <1>1, <1>4, <1>5, <2>1, <2>2, <2>3, TextFacts
<1>6. m # Absent => Plain(m)
  <2> SUFFICES ASSUME m # Absent, NEW f \in Fields, m[f] # Absent
               PROVE  PlainField(f, m[f])
    <3>1. m # Absent => m = [f \in Fields |-> m[f]]
      BY DEF IsUsage, IsMetadata
    <3>2. \A f \in Fields : m[f] = Absent => PlainField(f, m[f])
      BY NullAssumption DEF PlainField
    <3> QED
      BY <3>1, <3>2 DEF Plain
  <2>1. ASSUME f = "actor"
        PROVE  m[f] = Malformed \/ Narrow(m[f])
    <3>1. m["actor"] \in TextsOf(u)
      BY DEF TextsOf
    <3>2. m["actor"] = Malformed \/ m["actor"] \in Texts
      BY <1>4, <2>1 DEF IsUsage, IsMetadata, Unset, Fields
    <3> HIDE DEF m
    <3> QED
      BY <1>1, <2>1, <3>1, <3>2 DEF Narrow
  <2>2. ASSUME f = "attributes", m[f] # Malformed, NEW a \in m[f]
        PROVE  Narrow(a.key) /\ (a.value # Null => Narrow(a.value))
    <3>1. m["attributes"] \notin Unset \cup {Malformed}
      BY <1>4, <2>2 DEF Unset, Fields
    <3>2. a.key \in TextsOf(u) /\ a.value \in TextsOf(u)
      BY <2>2, <3>1 DEF TextsOf, Entries
    <3>3. IsAttributes(m["attributes"])
      BY <3>1 DEF IsUsage, IsMetadata
    <3>4. a.key \in Texts /\ (a.value # Null => a.value \in Texts)
      BY <2>2, <3>3 DEF IsAttributes
    <3> QED
      BY <1>1, <3>2, <3>4 DEF Narrow
  <2>3. f = "original_amount_minor" => m[f] \notin Unset
    BY <1>4 DEF Unset, Fields
  <2> HIDE DEF m
  <2> QED
    BY <1>3, <1>4, <1>5, <2>1, <2>2, <2>3 DEF PlainField
<1>7. u.feature \in ProviderFeatures /\ m # Absent =>
            \A f \in {"provider", "provider_event_id"} : ValidField(f, m[f])
  <2> SUFFICES ASSUME u.feature \in ProviderFeatures, m # Absent,
                      NEW f \in {"provider", "provider_event_id"}, m[f] # Absent
               PROVE  ValidField(f, m[f])
    BY DEF ValidField
  <2>1. f \in TextFields
    BY DEF TextFields
  <2>2. m[f] \notin Unset
    BY <1>4, <2>1 DEF Fields, Unset
  <2> HIDE DEF m
  <2>3. PyLen(m[f]) \in 1..MaxText
    BY <1>4, <1>5, <2>1, <2>2, MaxTextAssumption
  <2> QED
    BY <2>3 DEF ValidField
<1>8. u.feature = "other_provider_charge" =>
            /\ PyLen(Strip(u.provider)) <= MaxText /\ PyLen(Strip(u.provider_event_id)) <= MaxText
            /\ u.fx_rule # Absent => ~IsBlank(u.fx_rule)
  <2>1. u.feature = "other_provider_charge" =>
            /\ ~(PyLen(Strip(u.provider)) > MaxText)
            /\ ~(PyLen(Strip(u.provider_event_id)) > MaxText)
            /\ u.fx_rule # Absent => ~IsBlank(u.fx_rule)
    BY DEF BuildersDiffer
  <2>2. Strip(u.provider) \in Texts /\ Strip(u.provider_event_id) \in Texts
    BY UsageTexts, TextFacts
  <2>3. PyLen(Strip(u.provider)) \in Nat /\ PyLen(Strip(u.provider_event_id)) \in Nat
    BY <2>2, TextFacts
  <2> QED
    BY <2>1, <2>3, MaxTextAssumption
<1>9. u.occurred_at \notin {"naive", "zero"}
  BY DEF BuildersDiffer
<1> QED
  BY <1>2, <1>3, <1>4, <1>6, <1>7, <1>8, <1>9 DEF Ordinary

-----------------------------------------------------------------------------
(* The builders agree.                                                     *)

\* On events and amounts.
LEMMA FactsAlike ==
    ASSUME NEW u, IsUsage(u), Ordinary(u)
    PROVE  /\ PyEvent(u) <=> GoEvent(u)
           /\ PyAmount(u) = GoAmount(u)
           /\ PyAmount(u).form # "foreign"
           /\ u.feature \in Required => u.amount.form # "foreign"
           /\ u.original_amount_minor.form # "foreign"
<1>1. GoLen(u.source_event_id) = PyLen(u.source_event_id)
  BY UsageTexts, TextFacts DEF Ordinary
<1>2. u.occurred_at \in {"zoned", "zero"} <=> u.occurred_at \notin {"missing", "zero"}
  BY DEF IsUsage, Ordinary
<1>3. PyEvent(u) <=> GoEvent(u)
  BY <1>1, <1>2 DEF PyEvent, GoEvent
<1>4. PyAmount(u) = GoAmount(u) /\ PyAmount(u).form # "foreign"
  <2>1. One.form # "foreign"
    BY OneIsExact
  <2> QED
    BY <2>1 DEF PyAmount, GoAmount, Ordinary
<1>5. u.feature \in Required => u.amount.form # "foreign"
  BY MissingAssumption DEF IsUsage, Ordinary
<1> QED
  BY <1>3, <1>4, <1>5 DEF Ordinary

\* The arguments of a conversation leave the metadata plain, and are checked by
\* Python one by one, by Go in the merged metadata.
LEMMA ConversationsAlike ==
    ASSUME NEW u, IsUsage(u), Ordinary(u), ~IsBlank(u.conversation_id)
    PROVE  LET M == Merge(u.metadata, Conversation(u))
           IN  /\ Plain(M) /\ M # Absent
               /\ PyValid(M) => u.channel \in Channels /\ PyRequired(u.conversation_id)
<1> DEFINE m == u.metadata
           A == Conversation(u)
           M == Merge(m, A)
<1>1. m = Absent \/ (Plain(m) /\ m \in [Fields -> FieldValues])
  BY MetadataIsTyped DEF IsUsage, Ordinary
<1>2. /\ u.conversation_id \in Texts /\ Strip(u.conversation_id) \in Texts
      /\ Strip(u.conversation_id).width = 1 /\ PyLen(Strip(u.conversation_id)) # 0
  <2>1. u.conversation_id \in Texts /\ ~(u.conversation_id.width > 1)
    BY UsageTexts DEF Ordinary
  <2>2. /\ Strip(u.conversation_id) \in Texts /\ ~IsBlank(Strip(u.conversation_id))
        /\ Strip(u.conversation_id).width = 1
    BY <2>1, TextFacts
  <2> QED
    BY <2>1, <2>2, TextFacts
<1>3. u.channel \in Channels \cup {Malformed}
  BY DEF IsUsage
<1>4. /\ DOMAIN A = {"conversation_id", "channel"}
      /\ A["conversation_id"] = Strip(u.conversation_id) /\ A["channel"] = u.channel
  BY ArgumentsAre
<1> HIDE DEF A, m
<1>5. \A f \in Fields : f \in DOMAIN A => PlainField(f, A[f]) /\ A[f] \in FieldValues
  <2>1. PlainField("conversation_id", Strip(u.conversation_id))
    BY <1>2, NullAssumption DEF PlainField
  <2>2. PlainField("channel", u.channel)
    BY <1>3, ChannelsAssumption DEF PlainField, TextFields
  <2>3. Strip(u.conversation_id) \in FieldValues /\ u.channel \in FieldValues
    BY <1>2, <1>3 DEF FieldValues
  <2> QED
    BY <1>4, <2>1, <2>2, <2>3
<1>6. Plain(M) /\ M # Absent
  BY <1>1, <1>5, MergeIsPlain, MergeIsTyped
<1>7. ASSUME PyValid(M)
      PROVE  u.channel \in Channels /\ PyRequired(u.conversation_id)
  <2>1. \A f \in Fields : f \in DOMAIN A => ValidField(f, A[f])
    BY <1>6, <1>7, MergeIsValid
  <2>2. ValidField("conversation_id", Strip(u.conversation_id)) /\ ValidField("channel", u.channel)
    BY <1>4, <2>1 DEF Fields, TextFields
  <2>3. u.channel \in Channels
    BY <1>3, <2>2, ChannelsAssumption, AbsentAssumption DEF ValidField
  <2>4. PyLen(Strip(u.conversation_id)) \in 1..MaxText
    BY <1>2, <2>2, MissingAssumption, NullAssumption DEF ValidField, TextFields
  <2> QED
    BY <2>3, <2>4, MaxTextAssumption DEF PyRequired
<1> QED
  BY <1>6, <1>7 DEF m, A

\* Those of a provider: Go checks only the merged metadata, and finds what Python
\* finds in the caller's own.
LEMMA AttributionsAlike ==
    ASSUME NEW u, IsUsage(u), Ordinary(u), u.feature \in ProviderFeatures,
           ~IsBlank(Provider(u)), ~IsBlank(u.provider_event_id)
    PROVE  LET M == Merge(u.metadata, Attribution(u))
           IN  /\ Plain(M) /\ M \in [Fields -> FieldValues] /\ M # Absent
               /\ PyValid(M) => PyValid(u.metadata)
               /\ /\ PyLen(Provider(u)) <= MaxText
                  /\ PyLen(Strip(u.provider_event_id)) <= MaxText
                  /\ PyValid(u.metadata)
                  => PyValid(M)
<1> DEFINE m == u.metadata
           A == Attribution(u)
           M == Merge(m, A)
           s == Strip(u.provider_event_id)
           p == Provider(u)
<1>1. m = Absent \/ (Plain(m) /\ m \in [Fields -> FieldValues])
  BY MetadataIsTyped DEF IsUsage, Ordinary
<1>2. /\ s \in Texts /\ s.width = 1 /\ PyLen(s) # 0 /\ PyLen(s) \in Nat
      /\ p \in Texts /\ p.width = 1 /\ PyLen(p) # 0 /\ PyLen(p) \in Nat
  <2>1. u.provider_event_id \in Texts /\ ~(u.provider_event_id.width > 1)
    BY UsageTexts DEF Ordinary
  <2>2. s \in Texts /\ ~IsBlank(s) /\ s.width = 1
    BY <2>1, TextFacts
  <2>3. p \in Texts /\ p.width = 1
    BY UsageTexts DEF Ordinary
  <2> HIDE DEF s, p
  <2>4. ~IsBlank(p)
    BY DEF p
  <2> QED
    BY <2>2, <2>3, <2>4, TextFacts
<1>3. /\ DOMAIN A = {"provider", "provider_event_id"}
      /\ A["provider"] = p /\ A["provider_event_id"] = s
  BY ArgumentsAre
<1>4. m # Absent => ValidField("provider", m["provider"])
                    /\ ValidField("provider_event_id", m["provider_event_id"])
  BY DEF Ordinary
<1> HIDE DEF A, m, s, p
<1>5. \A f \in Fields : f \in DOMAIN A => PlainField(f, A[f]) /\ A[f] \in FieldValues
  <2>1. PlainField("provider", p) /\ PlainField("provider_event_id", s)
    BY <1>2, NullAssumption DEF PlainField
  <2>2. p \in FieldValues /\ s \in FieldValues
    BY <1>2 DEF FieldValues
  <2> QED
    BY <1>3, <2>1, <2>2
<1>6. Plain(M) /\ M \in [Fields -> FieldValues] /\ M # Absent
  BY <1>1, <1>5, MergeIsPlain, MergeIsTyped
<1>7. PyValid(M) <=> /\ ValidField("provider", p) /\ ValidField("provider_event_id", s)
                     /\ m # Absent => \A f \in Fields : f \notin DOMAIN A => ValidField(f, m[f])
  <2>1. "provider" \in Fields /\ "provider_event_id" \in Fields
    BY DEF Fields, TextFields
  <2> HIDE DEF M
  <2>2. PyValid(M) <=> /\ \A f \in Fields : f \in DOMAIN A => ValidField(f, A[f])
                       /\ m # Absent => \A f \in Fields : f \notin DOMAIN A => ValidField(f, m[f])
    BY <1>6, MergeIsValid DEF M
  <2> QED
    BY <1>3, <2>1, <2>2
<1>8. PyValid(m) <=> (m # Absent => \A f \in Fields : f \notin DOMAIN A => ValidField(f, m[f]))
  <2>1. CASE m = Absent
    BY <2>1 DEF PyValid
  <2>2. CASE m # Absent
    BY <1>3, <1>4, <2>2, ValidIsByField
  <2> QED
    BY <2>1, <2>2
<1>9. PyLen(p) <= MaxText /\ PyLen(s) <= MaxText =>
            ValidField("provider", p) /\ ValidField("provider_event_id", s)
  <2>1. PyLen(p) <= MaxText /\ PyLen(s) <= MaxText =>
            PyLen(p) \in 1..MaxText /\ PyLen(s) \in 1..MaxText
    BY <1>2, MaxTextAssumption
  <2> QED
    BY <2>1 DEF ValidField
<1> HIDE DEF M
<1>10. /\ PyValid(M) => PyValid(m)
       /\ PyLen(p) <= MaxText /\ PyLen(s) <= MaxText /\ PyValid(m) => PyValid(M)
  BY <1>7, <1>8, <1>9
<1> QED
  BY <1>6, <1>10 DEF m, A, M, p, s

\* What both ask of a charge first.
Charged(u) ==
    /\ PyEvent(u)
    /\ PyInteger(u.amount, TRUE) /\ PyInteger(u.original_amount_minor, TRUE)
    /\ Settled(u)
    /\ ~IsBlank(Provider(u)) /\ ~IsBlank(u.provider_event_id)
    /\ ~IsBlank(u.provider_invoice_id) /\ ~IsBlank(u.tariff_version)

\* What Go asks of the merged metadata of a charge is what Python asks of the caller's
\* metadata and of the arguments, and the two send the same.
LEMMA EvidenceAlike ==
    ASSUME NEW u, IsUsage(u), Ordinary(u), u.feature = "other_provider_charge", Charged(u)
    PROVE  LET M == Merge(u.metadata, Attribution(u))
               E == Merge(M, Invoice(u))
               G == Merge(E, [fx_rule |-> IF u.fx_rule = Absent \/ IsBlank(u.fx_rule) THEN Absent
                                          ELSE Strip(u.fx_rule)])
           IN  /\ Plain(G)
               /\ G = IF u.fx_rule = Absent THEN E ELSE Merge(E, [fx_rule |-> Strip(u.fx_rule)])
               /\ PyValid(M) /\ PyValid(G) <=>
                    /\ PyValid(u.metadata)
                    /\ PyRequired(u.provider_invoice_id) /\ PyRequired(u.tariff_version)
                    /\ u.fx_rule # Absent => PyRequired(u.fx_rule)
<1> DEFINE m == u.metadata
           A == Attribution(u)
           I == Invoice(u)
           x == IF u.fx_rule = Absent \/ IsBlank(u.fx_rule) THEN Absent ELSE Strip(u.fx_rule)
           F == [fx_rule |-> x]
           M == Merge(m, A)
           E == Merge(M, I)
           G == Merge(E, F)
           i == Strip(u.provider_invoice_id)
           t == Strip(u.tariff_version)
<1>1. /\ Plain(M) /\ M \in [Fields -> FieldValues] /\ M # Absent
      /\ PyValid(M) <=> PyValid(m)
  <2>1. u.feature \in ProviderFeatures
    BY DEF ProviderFeatures
  <2>2. PyLen(Provider(u)) <= MaxText /\ PyLen(Strip(u.provider_event_id)) <= MaxText
    BY UsageTexts DEF Ordinary
  <2> QED
    BY <2>1, <2>2, AttributionsAlike DEF Charged
<1>2. /\ DOMAIN I = {"provider_invoice_id", "original_amount_minor",
                     "original_currency", "tariff_version"}
      /\ I["provider_invoice_id"] = i /\ I["original_amount_minor"] = u.original_amount_minor
      /\ I["original_currency"] = Currency(u) /\ I["tariff_version"] = t
  BY ArgumentsAre
<1>3. DOMAIN F = {"fx_rule"} /\ F["fx_rule"] = x
  OBVIOUS
<1>4. /\ i \in Texts /\ i.width = 1 /\ PyLen(i) \in Nat \ {0}
      /\ t \in Texts /\ t.width = 1 /\ PyLen(t) \in Nat \ {0}
  <2>1. /\ u.provider_invoice_id \in Texts /\ ~(u.provider_invoice_id.width > 1)
        /\ u.tariff_version \in Texts /\ ~(u.tariff_version.width > 1)
        /\ ~IsBlank(u.provider_invoice_id) /\ ~IsBlank(u.tariff_version)
    BY UsageTexts DEF Ordinary, Charged
  <2>2. i \in Texts /\ i.width = 1 /\ ~IsBlank(i) /\ t \in Texts /\ t.width = 1 /\ ~IsBlank(t)
    BY <2>1, TextFacts
  <2> HIDE DEF i, t
  <2> QED
    BY <2>2, TextFacts
<1>5. /\ x # Absent <=> u.fx_rule # Absent
      /\ u.fx_rule # Absent => /\ x = Strip(u.fx_rule) /\ ~IsBlank(u.fx_rule)
                               /\ x \in Texts /\ x.width = 1 /\ PyLen(x) \in Nat \ {0}
  <2>1. CASE u.fx_rule = Absent
    BY <2>1
  <2>2. CASE u.fx_rule # Absent
    <3>1. u.fx_rule \in Texts /\ ~(u.fx_rule.width > 1) /\ ~IsBlank(u.fx_rule)
      BY <2>2, UsageTexts DEF Ordinary
    <3>2. x = Strip(u.fx_rule)
      BY <2>2, <3>1
    <3> HIDE DEF x
    <3>3. x \in Texts /\ x.width = 1 /\ ~IsBlank(x)
      BY <3>1, <3>2, TextFacts
    <3>4. x # Absent
      BY <3>3, MissingAssumption
    <3> QED
      BY <2>2, <3>1, <3>2, <3>3, <3>4, TextFacts
  <2> QED
    BY <2>1, <2>2
<1>6. /\ Currency(u) \in Texts /\ Currency(u).width = 1 /\ PyLen(Currency(u)) = 3
      /\ u.original_amount_minor \in Decimals
      /\ u.original_amount_minor.form \notin {"foreign", "empty"}
      /\ PyInteger(u.original_amount_minor, TRUE)
  BY CurrencyFacts DEF Charged, Settled, IsUsage, Ordinary
<1>7. u.fx_rule = Absent /\ m # Absent => m["fx_rule"] = Absent
  BY DEF Ordinary
<1>8. /\ PyRequired(u.provider_invoice_id) <=> PyLen(i) <= MaxText
      /\ PyRequired(u.tariff_version) <=> PyLen(t) <= MaxText
      /\ u.fx_rule # Absent => (PyRequired(u.fx_rule) <=> PyLen(x) <= MaxText)
  BY <1>5 DEF PyRequired, Charged
<1>9. "fx_rule" \notin DOMAIN A /\ DOMAIN A = {"provider", "provider_event_id"}
  BY ArgumentsAre
<1> HIDE DEF A, I, F, M, m, x, i, t
<1>10. /\ \A f \in Fields : f \in DOMAIN I => PlainField(f, I[f]) /\ I[f] \in FieldValues
       /\ \A f \in Fields : f \in DOMAIN F => PlainField(f, F[f]) /\ F[f] \in FieldValues
  <2>1. PlainField("provider_invoice_id", i) /\ PlainField("tariff_version", t)
    BY <1>4, NullAssumption DEF PlainField
  <2>2. PlainField("original_currency", Currency(u))
    BY <1>6, NullAssumption DEF PlainField
  <2>3. PlainField("original_amount_minor", u.original_amount_minor)
    BY <1>6, NullAssumption DEF PlainField, TextFields
  <2>4. PlainField("fx_rule", x)
    BY <1>5, NullAssumption DEF PlainField
  <2>5. /\ i \in FieldValues /\ t \in FieldValues /\ Currency(u) \in FieldValues
        /\ u.original_amount_minor \in FieldValues /\ x \in FieldValues
    BY <1>4, <1>5, <1>6 DEF FieldValues
  <2> QED
    BY <1>2, <1>3, <2>1, <2>2, <2>3, <2>4, <2>5
<1>11. Plain(E) /\ E \in [Fields -> FieldValues] /\ E # Absent
  BY <1>1, <1>10, MergeIsPlain, MergeIsTyped
<1> HIDE DEF E
<1>12. Plain(G) /\ G # Absent
  BY <1>10, <1>11, MergeIsPlain, MergeIsTyped
<1>13. G = IF u.fx_rule = Absent THEN E ELSE Merge(E, [fx_rule |-> Strip(u.fx_rule)])
  <2>1. CASE u.fx_rule # Absent
    BY <1>5, <2>1 DEF F
  <2>2. CASE u.fx_rule = Absent
    <3>1. M["fx_rule"] = Absent
      <4>1. "fx_rule" \in Fields
        BY DEF Fields, TextFields
      <4> QED
        BY <1>7, <1>9, <2>2, <4>1, MergeIs DEF M
    <3>2. "fx_rule" \notin DOMAIN I /\ "fx_rule" \in Fields
      BY <1>2 DEF Fields, TextFields
    <3>3. E["fx_rule"] = Absent
      BY <1>1, <3>1, <3>2, MergeIs DEF E
    <3>4. x = Absent
      BY <1>5, <2>2
    <3>5. \A f \in Fields : G[f] = E[f]
      BY <1>3, <1>11, <3>3, <3>4, MergeIs
    <3>6. G = [f \in Fields |-> G[f]] /\ E = [f \in Fields |-> E[f]]
      BY <1>11, <1>12 DEF Plain
    <3> HIDE DEF G
    <3> QED
      BY <2>2, <3>5, <3>6
  <2> QED
    BY <2>1, <2>2
<1>14. ASSUME PyValid(M)
       PROVE  PyValid(G) <=> /\ PyLen(i) <= MaxText /\ PyLen(t) <= MaxText
                             /\ u.fx_rule # Absent => PyLen(x) <= MaxText
  <2>1. \A f \in Fields : ValidField(f, M[f])
    BY <1>1, <1>14, ValidIsByField
  <2>2. ValidField("original_amount_minor", u.original_amount_minor)
    BY <1>6 DEF ValidField, TextFields
  <2>3. ValidField("original_currency", Currency(u))
    <3>1. PyLen(Currency(u)) \in 1..MaxText
      BY <1>6, MaxTextAssumption
    <3> QED
      BY <3>1 DEF ValidField
  <2>4. /\ ValidField("provider_invoice_id", i) <=> PyLen(i) <= MaxText
        /\ ValidField("tariff_version", t) <=> PyLen(t) <= MaxText
        /\ ValidField("fx_rule", x) <=> (u.fx_rule # Absent => PyLen(x) <= MaxText)
    <3>1. /\ PyLen(i) \in 1..MaxText <=> PyLen(i) <= MaxText
          /\ PyLen(t) \in 1..MaxText <=> PyLen(t) <= MaxText
          /\ u.fx_rule # Absent => (PyLen(x) \in 1..MaxText <=> PyLen(x) <= MaxText)
      BY <1>4, <1>5, MaxTextAssumption
    <3>2. i \notin Unset /\ t \notin Unset /\ x # Null
      BY <1>4, <1>5, MissingAssumption, NullAssumption DEF Unset
    <3> QED
      BY <1>5, <3>1, <3>2 DEF ValidField, TextFields, Unset
  <2>5. PyValid(E) <=> \A f \in Fields : f \in DOMAIN I => ValidField(f, I[f])
    BY <1>11, <2>1, MergeIsValid DEF E
  <2>6. /\ {"provider_invoice_id", "original_amount_minor", "original_currency",
            "tariff_version", "fx_rule"} \subseteq Fields
        /\ "fx_rule" \notin DOMAIN I
    BY <1>2 DEF Fields, TextFields
  <2>7. PyValid(E) <=> PyLen(i) <= MaxText /\ PyLen(t) <= MaxText
    BY <1>2, <2>2, <2>3, <2>4, <2>5, <2>6
  <2>8. PyValid(G) <=> /\ ValidField("fx_rule", x)
                       /\ \A f \in Fields : f # "fx_rule" => ValidField(f, E[f])
    <3>1. PyValid(G) <=> /\ \A f \in Fields : f \in DOMAIN F => ValidField(f, F[f])
                         /\ E # Absent => \A f \in Fields : f \notin DOMAIN F => ValidField(f, E[f])
      BY <1>12, MergeIsValid
    <3> QED
      BY <1>3, <1>11, <2>6, <3>1
  <2>9. ValidField("fx_rule", E["fx_rule"])
    <3>1. E["fx_rule"] = M["fx_rule"]
      BY <1>1, <2>6, MergeIs DEF E
    <3> QED
      BY <2>1, <2>6, <3>1
  <2>10. PyValid(E) <=> \A f \in Fields : f # "fx_rule" => ValidField(f, E[f])
    BY <1>11, <2>9, ValidIsByField
  <2> QED
    BY <2>4, <2>7, <2>8, <2>10
<1>15. PyValid(M) /\ PyValid(G) <=>
            /\ PyValid(m)
            /\ PyRequired(u.provider_invoice_id) /\ PyRequired(u.tariff_version)
            /\ u.fx_rule # Absent => PyRequired(u.fx_rule)
  BY <1>1, <1>8, <1>14
<1> QED
  BY <1>12, <1>13, <1>15 DEF m, A, I, F, M, E, G, x

\* Both make the same charge, or none.
LEMMA ChargesAlike ==
    ASSUME NEW u, IsUsage(u), Ordinary(u), u.feature = "other_provider_charge"
    PROVE  PyCharge(u) = GoCharge(u)
<1> DEFINE M == Merge(u.metadata, Attribution(u))
           E == Merge(M, Invoice(u))
           G == Merge(E, [fx_rule |-> IF u.fx_rule = Absent \/ IsBlank(u.fx_rule) THEN Absent
                                      ELSE Strip(u.fx_rule)])
           more == /\ PyValid(u.metadata)
                   /\ PyRequired(u.provider_invoice_id) /\ PyRequired(u.tariff_version)
                   /\ u.fx_rule # Absent => PyRequired(u.fx_rule)
           valid == GoValid(M) /\ GoValid(G)
<1>1. PyCharge(u) = IF Charged(u) /\ more
                    THEN Body(u, u.amount, IF u.fx_rule = Absent THEN E
                                           ELSE Merge(E, [fx_rule |-> Strip(u.fx_rule)]))
                    ELSE Refused
  <2>1. PyRequired(u.provider_invoice_id) => ~IsBlank(u.provider_invoice_id)
    BY DEF PyRequired
  <2>2. PyRequired(u.tariff_version) => ~IsBlank(u.tariff_version)
    BY DEF PyRequired
  <2> QED
    BY <2>1, <2>2 DEF PyCharge, PyAttributed, Charged
<1>2. GoCharge(u) = IF Charged(u) /\ valid THEN Body(u, u.amount, GoWire(G)) ELSE Refused
  <2>1. /\ PyEvent(u) <=> GoEvent(u)
        /\ PyInteger(u.amount, TRUE) <=> GoInteger(u.amount, TRUE)
        /\ PyInteger(u.original_amount_minor, TRUE) <=> GoInteger(u.original_amount_minor, TRUE)
    BY FactsAlike, AmountsAlike DEF Required
  <2> QED
    BY <2>1 DEF GoCharge, GoAttributed, Charged
<1>3. CASE ~Charged(u)
  BY <1>1, <1>2, <1>3
<1>4. CASE Charged(u)
  <2>1. /\ Plain(M) /\ Plain(G)
        /\ G = IF u.fx_rule = Absent THEN E ELSE Merge(E, [fx_rule |-> Strip(u.fx_rule)])
        /\ PyValid(M) /\ PyValid(G) <=> more
    <3>1. Plain(M)
      BY <1>4, AttributionsAlike DEF Charged, ProviderFeatures
    <3> QED
      BY <1>4, <3>1, EvidenceAlike
  <2> HIDE DEF M, E, G
  <2>2. (PyValid(M) <=> GoValid(M)) /\ (PyValid(G) <=> GoValid(G)) /\ GoWire(G) = G
    BY <2>1, PlainIsAlike
  <2>3. valid <=> more
    BY <2>1, <2>2
  <2> HIDE DEF valid, more
  <2> QED
    BY <1>1, <1>2, <2>1, <2>2, <2>3
<1> QED
  BY <1>3, <1>4

\* Both make the same request, or none, of the same facts.
LEMMA BuildsAlike ==
    ASSUME NEW u, IsUsage(u), ~BuildersDiffer(u)
    PROVE  PyBuild(u) = GoBuild(u)
<1> DEFINE m == u.metadata
           a == PyAmount(u)
<1>1. Ordinary(u)
  BY OrdinaryUsages
<1>2. m = Absent \/ Plain(m)
  BY <1>1 DEF Ordinary
<1>3. /\ PyEvent(u) <=> GoEvent(u)
      /\ GoAmount(u) = a
      /\ PyWholeCount(a) <=> GoWholeCount(a)
      /\ PyQuantity(a) <=> GoQuantity(a)
      /\ u.feature \in Required => (PyInteger(u.amount, FALSE) <=> GoInteger(u.amount, FALSE))
  BY <1>1, FactsAlike, AmountsAlike
<1>4. (PyValid(m) <=> GoValid(m)) /\ GoWire(m) = m
  BY <1>2, PlainIsAlike
<1>5. CASE u.feature \in CountFeatures
  <2>1. /\ PyBuild(u) = PyUsage(u, a, PyWholeCount(a), m)
        /\ GoBuild(u) = GoUsage(u, GoAmount(u), GoWholeCount(GoAmount(u)), m)
    BY <1>5 DEF PyBuild, GoBuild, CountFeatures, MinuteFeatures
  <2> HIDE DEF a, m
  <2> QED
    BY <1>3, <1>4, <2>1 DEF PyUsage, GoUsage
<1>6. CASE u.feature = "conversation_24h"
  <2> DEFINE M == Merge(m, Conversation(u))
  <2>1. /\ PyBuild(u) = PyUsage(u, One, PyValid(m) /\ u.channel \in Channels
                                           /\ PyRequired(u.conversation_id), M)
        /\ GoBuild(u) = GoUsage(u, One, GoValid(m) /\ ~IsBlank(u.conversation_id), M)
    BY <1>6 DEF PyBuild, GoBuild, CountFeatures, MinuteFeatures
  <2>2. PyRequired(u.conversation_id) => ~IsBlank(u.conversation_id)
    BY DEF PyRequired
  <2>3. CASE IsBlank(u.conversation_id)
    <3>1. ~PyRequired(u.conversation_id)
      BY <2>2, <2>3
    <3> HIDE DEF m, M
    <3> QED
      BY <2>1, <2>3, <3>1 DEF PyUsage, GoUsage
  <2>4. CASE ~IsBlank(u.conversation_id)
    <3>1. /\ Plain(M)
          /\ PyValid(M) => u.channel \in Channels /\ PyRequired(u.conversation_id)
      BY <1>1, <2>4, ConversationsAlike
    <3> HIDE DEF m, M
    <3>2. (PyValid(M) <=> GoValid(M)) /\ GoWire(M) = M
      BY <3>1, PlainIsAlike
    <3> QED
      BY <1>3, <1>4, <2>1, <2>4, <3>1, <3>2 DEF PyUsage, GoUsage
  <2> QED
    BY <2>3, <2>4
<1>7. CASE u.feature = "voice_ai_started_minute"
  <2>1. /\ PyBuild(u) = PyUsage(u, u.amount, PyInteger(u.amount, FALSE), m)
        /\ GoBuild(u) = GoUsage(u, u.amount, GoInteger(u.amount, FALSE), m)
    BY <1>7 DEF PyBuild, GoBuild, CountFeatures, MinuteFeatures
  <2>2. PyInteger(u.amount, FALSE) <=> GoInteger(u.amount, FALSE)
    BY <1>3, <1>7 DEF Required
  <2> HIDE DEF m
  <2> QED
    BY <1>3, <1>4, <2>1, <2>2 DEF PyUsage, GoUsage
<1>8. CASE u.feature \in MinuteFeatures \cup {"whatsapp_meta_marketing_msg"}
  <2> DEFINE M == Merge(m, Attribution(u))
             py == IF u.feature \in MinuteFeatures THEN PyQuantity(a) ELSE PyWholeCount(a)
             go == IF u.feature \in MinuteFeatures THEN GoQuantity(a) ELSE GoWholeCount(a)
  <2>1. /\ PyBuild(u) = IF PyEvent(u) /\ PyAttributed(u) /\ py /\ PyValid(M)
                        THEN Body(u, a, M) ELSE Refused
        /\ GoBuild(u) = IF GoEvent(u) /\ GoAttributed(u) /\ go /\ GoValid(M)
                        THEN Body(u, a, GoWire(M)) ELSE Refused
    <3>1. CASE u.feature \in MinuteFeatures
      <4>1. /\ PyBuild(u) = PyUsage(u, a, PyAttributed(u) /\ PyQuantity(a), M)
            /\ GoBuild(u) = GoUsage(u, GoAmount(u), GoAttributed(u) /\ GoQuantity(GoAmount(u)), M)
        BY <3>1 DEF PyBuild, GoBuild, CountFeatures, MinuteFeatures
      <4> HIDE DEF m, M, a
      <4> QED
        BY <1>3, <3>1, <4>1 DEF PyUsage, GoUsage
    <3>2. CASE u.feature = "whatsapp_meta_marketing_msg"
      <4>1. /\ PyBuild(u) = PyUsage(u, a, PyAttributed(u) /\ PyWholeCount(a), M)
            /\ GoBuild(u) = GoUsage(u, GoAmount(u), GoAttributed(u) /\ GoWholeCount(GoAmount(u)), M)
        BY <3>2 DEF PyBuild, GoBuild, CountFeatures, MinuteFeatures
      <4>2. u.feature \notin MinuteFeatures
        BY <3>2 DEF MinuteFeatures
      <4> HIDE DEF m, M, a
      <4> QED
        BY <1>3, <4>1, <4>2 DEF PyUsage, GoUsage
    <3> QED
      BY <1>8, <3>1, <3>2
  <2>2. py <=> go
    BY <1>3
  <2> HIDE DEF py, go, a
  <2>3. CASE IsBlank(Provider(u)) \/ IsBlank(u.provider_event_id)
    <3>1. ~PyAttributed(u) /\ ~GoAttributed(u)
      BY <2>3 DEF PyAttributed, GoAttributed
    <3> HIDE DEF m, M
    <3> QED
      BY <2>1, <3>1
  <2>4. CASE ~IsBlank(Provider(u)) /\ ~IsBlank(u.provider_event_id)
    <3>1. Plain(M) /\ (PyValid(M) => PyValid(m))
      <4>1. u.feature \in ProviderFeatures
        BY <1>8 DEF ProviderFeatures
      <4> QED
        BY <1>1, <2>4, <4>1, AttributionsAlike
    <3>2. (PyValid(M) <=> GoValid(M)) /\ GoWire(M) = M
      <4> HIDE DEF M
      <4> QED
        BY <3>1, PlainIsAlike
    <3>3. (PyAttributed(u) <=> PyValid(m)) /\ (GoAttributed(u) <=> GoValid(M))
      BY <2>4 DEF PyAttributed, GoAttributed
    <3> HIDE DEF m, M
    <3> QED
      BY <1>3, <2>1, <2>2, <3>1, <3>2, <3>3
  <2> QED
    BY <2>3, <2>4
<1>9. CASE u.feature = "other_provider_charge"
  <2>1. PyBuild(u) = PyCharge(u) /\ GoBuild(u) = GoCharge(u)
    BY <1>9 DEF PyBuild, GoBuild, CountFeatures, MinuteFeatures
  <2> QED
    BY <1>1, <1>9, <2>1, ChargesAlike
<1>10. u.feature \in Features
  BY DEF IsUsage
<1> QED
  BY <1>5, <1>6, <1>7, <1>8, <1>9, <1>10 DEF Features, ProviderFeatures

\* From the same usage facts, or the same payment, both SDKs make the same request or
\* none, unless it is in BuildersDiffer or PaymentsDiffer.
THEOREM BuildersAgree == Spec => []SameRequest
<1>1. Honest => SameRequest
  <2> SUFFICES ASSUME Honest, \A s \in SDKs : answer[s] # NotYet,
                      input.kind # "delivery",
                      input.kind = "usage" => ~BuildersDiffer(input.of),
                      input.kind = "payment" => ~PaymentsDiffer(input.of)
               PROVE  answer["python"] = answer["go"]
    BY DEF SameRequest
  <2>1. answer["python"] = Result("python") /\ answer["go"] = Result("go")
    BY DEF Honest, SDKs
  <2>2. CASE input.kind = "usage"
    <3>1. Result("python") = PyBuild(input.of) /\ Result("go") = GoBuild(input.of)
      BY <2>2 DEF Result
    <3>2. IsUsage(input.of)
      BY <2>2, UsagesAssumption DEF Honest
    <3> QED
      BY <2>1, <2>2, <3>1, <3>2, BuildsAlike
  <2>3. CASE input.kind = "payment"
    <3>1. Result("python") = PyPayment(input.of) /\ Result("go") = GoPayment(input.of)
      BY <2>3 DEF Result
    <3>2. IsPayment(input.of)
      BY <2>3, PaymentsAssumption DEF Honest
    <3> QED
      BY <2>1, <2>3, <3>1, <3>2, PaymentsAlike
  <2> QED
    BY <2>2, <2>3 DEF Honest
<1> QED
  BY <1>1, AnswersAreHonest, PTL

-----------------------------------------------------------------------------
(* The arguments stand.                                                    *)

Says(m, arguments) == \A f \in DOMAIN arguments : m[f] = arguments[f]

\* ArgumentsStand, of one request.
Stand(u, m) ==
    /\ u.feature \in ProviderFeatures => Says(m, Attribution(u)) /\ ~IsBlank(m["provider"])
    /\ u.feature = "conversation_24h" => Says(m, Conversation(u))
    /\ u.feature = "other_provider_charge" => Says(m, Invoice(u))
    /\ u.feature = "other_provider_charge" /\ Currency(u).name # "SAR" =>
            m["fx_rule"] = Strip(u.fx_rule)

\* Merged metadata says what the arguments say.
LEMMA MergeSays ==
    ASSUME NEW m, NEW arguments, DOMAIN arguments \subseteq Fields
    PROVE  /\ Says(Merge(m, arguments), arguments)
           /\ \A more : /\ DOMAIN more \subseteq Fields
                        /\ DOMAIN more \cap DOMAIN arguments = {}
                        /\ m # Absent /\ Says(m, more)
                        => Says(Merge(m, arguments), more)
BY MergeIs DEF Says

\* Go's encoding keeps what has a place in the struct and is not empty.
LEMMA WireSays ==
    ASSUME NEW m, m # Absent, NEW arguments, DOMAIN arguments \subseteq Fields,
           Says(m, arguments),
           \A f \in DOMAIN arguments :
                /\ f \notin {"custom", "actor", "attributes"}
                /\ f \in TextFields => GoLen(arguments[f]) # 0
                /\ f = "channel" => arguments[f] # Empty
                /\ f = "original_amount_minor" => arguments[f].form # "empty"
                /\ arguments[f] # Null
    PROVE  Says(GoWire(m), arguments)
<1>1. ASSUME NEW f \in DOMAIN arguments
      PROVE  ~Lost(m, f) \/ m[f] = Absent
  BY DEF Says, Lost, Unset
<1>2. \A f \in Fields : ~Lost(m, f) \/ m[f] = Absent => GoWire(m)[f] = m[f]
  BY DEF GoWire
<1> QED
  BY <1>1, <1>2 DEF Says

\* The arguments are fields and values of the metadata, and not empty ones.
LEMMA ArgumentsAreTyped ==
    ASSUME NEW u, IsUsage(u)
    PROVE  /\ DOMAIN Attribution(u) \subseteq Fields
           /\ DOMAIN Conversation(u) \subseteq Fields
           /\ DOMAIN Invoice(u) \subseteq Fields
           /\ \A f \in DOMAIN Attribution(u) : Attribution(u)[f] \in FieldValues
           /\ \A f \in DOMAIN Conversation(u) : Conversation(u)[f] \in FieldValues
           /\ u.original_currency # Malformed =>
                \A f \in DOMAIN Invoice(u) : Invoice(u)[f] \in FieldValues
           /\ ~IsBlank(Provider(u)) => GoLen(Provider(u)) # 0
           /\ \A t \in {u.provider_event_id, u.conversation_id, u.provider_invoice_id,
                        u.tariff_version} : ~IsBlank(t) => GoLen(Strip(t)) # 0
           /\ \A t \in {u.provider_event_id, u.conversation_id, u.provider_invoice_id,
                        u.tariff_version} : Strip(t) # Null
           /\ Provider(u) # Null /\ u.channel \notin {Null, Empty} /\ u.original_amount_minor # Null
           /\ u.original_currency # Malformed => Currency(u) # Null
           /\ u.fx_rule # Absent => /\ Strip(u.fx_rule) \in FieldValues /\ Strip(u.fx_rule) \notin Unset
                                    /\ ~IsBlank(u.fx_rule) => GoLen(Strip(u.fx_rule)) # 0
<1>1. /\ DOMAIN Attribution(u) \subseteq Fields
      /\ DOMAIN Conversation(u) \subseteq Fields
      /\ DOMAIN Invoice(u) \subseteq Fields
  BY ArgumentsAre DEF Fields, TextFields
<1>2. /\ Provider(u) \in Texts /\ Strip(u.provider_event_id) \in Texts
      /\ Strip(u.conversation_id) \in Texts /\ Strip(u.provider_invoice_id) \in Texts
      /\ Strip(u.tariff_version) \in Texts
      /\ u.fx_rule # Absent => Strip(u.fx_rule) \in Texts
  BY UsageTexts, TextFacts
<1>3. u.channel \in FieldValues /\ u.original_amount_minor \in FieldValues
  BY DEF IsUsage, FieldValues
<1>4. u.original_currency # Malformed => Currency(u) \in FieldValues
  BY CurrencyFacts DEF FieldValues
<1>5. /\ \A f \in DOMAIN Attribution(u) : Attribution(u)[f] \in FieldValues
      /\ \A f \in DOMAIN Conversation(u) : Conversation(u)[f] \in FieldValues
      /\ u.original_currency # Malformed =>
            \A f \in DOMAIN Invoice(u) : Invoice(u)[f] \in FieldValues
      /\ u.fx_rule # Absent => Strip(u.fx_rule) \in FieldValues
  <2>1. \A t \in Texts : t \in FieldValues
    BY DEF FieldValues
  <2> QED
    BY <1>2, <1>3, <1>4, <2>1, ArgumentsAre
<1>6. /\ ~IsBlank(Provider(u)) => GoLen(Provider(u)) # 0
      /\ \A t \in {u.provider_event_id, u.conversation_id, u.provider_invoice_id,
                   u.tariff_version} : ~IsBlank(t) => GoLen(Strip(t)) # 0
      /\ u.fx_rule # Absent /\ ~IsBlank(u.fx_rule) => GoLen(Strip(u.fx_rule)) # 0
  BY UsageTexts, TextFacts
<1>7. /\ \A t \in {u.provider_event_id, u.conversation_id, u.provider_invoice_id,
                   u.tariff_version} : Strip(t) # Null
      /\ Provider(u) # Null
      /\ u.fx_rule # Absent => Strip(u.fx_rule) \notin Unset
  BY <1>2, NullAssumption, MissingAssumption DEF Unset
<1>8. /\ u.channel \notin {Null, Empty} /\ u.original_amount_minor # Null
      /\ u.original_currency # Malformed => Currency(u) # Null
  BY CurrencyFacts, NullAssumption, ChannelsAssumption DEF IsUsage
<1> QED
  BY <1>1, <1>5, <1>6, <1>7, <1>8

\* What both of them merge, before Go's encoding, says it.
LEMMA MergedStands ==
    ASSUME NEW u, IsUsage(u), NEW M, M = Merge(u.metadata, Attribution(u)),
           NEW E, E = Merge(M, Invoice(u))
    PROVE  /\ M # Absent /\ Says(M, Attribution(u)) /\ M["provider"] = Provider(u)
           /\ Says(Merge(u.metadata, Conversation(u)), Conversation(u))
           /\ Merge(u.metadata, Conversation(u)) # Absent
           /\ u.original_currency # Malformed =>
                /\ E # Absent
                /\ Says(E, Attribution(u)) /\ Says(E, Invoice(u)) /\ E["provider"] = Provider(u)
                /\ \A x \in {Absent, Strip(u.fx_rule)} :
                    u.fx_rule # Absent \/ x = Absent =>
                        LET G == Merge(E, [fx_rule |-> x])
                        IN  /\ G # Absent
                            /\ Says(G, Attribution(u)) /\ Says(G, Invoice(u))
                            /\ G["provider"] = Provider(u) /\ G["fx_rule"] = x
<1> DEFINE m == u.metadata
           A == Attribution(u)
           C == Conversation(u)
           I == Invoice(u)
<1>1. m = Absent \/ m \in [Fields -> FieldValues]
  BY MetadataIsTyped DEF IsUsage
<1>2. /\ DOMAIN A = {"provider", "provider_event_id"} /\ A["provider"] = Provider(u)
      /\ DOMAIN I = {"provider_invoice_id", "original_amount_minor",
                     "original_currency", "tariff_version"}
      /\ DOMAIN A \subseteq Fields /\ DOMAIN C \subseteq Fields /\ DOMAIN I \subseteq Fields
      /\ DOMAIN A \cap DOMAIN I = {}
  BY ArgumentsAre, ArgumentsAreTyped
<1>3. /\ \A f \in DOMAIN A : A[f] \in FieldValues
      /\ \A f \in DOMAIN C : C[f] \in FieldValues
      /\ u.original_currency # Malformed => \A f \in DOMAIN I : I[f] \in FieldValues
      /\ u.fx_rule # Absent => Strip(u.fx_rule) \in FieldValues
      /\ Absent \in FieldValues
  BY ArgumentsAreTyped DEF FieldValues
<1>4. "fx_rule" \in Fields
  BY DEF Fields, TextFields
<1> HIDE DEF m, A, C, I
<1>5. \A w : Says(w, A) => w["provider"] = Provider(u)
  BY <1>2 DEF Says
<1>6. /\ M \in [Fields -> FieldValues] /\ M # Absent /\ Says(M, A)
      /\ Merge(m, C) # Absent /\ Says(Merge(m, C), C)
  <2>1. M = Merge(m, A)
    BY DEF m, A
  <2> QED
    BY <1>1, <1>2, <1>3, <2>1, MergeIsTyped, MergeSays
<1>7. ASSUME u.original_currency # Malformed
      PROVE  E \in [Fields -> FieldValues] /\ E # Absent /\ Says(E, A) /\ Says(E, I)
  <2>1. E = Merge(M, I)
    BY DEF I
  <2> QED
    BY <1>2, <1>3, <1>6, <1>7, <2>1, MergeIsTyped, MergeSays
<1>8. ASSUME u.original_currency # Malformed,
             NEW x \in {Absent, Strip(u.fx_rule)}, u.fx_rule # Absent \/ x = Absent
      PROVE  LET G == Merge(E, [fx_rule |-> x])
             IN  G # Absent /\ Says(G, A) /\ Says(G, I) /\ G["fx_rule"] = x
  <2> DEFINE F == [fx_rule |-> x]
  <2>1. DOMAIN F = {"fx_rule"} /\ F["fx_rule"] = x
    OBVIOUS
  <2>2. x \in FieldValues
    BY <1>3, <1>8
  <2>3. DOMAIN F \subseteq Fields /\ DOMAIN A \cap DOMAIN F = {} /\ DOMAIN I \cap DOMAIN F = {}
    BY <1>2, <1>4, <2>1
  <2> HIDE DEF F
  <2> DEFINE G == Merge(E, F)
  <2>4. G # Absent
    BY <1>7, <1>8, <2>1, <2>2, MergeIsTyped
  <2>5. Says(G, A) /\ Says(G, I) /\ Says(G, F)
    BY <1>2, <1>7, <1>8, <2>3, MergeSays
  <2>6. G["fx_rule"] = x
    BY <2>1, <2>5 DEF Says
  <2> QED
    BY <2>4, <2>5, <2>6 DEF F
<1> QED
  BY <1>5, <1>6, <1>7, <1>8 DEF m, A, C, I

\* So does Python's request.
LEMMA PyStands ==
    ASSUME NEW u, IsUsage(u), PyBuild(u) # Refused
    PROVE  Stand(u, PyBuild(u).metadata)
<1> DEFINE M == Merge(u.metadata, Attribution(u))
           E == Merge(M, Invoice(u))
           C == Merge(u.metadata, Conversation(u))
           r == PyBuild(u).metadata
<1>1. CASE u.feature = "conversation_24h"
  <2>1. r = C
    BY <1>1 DEF PyBuild, PyUsage, Body, CountFeatures, MinuteFeatures
  <2> QED
    BY <1>1, <2>1, MergedStands DEF Stand, ProviderFeatures, MinuteFeatures
<1>2. CASE u.feature \in MinuteFeatures \cup {"whatsapp_meta_marketing_msg"}
  <2>1. r = M /\ PyAttributed(u)
    BY <1>2 DEF PyBuild, PyUsage, Body, CountFeatures, MinuteFeatures
  <2>2. Says(M, Attribution(u)) /\ ~IsBlank(M["provider"])
    BY <2>1, MergedStands DEF PyAttributed
  <2>3. u.feature \notin {"conversation_24h", "other_provider_charge"}
    BY <1>2 DEF MinuteFeatures
  <2> QED
    BY <2>1, <2>2, <2>3 DEF Stand
<1>3. CASE u.feature = "other_provider_charge"
  <2>1. PyBuild(u) = PyCharge(u)
    BY <1>3 DEF PyBuild, CountFeatures, MinuteFeatures
  <2>2. /\ r = IF u.fx_rule = Absent THEN E ELSE Merge(E, [fx_rule |-> Strip(u.fx_rule)])
        /\ Settled(u) /\ PyAttributed(u)
    <3> DEFINE W == IF u.fx_rule = Absent THEN E ELSE Merge(E, [fx_rule |-> Strip(u.fx_rule)])
    <3>1. /\ PyCharge(u) # Refused => Settled(u) /\ PyAttributed(u)
          /\ PyCharge(u) \in {Body(u, u.amount, W), Refused}
      BY DEF PyCharge
    <3> HIDE DEF W
    <3>2. PyBuild(u) = Body(u, u.amount, W)
      BY <2>1, <3>1
    <3>3. r = W
      BY <3>2 DEF Body
    <3> QED
      BY <2>1, <3>1, <3>3 DEF W
  <2>3. /\ u.original_currency # Malformed
        /\ Currency(u).name # "SAR" => u.fx_rule # Absent
        /\ ~IsBlank(Provider(u))
    BY <2>2 DEF Settled, PyAttributed
  <2> HIDE DEF r
  <2>4. CASE u.fx_rule = Absent
    <3>1. /\ Says(E, Attribution(u)) /\ Says(E, Invoice(u)) /\ E["provider"] = Provider(u)
      BY <2>3, MergedStands
    <3>2. r = E
      BY <2>2, <2>4
    <3> HIDE DEF E
    <3> QED
      BY <1>3, <2>3, <2>4, <3>1, <3>2 DEF Stand, r
  <2>5. CASE u.fx_rule # Absent
    <3> DEFINE G == Merge(E, [fx_rule |-> Strip(u.fx_rule)])
    <3>1. /\ Says(G, Attribution(u)) /\ Says(G, Invoice(u))
          /\ G["provider"] = Provider(u) /\ G["fx_rule"] = Strip(u.fx_rule)
      BY <2>3, <2>5, MergedStands
    <3>2. r = G
      BY <2>2, <2>5
    <3> HIDE DEF G
    <3> QED
      BY <1>3, <2>3, <3>1, <3>2 DEF Stand, r
  <2> QED
    BY <2>4, <2>5
<1>4. CASE u.feature \in CountFeatures \cup {"voice_ai_started_minute"}
  BY <1>4 DEF Stand, CountFeatures, ProviderFeatures, MinuteFeatures
<1>5. u.feature \in Features
  BY DEF IsUsage
<1> QED
  BY <1>1, <1>2, <1>3, <1>4, <1>5 DEF Features, ProviderFeatures

\* And so does Go's.
LEMMA GoStands ==
    ASSUME NEW u, IsUsage(u), GoBuild(u) # Refused
    PROVE  Stand(u, GoBuild(u).metadata)
<1> DEFINE M == Merge(u.metadata, Attribution(u))
           E == Merge(M, Invoice(u))
           C == Merge(u.metadata, Conversation(u))
           r == GoBuild(u).metadata
<1>1. CASE u.feature = "conversation_24h"
  <2>1. r = GoWire(C) /\ ~IsBlank(u.conversation_id)
    BY <1>1 DEF GoBuild, GoUsage, Body, CountFeatures, MinuteFeatures
  <2>2. Says(GoWire(C), Conversation(u))
    <3>1. C # Absent /\ Says(C, Conversation(u))
      BY MergedStands
    <3>2. /\ GoLen(Conversation(u)["conversation_id"]) # 0
          /\ Conversation(u)["conversation_id"] # Null
          /\ Conversation(u)["channel"] \notin {Null, Empty}
      BY <2>1, ArgumentsAre, ArgumentsAreTyped
    <3>3. DOMAIN Conversation(u) = {"conversation_id", "channel"} /\ "channel" \notin TextFields
      BY ArgumentsAre DEF TextFields
    <3>4. DOMAIN Conversation(u) \subseteq Fields
      BY ArgumentsAreTyped
    <3> HIDE DEF C
    <3> QED
      BY <3>1, <3>2, <3>3, <3>4, WireSays
  <2> QED
    BY <1>1, <2>1, <2>2 DEF Stand, ProviderFeatures, MinuteFeatures
<1>2. /\ DOMAIN Attribution(u) = {"provider", "provider_event_id"}
      /\ Attribution(u)["provider"] = Provider(u)
      /\ DOMAIN Attribution(u) \subseteq Fields
      /\ ~IsBlank(Provider(u)) /\ ~IsBlank(u.provider_event_id) =>
            \A f \in DOMAIN Attribution(u) :
                GoLen(Attribution(u)[f]) # 0 /\ Attribution(u)[f] # Null
  BY ArgumentsAre, ArgumentsAreTyped
<1>3. ASSUME NEW w, w # Absent, Says(w, Attribution(u)), GoAttributed(u)
      PROVE  Says(GoWire(w), Attribution(u)) /\ ~IsBlank(GoWire(w)["provider"])
  <2>1. ~IsBlank(Provider(u)) /\ ~IsBlank(u.provider_event_id)
    BY <1>3 DEF GoAttributed
  <2>2. Says(GoWire(w), Attribution(u))
    BY <1>2, <1>3, <2>1, WireSays
  <2> QED
    BY <1>2, <2>1, <2>2 DEF Says
<1>4. CASE u.feature \in MinuteFeatures \cup {"whatsapp_meta_marketing_msg"}
  <2>1. r = GoWire(M) /\ GoAttributed(u)
    BY <1>4 DEF GoBuild, GoUsage, Body, CountFeatures, MinuteFeatures
  <2>2. M # Absent /\ Says(M, Attribution(u))
    BY MergedStands
  <2>3. u.feature \notin {"conversation_24h", "other_provider_charge"}
    BY <1>4 DEF MinuteFeatures
  <2> HIDE DEF M, r
  <2>4. Says(r, Attribution(u)) /\ ~IsBlank(r["provider"])
    BY <1>3, <2>1, <2>2
  <2> QED
    BY <2>3, <2>4 DEF Stand, r
<1>5. CASE u.feature = "other_provider_charge"
  <2> DEFINE x == IF u.fx_rule = Absent \/ IsBlank(u.fx_rule) THEN Absent ELSE Strip(u.fx_rule)
             G == Merge(E, [fx_rule |-> x])
  <2>1. GoBuild(u) = GoCharge(u)
    BY <1>5 DEF GoBuild, CountFeatures, MinuteFeatures
  <2>2. /\ r = GoWire(G) /\ Settled(u) /\ GoAttributed(u)
        /\ ~IsBlank(u.provider_invoice_id) /\ ~IsBlank(u.tariff_version)
        /\ GoInteger(u.original_amount_minor, TRUE)
    <3>1. /\ GoCharge(u) # Refused => /\ Settled(u) /\ GoAttributed(u)
                                      /\ GoInteger(u.original_amount_minor, TRUE)
                                      /\ ~IsBlank(u.provider_invoice_id)
                                      /\ ~IsBlank(u.tariff_version)
          /\ GoCharge(u) \in {Body(u, u.amount, GoWire(G)), Refused}
      BY DEF GoCharge
    <3> HIDE DEF G
    <3>2. GoBuild(u) = Body(u, u.amount, GoWire(G))
      BY <2>1, <3>1
    <3>3. r = GoWire(G)
      BY <3>2 DEF Body
    <3> QED
      BY <2>1, <3>1, <3>3
  <2>3. /\ u.original_currency # Malformed
        /\ Currency(u).name # "SAR" => u.fx_rule # Absent /\ ~IsBlank(u.fx_rule)
    BY <2>2 DEF Settled
  <2>4. x \in {Absent, Strip(u.fx_rule)} /\ (u.fx_rule # Absent \/ x = Absent)
    OBVIOUS
  <2>5. /\ G # Absent /\ Says(G, Attribution(u)) /\ Says(G, Invoice(u)) /\ G["fx_rule"] = x
    BY <2>3, <2>4, MergedStands
  <2>6. Says(GoWire(G), Invoice(u))
    <3>1. /\ DOMAIN Invoice(u) = {"provider_invoice_id", "original_amount_minor",
                                  "original_currency", "tariff_version"}
          /\ DOMAIN Invoice(u) \subseteq Fields
          /\ "original_amount_minor" \notin TextFields
      BY ArgumentsAre, ArgumentsAreTyped DEF TextFields
    <3>2. /\ GoLen(Invoice(u)["provider_invoice_id"]) # 0
          /\ GoLen(Invoice(u)["tariff_version"]) # 0
      BY <2>2, ArgumentsAre, ArgumentsAreTyped
    <3>3. GoLen(Invoice(u)["original_currency"]) # 0
      BY <2>3, ArgumentsAre, CurrencyFacts
    <3>4. Invoice(u)["original_amount_minor"].form # "empty"
      BY <2>2, ArgumentsAre DEF GoInteger, GoDigits
    <3>5. \A f \in DOMAIN Invoice(u) : Invoice(u)[f] # Null
      BY <2>3, ArgumentsAre, ArgumentsAreTyped
    <3> HIDE DEF G
    <3> QED
      BY <2>5, <3>1, <3>2, <3>3, <3>4, <3>5, WireSays
  <2>7. ASSUME Currency(u).name # "SAR"
        PROVE  GoWire(G)["fx_rule"] = Strip(u.fx_rule)
    <3>1. x = Strip(u.fx_rule) /\ GoLen(x) # 0 /\ x \notin Unset
      BY <2>3, <2>7, ArgumentsAreTyped
    <3>2. "fx_rule" \in Fields /\ "fx_rule" \in TextFields
      BY DEF Fields, TextFields
    <3> HIDE DEF G, x
    <3>3. ~Lost(G, "fx_rule")
      BY <2>5, <3>1 DEF Lost
    <3> QED
      BY <2>5, <3>1, <3>2, <3>3 DEF GoWire
  <2> HIDE DEF G, r, x
  <2>8. Says(r, Attribution(u)) /\ ~IsBlank(r["provider"])
    BY <1>3, <2>2, <2>5
  <2> QED
    BY <1>5, <2>2, <2>6, <2>7, <2>8 DEF Stand, r
<1>6. CASE u.feature \in CountFeatures \cup {"voice_ai_started_minute"}
  BY <1>6 DEF Stand, CountFeatures, ProviderFeatures, MinuteFeatures
<1>7. u.feature \in Features
  BY DEF IsUsage
<1> QED
  BY <1>1, <1>4, <1>5, <1>6, <1>7 DEF Features, ProviderFeatures

\* Who charged what, in which conversation, on which invoice and by which rule is what
\* the arguments say, in every request either SDK makes of usage facts.
THEOREM ArgumentsAlwaysStand == Spec => []ArgumentsStand
<1>1. Honest => ArgumentsStand
  <2> SUFFICES ASSUME Honest, NEW s \in SDKs, Sent(s, "usage")
               PROVE  Stand(input.of, answer[s].metadata)
    BY DEF ArgumentsStand, Stand, Says
  <2>1. /\ input.kind = "usage" /\ answer[s] = Result(s) /\ answer[s] # Refused
        /\ IsUsage(input.of)
    BY UsagesAssumption DEF Honest, Sent, Answered
  <2>2. CASE s = "python"
    <3>1. Result(s) = PyBuild(input.of)
      BY <2>1, <2>2 DEF Result
    <3> QED
      BY <2>1, <3>1, PyStands
  <2>3. CASE s = "go"
    <3>1. Result(s) = GoBuild(input.of)
      BY <2>1, <2>3 DEF Result
    <3> QED
      BY <2>1, <3>1, GoStands
  <2> QED
    BY <2>2, <2>3 DEF SDKs
<1> QED
  BY <1>1, AnswersAreHonest, PTL

-----------------------------------------------------------------------------
(* Quantities are exact.                                                   *)

\* The metadata of a scaled feature's request, before Go's encoding.
ScaledMetadata(u) ==
    IF u.feature \in ProviderFeatures THEN Merge(u.metadata, Attribution(u)) ELSE u.metadata

\* All that each SDK asks of the facts but their amount.
PyRest(u) ==
    /\ PyEvent(u) /\ PyValid(ScaledMetadata(u))
    /\ u.feature \in ProviderFeatures => PyAttributed(u)

GoRest(u) ==
    /\ GoEvent(u) /\ GoValid(ScaledMetadata(u))
    /\ u.feature \in ProviderFeatures => GoAttributed(u)

Right(u, a) == Exact(a) /\ (u.feature \notin MinuteFeatures => IsWhole(a))

\* A request of either SDK is not a refusal.
LEMMA RequestsAreMade ==
    ASSUME NEW u, IsUsage(u), NEW a \in Decimals
    PROVE  /\ Body(u, a, ScaledMetadata(u)) # Refused
           /\ Body(u, a, GoWire(ScaledMetadata(u))) # Refused
<1> DEFINE m == ScaledMetadata(u)
<1>1. m = Absent \/ m \in [Fields -> FieldValues]
  <2>1. u.metadata = Absent \/ u.metadata \in [Fields -> FieldValues]
    BY MetadataIsTyped DEF IsUsage
  <2>2. \A f \in DOMAIN Attribution(u) : Attribution(u)[f] \in FieldValues
    BY ArgumentsAreTyped
  <2>3. Merge(u.metadata, Attribution(u)) \in [Fields -> FieldValues]
    BY <2>1, <2>2, MergeIsTyped
  <2> QED
    BY <2>1, <2>3 DEF ScaledMetadata
<1> HIDE DEF m
<1>2. GoWire(m) = Absent \/ GoWire(m) \in [Fields -> FieldValues]
  <2>1. Absent \in FieldValues
    BY DEF FieldValues
  <2> QED
    BY <1>1, <2>1 DEF GoWire
<1>3. u.feature \in Features /\ u.source_event_id \in Texts
  BY DEF IsUsage
<1>4. ASSUME NEW w, w = Absent \/ w \in [Fields -> FieldValues]
      PROVE  Body(u, a, w) # Refused
  <2>1. Body(u, a, w) \in Requests
    BY <1>3, <1>4 DEF Body, Requests
  <2> QED
    BY <2>1, RefusedAssumption
<1> QED
  BY <1>1, <1>2, <1>4 DEF m

\* An SDK makes a request when the digits are its own, the amount is right, and the
\* rest is in order.
LEMMA ScaledBuilds ==
    ASSUME NEW u, IsUsage(u), u.feature \in ScaledFeatures \ {"conversation_24h"},
           u.amount # Absent
    PROVE  /\ PyBuild(u) # Refused <=>
                PyRest(u) /\ PyDigits(u.amount) /\ Right(u, u.amount)
           /\ u.amount.form # "empty" =>
                (GoBuild(u) # Refused <=>
                    GoRest(u) /\ GoDigits(u.amount) /\ Right(u, u.amount))
<1> DEFINE a == u.amount
           m == ScaledMetadata(u)
           minute == u.feature \in MinuteFeatures
<1>1. u.feature \in CountFeatures \/ u.feature = "whatsapp_meta_marketing_msg" \/ minute
  BY DEF ScaledFeatures, Features, ProviderFeatures
<1>2. a \in Decimals
  BY DEF IsUsage
<1>3. PyAmount(u) = a /\ (a.form # "empty" => GoAmount(u) = a)
  BY DEF PyAmount, GoAmount
<1>4. /\ minute => (Quantity(a) <=> Right(u, a))
      /\ ~minute => (Count(a) <=> Right(u, a))
  BY <1>2, CountIsExact, QuantityIsExact DEF Right
<1>5. /\ Body(u, a, m) # Refused
      /\ Body(u, a, GoWire(m)) # Refused
  BY <1>2, RequestsAreMade
<1>6. CASE u.feature \in CountFeatures
  <2>1. ~minute /\ u.feature \notin ProviderFeatures
    BY <1>6 DEF CountFeatures, ProviderFeatures, MinuteFeatures
  <2>2. m = u.metadata
    BY <2>1 DEF ScaledMetadata
  <2>3. PyBuild(u) = PyUsage(u, PyAmount(u), PyWholeCount(PyAmount(u)), u.metadata)
    BY <1>6 DEF PyBuild, CountFeatures, MinuteFeatures
  <2>4. GoBuild(u) = GoUsage(u, GoAmount(u), GoWholeCount(GoAmount(u)), u.metadata)
    BY <1>6 DEF GoBuild, CountFeatures, MinuteFeatures
  <2> HIDE DEF m, a, minute
  <2>5. PyBuild(u) # Refused <=> PyEvent(u) /\ PyWholeCount(a) /\ PyValid(m)
    BY <1>3, <1>5, <2>2, <2>3 DEF PyUsage
  <2>6. a.form # "empty" =>
            (GoBuild(u) # Refused <=> GoEvent(u) /\ GoWholeCount(a) /\ GoValid(m))
    BY <1>3, <1>5, <2>2, <2>4 DEF GoUsage
  <2> QED
    BY <1>4, <2>1, <2>5, <2>6 DEF PyRest, GoRest, PyWholeCount, GoWholeCount, m, a
<1>7. CASE u.feature = "whatsapp_meta_marketing_msg"
  <2>1. ~minute /\ u.feature \in ProviderFeatures
    BY <1>7 DEF ProviderFeatures, MinuteFeatures
  <2>2. m = Merge(u.metadata, Attribution(u))
    BY <2>1 DEF ScaledMetadata
  <2>3. PyBuild(u) = PyUsage(u, PyAmount(u), PyAttributed(u) /\ PyWholeCount(PyAmount(u)),
                             Merge(u.metadata, Attribution(u)))
    BY <1>7 DEF PyBuild, CountFeatures, MinuteFeatures
  <2>4. GoBuild(u) = GoUsage(u, GoAmount(u), GoAttributed(u) /\ GoWholeCount(GoAmount(u)),
                             Merge(u.metadata, Attribution(u)))
    BY <1>7 DEF GoBuild, CountFeatures, MinuteFeatures
  <2> HIDE DEF m, a, minute
  <2>5. PyBuild(u) # Refused <=>
            PyEvent(u) /\ PyAttributed(u) /\ PyWholeCount(a) /\ PyValid(m)
    BY <1>3, <1>5, <2>2, <2>3 DEF PyUsage
  <2>6. a.form # "empty" =>
            (GoBuild(u) # Refused <=>
                GoEvent(u) /\ GoAttributed(u) /\ GoWholeCount(a) /\ GoValid(m))
    BY <1>3, <1>5, <2>2, <2>4 DEF GoUsage
  <2> QED
    BY <1>4, <2>1, <2>5, <2>6 DEF PyRest, GoRest, PyWholeCount, GoWholeCount, m, a
<1>8. CASE minute
  <2>1. u.feature \in ProviderFeatures
    BY <1>8 DEF ProviderFeatures
  <2>2. m = Merge(u.metadata, Attribution(u))
    BY <2>1 DEF ScaledMetadata
  <2>3. PyBuild(u) = PyUsage(u, PyAmount(u), PyAttributed(u) /\ PyQuantity(PyAmount(u)),
                             Merge(u.metadata, Attribution(u)))
    BY <1>8 DEF PyBuild, CountFeatures, MinuteFeatures
  <2>4. GoBuild(u) = GoUsage(u, GoAmount(u), GoAttributed(u) /\ GoQuantity(GoAmount(u)),
                             Merge(u.metadata, Attribution(u)))
    BY <1>8 DEF GoBuild, CountFeatures, MinuteFeatures
  <2> HIDE DEF m, a
  <2>5. PyBuild(u) # Refused <=>
            PyEvent(u) /\ PyAttributed(u) /\ PyQuantity(a) /\ PyValid(m)
    BY <1>3, <1>5, <2>2, <2>3 DEF PyUsage
  <2>6. a.form # "empty" =>
            (GoBuild(u) # Refused <=>
                GoEvent(u) /\ GoAttributed(u) /\ GoQuantity(a) /\ GoValid(m))
    BY <1>3, <1>5, <2>2, <2>4 DEF GoUsage
  <2> QED
    BY <1>4, <1>8, <2>1, <2>5, <2>6 DEF PyRest, GoRest, PyQuantity, GoQuantity, m, a
<1> QED
  BY <1>1, <1>6, <1>7, <1>8

\* The rest does not depend on the amount.
LEMMA RestIsTheSame ==
    ASSUME NEW u, IsUsage(u), NEW v, v = [u EXCEPT !.amount = One]
    PROVE  /\ IsUsage(v) /\ v.feature = u.feature /\ v.amount = One
           /\ PyRest(v) <=> PyRest(u)
           /\ GoRest(v) <=> GoRest(u)
<1>1. /\ DOMAIN v = Facts /\ v.amount = One
      /\ \A x \in Facts \ {"amount"} : v[x] = u[x]
  BY DEF IsUsage, Facts
<1>2. /\ v.feature = u.feature /\ v.occurred_at = u.occurred_at /\ v.metadata = u.metadata
      /\ v.source_event_id = u.source_event_id /\ v.provider = u.provider
      /\ v.provider_event_id = u.provider_event_id /\ v.conversation_id = u.conversation_id
      /\ v.provider_invoice_id = u.provider_invoice_id /\ v.tariff_version = u.tariff_version
      /\ v.fx_rule = u.fx_rule /\ v.channel = u.channel
      /\ v.original_amount_minor = u.original_amount_minor
      /\ v.original_currency = u.original_currency
  BY <1>1 DEF Facts
<1>3. IsUsage(v)
  BY <1>1, <1>2, OneIsExact DEF IsUsage
<1>4. Provider(v) = Provider(u) /\ Attribution(v) = Attribution(u)
  BY <1>2 DEF Provider, Attribution
<1>5. ScaledMetadata(v) = ScaledMetadata(u)
  BY <1>2, <1>4 DEF ScaledMetadata
<1>6. PyRest(v) <=> PyRest(u)
  BY <1>2, <1>4, <1>5 DEF PyRest, PyEvent, PyAttributed
<1>7. GoRest(v) <=> GoRest(u)
  BY <1>2, <1>4, <1>5 DEF GoRest, GoEvent, GoAttributed
<1> QED
  BY <1>1, <1>2, <1>3, <1>6, <1>7

\* A quantity is sent just when its value in milliunits is a whole number from 1 to the
\* largest 64-bit integer and the rest of the facts is in order: no digits are lost,
\* none are misplaced, and no limit is off by one.
THEOREM QuantitiesAreExact == Spec => []ExactQuantity
<1>1. Honest => ExactQuantity
  <2> SUFFICES ASSUME Honest, NEW s \in SDKs, Answered(s, "usage"),
                      input.of.feature \in ScaledFeatures \ {"conversation_24h"},
                      input.of.amount # Absent
               PROVE  LET u == input.of
                          a == u.amount
                      IN  /\ answer[s] # Refused /\ a.form # "empty" => Right(u, a)
                          /\ a.form = "ascii" /\ Right(u, a) =>
                                (answer[s] = Refused <=>
                                    Build(s, [u EXCEPT !.amount = One]) = Refused)
    BY DEF ExactQuantity, Right
  <2> DEFINE u == input.of
             a == u.amount
             v == [u EXCEPT !.amount = One]
  <2>1. input.kind = "usage" /\ answer[s] = Result(s) /\ IsUsage(u)
    BY UsagesAssumption DEF Honest, Answered
  <2>2. answer[s] = Build(s, u)
    BY <2>1 DEF Result, Build, SDKs
  <2> HIDE DEF u, v
  <2>3. /\ IsUsage(v) /\ v.feature = u.feature /\ v.amount = One
        /\ PyRest(v) <=> PyRest(u)
        /\ GoRest(v) <=> GoRest(u)
    BY <2>1, RestIsTheSame DEF v
  <2>4. One # Absent /\ One.form = "ascii" /\ Right(v, One)
    BY OneIsExact, MissingAssumption DEF Right
  <2>5. u.feature \in ScaledFeatures \ {"conversation_24h"} /\ a # Absent
    BY DEF u
  <2>6. CASE s = "python"
    <3>1. PyBuild(u) # Refused <=> PyRest(u) /\ PyDigits(a) /\ Right(u, a)
      BY <2>1, <2>5, ScaledBuilds
    <3>2. PyBuild(v) # Refused <=> PyRest(v) /\ PyDigits(One) /\ Right(v, One)
      BY <2>3, <2>4, <2>5, ScaledBuilds
    <3>3. Build(s, u) = PyBuild(u) /\ Build(s, v) = PyBuild(v)
      BY <2>6 DEF Build
    <3>4. a.form = "ascii" => PyDigits(a)
      BY DEF PyDigits
    <3>5. PyDigits(One)
      BY <2>4 DEF PyDigits
    <3> QED
      BY <2>2, <2>3, <2>4, <3>1, <3>2, <3>3, <3>4, <3>5 DEF u, v
  <2>7. CASE s = "go"
    <3>1. a.form # "empty" => (GoBuild(u) # Refused <=> GoRest(u) /\ GoDigits(a) /\ Right(u, a))
      BY <2>1, <2>5, ScaledBuilds
    <3>2. GoBuild(v) # Refused <=> GoRest(v) /\ GoDigits(One) /\ Right(v, One)
      BY <2>3, <2>4, <2>5, ScaledBuilds
    <3>3. Build(s, u) = GoBuild(u) /\ Build(s, v) = GoBuild(v)
      BY <2>7 DEF Build
    <3>4. (a.form = "ascii" <=> GoDigits(a)) /\ GoDigits(One)
      BY <2>4 DEF GoDigits
    <3> QED
      BY <2>2, <2>3, <2>4, <3>1, <3>2, <3>3, <3>4 DEF u, v
  <2> QED
    BY <2>6, <2>7 DEF SDKs
<1> QED
  BY <1>1, AnswersAreHonest, PTL
=============================================================================
