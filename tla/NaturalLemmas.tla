----------------------------- MODULE NaturalLemmas -----------------------------
(* Facts about natural numbers, and about calls that return the first error *)
(* they meet, that several proofs cite.                                     *)
EXTENDS Integers, Checks, TLAPS, WellFoundedInduction

\* A nonempty set of naturals has a least element.
LEMMA LeastNatural ==
  ASSUME NEW T, T \subseteq Nat, T # {}
  PROVE  \E x \in T : \A y \in T : x <= y
<1> DEFINE R == {ss \in Nat \X Nat : ss[1] < ss[2]}
<1>1. IsWellFoundedOn(R, Nat)
  BY NatLessThanWellFounded, Zenon DEF OpToRel
<1>2. PICK x \in T : \A y \in T : <<y, x>> \notin R
  <2> HIDE DEF R
  <2> QED  BY <1>1, WFMin, Zenon
<1>3. \A y \in T : ~ (y < x)
  BY <1>2
<1> QED  BY <1>3

\* A bounded nonempty set of naturals has a greatest element.
LEMMA GreatestNatural ==
  ASSUME NEW T, NEW n \in Nat, T \subseteq 0 .. n, T # {}
  PROVE  \E x \in T : \A y \in T : y <= x
<1> DEFINE U == {n - y : y \in T}
<1>1. U \subseteq Nat /\ U # {}
  <2>1. \A y \in T : n - y \in Nat
    OBVIOUS
  <2>2. PICK y \in T : TRUE
    OBVIOUS
  <2>3. n - y \in U
    BY <2>2
  <2> QED  BY <2>1, <2>3
<1>2. PICK u \in U : \A v \in U : u <= v
  <2> HIDE DEF U
  <2> QED  BY <1>1, LeastNatural
<1>3. PICK x \in T : u = n - x
  BY <1>2
<1>4. \A y \in T : n - x <= n - y
  BY <1>2, <1>3
<1>5. \A y \in T : y <= x
  <2> TAKE y \in T
  <2>1. y \in 0 .. n /\ x \in 0 .. n
    OBVIOUS
  <2>2. n - x <= n - y
    BY <1>4
  <2> QED  BY <2>1, <2>2
<1> QED  BY <1>5

\* Division with remainder by a positive number.
LEMMA DivisionHolds ==
  ASSUME NEW p \in Nat \ {0}, NEW v \in Nat
  PROVE  /\ v \div p \in Nat /\ v % p \in 0 .. p - 1
         /\ v = (v \div p) * p + (v % p)
         /\ (v \div p) * p \in Nat
<1>1. v \div p \in Nat /\ v % p \in 0 .. p - 1 /\ v = p * (v \div p) + (v % p)
  OBVIOUS
<1>2. p * (v \div p) = (v \div p) * p /\ (v \div p) * p \in Nat
  BY <1>1
<1> QED  BY <1>1, <1>2

\* Rounding up leads to the next multiple.
LEMMA RoundedUp ==
  ASSUME NEW p \in Nat \ {0}, NEW v \in Nat
  PROVE  LET up == ((v + p - 1) \div p) * p
         IN  up \in Nat /\ v <= up /\ up <= v + p - 1 /\ up % p = 0
<1> DEFINE q == (v + p - 1) \div p
           r == (v + p - 1) % p
<1>1. /\ q \in Nat /\ r \in 0 .. p - 1 /\ q * p \in Nat
      /\ v + p - 1 = q * p + r
  BY DivisionHolds, v + p - 1 \in Nat
<1> HIDE DEF r
<1>2. v <= q * p /\ q * p <= v + p - 1
  BY <1>1
<1>3. (q * p) % p = 0
  <2> HIDE DEF q
  <2> QED  BY <1>1
<1> QED  BY <1>1, <1>2, <1>3

\* Rounding down leads to the multiple below.
LEMMA RoundedDown ==
  ASSUME NEW p \in Nat \ {0}, NEW v \in Nat
  PROVE  LET down == (v \div p) * p
         IN  down \in Nat /\ down <= v /\ down % p = 0
<1> DEFINE q == v \div p
           r == v % p
<1>1. q \in Nat /\ r \in 0 .. p - 1 /\ q * p \in Nat /\ v = q * p + r
  BY DivisionHolds
<1> HIDE DEF q, r
<1>2. q * p <= v /\ (q * p) % p = 0
  BY <1>1
<1> QED  BY <1>1, <1>2 DEF q

\* Multiples are closed under sums and differences.
LEMMA MultiplesAdd ==
  ASSUME NEW p \in Nat \ {0}, NEW m \in Nat, NEW n \in Nat, m % p = 0, n % p = 0
  PROVE  /\ (m + n) % p = 0
         /\ m <= n => (n - m) % p = 0
<1> DEFINE a == m \div p
           b == n \div p
<1>1. a \in Nat /\ m = a * p
  BY DivisionHolds
<1>2. b \in Nat /\ n = b * p
  BY DivisionHolds
<1> HIDE DEF a, b
<1>3. m + n = (a + b) * p /\ n - m = (b - a) * p
  BY <1>1, <1>2
<1>4. ((a + b) * p) % p = 0 /\ ((b - a) * p) % p = 0
  BY <1>1, <1>2
<1> QED  BY <1>3, <1>4

\* Multiples divide exactly, in their order.
LEMMA MultiplesDivide ==
  ASSUME NEW p \in Nat \ {0}, NEW a \in Nat
  PROVE  (a * p) \div p = a /\ (a * p) % p = 0
OBVIOUS

-----------------------------------------------------------------------------
(* Checks in a row *)

\* A call that went through a row of refusals met none of them.
LEMMA NothingRefused ==
  ASSUME NEW rules, DOMAIN rules \subseteq Nat,
         \A i \in DOMAIN rules : rules[i][1] => rules[i][2] # "Ok",
         FirstRefusal(rules) = "Ok"
  PROVE  \A i \in DOMAIN rules : ~ rules[i][1]
<1> DEFINE holding == {i \in DOMAIN rules : rules[i][1]}
           first == CHOOSE i \in holding : \A j \in holding : i <= j
<1>1. SUFFICES ASSUME holding # {}
               PROVE  FALSE
  OBVIOUS
<1>2. \E i \in holding : \A j \in holding : i <= j
  <2>1. holding \subseteq Nat
    OBVIOUS
  <2> HIDE DEF holding
  <2> QED  BY <1>1, <2>1, LeastNatural
<1>3. first \in holding
  BY <1>2
<1>4. FirstRefusal(rules) = rules[first][2]
  BY <1>1 DEF FirstRefusal
<1> QED  BY <1>3, <1>4

\* A row of refusals returns "Ok" or what one of them returns.
LEMMA RefusesAsOneOf ==
  ASSUME NEW rules, DOMAIN rules \subseteq Nat
  PROVE  FirstRefusal(rules) = "Ok" \/ \E i \in DOMAIN rules : FirstRefusal(rules) = rules[i][2]
<1> DEFINE holding == {i \in DOMAIN rules : rules[i][1]}
           first == CHOOSE i \in holding : \A j \in holding : i <= j
<1>1. CASE holding = {}
  BY <1>1 DEF FirstRefusal
<1>2. CASE holding # {}
  <2>1. \E i \in holding : \A j \in holding : i <= j
    <3>1. holding \subseteq Nat
      OBVIOUS
    <3> HIDE DEF holding
    <3> QED  BY <1>2, <3>1, LeastNatural
  <2>2. first \in holding
    BY <2>1
  <2>3. FirstRefusal(rules) = rules[first][2]
    BY <1>2 DEF FirstRefusal
  <2> QED  BY <2>2, <2>3
<1> QED  BY <1>1, <1>2

\* A loop that went through has met no error.
LEMMA NothingFailed ==
  ASSUME NEW checks, DOMAIN checks \subseteq Nat, FirstError(checks) = "Ok"
  PROVE  \A i \in DOMAIN checks : checks[i] = "Ok"
<1> DEFINE failing == {i \in DOMAIN checks : checks[i] # "Ok"}
           first == CHOOSE i \in failing : \A j \in failing : i <= j
<1>1. SUFFICES ASSUME failing # {}
               PROVE  FALSE
  OBVIOUS
<1>2. \E i \in failing : \A j \in failing : i <= j
  <2>1. failing \subseteq Nat
    OBVIOUS
  <2> HIDE DEF failing
  <2> QED  BY <1>1, <2>1, LeastNatural
<1>3. first \in failing
  BY <1>2
<1>4. FirstError(checks) = checks[first]
  BY <1>1 DEF FirstError
<1> QED  BY <1>3, <1>4

\* A loop returns "Ok" or what one of its turns returned.
LEMMA FailsAsOneOf ==
  ASSUME NEW checks, DOMAIN checks \subseteq Nat
  PROVE  FirstError(checks) = "Ok" \/ \E i \in DOMAIN checks : FirstError(checks) = checks[i]
<1> DEFINE failing == {i \in DOMAIN checks : checks[i] # "Ok"}
           first == CHOOSE i \in failing : \A j \in failing : i <= j
<1>1. CASE failing = {}
  BY <1>1 DEF FirstError
<1>2. CASE failing # {}
  <2>1. \E i \in failing : \A j \in failing : i <= j
    <3>1. failing \subseteq Nat
      OBVIOUS
    <3> HIDE DEF failing
    <3> QED  BY <1>2, <3>1, LeastNatural
  <2>2. first \in failing
    BY <2>1
  <2>3. FirstError(checks) = checks[first]
    BY <1>2 DEF FirstError
  <2> QED  BY <2>2, <2>3
<1> QED  BY <1>1, <1>2

=============================================================================
