----------------------- MODULE SubscriberLedgerProofs -----------------------
(***************************************************************************)
(* What holds of SubscriberLedger for any amounts, totals and number of     *)
(* invoices, and any number of payments, reversals, refunds and payouts.    *)
(* The tables hold rows of their kinds, no credit pays out more than it is  *)
(* of and no invoice is settled beyond its total, and what a reversal       *)
(* withdrew is all accounted for; and every step is one of                  *)
(* SubscriberAccount or leaves its account as it is.                        *)
(*                                                                          *)
(* First what sums and dealing an amount to parts come to, by induction on  *)
(* their length; then what each operator from books to books writes (Is...) *)
(* and keeps (...Keeps); then one lemma for each action.  IInv is that the  *)
(* books are Kept - rows name rows that exist, a credit has one entry per   *)
(* taker, none negative and together no more than it is of - and Fitting:   *)
(* the parts of every reversal come to its amount.                          *)
(*                                                                          *)
(* A withdrawal breaks both on its way: it takes of its own credits what    *)
(* covers still hold of them, and a cover returned leaves its reversal      *)
(* short.  So Sound has, for each credit, how much of it is still to lift,  *)
(* and AllFit how much one reversal is short of.                            *)
(*                                                                          *)
(* For the account, what an operation Shifts of the sums SubscriberAccount  *)
(* tells apart is followed operator by operator beside what it keeps; the   *)
(* ...Accounts lemmas name the step it is.  RefundsFit, that a refund which *)
(* has not failed is of what it holds and its cases, lets a failed one give *)
(* back all it took.                                                        *)
(***************************************************************************)
EXTENDS SubscriberLedger, WellFoundedInduction, TLAPS

-----------------------------------------------------------------------------
(* Induction, over a set of numbers                                        *)

LEMMA Lowest ==
    ASSUME NEW T, T \subseteq Nat, T # {}
    PROVE  \E n \in T : \A m \in T : n <= m
<1>1. IsWellFoundedOn(OpToRel(<, Nat), Nat)
  BY NatLessThanWellFounded
<1>2. PICK n \in T : \A m \in T : <<m, n>> \notin OpToRel(<, Nat)
  BY <1>1, WFMin
<1>3. \A m \in T : n \in Nat /\ m \in Nat /\ ~(m < n)
  BY <1>2 DEF OpToRel
<1>4. \A m \in T : n <= m
  BY <1>3
<1> QED BY <1>4

LEMMA Inductive ==
    ASSUME NEW T, 0 \in T, \A n \in Nat : n \in T => n + 1 \in T
    PROVE  \A n \in Nat : n \in T
<1>1. SUFFICES ASSUME Nat \ T # {} PROVE FALSE
  OBVIOUS
<1>2. PICK n \in Nat \ T : \A m \in Nat \ T : n <= m
  BY <1>1, Lowest
<1>3. n - 1 \in Nat /\ n - 1 \in T
  BY <1>2
<1> QED BY <1>2, <1>3

-----------------------------------------------------------------------------
(* Sums of amounts                                                         *)

Sums(s, n, f) == f = [i \in 0 .. n |-> IF i = 0 THEN 0 ELSE f[i - 1] + s[i]]

LEMMA SumsExist ==
    ASSUME NEW s
    PROVE  \A n \in Nat : \E f : Sums(s, n, f)
<1> DEFINE T == {n \in Nat : \E f : Sums(s, n, f)}
<1>1. Sums(s, 0, [i \in 0 .. 0 |-> 0])
  BY DEF Sums
<1>2. ASSUME NEW n \in Nat, n \in T
      PROVE  n + 1 \in T
  <2>1. PICK f : Sums(s, n, f)
    BY <1>2
  <2>2. Sums(s, n + 1, [i \in 0 .. n + 1 |-> IF i = n + 1 THEN f[n] + s[n + 1] ELSE f[i]])
    BY <2>1 DEF Sums
  <2> QED BY <2>2
<1>3. \A n \in Nat : n \in T
  BY <1>1, <1>2, Inductive
<1> QED BY <1>3

LEMMA FirstOfIs ==
    ASSUME NEW s, NEW n \in Nat
    PROVE  \E f : Sums(s, n, f) /\ FirstOf(s, n) = f[n]
<1> DEFINE f == CHOOSE f : f = [i \in 0 .. n |-> IF i = 0 THEN 0 ELSE f[i - 1] + s[i]]
<1>1. Sums(s, n, f)
  BY SumsExist DEF Sums
<1>2. FirstOf(s, n) = f[n]
  BY DEF FirstOf
<1> QED BY <1>1, <1>2

\* However far it is summed, a sum is the same on the way.
LEMMA SumsAgree ==
    ASSUME NEW s, NEW n \in Nat, NEW m \in Nat, n <= m, NEW f, NEW g,
           Sums(s, n, f), Sums(s, m, g)
    PROVE  f[n] = g[n]
<1> DEFINE T == {k \in Nat : k <= n => f[k] = g[k]}
<1>1. 0 \in T
  BY DEF Sums
<1>2. ASSUME NEW k \in Nat, k \in T
      PROVE  k + 1 \in T
  <2>1. SUFFICES ASSUME k + 1 <= n PROVE f[k + 1] = g[k + 1]
    OBVIOUS
  <2>2. f[k + 1] = f[k] + s[k + 1] /\ g[k + 1] = g[k] + s[k + 1]
    BY <2>1 DEF Sums
  <2> QED BY <1>2, <2>1, <2>2
<1>3. \A k \in Nat : k \in T
  BY <1>1, <1>2, Inductive
<1> QED BY <1>3

LEMMA FirstOfStep ==
    ASSUME NEW s
    PROVE  /\ FirstOf(s, 0) = 0
           /\ \A n \in Nat : FirstOf(s, n + 1) = FirstOf(s, n) + s[n + 1]
<1>1. FirstOf(s, 0) = 0
  BY FirstOfIs DEF Sums
<1>2. ASSUME NEW n \in Nat
      PROVE  FirstOf(s, n + 1) = FirstOf(s, n) + s[n + 1]
  <2>1. PICK f : Sums(s, n, f) /\ FirstOf(s, n) = f[n]
    BY FirstOfIs
  <2>2. PICK g : Sums(s, n + 1, g) /\ FirstOf(s, n + 1) = g[n + 1]
    BY FirstOfIs
  <2>3. f[n] = g[n]
    BY <2>1, <2>2, SumsAgree
  <2>4. g[n + 1] = g[n] + s[n + 1]
    BY <2>2 DEF Sums
  <2> QED BY <2>1, <2>2, <2>3, <2>4
<1> QED BY <1>1, <1>2

LEMMA FirstOfInt ==
    ASSUME NEW n \in Nat, NEW s \in [1 .. n -> Int]
    PROVE  \A k \in 0 .. n : FirstOf(s, k) \in Int
<1> DEFINE T == {k \in Nat : k <= n => FirstOf(s, k) \in Int}
<1>1. 0 \in T
  BY FirstOfStep
<1>2. ASSUME NEW k \in Nat, k \in T
      PROVE  k + 1 \in T
  <2>1. SUFFICES ASSUME k + 1 <= n PROVE FirstOf(s, k + 1) \in Int
    OBVIOUS
  <2>2. FirstOf(s, k + 1) = FirstOf(s, k) + s[k + 1]
    BY FirstOfStep
  <2>3. FirstOf(s, k) \in Int /\ s[k + 1] \in Int
    BY <1>2, <2>1
  <2> QED BY <2>2, <2>3
<1>3. \A k \in Nat : k \in T
  BY <1>1, <1>2, Inductive
<1> QED BY <1>3

\* Part by part: what the sum of the parts is, and which of two sums is less.
LEMMA FirstOfAdds ==
    ASSUME NEW n \in Nat, NEW s \in [1 .. n -> Int], NEW t \in [1 .. n -> Int],
           NEW u \in [1 .. n -> Int], \A i \in 1 .. n : u[i] = s[i] + t[i]
    PROVE  \A k \in 0 .. n : FirstOf(u, k) = FirstOf(s, k) + FirstOf(t, k)
<1> DEFINE T == {k \in Nat : k <= n => FirstOf(u, k) = FirstOf(s, k) + FirstOf(t, k)}
<1>1. 0 \in T
  BY FirstOfStep
<1>2. ASSUME NEW k \in Nat, k \in T
      PROVE  k + 1 \in T
  <2>1. SUFFICES ASSUME k + 1 <= n
                 PROVE  FirstOf(u, k + 1) = FirstOf(s, k + 1) + FirstOf(t, k + 1)
    OBVIOUS
  <2>2. /\ FirstOf(u, k + 1) = FirstOf(u, k) + u[k + 1]
        /\ FirstOf(s, k + 1) = FirstOf(s, k) + s[k + 1]
        /\ FirstOf(t, k + 1) = FirstOf(t, k) + t[k + 1]
    BY FirstOfStep
  <2>3. FirstOf(u, k) = FirstOf(s, k) + FirstOf(t, k) /\ u[k + 1] = s[k + 1] + t[k + 1]
    BY <1>2, <2>1
  <2>4. k \in 0 .. n /\ k + 1 \in 1 .. n
    BY <2>1
  <2>5. /\ FirstOf(s, k) \in Int /\ FirstOf(t, k) \in Int
        /\ s[k + 1] \in Int /\ t[k + 1] \in Int
    BY <2>4, FirstOfInt
  <2> QED BY <2>2, <2>3, <2>5
<1>3. \A k \in Nat : k \in T
  BY <1>1, <1>2, Inductive
<1> QED BY <1>3

LEMMA FirstOfOrdered ==
    ASSUME NEW n \in Nat, NEW s \in [1 .. n -> Int], NEW t \in [1 .. n -> Int],
           \A i \in 1 .. n : s[i] <= t[i]
    PROVE  \A k \in 0 .. n : FirstOf(s, k) <= FirstOf(t, k)
<1> DEFINE T == {k \in Nat : k <= n => FirstOf(s, k) <= FirstOf(t, k)}
<1>1. 0 \in T
  BY FirstOfStep
<1>2. ASSUME NEW k \in Nat, k \in T
      PROVE  k + 1 \in T
  <2>1. SUFFICES ASSUME k + 1 <= n
                 PROVE  FirstOf(s, k + 1) <= FirstOf(t, k + 1)
    OBVIOUS
  <2>2. /\ FirstOf(s, k + 1) = FirstOf(s, k) + s[k + 1]
        /\ FirstOf(t, k + 1) = FirstOf(t, k) + t[k + 1]
    BY FirstOfStep
  <2>3. FirstOf(s, k) <= FirstOf(t, k) /\ s[k + 1] <= t[k + 1]
    BY <1>2, <2>1
  <2>4. k \in 0 .. n /\ k + 1 \in 1 .. n
    BY <2>1
  <2>5. /\ FirstOf(s, k) \in Int /\ FirstOf(t, k) \in Int
        /\ s[k + 1] \in Int /\ t[k + 1] \in Int
    BY <2>4, FirstOfInt
  <2> QED BY <2>2, <2>3, <2>5
<1>3. \A k \in Nat : k \in T
  BY <1>1, <1>2, Inductive
<1> QED BY <1>3

LEMMA FirstOfNothing ==
    ASSUME NEW n \in Nat, NEW s \in [1 .. n -> Int], \A i \in 1 .. n : s[i] = 0
    PROVE  \A k \in 0 .. n : FirstOf(s, k) = 0
<1> DEFINE T == {k \in Nat : k <= n => FirstOf(s, k) = 0}
<1>1. 0 \in T
  BY FirstOfStep
<1>2. ASSUME NEW k \in Nat, k \in T
      PROVE  k + 1 \in T
  <2>1. SUFFICES ASSUME k + 1 <= n PROVE FirstOf(s, k + 1) = 0
    OBVIOUS
  <2>2. FirstOf(s, k + 1) = FirstOf(s, k) + s[k + 1]
    BY FirstOfStep
  <2>3. FirstOf(s, k) = 0 /\ s[k + 1] = 0
    BY <1>2, <2>1
  <2> QED BY <2>2, <2>3
<1>3. \A k \in Nat : k \in T
  BY <1>1, <1>2, Inductive
<1> QED BY <1>3

LEMMA FirstOfPrefix ==
    ASSUME NEW n \in Nat, NEW s, NEW t, \A i \in 1 .. n : s[i] = t[i]
    PROVE  FirstOf(s, n) = FirstOf(t, n)
<1> DEFINE T == {k \in Nat : k <= n => FirstOf(s, k) = FirstOf(t, k)}
<1>1. 0 \in T
  BY FirstOfStep
<1>2. ASSUME NEW k \in Nat, k \in T
      PROVE  k + 1 \in T
  BY <1>2, FirstOfStep
<1>3. \A k \in Nat : k \in T
  BY <1>1, <1>2, Inductive
<1> QED BY <1>3

LEMMA FirstOfOne ==
    ASSUME NEW n \in Nat, NEW j \in 1 .. n, NEW d \in Int,
           NEW s \in [1 .. n -> Int], \A i \in 1 .. n : s[i] = IF i = j THEN d ELSE 0
    PROVE  \A k \in 0 .. n : FirstOf(s, k) = IF j <= k THEN d ELSE 0
<1> DEFINE T == {k \in Nat : k <= n => FirstOf(s, k) = IF j <= k THEN d ELSE 0}
<1>1. 0 \in T
  BY FirstOfStep
<1>2. ASSUME NEW k \in Nat, k \in T
      PROVE  k + 1 \in T
  <2>1. SUFFICES ASSUME k + 1 <= n
                 PROVE  FirstOf(s, k + 1) = IF j <= k + 1 THEN d ELSE 0
    OBVIOUS
  <2>2. /\ FirstOf(s, k + 1) = FirstOf(s, k) + s[k + 1]
        /\ s[k + 1] = IF k + 1 = j THEN d ELSE 0
        /\ FirstOf(s, k) = IF j <= k THEN d ELSE 0
    <3>1. FirstOf(s, k + 1) = FirstOf(s, k) + s[k + 1]
      BY FirstOfStep
    <3>2. k + 1 \in 1 .. n
      BY <2>1
    <3> QED BY <1>2, <2>1, <3>1, <3>2
  <2>3. CASE j <= k
    BY <2>2, <2>3
  <2>4. CASE j = k + 1
    BY <2>2, <2>4
  <2>5. CASE k + 1 < j
    BY <2>2, <2>5
  <2> QED BY <2>3, <2>4, <2>5
<1>3. \A k \in Nat : k \in T
  BY <1>1, <1>2, Inductive
<1> QED BY <1>3

\* The same of whole sums.
LEMMA SumOfInt ==
    ASSUME NEW n \in Nat, NEW s \in [1 .. n -> Int]
    PROVE  SumOf(s) \in Int /\ SumOf(s) = FirstOf(s, n)
<1>1. Len(s) = n
  OBVIOUS
<1> QED BY <1>1, FirstOfInt DEF SumOf

LEMMA SumOfAdds ==
    ASSUME NEW n \in Nat, NEW s \in [1 .. n -> Int], NEW t \in [1 .. n -> Int],
           NEW u \in [1 .. n -> Int], \A i \in 1 .. n : u[i] = s[i] + t[i]
    PROVE  SumOf(u) = SumOf(s) + SumOf(t)
<1>1. \A k \in 0 .. n : FirstOf(u, k) = FirstOf(s, k) + FirstOf(t, k)
  BY FirstOfAdds
<1>2. FirstOf(u, n) = FirstOf(s, n) + FirstOf(t, n)
  BY <1>1
<1> QED BY <1>2, SumOfInt

LEMMA SumOfOrdered ==
    ASSUME NEW n \in Nat, NEW s \in [1 .. n -> Int], NEW t \in [1 .. n -> Int],
           \A i \in 1 .. n : s[i] <= t[i]
    PROVE  SumOf(s) <= SumOf(t)
<1>1. FirstOf(s, n) <= FirstOf(t, n)
  BY FirstOfOrdered
<1> QED BY <1>1, SumOfInt

LEMMA SumOfNothing ==
    ASSUME NEW n \in Nat, NEW s \in [1 .. n -> Int], \A i \in 1 .. n : s[i] = 0
    PROVE  SumOf(s) = 0
<1>1. FirstOf(s, n) = 0
  BY FirstOfNothing
<1> QED BY <1>1, SumOfInt

LEMMA SumOfChanged ==
    ASSUME NEW n \in Nat, NEW s \in [1 .. n -> Int], NEW j \in 1 .. n, NEW d \in Int,
           NEW t \in [1 .. n -> Int], \A i \in 1 .. n : t[i] = IF i = j THEN s[i] + d ELSE s[i]
    PROVE  SumOf(t) = SumOf(s) + d
<1> DEFINE one == [i \in 1 .. n |-> IF i = j THEN d ELSE 0]
<1>1. one \in [1 .. n -> Int] /\ \A i \in 1 .. n : one[i] = IF i = j THEN d ELSE 0
  OBVIOUS
<1> HIDE DEF one
<1>2. FirstOf(one, n) = d
  <2>1. \A k \in 0 .. n : FirstOf(one, k) = IF j <= k THEN d ELSE 0
    BY <1>1, FirstOfOne
  <2> QED BY <2>1
<1>3. \A i \in 1 .. n : t[i] = s[i] + one[i]
  BY <1>1
<1>4. SumOf(t) = SumOf(s) + SumOf(one)
  BY <1>1, <1>3, SumOfAdds
<1>5. SumOf(one) = d
  BY <1>1, <1>2, SumOfInt
<1> QED BY <1>4, <1>5

LEMMA SumOfOne ==
    ASSUME NEW n \in Nat, NEW j \in 1 .. n, NEW d \in Int
    PROVE  /\ [i \in 1 .. n |-> IF i = j THEN d ELSE 0] \in [1 .. n -> Int]
           /\ SumOf([i \in 1 .. n |-> IF i = j THEN d ELSE 0]) = d
<1> DEFINE one == [i \in 1 .. n |-> IF i = j THEN d ELSE 0]
<1>1. one \in [1 .. n -> Int] /\ \A i \in 1 .. n : one[i] = IF i = j THEN d ELSE 0
  OBVIOUS
<1> HIDE DEF one
<1>2. \A k \in 0 .. n : FirstOf(one, k) = IF j <= k THEN d ELSE 0
  BY <1>1, FirstOfOne
<1>3. SumOf(one) = d
  BY <1>1, <1>2, SumOfInt
<1> QED BY <1>1, <1>3 DEF one

LEMMA SumOfNat ==
    ASSUME NEW n \in Nat, NEW s \in [1 .. n -> Int], \A i \in 1 .. n : s[i] >= 0
    PROVE  SumOf(s) \in Nat /\ \A j \in 1 .. n : s[j] <= SumOf(s)
<1>1. ASSUME NEW t \in [1 .. n -> Int], \A i \in 1 .. n : t[i] >= 0
      PROVE  SumOf(t) >= 0
  <2> DEFINE none == [i \in 1 .. n |-> 0]
  <2>1. none \in [1 .. n -> Int] /\ \A i \in 1 .. n : none[i] = 0
    OBVIOUS
  <2> HIDE DEF none
  <2>2. SumOf(none) = 0
    BY <2>1, SumOfNothing
  <2>3. SumOf(none) <= SumOf(t)
    BY <1>1, <2>1, SumOfOrdered
  <2> QED BY <2>2, <2>3, SumOfInt
<1>2. ASSUME NEW j \in 1 .. n
      PROVE  s[j] <= SumOf(s)
  <2> DEFINE d == -s[j]
             t == [i \in 1 .. n |-> IF i = j THEN s[i] + d ELSE s[i]]
  <2>1. /\ t \in [1 .. n -> Int] /\ d \in Int /\ d = -s[j]
        /\ \A i \in 1 .. n : t[i] = IF i = j THEN s[i] + d ELSE s[i]
        /\ \A i \in 1 .. n : t[i] >= 0
    OBVIOUS
  <2> HIDE DEF t, d
  <2>2. SumOf(t) = SumOf(s) + d
    BY <2>1, SumOfChanged, ZenonT(60)
  <2>3. SumOf(t) >= 0
    BY <1>1, <2>1
  <2>4. SumOf(s) \in Int /\ SumOf(t) \in Int
    BY <2>1, SumOfInt
  <2>5. s[j] \in Int /\ d = -s[j]
    BY <2>1
  <2> QED BY <2>2, <2>3, <2>4, <2>5
<1> QED BY <1>1, <1>2, SumOfInt

LEMMA SumOfAppended ==
    ASSUME NEW n \in Nat, NEW s \in [1 .. n -> Int], NEW t \in [1 .. n + 1 -> Int],
           \A i \in 1 .. n : t[i] = s[i]
    PROVE  SumOf(t) = SumOf(s) + t[n + 1]
<1>1. FirstOf(t, n + 1) = FirstOf(t, n) + t[n + 1]
  BY FirstOfStep
<1>2. FirstOf(t, n) = FirstOf(s, n)
  BY FirstOfPrefix
<1>3. SumOf(t) = FirstOf(t, n + 1) /\ SumOf(s) = FirstOf(s, n)
  BY SumOfInt
<1> QED BY <1>1, <1>2, <1>3

-----------------------------------------------------------------------------
(* What is dealt                                                           *)

LEMMA AtLeastZeroIs ==
    ASSUME NEW a \in Int
    PROVE  /\ AtLeastZero(a) \in Nat /\ AtLeastZero(a) >= a
           /\ a >= 0 => AtLeastZero(a) = a
           /\ a <= 0 => AtLeastZero(a) = 0
  BY DEF AtLeastZero

LEMMA LeastGrows ==
    ASSUME NEW a \in Nat, NEW b \in Int, NEW f \in Nat, NEW c \in Nat, a = AtLeastZero(b)
    PROVE  /\ Least(a, f) + Least(c, AtLeastZero(b - f)) = Least(a, f + c)
           /\ Least(a, 0) = 0
  BY DEF Least, AtLeastZero

LEMMA DealtIs ==
    ASSUME NEW n \in Nat, NEW caps \in [1 .. n -> Int], NEW amount \in Int
    PROVE  /\ Dealt(amount, caps) \in [1 .. n -> Int]
           /\ \A i \in 1 .. n : /\ Dealt(amount, caps)[i] \in Nat
                                /\ Dealt(amount, caps)[i] <= AtLeastZero(caps[i])
           /\ SumOf(Dealt(amount, caps))
                = Least(AtLeastZero(amount), SumOf([i \in 1 .. n |-> AtLeastZero(caps[i])]))
<1> DEFINE cap == [i \in 1 .. n |-> AtLeastZero(caps[i])]
           dealt == [i \in 1 .. n |-> Least(cap[i], AtLeastZero(amount - FirstOf(cap, i - 1)))]
<1>1. cap \in [1 .. n -> Int] /\ \A i \in 1 .. n : cap[i] \in Nat /\ cap[i] = AtLeastZero(caps[i])
  BY AtLeastZeroIs
<1>2. Dealt(amount, caps) = dealt
  <2>1. <<>> \o [i \in DOMAIN caps |-> AtLeastZero(caps[i])] = cap
    <3>1. cap \in Seq(Int) /\ DOMAIN caps = 1 .. n
      BY <1>1
    <3> QED BY <3>1
  <2> QED BY <2>1 DEF Dealt
<1> HIDE DEF cap
<1>3. \A k \in 0 .. n : FirstOf(cap, k) \in Int
  BY <1>1, FirstOfInt
<1>4. \A i \in 1 .. n : /\ dealt[i] \in Nat /\ dealt[i] <= cap[i]
                        /\ dealt[i] = Least(cap[i], AtLeastZero(amount - FirstOf(cap, i - 1)))
  <2> SUFFICES ASSUME NEW i \in 1 .. n
               PROVE  /\ dealt[i] \in Nat /\ dealt[i] <= cap[i]
                      /\ dealt[i] = Least(cap[i], AtLeastZero(amount - FirstOf(cap, i - 1)))
    OBVIOUS
  <2>1. FirstOf(cap, i - 1) \in Int
    BY <1>3
  <2>2. AtLeastZero(amount - FirstOf(cap, i - 1)) \in Nat
    BY <2>1, AtLeastZeroIs
  <2> QED BY <1>1, <2>2 DEF Least
<1>5. dealt \in [1 .. n -> Int]
  BY <1>4
<1> HIDE DEF dealt
<1> DEFINE T == {k \in Nat : k <= n =>
                   /\ FirstOf(cap, k) >= 0
                   /\ FirstOf(dealt, k) = Least(AtLeastZero(amount), FirstOf(cap, k))}
<1>6. 0 \in T
  <2>1. FirstOf(cap, 0) = 0 /\ FirstOf(dealt, 0) = 0
    BY FirstOfStep
  <2>2. AtLeastZero(amount) \in Nat /\ Least(AtLeastZero(amount), 0) = 0
    BY AtLeastZeroIs DEF Least
  <2> QED BY <2>1, <2>2
<1>7. ASSUME NEW k \in Nat, k \in T
      PROVE  k + 1 \in T
  <2> SUFFICES ASSUME k + 1 <= n
               PROVE  /\ FirstOf(cap, k + 1) >= 0
                      /\ FirstOf(dealt, k + 1) = Least(AtLeastZero(amount), FirstOf(cap, k + 1))
    OBVIOUS
  <2>1. /\ k \in 0 .. n /\ k + 1 \in 1 .. n /\ (k + 1) - 1 = k
        /\ FirstOf(cap, k) >= 0
        /\ FirstOf(dealt, k) = Least(AtLeastZero(amount), FirstOf(cap, k))
    BY <1>7
  <2>2. /\ FirstOf(cap, k + 1) = FirstOf(cap, k) + cap[k + 1]
        /\ FirstOf(dealt, k + 1) = FirstOf(dealt, k) + dealt[k + 1]
    BY FirstOfStep
  <2>3. dealt[k + 1] = Least(cap[k + 1], AtLeastZero(amount - FirstOf(cap, k)))
    BY <1>4, <2>1
  <2>4. FirstOf(cap, k) \in Int /\ cap[k + 1] \in Nat
    BY <1>1, <1>3, <2>1
  <2>5. FirstOf(cap, k) \in Nat /\ AtLeastZero(amount) \in Nat
    BY <2>1, <2>4, AtLeastZeroIs
  <2>6. Least(AtLeastZero(amount), FirstOf(cap, k))
          + Least(cap[k + 1], AtLeastZero(amount - FirstOf(cap, k)))
            = Least(AtLeastZero(amount), FirstOf(cap, k) + cap[k + 1])
    <3> DEFINE f == FirstOf(cap, k)
               c == cap[k + 1]
    <3>1. f \in Nat /\ c \in Nat
      BY <2>4, <2>5
    <3> HIDE DEF f, c
    <3>2. Least(AtLeastZero(amount), f) + Least(c, AtLeastZero(amount - f))
            = Least(AtLeastZero(amount), f + c)
      BY <2>5, <3>1, LeastGrows
    <3> QED BY <3>2 DEF f, c
  <2>7. FirstOf(dealt, k + 1) = Least(AtLeastZero(amount), FirstOf(cap, k + 1))
    BY <2>1, <2>2, <2>3, <2>6
  <2> QED BY <2>2, <2>4, <2>5, <2>7
<1>8. \A k \in Nat : k \in T
  BY <1>6, <1>7, Inductive
<1>9. FirstOf(dealt, n) = Least(AtLeastZero(amount), FirstOf(cap, n))
  BY <1>8
<1>10. SumOf(dealt) = Least(AtLeastZero(amount), SumOf(cap))
  BY <1>1, <1>5, <1>9, SumOfInt
<1> QED BY <1>1, <1>2, <1>4, <1>5, <1>10 DEF cap

-----------------------------------------------------------------------------
(* The rows, and what is entered on a credit                               *)

Origins == {"payment", "reversal", "invoice"} \X Nat

Entry == [by : By, cents : Int]

Credit == [amount : Nat \ {0}, origin : Origins, entries : Seq(Entry)]

Spent(credit) == Total(credit.entries, LAMBDA e : e.cents)

\* The entries that name the same refund or reversal are one.
Single(credit) ==
    \A j, k \in DOMAIN credit.entries : credit.entries[j].by = credit.entries[k].by => j = k

NoneNegative(credit) == \A k \in DOMAIN credit.entries : credit.entries[k].cents >= 0

CentsOf(credit) == [k \in 1 .. Len(credit.entries) |-> credit.entries[k].cents]

CentsBy(credit, by) ==
    [k \in 1 .. Len(credit.entries) |->
        IF credit.entries[k].by = by THEN credit.entries[k].cents ELSE 0]

LEMMA EntriesOf ==
    ASSUME NEW credit \in Credit
    PROVE  /\ Len(credit.entries) \in Nat
           /\ DOMAIN credit.entries = 1 .. Len(credit.entries)
           /\ \A k \in 1 .. Len(credit.entries) :
                /\ credit.entries[k] \in Entry
                /\ credit.entries[k].by \in By
                /\ credit.entries[k].cents \in Int
           /\ CentsOf(credit) \in [1 .. Len(credit.entries) -> Int]
           /\ \A by : CentsBy(credit, by) \in [1 .. Len(credit.entries) -> Int]
           /\ Spent(credit) = SumOf(CentsOf(credit))
           /\ \A by : TakenBy(credit, by) = SumOf(CentsBy(credit, by))
<1>1. credit.entries \in Seq(Entry)
  BY DEF Credit
<1>2. Len(credit.entries) \in Nat /\ DOMAIN credit.entries = 1 .. Len(credit.entries)
  BY <1>1
<1>3. \A k \in 1 .. Len(credit.entries) : credit.entries[k] \in Entry
  BY <1>1, <1>2
<1>4. \A k \in 1 .. Len(credit.entries) :
        credit.entries[k].by \in By /\ credit.entries[k].cents \in Int
  BY <1>3 DEF Entry
<1>5. /\ CentsOf(credit) \in [1 .. Len(credit.entries) -> Int]
      /\ \A by : CentsBy(credit, by) \in [1 .. Len(credit.entries) -> Int]
  BY <1>4 DEF CentsOf, CentsBy
<1>6. Spent(credit) = SumOf(CentsOf(credit))
  BY <1>2 DEF Spent, Total, CentsOf
<1>7. \A by : TakenBy(credit, by) = SumOf(CentsBy(credit, by))
  BY <1>2 DEF TakenBy, Total, CentsBy
<1> QED BY <1>2, <1>3, <1>4, <1>5, <1>6, <1>7

LEMMA SpentInt ==
    ASSUME NEW credit \in Credit
    PROVE  Spent(credit) \in Int /\ \A by : TakenBy(credit, by) \in Int
  BY EntriesOf, SumOfInt

LEMMA SpentNat ==
    ASSUME NEW credit \in Credit, NoneNegative(credit)
    PROVE  Spent(credit) \in Nat /\ \A by : TakenBy(credit, by) \in Nat
<1> DEFINE n == Len(credit.entries)
<1>1. n \in Nat /\ DOMAIN credit.entries = 1 .. n
  BY EntriesOf
<1>2. \A k \in 1 .. n : CentsOf(credit)[k] >= 0
  BY <1>1 DEF NoneNegative, CentsOf
<1>3. \A by : \A k \in 1 .. n : CentsBy(credit, by)[k] >= 0
  BY <1>1 DEF NoneNegative, CentsBy
<1> HIDE DEF n
<1>4. CentsOf(credit) \in [1 .. n -> Int] /\ \A by : CentsBy(credit, by) \in [1 .. n -> Int]
  BY EntriesOf DEF n
<1>5. SumOf(CentsOf(credit)) \in Nat
  BY <1>1, <1>2, <1>4, SumOfNat
<1>6. \A by : SumOf(CentsBy(credit, by)) \in Nat
  BY <1>1, <1>3, <1>4, SumOfNat
<1> QED BY <1>5, <1>6, EntriesOf

\* What one took of a credit is what its one entry says.
LEMMA TakenByOne ==
    ASSUME NEW credit \in Credit, Single(credit)
    PROVE  /\ \A k \in DOMAIN credit.entries :
                TakenBy(credit, credit.entries[k].by) = credit.entries[k].cents
           /\ \A by : (\A k \in DOMAIN credit.entries : credit.entries[k].by # by)
                        => TakenBy(credit, by) = 0
<1> DEFINE n == Len(credit.entries)
<1>1. n \in Nat /\ DOMAIN credit.entries = 1 .. n
  BY EntriesOf
<1>2. \A by : TakenBy(credit, by) = SumOf(CentsBy(credit, by))
              /\ CentsBy(credit, by) \in [1 .. n -> Int]
  BY EntriesOf
<1>3. \A by : \A k \in 1 .. n :
        CentsBy(credit, by)[k] = IF credit.entries[k].by = by THEN credit.entries[k].cents ELSE 0
  BY DEF CentsBy
<1>4. \A k \in 1 .. n : credit.entries[k].cents \in Int
  BY EntriesOf
<1> HIDE DEF n
<1>5. ASSUME NEW j \in 1 .. n
      PROVE  TakenBy(credit, credit.entries[j].by) = credit.entries[j].cents
  <2> DEFINE by == credit.entries[j].by
             d == credit.entries[j].cents
             s == CentsBy(credit, by)
  <2>1. \A k \in 1 .. n : s[k] = IF k = j THEN d ELSE 0
    BY <1>1, <1>3 DEF Single
  <2>2. s \in [1 .. n -> Int] /\ d \in Int /\ TakenBy(credit, by) = SumOf(s)
    BY <1>2, <1>4
  <2> HIDE DEF s, d, by
  <2>3. \A k \in 0 .. n : FirstOf(s, k) = IF j <= k THEN d ELSE 0
    BY <1>1, <2>1, <2>2, FirstOfOne
  <2>4. SumOf(s) = FirstOf(s, n)
    BY <1>1, <2>2, SumOfInt
  <2>5. TakenBy(credit, by) = d
    BY <1>1, <2>2, <2>3, <2>4
  <2> QED BY <2>5 DEF by, d
<1>6. ASSUME NEW by, \A k \in DOMAIN credit.entries : credit.entries[k].by # by
      PROVE  TakenBy(credit, by) = 0
  <2>1. \A k \in 1 .. n : CentsBy(credit, by)[k] = 0
    BY <1>1, <1>3, <1>6
  <2> QED BY <1>1, <1>2, <2>1, SumOfNothing
<1> QED BY <1>1, <1>5, <1>6

LEMMA NettedIs ==
    ASSUME NEW entry \in Entry, NEW by, NEW cents \in Int
    PROVE  /\ Netted(entry, by, cents) \in Entry
           /\ Netted(entry, by, cents).by = entry.by
           /\ Netted(entry, by, cents).cents = entry.cents + IF entry.by = by THEN cents ELSE 0
  BY DEF Netted, Entry

\* `after` is the credit with `cents` more entered for `by`: an entry grows, or
\* is a new one.
IsEntered(credit, by, cents, after) ==
    /\ after \in Credit /\ Single(after)
    /\ after.amount = credit.amount /\ after.origin = credit.origin
    /\ DOMAIN credit.entries \subseteq DOMAIN after.entries
    /\ \A k \in DOMAIN credit.entries :
         /\ after.entries[k].by = credit.entries[k].by
         /\ after.entries[k].cents =
              credit.entries[k].cents + IF credit.entries[k].by = by THEN cents ELSE 0
    /\ \A k \in DOMAIN after.entries \ DOMAIN credit.entries :
         /\ after.entries[k] = [by |-> by, cents |-> cents]
         /\ \A j \in DOMAIN credit.entries : credit.entries[j].by # by
    /\ Spent(after) = Spent(credit) + cents
    /\ \A other : TakenBy(after, other) =
         TakenBy(credit, other) + IF other = by THEN cents ELSE 0

LEMMA EnteredIs ==
    ASSUME NEW credit \in Credit, Single(credit), NEW by \in By, NEW cents \in Int
    PROVE  IsEntered(credit, by, cents, Entered(credit, by, cents))
<1> DEFINE after == Entered(credit, by, cents)
           n == Len(credit.entries)
<1>1. /\ n \in Nat /\ DOMAIN credit.entries = 1 .. n /\ credit.entries \in Seq(Entry)
      /\ \A k \in 1 .. n : credit.entries[k] \in Entry
      /\ \A k \in 1 .. n : credit.entries[k].by \in By /\ credit.entries[k].cents \in Int
  BY EntriesOf DEF Credit
<1> SUFFICES IsEntered(credit, by, cents, after)
  OBVIOUS
<1> HIDE DEF after
<1>2. Spent(credit) \in Int /\ \A other : TakenBy(credit, other) \in Int
  BY SpentInt
<1>3. CASE cents = 0
  <2>1. after = credit
    BY <1>3 DEF after, Entered
  <2> QED BY <1>1, <1>2, <1>3, <2>1 DEF IsEntered
<1>4. CASE cents # 0 /\ \E i \in DOMAIN credit.entries : credit.entries[i].by = by
  <2>1. PICK j \in 1 .. n : credit.entries[j].by = by
    BY <1>1, <1>4
  <2> DEFINE entries == [i \in 1 .. n |-> Netted(credit.entries[i], by, cents)]
  <2>2. after = [credit EXCEPT !.entries = entries]
    BY <1>1, <1>4 DEF after, Entered
  <2>3. \A i \in 1 .. n : entries[i] \in Entry
    BY <1>1, NettedIs
  <2>4. entries \in Seq(Entry)
    <3>1. entries \in [1 .. n -> Entry]
      BY <2>3
    <3> QED BY <1>1, <3>1
  <2>5. /\ after \in Credit /\ after.entries = entries
        /\ after.amount = credit.amount /\ after.origin = credit.origin
    BY <2>2, <2>4 DEF Credit
  <2>6. /\ Len(after.entries) = n /\ DOMAIN after.entries = 1 .. n
        /\ \A k \in 1 .. n :
             /\ after.entries[k].by = credit.entries[k].by
             /\ after.entries[k].cents =
                  credit.entries[k].cents + IF credit.entries[k].by = by THEN cents ELSE 0
    BY <1>1, <2>5, NettedIs
  <2> HIDE DEF entries
  <2>7. Single(after)
    BY <1>1, <2>6 DEF Single
  <2>8. \A k \in 1 .. n : credit.entries[k].by = by <=> k = j
    BY <1>1, <2>1 DEF Single
  <2> HIDE DEF n
  <2>9. Spent(after) = Spent(credit) + cents
    <3>1. /\ CentsOf(after) \in [1 .. n -> Int] /\ CentsOf(credit) \in [1 .. n -> Int]
          /\ Spent(after) = SumOf(CentsOf(after)) /\ Spent(credit) = SumOf(CentsOf(credit))
      BY <2>5, <2>6, EntriesOf DEF n
    <3>2. \A k \in 1 .. n : CentsOf(after)[k] =
             IF k = j THEN CentsOf(credit)[k] + cents ELSE CentsOf(credit)[k]
      BY <1>1, <2>6, <2>8 DEF CentsOf, n
    <3>3. SumOf(CentsOf(after)) = SumOf(CentsOf(credit)) + cents
      BY <1>1, <3>1, <3>2, SumOfChanged
    <3> QED BY <3>1, <3>3
  <2>10. ASSUME NEW other
         PROVE  TakenBy(after, other) = TakenBy(credit, other) + IF other = by THEN cents ELSE 0
    <3> DEFINE s == CentsBy(credit, other)
               t == CentsBy(after, other)
               d == IF other = by THEN cents ELSE 0
    <3>1. /\ t \in [1 .. n -> Int] /\ s \in [1 .. n -> Int] /\ d \in Int
          /\ TakenBy(after, other) = SumOf(t) /\ TakenBy(credit, other) = SumOf(s)
      BY <2>5, <2>6, EntriesOf DEF n
    <3>2. \A k \in 1 .. n : t[k] = IF k = j THEN s[k] + d ELSE s[k]
      <4>1. \A k \in 1 .. n :
              /\ s[k] = IF credit.entries[k].by = other THEN credit.entries[k].cents ELSE 0
              /\ t[k] = IF after.entries[k].by = other THEN after.entries[k].cents ELSE 0
        BY <2>6 DEF CentsBy, n
      <4>2. \A k \in 1 .. n : credit.entries[k].cents \in Int
        BY <1>1
      <4> HIDE DEF s, t
      <4>3. ASSUME NEW k \in 1 .. n
            PROVE  t[k] = IF k = j THEN s[k] + d ELSE s[k]
        <5>1. CASE other = by /\ k = j
          BY <2>6, <2>8, <4>1, <4>2, <5>1
        <5>2. CASE other # by /\ k = j
          BY <2>6, <2>8, <4>1, <4>2, <5>2
        <5>3. CASE k # j
          BY <2>6, <2>8, <4>1, <4>2, <5>3
        <5> QED BY <5>1, <5>2, <5>3
      <4> QED BY <4>3
    <3> HIDE DEF s, t, d
    <3>3. SumOf(t) = SumOf(s) + d
      <4>1. n \in Nat
        BY <1>1
      <4> QED BY <3>1, <3>2, <4>1, SumOfChanged, ZenonT(60)
    <3> QED BY <3>1, <3>3 DEF d
  <2> QED BY <1>1, <2>5, <2>6, <2>7, <2>9, <2>10 DEF IsEntered
<1>5. CASE cents # 0 /\ ~\E i \in DOMAIN credit.entries : credit.entries[i].by = by
  <2> DEFINE new == [by |-> by, cents |-> cents]
             entries == Append(credit.entries, new)
  <2>1. after = [credit EXCEPT !.entries = entries]
    BY <1>5 DEF after, Entered
  <2>2. new \in Entry /\ new.by = by /\ new.cents = cents
    BY DEF Entry
  <2> HIDE DEF new
  <2>3. /\ entries \in Seq(Entry) /\ Len(entries) = n + 1 /\ DOMAIN entries = 1 .. n + 1
        /\ entries[n + 1] = new /\ \A k \in 1 .. n : entries[k] = credit.entries[k]
    BY <1>1, <2>2
  <2> HIDE DEF entries
  <2>4. /\ after \in Credit /\ after.entries = entries
        /\ after.amount = credit.amount /\ after.origin = credit.origin
    BY <2>1, <2>3 DEF Credit
  <2>5. Single(after)
    <3> SUFFICES ASSUME NEW j \in 1 .. n + 1, NEW k \in 1 .. n + 1,
                        entries[j].by = entries[k].by
                 PROVE  j = k
      BY <2>3, <2>4 DEF Single
    <3>1. CASE j \in 1 .. n /\ k \in 1 .. n
      BY <1>1, <2>3, <3>1 DEF Single
    <3>2. CASE j = n + 1 /\ k \in 1 .. n
      BY <1>1, <1>5, <2>2, <2>3, <3>2
    <3>3. CASE k = n + 1 /\ j \in 1 .. n
      BY <1>1, <1>5, <2>2, <2>3, <3>3
    <3>4. CASE j = n + 1 /\ k = n + 1
      BY <3>4
    <3>5. \A i \in 1 .. n + 1 : i \in 1 .. n \/ i = n + 1
      BY <1>1
    <3> QED BY <3>1, <3>2, <3>3, <3>4, <3>5
  <2> HIDE DEF n
  <2>6. Spent(after) = Spent(credit) + cents
    <3>1. /\ CentsOf(after) \in [1 .. n + 1 -> Int] /\ CentsOf(credit) \in [1 .. n -> Int]
          /\ Spent(after) = SumOf(CentsOf(after)) /\ Spent(credit) = SumOf(CentsOf(credit))
      BY <2>3, <2>4, EntriesOf DEF n
    <3>2. \A k \in 1 .. n : CentsOf(after)[k] = CentsOf(credit)[k]
      BY <1>1, <2>3, <2>4 DEF CentsOf, n
    <3>3. CentsOf(after)[n + 1] = cents
      BY <1>1, <2>2, <2>3, <2>4 DEF CentsOf
    <3> QED BY <1>1, <3>1, <3>2, <3>3, SumOfAppended
  <2>7. ASSUME NEW other
        PROVE  TakenBy(after, other) = TakenBy(credit, other) + IF other = by THEN cents ELSE 0
    <3>1. /\ CentsBy(after, other) \in [1 .. n + 1 -> Int] /\ CentsBy(credit, other) \in [1 .. n -> Int]
          /\ TakenBy(after, other) = SumOf(CentsBy(after, other))
          /\ TakenBy(credit, other) = SumOf(CentsBy(credit, other))
      BY <2>3, <2>4, EntriesOf DEF n
    <3>2. \A k \in 1 .. n : CentsBy(after, other)[k] = CentsBy(credit, other)[k]
      BY <1>1, <2>3, <2>4 DEF CentsBy, n
    <3>3. CentsBy(after, other)[n + 1] = IF other = by THEN cents ELSE 0
      BY <1>1, <2>2, <2>3, <2>4 DEF CentsBy
    <3>4. SumOf(CentsBy(after, other)) = SumOf(CentsBy(credit, other)) + CentsBy(after, other)[n + 1]
      BY <1>1, <3>1, <3>2, SumOfAppended
    <3> QED BY <3>1, <3>3, <3>4
  <2> QED BY <1>1, <1>5, <2>2, <2>3, <2>4, <2>5, <2>6, <2>7 DEF new, IsEntered
<1> QED BY <1>3, <1>4, <1>5

-----------------------------------------------------------------------------
(* The books                                                               *)

Payment == [amount : Collected, settles : [Invoices -> Int]]

Reversal == [payment : Nat, amount : Nat, fromCredit : Nat, reinstated : Nat,
             toCases : Nat, opened : [Invoices -> Int]]

Refund == [amount : Returned, ended : BOOLEAN]

Case == [by : By, amount : Nat \ {0}]

Books == [totals : Seq(Totals), standing : Nat, payments : Seq(Payment),
          credits : Seq(Credit), reversals : Seq(Reversal), refunds : Seq(Refund),
          cases : Seq(Case)]

\* A row that names a reversal names one of the first n.
NamesOneOf(name, n) == name[1] = "reversal" => name[2] \in 1 .. n

\* Every row that names another one names one there is.
Named(b) ==
    /\ Len(b.totals) \in Invoices
    /\ b.standing \in 0 .. Len(b.totals)
    /\ \A r \in DOMAIN b.reversals : b.reversals[r].payment \in DOMAIN b.payments
    /\ \A c \in DOMAIN b.credits :
         /\ NamesOneOf(b.credits[c].origin, Len(b.reversals))
         /\ \A k \in DOMAIN b.credits[c].entries :
              NamesOneOf(b.credits[c].entries[k].by, Len(b.reversals))
    /\ \A k \in DOMAIN b.cases : NamesOneOf(b.cases[k].by, Len(b.reversals))

LEMMA BooksAre ==
    ASSUME NEW b \in Books
    PROVE  /\ b.totals \in Seq(Totals) /\ Len(b.totals) \in Nat
           /\ DOMAIN b.totals = 1 .. Len(b.totals)
           /\ \A i \in 1 .. Len(b.totals) : b.totals[i] \in Totals /\ b.totals[i] \in Int
           /\ b.standing \in Nat
           /\ b.payments \in Seq(Payment) /\ Len(b.payments) \in Nat
           /\ DOMAIN b.payments = 1 .. Len(b.payments)
           /\ \A p \in 1 .. Len(b.payments) : b.payments[p] \in Payment
           /\ b.credits \in Seq(Credit) /\ Len(b.credits) \in Nat
           /\ DOMAIN b.credits = 1 .. Len(b.credits)
           /\ \A c \in 1 .. Len(b.credits) : b.credits[c] \in Credit
           /\ b.reversals \in Seq(Reversal) /\ Len(b.reversals) \in Nat
           /\ DOMAIN b.reversals = 1 .. Len(b.reversals)
           /\ \A r \in 1 .. Len(b.reversals) : b.reversals[r] \in Reversal
           /\ b.refunds \in Seq(Refund) /\ Len(b.refunds) \in Nat
           /\ DOMAIN b.refunds = 1 .. Len(b.refunds)
           /\ \A f \in 1 .. Len(b.refunds) : b.refunds[f] \in Refund
           /\ b.cases \in Seq(Case) /\ Len(b.cases) \in Nat
           /\ DOMAIN b.cases = 1 .. Len(b.cases)
           /\ \A k \in 1 .. Len(b.cases) : b.cases[k] \in Case
<1>1. /\ b.totals \in Seq(Totals) /\ b.standing \in Nat /\ b.payments \in Seq(Payment)
      /\ b.credits \in Seq(Credit) /\ b.reversals \in Seq(Reversal)
      /\ b.refunds \in Seq(Refund) /\ b.cases \in Seq(Case)
  BY DEF Books
<1>2. Totals \subseteq Int
  BY LedgerAssumption
<1>3. \A S : \A s \in Seq(S) : /\ Len(s) \in Nat /\ DOMAIN s = 1 .. Len(s)
                               /\ \A i \in 1 .. Len(s) : s[i] \in S
  OBVIOUS
<1> QED BY <1>1, <1>2, <1>3

LEMMA RowsAre ==
    /\ Invoices = 1 .. MaxInvoices /\ MaxInvoices \in Nat
    /\ \A payment \in Payment :
         payment.amount \in Nat /\ payment.settles \in [1 .. MaxInvoices -> Int]
    /\ \A credit \in Credit : /\ credit.amount \in Nat /\ credit.amount > 0
                              /\ credit.origin \in Origins /\ credit.entries \in Seq(Entry)
    /\ \A reversal \in Reversal :
         /\ reversal.payment \in Nat /\ reversal.amount \in Nat /\ reversal.fromCredit \in Nat
         /\ reversal.reinstated \in Nat /\ reversal.toCases \in Nat
         /\ reversal.opened \in [1 .. MaxInvoices -> Int]
    /\ \A each \in Case : each.by \in By /\ each.amount \in Nat
    /\ \A refund \in Refund : refund.amount \in Nat
<1>1. Invoices = 1 .. MaxInvoices /\ MaxInvoices \in Nat
  BY LedgerAssumption DEF Invoices
<1>2. /\ \A x \in Collected : x \in Nat
      /\ \A x \in Returned : x \in Nat
      /\ \A x \in Nat \ {0} : x \in Nat /\ x > 0
  BY LedgerAssumption
<1>3. \A payment \in Payment :
        payment.amount \in Nat /\ payment.settles \in [1 .. MaxInvoices -> Int]
  BY <1>1, <1>2 DEF Payment
<1>4. \A credit \in Credit : /\ credit.amount \in Nat /\ credit.amount > 0
                             /\ credit.origin \in Origins /\ credit.entries \in Seq(Entry)
  BY <1>2 DEF Credit
<1>5. \A reversal \in Reversal :
        /\ reversal.payment \in Nat /\ reversal.amount \in Nat /\ reversal.fromCredit \in Nat
        /\ reversal.reinstated \in Nat /\ reversal.toCases \in Nat
        /\ reversal.opened \in [1 .. MaxInvoices -> Int]
  BY <1>1 DEF Reversal
<1>6. \A each \in Case : each.by \in By /\ each.amount \in Nat
  BY <1>2 DEF Case
<1>7. \A refund \in Refund : refund.amount \in Nat
  BY <1>2 DEF Refund
<1> QED BY <1>1, <1>3, <1>4, <1>5, <1>6, <1>7

-----------------------------------------------------------------------------
(* Sums over the tables                                                    *)

\* What a name holds of the credits.
HeldOf(b, by) == Total(b.credits, LAMBDA credit : TakenBy(credit, by))

\* What credits of an origin are of.
CreditsOf(b, origin) ==
    Total(b.credits, LAMBDA credit : IF credit.origin = origin THEN credit.amount ELSE 0)

TakenByEach(b, by) == [c \in 1 .. Len(b.credits) |-> TakenBy(b.credits[c], by)]

AmountOfEach(b, origin) ==
    [c \in 1 .. Len(b.credits) |->
        IF b.credits[c].origin = origin THEN b.credits[c].amount ELSE 0]

CaseOfEach(b, by) ==
    [k \in 1 .. Len(b.cases) |-> IF b.cases[k].by = by THEN b.cases[k].amount ELSE 0]

SettledByEach(b, i) == [p \in 1 .. Len(b.payments) |-> b.payments[p].settles[i]]

LEMMA TableSums ==
    ASSUME NEW b \in Books
    PROVE  /\ \A by : /\ TakenByEach(b, by) \in [1 .. Len(b.credits) -> Int]
                      /\ HeldOf(b, by) = SumOf(TakenByEach(b, by)) /\ HeldOf(b, by) \in Int
           /\ \A origin : /\ AmountOfEach(b, origin) \in [1 .. Len(b.credits) -> Int]
                          /\ CreditsOf(b, origin) = SumOf(AmountOfEach(b, origin))
                          /\ CreditsOf(b, origin) \in Int
           /\ \A by : /\ CaseOfEach(b, by) \in [1 .. Len(b.cases) -> Int]
                      /\ CaseSum(b, by) = SumOf(CaseOfEach(b, by)) /\ CaseSum(b, by) \in Int
           /\ \A i \in Invoices : /\ SettledByEach(b, i) \in [1 .. Len(b.payments) -> Int]
                                  /\ SettledOn(b, i) = SumOf(SettledByEach(b, i))
                                  /\ SettledOn(b, i) \in Int
<1>1. /\ Len(b.credits) \in Nat /\ DOMAIN b.credits = 1 .. Len(b.credits)
      /\ Len(b.cases) \in Nat /\ DOMAIN b.cases = 1 .. Len(b.cases)
      /\ Len(b.payments) \in Nat /\ DOMAIN b.payments = 1 .. Len(b.payments)
      /\ \A c \in 1 .. Len(b.credits) : b.credits[c] \in Credit
      /\ \A k \in 1 .. Len(b.cases) : b.cases[k] \in Case
      /\ \A p \in 1 .. Len(b.payments) : b.payments[p] \in Payment
  BY BooksAre
<1>2. \A by : TakenByEach(b, by) \in [1 .. Len(b.credits) -> Int]
  BY <1>1, SpentInt DEF TakenByEach
<1>3. \A origin : AmountOfEach(b, origin) \in [1 .. Len(b.credits) -> Int]
  BY <1>1, RowsAre DEF AmountOfEach
<1>4. \A by : CaseOfEach(b, by) \in [1 .. Len(b.cases) -> Int]
  BY <1>1, RowsAre DEF CaseOfEach
<1>5. \A i \in Invoices : SettledByEach(b, i) \in [1 .. Len(b.payments) -> Int]
  BY <1>1, RowsAre DEF SettledByEach
<1>6. /\ \A by : HeldOf(b, by) = SumOf(TakenByEach(b, by))
      /\ \A origin : CreditsOf(b, origin) = SumOf(AmountOfEach(b, origin))
      /\ \A by : CaseSum(b, by) = SumOf(CaseOfEach(b, by))
      /\ \A i : SettledOn(b, i) = SumOf(SettledByEach(b, i))
  BY <1>1 DEF HeldOf, TakenByEach, CreditsOf, AmountOfEach, CaseSum, CaseOfEach,
              SettledOn, SettledByEach, Total
<1>7. /\ \A by : SumOf(TakenByEach(b, by)) \in Int /\ SumOf(CaseOfEach(b, by)) \in Int
      /\ \A origin : SumOf(AmountOfEach(b, origin)) \in Int
      /\ \A i \in Invoices : SumOf(SettledByEach(b, i)) \in Int
  BY <1>1, <1>2, <1>3, <1>4, <1>5, SumOfInt
<1> QED BY <1>2, <1>3, <1>4, <1>5, <1>6, <1>7, Zenon

\* Sums over what did not change are the same.
LEMMA SameSums ==
    ASSUME NEW b, NEW after
    PROVE  /\ b.credits = after.credits =>
                /\ \A by : HeldOf(after, by) = HeldOf(b, by)
                /\ \A origin : CreditsOf(after, origin) = CreditsOf(b, origin)
           /\ b.cases = after.cases => \A by : CaseSum(after, by) = CaseSum(b, by)
           /\ b.payments = after.payments => \A i : SettledOn(after, i) = SettledOn(b, i)
  BY DEF HeldOf, CreditsOf, CaseSum, SettledOn, Total

-----------------------------------------------------------------------------
(* What is written                                                         *)

IsEnteredAll(b, by, cents, after) ==
    /\ after \in Books
    /\ after.totals = b.totals /\ after.standing = b.standing
    /\ after.payments = b.payments /\ after.reversals = b.reversals
    /\ after.refunds = b.refunds /\ after.cases = b.cases
    /\ Len(after.credits) = Len(b.credits)
    /\ \A c \in 1 .. Len(b.credits) :
         IsEntered(b.credits[c], by, cents[c], after.credits[c])
    /\ \A other : HeldOf(after, other) =
         HeldOf(b, other) + IF other = by THEN SumOf(cents) ELSE 0
    /\ \A origin : CreditsOf(after, origin) = CreditsOf(b, origin)

LEMMA EnteredAllIs ==
    ASSUME NEW b \in Books, NEW by \in By, NEW cents \in [1 .. Len(b.credits) -> Int],
           \A c \in DOMAIN b.credits : Single(b.credits[c])
    PROVE  IsEnteredAll(b, by, cents, EnteredAll(b, by, cents))
<1> DEFINE after == EnteredAll(b, by, cents)
           n == Len(b.credits)
           credits == [c \in 1 .. n |-> Entered(b.credits[c], by, cents[c])]
<1> SUFFICES IsEnteredAll(b, by, cents, after)
  OBVIOUS
<1> HIDE DEF after
<1>1. /\ n \in Nat /\ DOMAIN b.credits = 1 .. n
      /\ \A c \in 1 .. n : b.credits[c] \in Credit /\ Single(b.credits[c]) /\ cents[c] \in Int
  BY BooksAre
<1>2. after = [b EXCEPT !.credits = credits]
  BY <1>1 DEF after, EnteredAll
<1>3. \A c \in 1 .. n : credits[c] = Entered(b.credits[c], by, cents[c])
  OBVIOUS
<1>4. \A c \in 1 .. n : IsEntered(b.credits[c], by, cents[c], credits[c])
  BY <1>1, <1>3, EnteredIs
<1>5. /\ credits \in Seq(Credit) /\ Len(credits) = n
  <2>1. credits \in [1 .. n -> Credit]
    BY <1>4 DEF IsEntered
  <2> QED BY <1>1, <2>1
<1> HIDE DEF credits
<1>6. /\ after \in Books /\ after.credits = credits
      /\ after.totals = b.totals /\ after.standing = b.standing
      /\ after.payments = b.payments /\ after.cases = b.cases
      /\ after.reversals = b.reversals /\ after.refunds = b.refunds
  BY <1>2, <1>5 DEF Books
<1>7. ASSUME NEW other
      PROVE  HeldOf(after, other) = HeldOf(b, other) + IF other = by THEN SumOf(cents) ELSE 0
  <2>1. /\ TakenByEach(b, other) \in [1 .. n -> Int] /\ HeldOf(b, other) = SumOf(TakenByEach(b, other))
        /\ TakenByEach(after, other) \in [1 .. n -> Int]
        /\ HeldOf(after, other) = SumOf(TakenByEach(after, other))
    BY <1>5, <1>6, TableSums
  <2>2. \A c \in 1 .. n : TakenByEach(after, other)[c] =
          TakenByEach(b, other)[c] + IF other = by THEN cents[c] ELSE 0
    <3>1. ASSUME NEW c \in 1 .. n
          PROVE  TakenByEach(after, other)[c] =
                   TakenByEach(b, other)[c] + IF other = by THEN cents[c] ELSE 0
      BY <1>4, <1>5, <1>6 DEF IsEntered, TakenByEach
    <3> QED BY <3>1
  <2>3. CASE other = by
    <3>1. \A c \in 1 .. n : TakenByEach(after, other)[c] = TakenByEach(b, other)[c] + cents[c]
      BY <2>2, <2>3
    <3>2. SumOf(TakenByEach(after, other)) = SumOf(TakenByEach(b, other)) + SumOf(cents)
      BY <1>1, <2>1, <3>1, SumOfAdds
    <3> QED BY <2>1, <2>3, <3>2
  <2>4. CASE other # by
    <3>1. \A c \in 1 .. n : TakenByEach(after, other)[c] = TakenByEach(b, other)[c]
      BY <2>1, <2>2, <2>4
    <3>2. TakenByEach(after, other) = TakenByEach(b, other)
      BY <2>1, <3>1
    <3>3. SumOf(TakenByEach(b, other)) \in Int
      BY <1>1, <2>1, SumOfInt
    <3> QED BY <2>1, <2>4, <3>2, <3>3
  <2> QED BY <2>3, <2>4
<1>8. \A origin : AmountOfEach(after, origin) = AmountOfEach(b, origin)
  <2>1. \A c \in 1 .. n : /\ credits[c].amount = b.credits[c].amount
                          /\ credits[c].origin = b.credits[c].origin
    BY <1>4 DEF IsEntered
  <2> QED BY <1>5, <1>6, <2>1 DEF AmountOfEach
<1>9. \A origin : CreditsOf(after, origin) = CreditsOf(b, origin)
  BY <1>6, <1>8, TableSums
<1> QED BY <1>2, <1>4, <1>5, <1>6, <1>7, <1>9 DEF IsEnteredAll

IsOpened(b, r, p, cents, after) ==
    /\ after \in Books
    /\ after.totals = b.totals /\ after.standing = b.standing
    /\ after.credits = b.credits /\ after.refunds = b.refunds /\ after.cases = b.cases
    /\ Len(after.payments) = Len(b.payments) /\ Len(after.reversals) = Len(b.reversals)
    /\ \A q \in 1 .. Len(b.payments) :
         /\ after.payments[q].amount = b.payments[q].amount
         /\ \A i \in Invoices : after.payments[q].settles[i] =
              IF q = p THEN b.payments[q].settles[i] - cents[i] ELSE b.payments[q].settles[i]
    /\ \A s \in 1 .. Len(b.reversals) :
         /\ after.reversals[s].payment = b.reversals[s].payment
         /\ after.reversals[s].amount = b.reversals[s].amount
         /\ after.reversals[s].fromCredit = b.reversals[s].fromCredit
         /\ after.reversals[s].reinstated = b.reversals[s].reinstated
         /\ after.reversals[s].toCases = b.reversals[s].toCases
         /\ SumOf(after.reversals[s].opened) =
              SumOf(b.reversals[s].opened) + IF s = r THEN SumOf(cents) ELSE 0
    /\ \A i \in Invoices : SettledOn(after, i) = SettledOn(b, i) - cents[i]

LEMMA OpenedIs ==
    ASSUME NEW b \in Books, NEW r \in 1 .. Len(b.reversals), NEW p \in 1 .. Len(b.payments),
           p = b.reversals[r].payment, NEW cents \in [Invoices -> Int]
    PROVE  IsOpened(b, r, p, cents, Opened(b, r, cents))
<1> DEFINE after == Opened(b, r, cents)
           n == Len(b.payments)
           settles == [i \in Invoices |-> b.payments[p].settles[i] - cents[i]]
           opened == [i \in Invoices |-> b.reversals[r].opened[i] + cents[i]]
           payments == [b.payments EXCEPT ![p].settles = settles]
           reversals == [b.reversals EXCEPT ![r].opened = opened]
<1> SUFFICES IsOpened(b, r, p, cents, after)
  OBVIOUS
<1> HIDE DEF after
<1>1. /\ b.payments \in Seq(Payment) /\ n \in Nat /\ DOMAIN b.payments = 1 .. n
      /\ \A q \in 1 .. n : b.payments[q] \in Payment
      /\ b.reversals \in Seq(Reversal) /\ DOMAIN b.reversals = 1 .. Len(b.reversals)
      /\ \A s \in 1 .. Len(b.reversals) : b.reversals[s] \in Reversal
  BY BooksAre
<1>2. Invoices = 1 .. MaxInvoices /\ MaxInvoices \in Nat
  BY RowsAre
<1>3. /\ \A q \in 1 .. n : b.payments[q].settles \in [Invoices -> Int]
      /\ \A s \in 1 .. Len(b.reversals) : b.reversals[s].opened \in [Invoices -> Int]
  BY <1>1 DEF Payment, Reversal
<1>4. after = [b EXCEPT !.payments = payments, !.reversals = reversals]
  BY DEF after, Opened
<1>5. settles \in [Invoices -> Int] /\ opened \in [Invoices -> Int]
  <2>1. b.payments[p].settles \in [Invoices -> Int] /\ b.reversals[r].opened \in [Invoices -> Int]
    BY <1>3
  <2>2. \A i \in Invoices : /\ b.payments[p].settles[i] \in Int /\ b.reversals[r].opened[i] \in Int
                            /\ cents[i] \in Int
    BY <2>1
  <2> QED BY <2>2
<1>6. /\ \A i \in Invoices : settles[i] = b.payments[p].settles[i] - cents[i]
      /\ \A i \in Invoices : opened[i] = b.reversals[r].opened[i] + cents[i]
  OBVIOUS
<1> HIDE DEF settles, opened
<1>7. payments \in Seq(Payment) /\ Len(payments) = n
  <2>1. [b.payments[p] EXCEPT !.settles = settles] \in Payment
    BY <1>1, <1>5 DEF Payment
  <2> QED BY <1>1, <2>1
<1>8. reversals \in Seq(Reversal) /\ Len(reversals) = Len(b.reversals)
  <2>1. [b.reversals[r] EXCEPT !.opened = opened] \in Reversal
    BY <1>1, <1>5 DEF Reversal
  <2> QED BY <1>1, <2>1
<1>9. \A q \in 1 .. n :
        /\ payments[q].amount = b.payments[q].amount
        /\ payments[q].settles = IF q = p THEN settles ELSE b.payments[q].settles
  BY <1>1 DEF Payment
<1>10. \A s \in 1 .. Len(b.reversals) :
        /\ reversals[s].payment = b.reversals[s].payment
        /\ reversals[s].amount = b.reversals[s].amount
        /\ reversals[s].fromCredit = b.reversals[s].fromCredit
        /\ reversals[s].reinstated = b.reversals[s].reinstated
        /\ reversals[s].toCases = b.reversals[s].toCases
        /\ reversals[s].opened = IF s = r THEN opened ELSE b.reversals[s].opened
  BY <1>1 DEF Reversal
<1> HIDE DEF payments, reversals
<1>11. /\ after \in Books /\ after.payments = payments /\ after.reversals = reversals
       /\ after.totals = b.totals /\ after.standing = b.standing /\ after.credits = b.credits
       /\ after.refunds = b.refunds /\ after.cases = b.cases
  BY <1>4, <1>7, <1>8 DEF Books
<1>12. ASSUME NEW s \in 1 .. Len(b.reversals)
       PROVE  SumOf(reversals[s].opened) =
                SumOf(b.reversals[s].opened) + IF s = r THEN SumOf(cents) ELSE 0
  <2>1. SumOf(opened) = SumOf(b.reversals[r].opened) + SumOf(cents)
    BY <1>2, <1>3, <1>5, <1>6, SumOfAdds
  <2>2. SumOf(b.reversals[s].opened) \in Int
    BY <1>2, <1>3, SumOfInt
  <2>3. reversals[s].opened = IF s = r THEN opened ELSE b.reversals[s].opened
    BY <1>10
  <2>4. CASE s = r
    BY <2>1, <2>3, <2>4
  <2>5. CASE s # r
    BY <2>2, <2>3, <2>5
  <2> QED BY <2>4, <2>5
<1>13. ASSUME NEW i \in Invoices
       PROVE  SettledOn(after, i) = SettledOn(b, i) - cents[i]
  <2> DEFINE d == -cents[i]
             s == SettledByEach(b, i)
             t == SettledByEach(after, i)
  <2>1. /\ s \in [1 .. n -> Int] /\ SettledOn(b, i) = SumOf(s) /\ SumOf(s) \in Int
        /\ t \in [1 .. n -> Int] /\ SettledOn(after, i) = SumOf(t)
    BY <1>7, <1>11, TableSums
  <2>2. \A q \in 1 .. n : s[q] = b.payments[q].settles[i] /\ t[q] = payments[q].settles[i]
    BY <1>7, <1>11 DEF SettledByEach
  <2>3. d \in Int /\ d = -cents[i]
    OBVIOUS
  <2> HIDE DEF d, s, t
  <2>4. \A q \in 1 .. n : t[q] = IF q = p THEN s[q] + d ELSE s[q]
    <3> SUFFICES ASSUME NEW q \in 1 .. n
                 PROVE  t[q] = IF q = p THEN s[q] + d ELSE s[q]
      OBVIOUS
    <3>1. s[q] = b.payments[q].settles[i] /\ t[q] = payments[q].settles[i]
      BY <2>2
    <3>2. b.payments[q].settles[i] \in Int
      BY <1>3
    <3>3. CASE q = p
      <4>1. t[q] = settles[i] /\ settles[i] = s[q] - cents[i]
        BY <1>6, <1>9, <3>1, <3>3
      <4> QED BY <2>3, <3>1, <3>2, <3>3, <4>1
    <3>4. CASE q # p
      BY <1>9, <3>1, <3>4
    <3> QED BY <3>3, <3>4
  <2>5. n \in Nat
    BY <1>1
  <2>6. SumOf(t) = SumOf(s) + d
    BY <2>1, <2>3, <2>4, <2>5, SumOfChanged
  <2> QED BY <2>1, <2>3, <2>6
<1> QED BY <1>3, <1>4, <1>6, <1>7, <1>8, <1>9, <1>10, <1>11, <1>12, <1>13, SMTT(30) DEF IsOpened

IsCaseOpened(b, by, cents, after) ==
    /\ after \in Books
    /\ after.totals = b.totals /\ after.standing = b.standing
    /\ after.payments = b.payments /\ after.credits = b.credits
    /\ after.reversals = b.reversals /\ after.refunds = b.refunds
    /\ \A other : CaseSum(after, other) =
         CaseSum(b, other) + IF other = by THEN AtLeastZero(cents) ELSE 0
    /\ \A k \in DOMAIN after.cases :
         \/ after.cases[k].by = by
         \/ k \in DOMAIN b.cases /\ after.cases[k] = b.cases[k]

LEMMA CaseOpenedIs ==
    ASSUME NEW b \in Books, NEW by \in By, NEW cents \in Int
    PROVE  IsCaseOpened(b, by, cents, CaseOpened(b, by, cents))
<1> DEFINE after == CaseOpened(b, by, cents)
<1> SUFFICES IsCaseOpened(b, by, cents, after)
  OBVIOUS
<1> HIDE DEF after
<1>1. /\ b.cases \in Seq(Case) /\ Len(b.cases) \in Nat /\ DOMAIN b.cases = 1 .. Len(b.cases)
  BY BooksAre
<1>2. \A other : CaseSum(b, other) \in Int
  BY TableSums
<1>3. CASE cents <= 0
  <2>1. after = b
    BY <1>3 DEF after, CaseOpened
  <2>2. AtLeastZero(cents) = 0
    BY <1>3 DEF AtLeastZero
  <2> QED BY <1>2, <2>1, <2>2 DEF IsCaseOpened
<1>4. CASE cents > 0
  <2> DEFINE n == Len(b.cases)
             new == [by |-> by, amount |-> cents]
             cases == Append(b.cases, new)
  <2>1. after = [b EXCEPT !.cases = cases]
    BY <1>4 DEF after, CaseOpened
  <2>2. new \in Case /\ new.by = by /\ new.amount = cents
    BY <1>4 DEF Case
  <2> HIDE DEF new
  <2>3. /\ cases \in Seq(Case) /\ Len(cases) = n + 1 /\ DOMAIN cases = 1 .. n + 1
        /\ cases[n + 1] = new /\ \A k \in 1 .. n : cases[k] = b.cases[k]
    BY <1>1, <2>2
  <2> HIDE DEF cases
  <2>4. /\ after \in Books /\ after.cases = cases
        /\ after.totals = b.totals /\ after.standing = b.standing
        /\ after.payments = b.payments /\ after.credits = b.credits
        /\ after.reversals = b.reversals /\ after.refunds = b.refunds
    BY <2>1, <2>3 DEF Books
  <2>5. ASSUME NEW other
        PROVE  CaseSum(after, other) = CaseSum(b, other) + IF other = by THEN cents ELSE 0
    <3> DEFINE s == CaseOfEach(b, other)
               t == CaseOfEach(after, other)
    <3>1. /\ s \in [1 .. n -> Int] /\ CaseSum(b, other) = SumOf(s)
          /\ t \in [1 .. n + 1 -> Int] /\ CaseSum(after, other) = SumOf(t)
      BY <2>3, <2>4, TableSums
    <3>2. \A k \in 1 .. n : t[k] = s[k]
      BY <1>1, <2>3, <2>4 DEF CaseOfEach
    <3>3. t[n + 1] = IF other = by THEN cents ELSE 0
      BY <1>1, <2>2, <2>3, <2>4 DEF CaseOfEach
    <3>4. n \in Nat
      BY <1>1
    <3> HIDE DEF s, t, n
    <3>5. SumOf(t) = SumOf(s) + t[n + 1]
      BY <3>1, <3>2, <3>4, SumOfAppended
    <3> QED BY <3>1, <3>3, <3>5
  <2>6. AtLeastZero(cents) = cents
    BY <1>4 DEF AtLeastZero
  <2>7. \A k \in 1 .. n + 1 : k \in 1 .. n \/ k = n + 1
    BY <1>1
  <2> QED BY <1>1, <2>1, <2>2, <2>3, <2>4, <2>5, <2>6, <2>7 DEF IsCaseOpened
<1> QED BY <1>3, <1>4

IsCredited(b, origin, cents, after) ==
    /\ after \in Books
    /\ after.totals = b.totals /\ after.standing = b.standing
    /\ after.payments = b.payments /\ after.reversals = b.reversals
    /\ after.refunds = b.refunds /\ after.cases = b.cases
    /\ \A other : HeldOf(after, other) = HeldOf(b, other)
    /\ \A other : CreditsOf(after, other) =
         CreditsOf(b, other) + IF other = origin THEN AtLeastZero(cents) ELSE 0
    /\ \A c \in DOMAIN after.credits :
         \/ c \in DOMAIN b.credits /\ after.credits[c] = b.credits[c]
         \/ /\ after.credits[c].origin = origin /\ after.credits[c].entries = <<>>
            /\ Single(after.credits[c]) /\ Spent(after.credits[c]) = 0

LEMMA CreditedIs ==
    ASSUME NEW b \in Books, NEW origin \in Origins, NEW cents \in Int
    PROVE  IsCredited(b, origin, cents, Credited(b, origin, cents))
<1> DEFINE after == Credited(b, origin, cents)
<1> SUFFICES IsCredited(b, origin, cents, after)
  OBVIOUS
<1> HIDE DEF after
<1>1. /\ b.credits \in Seq(Credit) /\ Len(b.credits) \in Nat
      /\ DOMAIN b.credits = 1 .. Len(b.credits)
  BY BooksAre
<1>2. \A other : HeldOf(b, other) \in Int /\ CreditsOf(b, other) \in Int
  BY TableSums
<1>3. CASE cents <= 0
  <2>1. after = b
    BY <1>3 DEF after, Credited
  <2>2. AtLeastZero(cents) = 0
    BY <1>3 DEF AtLeastZero
  <2> QED BY <1>2, <2>1, <2>2 DEF IsCredited
<1>4. CASE cents > 0
  <2> DEFINE n == Len(b.credits)
             new == [origin |-> origin, amount |-> cents, entries |-> <<>>]
             credits == Append(b.credits, new)
  <2>1. after = [b EXCEPT !.credits = credits]
    BY <1>4 DEF after, Credited
  <2>2. /\ new \in Credit /\ new.origin = origin /\ new.amount = cents /\ new.entries = <<>>
    BY <1>4 DEF Credit
  <2> HIDE DEF new
  <2>3. /\ credits \in Seq(Credit) /\ Len(credits) = n + 1 /\ DOMAIN credits = 1 .. n + 1
        /\ credits[n + 1] = new /\ \A c \in 1 .. n : credits[c] = b.credits[c]
    BY <1>1, <2>2
  <2> HIDE DEF credits
  <2>4. /\ after \in Books /\ after.credits = credits
        /\ after.totals = b.totals /\ after.standing = b.standing
        /\ after.payments = b.payments /\ after.cases = b.cases
        /\ after.reversals = b.reversals /\ after.refunds = b.refunds
    BY <2>1, <2>3 DEF Books
  <2>5. Single(new) /\ \A k \in DOMAIN new.entries : FALSE
    BY <2>2 DEF Single
  <2>6. Spent(new) = 0
    BY <2>2, EntriesOf, SumOfNothing
  <2>7. \A other : TakenBy(new, other) = 0
    BY <2>2, <2>5, TakenByOne
  <2>8. ASSUME NEW other
        PROVE  HeldOf(after, other) = HeldOf(b, other)
    <3> DEFINE s == TakenByEach(b, other)
               t == TakenByEach(after, other)
    <3>1. /\ s \in [1 .. n -> Int] /\ HeldOf(b, other) = SumOf(s) /\ SumOf(s) \in Int
          /\ t \in [1 .. n + 1 -> Int] /\ HeldOf(after, other) = SumOf(t)
      BY <2>3, <2>4, TableSums
    <3>2. \A k \in 1 .. n : t[k] = s[k]
      BY <1>1, <2>3, <2>4 DEF TakenByEach
    <3>3. t[n + 1] = 0
      BY <1>1, <2>3, <2>4, <2>7 DEF TakenByEach
    <3>4. n \in Nat
      BY <1>1
    <3> HIDE DEF s, t, n
    <3>5. SumOf(t) = SumOf(s) + t[n + 1]
      BY <3>1, <3>2, <3>4, SumOfAppended
    <3> QED BY <3>1, <3>3, <3>5
  <2>9. ASSUME NEW other
        PROVE  CreditsOf(after, other) = CreditsOf(b, other) + IF other = origin THEN cents ELSE 0
    <3> DEFINE s == AmountOfEach(b, other)
               t == AmountOfEach(after, other)
    <3>1. /\ s \in [1 .. n -> Int] /\ CreditsOf(b, other) = SumOf(s)
          /\ t \in [1 .. n + 1 -> Int] /\ CreditsOf(after, other) = SumOf(t)
      BY <2>3, <2>4, TableSums
    <3>2. \A k \in 1 .. n : t[k] = s[k]
      BY <1>1, <2>3, <2>4 DEF AmountOfEach
    <3>3. t[n + 1] = IF other = origin THEN cents ELSE 0
      BY <1>1, <2>2, <2>3, <2>4 DEF AmountOfEach
    <3>4. n \in Nat
      BY <1>1
    <3> HIDE DEF s, t, n
    <3>5. SumOf(t) = SumOf(s) + t[n + 1]
      BY <3>1, <3>2, <3>4, SumOfAppended
    <3> QED BY <3>1, <3>3, <3>5
  <2>10. AtLeastZero(cents) = cents
    BY <1>4 DEF AtLeastZero
  <2>11. \A c \in 1 .. n + 1 : c \in 1 .. n \/ c = n + 1
    BY <1>1
  <2> QED BY <1>1, <2>1, <2>2, <2>3, <2>4, <2>5, <2>6, <2>8, <2>9, <2>10, <2>11
    DEF IsCredited
<1> QED BY <1>3, <1>4

-----------------------------------------------------------------------------
(* How a withdrawal divides                                                *)

LEMMA OpenOfIs ==
    ASSUME NEW credit \in Credit
    PROVE  OpenOf(credit) = AtLeastZero(credit.amount - Spent(credit)) /\ OpenOf(credit) \in Nat
<1>1. OpenOf(credit) = AtLeastZero(credit.amount - Spent(credit))
  BY DEF OpenOf, Spent
<1>2. credit.amount \in Int /\ Spent(credit) \in Int
  BY RowsAre, SpentInt
<1> QED BY <1>1, <1>2, AtLeastZeroIs

\* What is dealt of an amount is no more than it, and no part more than its cap.
IsDealt(n, amount, caps, dealt) ==
    /\ dealt \in [1 .. n -> Int]
    /\ \A i \in 1 .. n : 0 <= dealt[i] /\ dealt[i] <= caps[i]
    /\ SumOf(dealt) \in Nat
    /\ SumOf(dealt) <= amount
    /\ SumOf(dealt) <= SumOf(caps)
    /\ amount <= SumOf(caps) => SumOf(dealt) = amount
    /\ SumOf(dealt) = amount \/ SumOf(dealt) = SumOf(caps)

LEMMA DealtTakes ==
    ASSUME NEW n \in Nat, NEW caps \in [1 .. n -> Int], NEW amount \in Int, amount >= 0,
           \A i \in 1 .. n : caps[i] >= 0
    PROVE  IsDealt(n, amount, caps, Dealt(amount, caps))
<1> DEFINE cap == [i \in 1 .. n |-> AtLeastZero(caps[i])]
<1>1. \A i \in 1 .. n : AtLeastZero(caps[i]) = caps[i]
  BY DEF AtLeastZero
<1>2. cap = caps
  BY <1>1
<1>3. AtLeastZero(amount) = amount
  BY DEF AtLeastZero
<1> DEFINE dealt == Dealt(amount, caps)
<1>4. /\ dealt \in [1 .. n -> Int]
      /\ \A i \in 1 .. n : dealt[i] \in Nat /\ dealt[i] <= AtLeastZero(caps[i])
      /\ SumOf(dealt) = Least(AtLeastZero(amount), SumOf(cap))
  BY DealtIs
<1> HIDE DEF dealt
<1>5. SumOf(caps) \in Nat
  BY SumOfNat
<1>6. \A i \in 1 .. n : 0 <= dealt[i] /\ dealt[i] <= caps[i]
  BY <1>1, <1>4
<1>7. SumOf(dealt) = Least(amount, SumOf(caps))
  BY <1>2, <1>3, <1>4
<1> HIDE DEF cap
<1>8. IsDealt(n, amount, caps, dealt)
  BY <1>4, <1>5, <1>6, <1>7 DEF Least, IsDealt
<1> QED BY <1>8 DEF dealt

LEMMA LeftOfCreditsAre ==
    ASSUME NEW b \in Books, NEW p
    PROVE  /\ LeftOfCredits(b, p) \in [1 .. Len(b.credits) -> Int]
           /\ \A c \in 1 .. Len(b.credits) :
                /\ LeftOfCredits(b, p)[c] >= 0
                /\ ~IsOwnCreditOf(b.credits[c], p) => LeftOfCredits(b, p)[c] = 0
<1> DEFINE n == Len(b.credits)
           own == [c \in 1 .. n |->
                      IF IsOwnCreditOf(b.credits[c], p) THEN b.credits[c].amount ELSE 0]
           each == [r \in 1 .. Len(b.reversals) |->
                       IF b.reversals[r].payment = p THEN b.reversals[r].fromCredit ELSE 0]
           taken == SumOf(each)
           here == Dealt(taken, own)
<1>1. /\ n \in Nat /\ DOMAIN b.credits = 1 .. n
      /\ \A c \in 1 .. n : b.credits[c] \in Credit
      /\ Len(b.reversals) \in Nat /\ DOMAIN b.reversals = 1 .. Len(b.reversals)
      /\ \A r \in 1 .. Len(b.reversals) : b.reversals[r] \in Reversal
  BY BooksAre
<1>2. \A c \in 1 .. n : b.credits[c].amount \in Nat
  BY <1>1, RowsAre
<1>3. own \in [1 .. n -> Int] /\ \A c \in 1 .. n : own[c] >= 0
  BY <1>2
<1>4. \A c \in 1 .. n : ~IsOwnCreditOf(b.credits[c], p) => own[c] = 0
  OBVIOUS
<1>5. each \in [1 .. Len(b.reversals) -> Int] /\ \A r \in 1 .. Len(b.reversals) : each[r] >= 0
  BY <1>1, RowsAre
<1>6. taken \in Nat
  BY <1>1, <1>5, SumOfNat
<1>7. LeftOfCredits(b, p) = [c \in 1 .. n |-> own[c] - here[c]]
  BY <1>1 DEF LeftOfCredits, FromCredits, Total
<1> HIDE DEF own, taken
<1>8. IsDealt(n, taken, own, here)
  BY <1>1, <1>3, <1>6, DealtTakes
<1> HIDE DEF here
<1>9. here \in [1 .. n -> Int] /\ \A c \in 1 .. n : 0 <= here[c] /\ here[c] <= own[c]
  BY <1>8 DEF IsDealt
<1>10. ASSUME NEW c \in 1 .. n
       PROVE  /\ LeftOfCredits(b, p)[c] \in Int /\ LeftOfCredits(b, p)[c] >= 0
              /\ ~IsOwnCreditOf(b.credits[c], p) => LeftOfCredits(b, p)[c] = 0
  <2>1. LeftOfCredits(b, p)[c] = own[c] - here[c]
    BY <1>7
  <2>2. own[c] \in Int /\ here[c] \in Int /\ 0 <= here[c] /\ here[c] <= own[c]
    BY <1>3, <1>9
  <2> QED BY <1>4, <2>1, <2>2
<1>11. LeftOfCredits(b, p) \in [1 .. n -> Int]
  BY <1>7, <1>10
<1> QED BY <1>10, <1>11

\* The parts of a withdrawal take nothing that is not open, nothing twice, and
\* come to its amount.
PartsAre(b, p, amount, parts) ==
    /\ parts.fromCredit \in Nat
    /\ parts.credits \in [1 .. Len(b.credits) -> Int]
    /\ parts.covered \in [1 .. Len(b.credits) -> Int]
    /\ parts.beyondOpen \in [1 .. Len(b.credits) -> Int]
    /\ \A c \in 1 .. Len(b.credits) :
         /\ parts.credits[c] >= 0 /\ parts.covered[c] >= 0 /\ parts.beyondOpen[c] >= 0
         /\ parts.credits[c] + parts.covered[c] <= OpenOf(b.credits[c])
    /\ parts.opens \in [Invoices -> Int]
    /\ \A i \in Invoices : 0 <= parts.opens[i] /\ parts.opens[i] <= b.payments[p].settles[i]
    /\ parts.unmatched \in Int
    /\ SumOf(parts.beyondOpen) <= parts.unmatched
    /\ SumOf(parts.credits) + SumOf(parts.covered) + SumOf(parts.opens) + parts.unmatched = amount

LEMMA WithdrawalPartsAre ==
    ASSUME NEW b \in Books, NEW p \in 1 .. Len(b.payments), NEW amount \in Nat,
           \A i \in Invoices : b.payments[p].settles[i] >= 0
    PROVE  PartsAre(b, p, amount, WithdrawalParts(b, p, amount))
<1> DEFINE n == Len(b.credits)
           settles == b.payments[p].settles
           open == CoverOpen(b, p)
           share == Dealt(amount, LeftOfCredits(b, p))
           opening == Dealt(amount - SumOf(share), settles)
           covered == Dealt(SumOf(opening), open)
           kept == Dealt(SumOf(covered), opening)
           ofOpen == [c \in 1 .. n |-> Least(share[c], OpenOf(b.credits[c]))]
           beyond == [c \in 1 .. n |-> share[c] - ofOpen[c]]
           opens == [i \in Invoices |-> opening[i] - kept[i]]
           parts == WithdrawalParts(b, p, amount)
<1>1. /\ n \in Nat /\ DOMAIN b.credits = 1 .. n
      /\ \A c \in 1 .. n : b.credits[c] \in Credit
      /\ b.payments[p] \in Payment
  BY BooksAre
<1>2. /\ Invoices = 1 .. MaxInvoices /\ MaxInvoices \in Nat
      /\ settles \in [1 .. MaxInvoices -> Int] /\ \A i \in 1 .. MaxInvoices : settles[i] >= 0
  BY <1>1, RowsAre
<1>3. \A c \in 1 .. n : OpenOf(b.credits[c]) \in Nat
  BY <1>1, OpenOfIs
<1>4. /\ open \in [1 .. n -> Int]
      /\ \A c \in 1 .. n : /\ 0 <= open[c] /\ open[c] <= OpenOf(b.credits[c])
                           /\ IsOwnCreditOf(b.credits[c], p) => open[c] = 0
  BY <1>1, <1>3 DEF CoverOpen, Covers
<1>5. parts = [fromCredit |-> SumOf(share), credits |-> ofOpen, beyondOpen |-> beyond,
               covered |-> covered, opens |-> opens,
               unmatched |-> amount - SumOf(ofOpen) - SumOf(opening)]
  BY <1>1 DEF WithdrawalParts, PartsOf
<1> SUFFICES PartsAre(b, p, amount, parts)
  OBVIOUS
<1> HIDE DEF settles, open, parts
<1>6. /\ share \in [1 .. n -> Int] /\ SumOf(share) \in Nat /\ SumOf(share) <= amount
      /\ \A c \in 1 .. n : /\ 0 <= share[c]
                           /\ ~IsOwnCreditOf(b.credits[c], p) => share[c] = 0
  <2>1. /\ LeftOfCredits(b, p) \in [1 .. n -> Int]
        /\ \A c \in 1 .. n : /\ LeftOfCredits(b, p)[c] >= 0
                             /\ ~IsOwnCreditOf(b.credits[c], p) => LeftOfCredits(b, p)[c] = 0
    BY LeftOfCreditsAre
  <2> DEFINE left == LeftOfCredits(b, p)
  <2> HIDE DEF left, n
  <2>2. left \in [1 .. n -> Int] /\ \A c \in 1 .. n : left[c] >= 0
    BY <2>1 DEF left
  <2>3. IsDealt(n, amount, left, Dealt(amount, left))
    BY <1>1, <2>2, DealtTakes
  <2>4. IsDealt(n, amount, left, share)
    BY <2>3 DEF left
  <2>5. \A c \in 1 .. n : ~IsOwnCreditOf(b.credits[c], p) => left[c] = 0
    BY <2>1 DEF left
  <2> HIDE DEF share
  <2> QED BY <2>2, <2>4, <2>5 DEF IsDealt
<1> HIDE DEF share
<1>7. /\ opening \in [1 .. MaxInvoices -> Int] /\ SumOf(opening) \in Nat
      /\ SumOf(opening) <= amount - SumOf(share)
      /\ \A i \in 1 .. MaxInvoices : 0 <= opening[i] /\ opening[i] <= settles[i]
  <2>1. amount - SumOf(share) \in Int /\ amount - SumOf(share) >= 0
    BY <1>6
  <2>2. IsDealt(MaxInvoices, amount - SumOf(share), settles, opening)
    BY <1>2, <2>1, DealtTakes
  <2> HIDE DEF opening
  <2> QED BY <2>2 DEF IsDealt
<1> HIDE DEF opening
<1>8. /\ covered \in [1 .. n -> Int] /\ SumOf(covered) \in Nat
      /\ SumOf(covered) <= SumOf(opening)
      /\ \A c \in 1 .. n : 0 <= covered[c] /\ covered[c] <= open[c]
  <2>1. IsDealt(n, SumOf(opening), open, covered)
    <3>1. /\ n \in Nat /\ open \in [1 .. n -> Int] /\ \A c \in 1 .. n : open[c] >= 0
          /\ SumOf(opening) \in Int /\ SumOf(opening) >= 0
      BY <1>1, <1>4, <1>7
    <3> HIDE DEF n
    <3> QED BY <3>1, DealtTakes
  <2> HIDE DEF covered
  <2> QED BY <2>1 DEF IsDealt
<1> HIDE DEF covered
<1>9. /\ kept \in [1 .. MaxInvoices -> Int] /\ SumOf(kept) = SumOf(covered)
      /\ \A i \in 1 .. MaxInvoices : 0 <= kept[i] /\ kept[i] <= opening[i]
  <2>1. /\ MaxInvoices \in Nat /\ opening \in [1 .. MaxInvoices -> Int]
        /\ \A i \in 1 .. MaxInvoices : opening[i] >= 0
        /\ SumOf(covered) \in Int /\ SumOf(covered) >= 0
    BY <1>2, <1>7, <1>8
  <2>2. IsDealt(MaxInvoices, SumOf(covered), opening, kept)
    BY <2>1, DealtTakes
  <2> HIDE DEF kept
  <2> QED BY <1>8, <2>2 DEF IsDealt
<1> HIDE DEF kept
<1>10. /\ ofOpen \in [1 .. n -> Int] /\ beyond \in [1 .. n -> Int]
       /\ \A c \in 1 .. n : /\ 0 <= ofOpen[c] /\ ofOpen[c] <= OpenOf(b.credits[c])
                            /\ 0 <= beyond[c] /\ share[c] = ofOpen[c] + beyond[c]
                            /\ share[c] = 0 => ofOpen[c] = 0
  <2> SUFFICES ASSUME NEW c \in 1 .. n
               PROVE  /\ ofOpen[c] \in Int /\ beyond[c] \in Int
                      /\ 0 <= ofOpen[c] /\ ofOpen[c] <= OpenOf(b.credits[c])
                      /\ 0 <= beyond[c] /\ share[c] = ofOpen[c] + beyond[c]
                      /\ share[c] = 0 => ofOpen[c] = 0
    OBVIOUS
  <2>1. share[c] \in Nat /\ OpenOf(b.credits[c]) \in Nat
    BY <1>3, <1>6
  <2>2. /\ ofOpen[c] = Least(share[c], OpenOf(b.credits[c]))
        /\ beyond[c] = share[c] - ofOpen[c]
    OBVIOUS
  <2> HIDE DEF ofOpen, beyond
  <2> QED BY <2>1, <2>2 DEF Least
<1>11. /\ opens \in [1 .. MaxInvoices -> Int]
       /\ \A i \in 1 .. MaxInvoices : /\ 0 <= opens[i] /\ opens[i] <= opening[i]
                                      /\ opening[i] = opens[i] + kept[i]
  <2> SUFFICES ASSUME NEW i \in 1 .. MaxInvoices
               PROVE  /\ opens[i] \in Int /\ 0 <= opens[i] /\ opens[i] <= opening[i]
                      /\ opening[i] = opens[i] + kept[i]
    BY <1>2
  <2>1. opens[i] = opening[i] - kept[i]
    BY <1>2
  <2>2. opening[i] \in Int
    BY <1>7
  <2>3. kept[i] \in Int /\ 0 <= kept[i] /\ kept[i] <= opening[i]
    BY <1>9
  <2> HIDE DEF opens
  <2> QED BY <2>1, <2>2, <2>3
<1> HIDE DEF ofOpen, beyond, opens
<1>12. SumOf(share) = SumOf(ofOpen) + SumOf(beyond)
  BY <1>1, <1>6, <1>10, SumOfAdds
<1>13. SumOf(opening) = SumOf(opens) + SumOf(kept)
  BY <1>2, <1>7, <1>9, <1>11, SumOfAdds
<1>14. SumOf(ofOpen) \in Int /\ SumOf(beyond) \in Int /\ SumOf(opens) \in Int
  BY <1>1, <1>2, <1>10, <1>11, SumOfInt
<1>15. ASSUME NEW c \in 1 .. n
       PROVE  ofOpen[c] + covered[c] <= OpenOf(b.credits[c])
  <2>1. /\ OpenOf(b.credits[c]) \in Nat /\ ofOpen[c] \in Int /\ covered[c] \in Int
        /\ open[c] \in Int /\ covered[c] <= open[c] /\ open[c] <= OpenOf(b.credits[c])
        /\ 0 <= covered[c] /\ ofOpen[c] <= OpenOf(b.credits[c])
    BY <1>3, <1>4, <1>8, <1>10
  <2>2. CASE IsOwnCreditOf(b.credits[c], p)
    <3>1. open[c] = 0
      BY <1>4, <2>2
    <3> QED BY <2>1, <3>1
  <2>3. CASE ~IsOwnCreditOf(b.credits[c], p)
    <3>1. ofOpen[c] = 0
      BY <1>6, <1>10, <2>3
    <3> QED BY <2>1, <3>1
  <2> QED BY <2>2, <2>3
<1>16. \A i \in 1 .. MaxInvoices : opens[i] <= settles[i]
  <2> SUFFICES ASSUME NEW i \in 1 .. MaxInvoices
               PROVE  opens[i] <= settles[i]
    OBVIOUS
  <2>1. settles[i] \in Int
    BY <1>2
  <2>2. opening[i] \in Int /\ opening[i] <= settles[i]
    BY <1>7
  <2>3. opens[i] \in Int /\ opens[i] <= opening[i]
    BY <1>11
  <2> QED BY <2>1, <2>2, <2>3
<1> DEFINE unmatched == amount - SumOf(ofOpen) - SumOf(opening)
<1>17. /\ unmatched \in Int /\ SumOf(beyond) <= unmatched
       /\ SumOf(ofOpen) + SumOf(covered) + SumOf(opens) + unmatched = amount
  <2>1. /\ SumOf(share) \in Int /\ SumOf(opening) \in Int /\ SumOf(covered) \in Int
        /\ SumOf(ofOpen) \in Int /\ SumOf(beyond) \in Int /\ SumOf(opens) \in Int
        /\ SumOf(opening) <= amount - SumOf(share)
        /\ SumOf(kept) = SumOf(covered)
        /\ SumOf(share) = SumOf(ofOpen) + SumOf(beyond)
        /\ SumOf(opening) = SumOf(opens) + SumOf(kept)
    BY <1>6, <1>7, <1>8, <1>9, <1>12, <1>13, <1>14
  <2>2. SumOf(opening) = SumOf(opens) + SumOf(covered)
    BY <2>1
  <2>3. SumOf(opening) <= amount - (SumOf(ofOpen) + SumOf(beyond))
    BY <2>1
  <2>4. unmatched \in Int /\ unmatched = amount - SumOf(ofOpen) - SumOf(opening)
    BY <2>1
  <2> HIDE DEF unmatched
  <2>5. SumOf(beyond) <= unmatched
    BY <2>1, <2>3, <2>4
  <2>6. SumOf(ofOpen) + SumOf(covered) + SumOf(opens) + unmatched = amount
    BY <2>1, <2>2, <2>4
  <2> QED BY <2>4, <2>5, <2>6
<1>18. /\ parts.fromCredit = SumOf(share) /\ parts.credits = ofOpen /\ parts.beyondOpen = beyond
       /\ parts.covered = covered /\ parts.opens = opens /\ parts.unmatched = unmatched
  BY <1>5
<1> HIDE DEF unmatched
<1> QED BY <1>2, <1>6, <1>8, <1>10, <1>11, <1>15, <1>16, <1>17, <1>18 DEF PartsAre, settles

-----------------------------------------------------------------------------
(* What the books keep                                                     *)

\* Nothing negative is entered on a credit, nor more than it is of, but for
\* `more` while a withdrawal still lifts covers of it.
CreditKept(credit, more) ==
    Single(credit) /\ NoneNegative(credit) /\ Spent(credit) <= credit.amount + more

\* No invoice is settled by less than nothing, nor beyond its total, nor before
\* there is one.
SettlesKept(b) ==
    /\ \A p \in 1 .. Len(b.payments) : \A i \in Invoices :
         /\ b.payments[p].settles[i] >= 0
         /\ i > Len(b.totals) => b.payments[p].settles[i] = 0
    /\ \A i \in 1 .. Len(b.totals) : SettledOn(b, i) <= AtLeastZero(b.totals[i])

Sound(b, lifting) ==
    /\ b \in Books /\ Named(b)
    /\ \A c \in 1 .. Len(b.credits) : CreditKept(b.credits[c], lifting[c])
    /\ SettlesKept(b)

Unmatched(b, r) == CaseSum(b, <<"reversal", r>>) - b.reversals[r].toCases

Reopened(b, r) == SumOf(b.reversals[r].opened) - CreditsOf(b, <<"reversal", r>>)

\* The parts of a reversal come to its amount, but for what it has yet to take.
Fits(b, r, short) ==
    /\ Unmatched(b, r) >= 0 /\ Reopened(b, r) >= 0
    /\ Unmatched(b, r) + Reopened(b, r) + HeldOf(b, <<"reversal", r>>) + short
         = b.reversals[r].amount - b.reversals[r].reinstated

\* Those of all reversals, of which r has yet to take `short`.
AllFit(b, r, short) ==
    \A s \in 1 .. Len(b.reversals) : Fits(b, s, IF s = r THEN short ELSE 0)

\* `after` has the rows of b, and says more of them.
Extends(b, after) ==
    /\ after.totals = b.totals /\ after.standing = b.standing
    /\ Len(after.payments) = Len(b.payments)
    /\ Len(after.credits) = Len(b.credits)
    /\ Len(after.reversals) = Len(b.reversals)
    /\ \A r \in 1 .. Len(b.reversals) :
         /\ after.reversals[r].payment = b.reversals[r].payment
         /\ after.reversals[r].amount = b.reversals[r].amount
         /\ after.reversals[r].reinstated = b.reversals[r].reinstated
    /\ \A c \in 1 .. Len(b.credits) :
         /\ DOMAIN b.credits[c].entries \subseteq DOMAIN after.credits[c].entries
         /\ \A k \in DOMAIN b.credits[c].entries :
              after.credits[c].entries[k].by = b.credits[c].entries[k].by

LEMMA ReversalNames ==
    /\ \A r \in Nat : <<"reversal", r>> \in By /\ <<"reversal", r>> \in Origins
    /\ \A r, s : <<"reversal", r>> = <<"reversal", s>> <=> r = s
    /\ \A r \in Nat : \A n \in Nat : r \in 1 .. n => NamesOneOf(<<"reversal", r>>, n)
  BY DEF By, Origins, NamesOneOf

\* What is kept where only what a reversal took of the credits is said.
SameBut(reversal, after) ==
    /\ after.payment = reversal.payment /\ after.amount = reversal.amount
    /\ after.reinstated = reversal.reinstated /\ after.toCases = reversal.toCases
    /\ after.opened = reversal.opened

TakenFrom(b, r, cents) == [b EXCEPT !.reversals[r].fromCredit = @ + cents]

IsTakenFrom(b, after) ==
    /\ after \in Books
    /\ after.totals = b.totals /\ after.standing = b.standing
    /\ after.payments = b.payments /\ after.credits = b.credits
    /\ after.refunds = b.refunds /\ after.cases = b.cases
    /\ Len(after.reversals) = Len(b.reversals)
    /\ \A s \in 1 .. Len(b.reversals) : SameBut(b.reversals[s], after.reversals[s])

LEMMA TakenFromIs ==
    ASSUME NEW b \in Books, NEW r \in 1 .. Len(b.reversals), NEW cents \in Nat
    PROVE  IsTakenFrom(b, TakenFrom(b, r, cents))
<1> DEFINE after == TakenFrom(b, r, cents)
<1> SUFFICES IsTakenFrom(b, after)
  OBVIOUS
<1> HIDE DEF after
<1> DEFINE reversals == [b.reversals EXCEPT ![r].fromCredit = @ + cents]
<1>1. /\ b.reversals \in Seq(Reversal) /\ DOMAIN b.reversals = 1 .. Len(b.reversals)
      /\ \A s \in 1 .. Len(b.reversals) : b.reversals[s] \in Reversal
  BY BooksAre
<1>2. [b.reversals[r] EXCEPT !.fromCredit = @ + cents] \in Reversal
  <2> DEFINE reversal == b.reversals[r]
  <2>1. reversal \in Reversal /\ reversal.fromCredit + cents \in Nat
    BY <1>1, RowsAre
  <2> HIDE DEF reversal
  <2>2. [reversal EXCEPT !.fromCredit = @ + cents] \in Reversal
    BY <2>1 DEF Reversal
  <2> QED BY <2>2 DEF reversal
<1>3. reversals \in Seq(Reversal) /\ Len(reversals) = Len(b.reversals)
  BY <1>1, <1>2
<1>4. \A s \in 1 .. Len(b.reversals) : SameBut(b.reversals[s], reversals[s])
  BY <1>1 DEF Reversal, SameBut
<1>5. after = [b EXCEPT !.reversals = reversals]
  BY DEF after, TakenFrom
<1> HIDE DEF reversals
<1> QED BY <1>3, <1>4, <1>5 DEF Books, IsTakenFrom

\* What `one` and `other` take of the credit leaves it kept, but for `left`.
MayHold(credit, one, other, left) ==
    0 <= one + other /\ Spent(credit) + one + other <= credit.amount + left

\* What a reversal takes: no more than there is, and what its parts are short of.
MayTake(b, r, parts, ofOwn, cases, left) ==
    /\ cases \in Nat /\ ofOwn \in [1 .. Len(b.credits) -> Int]
    /\ parts.covered \in [1 .. Len(b.credits) -> Int]
    /\ parts.fromCredit \in Nat /\ parts.opens \in [Invoices -> Int]
    /\ \A i \in Invoices : /\ 0 <= parts.opens[i]
                           /\ parts.opens[i] <= b.payments[b.reversals[r].payment].settles[i]
    /\ left \in [1 .. Len(b.credits) -> Int]
    /\ \A c \in 1 .. Len(b.credits) : MayHold(b.credits[c], ofOwn[c], parts.covered[c], left[c])
    /\ AllFit(b, r, SumOf(ofOwn) + SumOf(parts.covered) + SumOf(parts.opens) + cases)

LEMMA TakenKeeps ==
    ASSUME NEW b, NEW lifting, Sound(b, lifting),
           NEW r \in 1 .. Len(b.reversals), NEW parts, NEW cases, NEW ofOwn, NEW left,
           MayTake(b, r, parts, ofOwn, cases, left),
           NEW after, after = Taken(b, r, parts, ofOwn, cases)
    PROVE  /\ Sound(after, left) /\ AllFit(after, r, 0) /\ Extends(b, after)
           /\ \A c \in 1 .. Len(b.credits) : \A k \in DOMAIN b.credits[c].entries :
                after.credits[c].entries[k].cents >= b.credits[c].entries[k].cents
<1> DEFINE n == Len(b.credits)
           m == Len(b.reversals)
           p == b.reversals[r].payment
           by == <<"reversal", r>>
           opens == parts.opens
           take == [c \in 1 .. n |-> ofOwn[c] + parts.covered[c]]
           b1 == EnteredAll(b, by, take)
           b2 == Opened(b1, r, opens)
           b3 == [b2 EXCEPT !.reversals[r].fromCredit = @ + parts.fromCredit]
           b4 == CaseOpened(b3, by, cases)
<1>0. /\ cases \in Nat /\ ofOwn \in [1 .. Len(b.credits) -> Int]
      /\ parts.covered \in [1 .. Len(b.credits) -> Int]
      /\ parts.fromCredit \in Nat /\ parts.opens \in [Invoices -> Int]
      /\ \A i \in Invoices : /\ 0 <= parts.opens[i]
                             /\ parts.opens[i] <= b.payments[b.reversals[r].payment].settles[i]
      /\ left \in [1 .. Len(b.credits) -> Int]
      /\ \A c \in 1 .. Len(b.credits) :
           /\ 0 <= ofOwn[c] + parts.covered[c]
           /\ Spent(b.credits[c]) + ofOwn[c] + parts.covered[c] <= b.credits[c].amount + left[c]
      /\ AllFit(b, r, SumOf(ofOwn) + SumOf(parts.covered) + SumOf(parts.opens) + cases)
  BY DEF MayTake, MayHold
<1>1. /\ b \in Books /\ Named(b) /\ SettlesKept(b)
      /\ \A c \in 1 .. n : CreditKept(b.credits[c], lifting[c])
  BY DEF Sound
<1>2. /\ n \in Nat /\ DOMAIN b.credits = 1 .. n /\ \A c \in 1 .. n : b.credits[c] \in Credit
      /\ m \in Nat /\ DOMAIN b.reversals = 1 .. m
      /\ Len(b.payments) \in Nat /\ DOMAIN b.payments = 1 .. Len(b.payments)
      /\ DOMAIN b.cases = 1 .. Len(b.cases)
  BY <1>1, BooksAre
<1>3. p \in 1 .. Len(b.payments)
  BY <1>1, <1>2 DEF Named
<1>4. by \in By
  BY <1>2, ReversalNames
<1>5. /\ take \in [1 .. n -> Int]
      /\ \A c \in 1 .. n : take[c] = ofOwn[c] + parts.covered[c]
      /\ \A c \in 1 .. n : 0 <= take[c]
      /\ \A c \in 1 .. n : Spent(b.credits[c]) + take[c] <= b.credits[c].amount + left[c]
  <2>1. /\ take \in [1 .. n -> Int]
        /\ \A c \in 1 .. n : take[c] = ofOwn[c] + parts.covered[c]
    BY <1>0
  <2>2. \A c \in 1 .. n : /\ Spent(b.credits[c]) \in Int /\ ofOwn[c] \in Int
                          /\ parts.covered[c] \in Int
    BY <1>0, <1>2, SpentInt
  <2> HIDE DEF take, n
  <2>3. ASSUME NEW c \in 1 .. n
        PROVE  0 <= take[c] /\ Spent(b.credits[c]) + take[c] <= b.credits[c].amount + left[c]
    BY <1>0, <2>1, <2>2 DEF n
  <2> QED BY <2>1, <2>3
<1>6. after = b4
  <2>1. take = [c \in DOMAIN b.credits |-> ofOwn[c] + parts.covered[c]]
    BY <1>2
  <2> QED BY <2>1 DEF Taken
<1> HIDE DEF take
<1>7. SumOf(take) = SumOf(ofOwn) + SumOf(parts.covered)
  BY <1>0, <1>2, <1>5, SumOfAdds
<1>8. \A c \in DOMAIN b.credits : Single(b.credits[c])
  BY <1>1, <1>2 DEF CreditKept
<1>9. IsEnteredAll(b, by, take, b1)
  BY <1>1, <1>4, <1>5, <1>8, EnteredAllIs
<1> HIDE DEF b1
<1>10. IsOpened(b1, r, p, opens, b2)
  <2>1. /\ b1 \in Books /\ r \in 1 .. Len(b1.reversals) /\ p \in 1 .. Len(b1.payments)
        /\ p = b1.reversals[r].payment
    BY <1>3, <1>9 DEF IsEnteredAll
  <2> HIDE DEF p, opens, b2
  <2>2. opens \in [Invoices -> Int]
    BY <1>0 DEF opens
  <2>3. IsOpened(b1, r, p, opens, Opened(b1, r, opens))
    BY <2>1, <2>2, OpenedIs
  <2> QED BY <2>3 DEF b2
<1> HIDE DEF b2
<1>11. IsTakenFrom(b2, b3)
  <2>1. b2 \in Books /\ r \in 1 .. Len(b2.reversals) /\ parts.fromCredit \in Nat
    BY <1>0, <1>9, <1>10 DEF IsOpened, IsEnteredAll
  <2>2. b3 = TakenFrom(b2, r, parts.fromCredit)
    BY DEF TakenFrom
  <2> HIDE DEF b3
  <2> QED BY <2>1, <2>2, TakenFromIs
<1> HIDE DEF b3
<1>12. IsCaseOpened(b3, by, cases, b4)
  BY <1>0, <1>4, <1>11, CaseOpenedIs DEF IsTakenFrom
<1> HIDE DEF b4
<1>13. /\ after \in Books /\ after.totals = b.totals /\ after.standing = b.standing
       /\ Len(after.payments) = Len(b.payments) /\ Len(after.credits) = n
       /\ Len(after.reversals) = m /\ after.payments = b2.payments /\ after.credits = b1.credits
  BY <1>6, <1>9, <1>10, <1>11, <1>12 DEF IsEnteredAll, IsOpened, IsTakenFrom, IsCaseOpened
<1>14. \A q \in 1 .. Len(b.payments) : \A i \in Invoices : after.payments[q].settles[i] =
         IF q = p THEN b.payments[q].settles[i] - opens[i] ELSE b.payments[q].settles[i]
  BY <1>9, <1>10, <1>13 DEF IsEnteredAll, IsOpened
<1>15. \A c \in 1 .. n : IsEntered(b.credits[c], by, take[c], after.credits[c])
  BY <1>9, <1>13 DEF IsEnteredAll
<1>16. \A s \in 1 .. m :
         /\ after.reversals[s].payment = b.reversals[s].payment
         /\ after.reversals[s].amount = b.reversals[s].amount
         /\ after.reversals[s].reinstated = b.reversals[s].reinstated
         /\ after.reversals[s].toCases = b.reversals[s].toCases
         /\ SumOf(after.reversals[s].opened) =
              SumOf(b.reversals[s].opened) + IF s = r THEN SumOf(opens) ELSE 0
  BY <1>6, <1>12, <1>9, <1>10, <1>11 DEF IsCaseOpened, IsEnteredAll, IsOpened, IsTakenFrom,
     SameBut
<1>17. \A i \in Invoices : SettledOn(after, i) = SettledOn(b, i) - opens[i]
  BY <1>10, <1>9, SameSums, <1>13 DEF IsOpened, IsEnteredAll
<1>18. \A other : HeldOf(after, other) = HeldOf(b, other) + IF other = by THEN SumOf(take) ELSE 0
  <2>1. \A other : HeldOf(after, other) = HeldOf(b1, other)
    BY <1>13, SameSums
  <2> QED BY <1>9, <2>1 DEF IsEnteredAll
<1>19. \A origin : CreditsOf(after, origin) = CreditsOf(b, origin)
  <2>1. \A origin : CreditsOf(after, origin) = CreditsOf(b1, origin)
    BY <1>13, SameSums
  <2> QED BY <1>9, <2>1 DEF IsEnteredAll
<1>20. /\ \A other : CaseSum(after, other) = CaseSum(b, other) + IF other = by THEN cases ELSE 0
       /\ \A k \in DOMAIN after.cases :
            \/ after.cases[k].by = by
            \/ k \in DOMAIN b.cases /\ after.cases[k] = b.cases[k]
  BY <1>0, <1>9, <1>10, <1>11, SameSums, <1>6, <1>12 DEF AtLeastZero, IsEnteredAll, IsOpened,
     IsTakenFrom, IsCaseOpened
<1> HIDE DEF opens, p
<1>21. Named(after)
  <2>1. /\ Len(after.totals) \in Invoices /\ after.standing \in 0 .. Len(after.totals)
    BY <1>1, <1>13 DEF Named
  <2>2. DOMAIN after.reversals = 1 .. m /\ DOMAIN after.payments = 1 .. Len(b.payments)
        /\ DOMAIN after.credits = 1 .. n
    BY <1>13, BooksAre
  <2>3. \A s \in DOMAIN after.reversals : after.reversals[s].payment \in DOMAIN after.payments
    BY <1>1, <1>2, <1>16, <2>2 DEF Named
  <2>4. NamesOneOf(by, m)
    BY <1>2, ReversalNames
  <2>5. ASSUME NEW c \in 1 .. n
        PROVE  /\ NamesOneOf(after.credits[c].origin, m)
               /\ \A k \in DOMAIN after.credits[c].entries :
                    NamesOneOf(after.credits[c].entries[k].by, m)
    <3>1. /\ NamesOneOf(b.credits[c].origin, m)
          /\ \A k \in DOMAIN b.credits[c].entries : NamesOneOf(b.credits[c].entries[k].by, m)
      BY <1>1, <1>2 DEF Named
    <3>2. IsEntered(b.credits[c], by, take[c], after.credits[c])
      BY <1>15
    <3>3. after.credits[c].origin = b.credits[c].origin
      BY <3>2 DEF IsEntered
    <3>4. ASSUME NEW k \in DOMAIN after.credits[c].entries
          PROVE  NamesOneOf(after.credits[c].entries[k].by, m)
      BY <3>2, <2>4, <3>1 DEF IsEntered
    <3> QED BY <3>1, <3>3, <3>4
  <2>6. \A k \in DOMAIN after.cases : NamesOneOf(after.cases[k].by, m)
    BY <1>1, <1>20, <2>4 DEF Named
  <2> QED BY <1>13, <2>1, <2>2, <2>3, <2>5, <2>6 DEF Named
<1>22. ASSUME NEW c \in 1 .. n
       PROVE  CreditKept(after.credits[c], left[c])
  <2>1. IsEntered(b.credits[c], by, take[c], after.credits[c])
    BY <1>15
  <2>2. Single(b.credits[c]) /\ NoneNegative(b.credits[c])
    BY <1>1 DEF CreditKept
  <2>3. take[c] \in Int /\ take[c] >= 0
        /\ Spent(b.credits[c]) + take[c] <= b.credits[c].amount + left[c]
    BY <1>5
  <2>4. \A k \in DOMAIN b.credits[c].entries : b.credits[c].entries[k].cents \in Int
    BY <1>2, EntriesOf
  <2>5. NoneNegative(after.credits[c])
    <3> SUFFICES ASSUME NEW k \in DOMAIN after.credits[c].entries
                 PROVE  after.credits[c].entries[k].cents >= 0
      BY DEF NoneNegative
    <3>1. CASE k \in DOMAIN b.credits[c].entries
      <4>1. after.credits[c].entries[k].cents = b.credits[c].entries[k].cents
              + IF b.credits[c].entries[k].by = by THEN take[c] ELSE 0
        BY <2>1, <3>1 DEF IsEntered
      <4>2. b.credits[c].entries[k].cents \in Int /\ b.credits[c].entries[k].cents >= 0
        BY <2>2, <2>4, <3>1 DEF NoneNegative
      <4> QED BY <2>3, <4>1, <4>2
    <3>2. CASE k \notin DOMAIN b.credits[c].entries
      <4>1. after.credits[c].entries[k] = [by |-> by, cents |-> take[c]]
        BY <2>1, <3>2 DEF IsEntered
      <4> QED BY <2>3, <4>1
    <3> QED BY <3>1, <3>2
  <2> QED BY <2>1, <2>3, <2>5 DEF IsEntered, CreditKept
<1>23. SettlesKept(after)
  <2>1. ASSUME NEW q \in 1 .. Len(b.payments), NEW i \in Invoices
        PROVE  /\ after.payments[q].settles[i] >= 0
               /\ i > Len(b.totals) => after.payments[q].settles[i] = 0
    <3>1. /\ b.payments[q].settles[i] >= 0
          /\ i > Len(b.totals) => b.payments[q].settles[i] = 0
      BY <1>1 DEF SettlesKept
    <3>2. b.payments[q].settles[i] \in Int /\ opens[i] \in Int
      <4>1. b.payments[q] \in Payment
        BY <1>1, BooksAre
      <4> QED BY <1>0, <4>1 DEF Payment, opens
    <3>3. q = p => 0 <= opens[i] /\ opens[i] <= b.payments[q].settles[i]
      BY <1>0 DEF opens, p
    <3>4. after.payments[q].settles[i] =
            IF q = p THEN b.payments[q].settles[i] - opens[i] ELSE b.payments[q].settles[i]
      BY <1>14
    <3>5. Len(b.totals) \in Int /\ i \in Int
      BY <1>1, BooksAre DEF Invoices
    <3> QED BY <3>1, <3>2, <3>3, <3>4, <3>5
  <2>2. ASSUME NEW i \in 1 .. Len(b.totals)
        PROVE  SettledOn(after, i) <= AtLeastZero(b.totals[i])
    <3>1. i \in Invoices
      BY <1>1, RowsAre DEF Named
    <3>2. SettledOn(b, i) <= AtLeastZero(b.totals[i]) /\ AtLeastZero(b.totals[i]) \in Int
      BY <1>1, BooksAre, AtLeastZeroIs DEF SettlesKept
    <3>3. SettledOn(b, i) \in Int /\ opens[i] \in Int /\ 0 <= opens[i]
      BY <1>0, <1>1, <3>1, TableSums DEF opens
    <3>4. SettledOn(after, i) = SettledOn(b, i) - opens[i]
      BY <1>17, <3>1
    <3> QED BY <3>2, <3>3, <3>4
  <2> QED BY <1>13, <2>1, <2>2 DEF SettlesKept
<1>24. AllFit(after, r, 0)
  <2> SUFFICES ASSUME NEW s \in 1 .. m
               PROVE  Fits(after, s, 0)
    BY <1>13 DEF AllFit
  <2> DEFINE name == <<"reversal", s>>
             short == SumOf(ofOwn) + SumOf(parts.covered) + SumOf(opens) + cases
  <2>1. name = by <=> s = r
    BY ReversalNames
  <2>2. /\ CaseSum(b, name) \in Int /\ CreditsOf(b, name) \in Int /\ HeldOf(b, name) \in Int
    BY <1>1, TableSums
  <2>3. /\ SumOf(b.reversals[s].opened) \in Int /\ b.reversals[s].toCases \in Int
        /\ b.reversals[s].amount \in Int /\ b.reversals[s].reinstated \in Int
    <3>1. b.reversals[s] \in Reversal
      BY <1>1, BooksAre
    <3> QED BY <3>1, RowsAre, SumOfInt
  <2>4. /\ SumOf(ofOwn) \in Int /\ SumOf(parts.covered) \in Int /\ SumOf(opens) \in Nat
    BY <1>0, RowsAre, SumOfNat, <1>2, SumOfInt DEF opens
  <2>5. Fits(b, s, IF s = r THEN short ELSE 0)
    BY <1>0 DEF AllFit, opens
  <2>6. /\ CaseSum(after, name) = CaseSum(b, name) + IF s = r THEN cases ELSE 0
        /\ CreditsOf(after, name) = CreditsOf(b, name)
        /\ HeldOf(after, name) = HeldOf(b, name) + IF s = r THEN SumOf(take) ELSE 0
    BY <1>18, <1>19, <1>20, <2>1
  <2>7. SumOf(take) \in Nat
    BY <1>2, <1>5, SumOfNat
  <2> HIDE DEF short
  <2>8. CASE s = r
    <3>1. short = SumOf(take) + SumOf(opens) + cases
      BY <1>7, <2>4 DEF short
    <3>2. /\ Unmatched(after, s) = Unmatched(b, s) + cases
          /\ Reopened(after, s) = Reopened(b, s) + SumOf(opens)
          /\ HeldOf(after, name) = HeldOf(b, name) + SumOf(take)
          /\ Unmatched(b, s) \in Int /\ Reopened(b, s) \in Int
      <4>1. after.reversals[s].toCases = b.reversals[s].toCases
        BY <1>16
      <4>2. SumOf(after.reversals[s].opened) = SumOf(b.reversals[s].opened) + SumOf(opens)
        BY <1>16, <2>8
      <4>3. /\ CaseSum(after, name) = CaseSum(b, name) + cases
            /\ CreditsOf(after, name) = CreditsOf(b, name)
            /\ HeldOf(after, name) = HeldOf(b, name) + SumOf(take)
        BY <2>6, <2>8
      <4>4. Unmatched(after, s) = Unmatched(b, s) + cases /\ Unmatched(b, s) \in Int
        <5>1. CaseSum(b, name) \in Int /\ b.reversals[s].toCases \in Int /\ cases \in Int
          BY <1>0, <2>2, <2>3
        <5> HIDE DEF name, opens, take
        <5> QED BY <4>1, <4>3, <5>1 DEF Unmatched, name
      <4>5. Reopened(after, s) = Reopened(b, s) + SumOf(opens) /\ Reopened(b, s) \in Int
        BY <2>2, <2>3, <2>4, <4>2, <4>3 DEF Reopened
      <4> QED BY <4>3, <4>4, <4>5
    <3>3. /\ Unmatched(b, s) >= 0 /\ Reopened(b, s) >= 0
          /\ Unmatched(b, s) + Reopened(b, s) + HeldOf(b, name) + short
               = b.reversals[s].amount - b.reversals[s].reinstated
      BY <2>5, <2>8 DEF Fits
    <3>4. Unmatched(after, s) + Reopened(after, s) + HeldOf(after, name) + 0
            = b.reversals[s].amount - b.reversals[s].reinstated
      <4> DEFINE k == b.reversals[s].amount - b.reversals[s].reinstated
      <4>1. k \in Int
        BY <2>3
      <4>2. Unmatched(b, s) + Reopened(b, s) + HeldOf(b, name)
              + (SumOf(take) + SumOf(opens) + cases) = k
        BY <3>1, <3>3
      <4>3. HeldOf(b, name) \in Int /\ SumOf(opens) \in Int /\ SumOf(take) \in Int /\ cases \in Int
        BY <1>0, <2>2, <2>4, <2>7
      <4> DEFINE u == Unmatched(b, s)
                 v == Reopened(b, s)
                 h == HeldOf(b, name)
                 x == SumOf(take)
                 y == SumOf(opens)
      <4>4. /\ u \in Int /\ v \in Int /\ h \in Int /\ x \in Int /\ y \in Int
            /\ u + v + h + (x + y + cases) = k
        BY <3>2, <4>2, <4>3
      <4> HIDE DEF k, u, v, h, x, y
      <4>5. (u + cases) + (v + y) + (h + x) + 0 = k
        BY <4>1, <4>3, <4>4
      <4> QED BY <3>2, <4>5 DEF k, u, v, h, x, y
    <3>5. Unmatched(after, s) >= 0 /\ Reopened(after, s) >= 0
      <4> DEFINE u == Unmatched(b, s)
                 v == Reopened(b, s)
                 y == SumOf(opens)
      <4>1. /\ u \in Nat /\ v \in Nat /\ y \in Nat /\ cases \in Nat
            /\ Unmatched(after, s) = u + cases /\ Reopened(after, s) = v + y
        BY <1>0, <2>4, <3>2, <3>3
      <4> HIDE DEF u, v, y
      <4> QED BY <4>1
    <3> QED BY <1>16, <3>4, <3>5 DEF Fits
  <2>9. CASE s # r
    <3>1. /\ Unmatched(after, s) = Unmatched(b, s) /\ Reopened(after, s) = Reopened(b, s)
          /\ HeldOf(after, name) = HeldOf(b, name)
      BY <1>16, <2>2, <2>3, <2>6, <2>9 DEF Unmatched, Reopened
    <3> QED BY <1>16, <2>5, <2>9, <3>1 DEF Fits
  <2> QED BY <2>8, <2>9
<1>25. Extends(b, after)
  BY <1>13, <1>15, <1>16 DEF Extends, IsEntered
<1>26. \A c \in 1 .. n : \A k \in DOMAIN b.credits[c].entries :
         after.credits[c].entries[k].cents >= b.credits[c].entries[k].cents
  <2> SUFFICES ASSUME NEW c \in 1 .. n, NEW k \in DOMAIN b.credits[c].entries
               PROVE  after.credits[c].entries[k].cents >= b.credits[c].entries[k].cents
    OBVIOUS
  <2>1. IsEntered(b.credits[c], by, take[c], after.credits[c])
    BY <1>15
  <2>2. b.credits[c].entries[k].cents \in Int
    BY <1>2, EntriesOf
  <2>3. take[c] \in Int /\ take[c] >= 0
    BY <1>5
  <2>4. after.credits[c].entries[k].cents = b.credits[c].entries[k].cents
          + IF b.credits[c].entries[k].by = by THEN take[c] ELSE 0
    BY <2>1 DEF IsEntered
  <2> QED BY <2>2, <2>3, <2>4
<1>27. Sound(after, left)
  BY <1>13, <1>21, <1>22, <1>23 DEF Sound
<1> QED BY <1>24, <1>25, <1>26, <1>27

-----------------------------------------------------------------------------
(* What is entered for a reversal, and what it takes again                 *)

Fitting(b) == \A s \in 1 .. Len(b.reversals) : Fits(b, s, 0)

LEMMA FittingIs ==
    ASSUME NEW b, NEW r
    PROVE  AllFit(b, r, 0) <=> Fitting(b)
  BY DEF AllFit, Fitting

LEMMA RoomIs ==
    ASSUME NEW credit \in Credit, NEW more \in Int, more >= 0, CreditKept(credit, more),
           NEW x \in Int, NEW y \in Int, x >= 0, y >= 0, x + y <= OpenOf(credit)
    PROVE  MayHold(credit, x, y, more)
<1>1. Spent(credit) \in Int /\ credit.amount \in Int
  BY RowsAre, SpentInt
<1>2. OpenOf(credit) = AtLeastZero(credit.amount - Spent(credit))
  BY OpenOfIs
<1>3. Spent(credit) <= credit.amount + more
  BY DEF CreditKept
<1> QED BY <1>1, <1>2, <1>3 DEF AtLeastZero, MayHold

\* Entering `cents` leaves the credit kept, but for `left`.
MayEnter(credit, by, cents, left) ==
    /\ Spent(credit) + cents <= credit.amount + left
    /\ \A k \in DOMAIN credit.entries :
         credit.entries[k].by = by => credit.entries[k].cents + cents >= 0
    /\ cents >= 0 \/ \E k \in DOMAIN credit.entries : credit.entries[k].by = by

LEMMA EnteredKept ==
    ASSUME NEW credit \in Credit, NEW more, CreditKept(credit, more), NEW left \in Int,
           NEW by, NEW cents \in Int, NEW after, IsEntered(credit, by, cents, after),
           MayEnter(credit, by, cents, left)
    PROVE  CreditKept(after, left)
<1>1. /\ Single(after) /\ Spent(after) = Spent(credit) + cents /\ after.amount = credit.amount
  BY DEF IsEntered
<1>2. ASSUME NEW k \in DOMAIN after.entries
      PROVE  after.entries[k].cents >= 0
  <2>1. CASE k \in DOMAIN credit.entries
    <3>1. credit.entries[k].cents \in Int /\ credit.entries[k].cents >= 0
      BY <2>1, EntriesOf DEF CreditKept, NoneNegative
    <3>2. after.entries[k].cents
            = credit.entries[k].cents + IF credit.entries[k].by = by THEN cents ELSE 0
      BY <2>1 DEF IsEntered
    <3>3. credit.entries[k].by = by => credit.entries[k].cents + cents >= 0
      BY <2>1 DEF MayEnter
    <3> QED BY <3>1, <3>2, <3>3
  <2>2. CASE k \notin DOMAIN credit.entries
    <3>1. /\ after.entries[k] = [by |-> by, cents |-> cents]
          /\ \A j \in DOMAIN credit.entries : credit.entries[j].by # by
      BY <2>2 DEF IsEntered
    <3> QED BY <3>1 DEF MayEnter
  <2> QED BY <2>1, <2>2
<1> QED BY <1>1, <1>2 DEF CreditKept, NoneNegative, MayEnter

LEMMA SettlesSame ==
    ASSUME NEW b, NEW after, SettlesKept(b),
           after.payments = b.payments, after.totals = b.totals
    PROVE  SettlesKept(after)
<1>1. \A i : SettledOn(after, i) = SettledOn(b, i)
  BY SameSums
<1> QED BY <1>1 DEF SettlesKept

\* What a reversal is given, or gives back, of the credits, its other parts are
\* short of, or come to beyond its amount.
LEMMA EnteredAllKeeps ==
    ASSUME NEW b, NEW lifting, Sound(b, lifting),
           NEW r \in 1 .. Len(b.reversals), NEW short \in Int,
           NEW cents \in [1 .. Len(b.credits) -> Int],
           NEW left \in [1 .. Len(b.credits) -> Int],
           \A c \in 1 .. Len(b.credits) :
             MayEnter(b.credits[c], <<"reversal", r>>, cents[c], left[c]),
           AllFit(b, r, SumOf(cents) + short),
           NEW after, after = EnteredAll(b, <<"reversal", r>>, cents)
    PROVE  /\ Sound(after, left) /\ AllFit(after, r, short) /\ Extends(b, after)
           /\ IsEnteredAll(b, <<"reversal", r>>, cents, after)
<1> DEFINE n == Len(b.credits)
           m == Len(b.reversals)
           by == <<"reversal", r>>
<1>1. /\ b \in Books /\ Named(b) /\ SettlesKept(b)
      /\ \A c \in 1 .. n : CreditKept(b.credits[c], lifting[c])
  BY DEF Sound
<1>2. /\ n \in Nat /\ DOMAIN b.credits = 1 .. n /\ \A c \in 1 .. n : b.credits[c] \in Credit
      /\ m \in Nat /\ DOMAIN b.reversals = 1 .. m
  BY <1>1, BooksAre
<1>3. by \in By
  BY <1>2, ReversalNames
<1>4. IsEnteredAll(b, by, cents, after)
  <2>1. \A c \in DOMAIN b.credits : Single(b.credits[c])
    BY <1>1, <1>2 DEF CreditKept
  <2> QED BY <1>1, <1>3, <2>1, EnteredAllIs
<1>5. /\ after \in Books /\ after.totals = b.totals /\ after.standing = b.standing
      /\ after.payments = b.payments /\ after.reversals = b.reversals
      /\ after.cases = b.cases /\ Len(after.credits) = n
      /\ \A c \in 1 .. n : IsEntered(b.credits[c], by, cents[c], after.credits[c])
  BY <1>4 DEF IsEnteredAll
<1>6. ASSUME NEW c \in 1 .. n
      PROVE  CreditKept(after.credits[c], left[c])
  <2>1. IsEntered(b.credits[c], by, cents[c], after.credits[c])
    BY <1>5
  <2>2. b.credits[c] \in Credit /\ CreditKept(b.credits[c], lifting[c])
    BY <1>1, <1>2
  <2>3. cents[c] \in Int /\ left[c] \in Int
    OBVIOUS
  <2>4. MayEnter(b.credits[c], by, cents[c], left[c])
    OBVIOUS
  <2> HIDE DEF by
  <2> QED BY <2>1, <2>2, <2>3, <2>4, EnteredKept
<1>7. Named(after)
  <2>1. DOMAIN after.credits = 1 .. n
    BY <1>5, BooksAre
  <2>2. NamesOneOf(by, m)
    BY <1>2, ReversalNames
  <2> HIDE DEF by
  <2>3. ASSUME NEW c \in 1 .. n
        PROVE  /\ NamesOneOf(after.credits[c].origin, m)
               /\ \A k \in DOMAIN after.credits[c].entries :
                    NamesOneOf(after.credits[c].entries[k].by, m)
    <3>1. /\ NamesOneOf(b.credits[c].origin, m)
          /\ \A k \in DOMAIN b.credits[c].entries : NamesOneOf(b.credits[c].entries[k].by, m)
      BY <1>1, <1>2 DEF Named
    <3>2. IsEntered(b.credits[c], by, cents[c], after.credits[c])
      BY <1>5
    <3>3. after.credits[c].origin = b.credits[c].origin
      BY <3>2 DEF IsEntered
    <3>4. ASSUME NEW k \in DOMAIN after.credits[c].entries
          PROVE  NamesOneOf(after.credits[c].entries[k].by, m)
      <4>1. \/ /\ k \in DOMAIN b.credits[c].entries
               /\ after.credits[c].entries[k].by = b.credits[c].entries[k].by
            \/ after.credits[c].entries[k].by = by
        <5>1. CASE k \in DOMAIN b.credits[c].entries
          BY <3>2, <5>1 DEF IsEntered
        <5>2. CASE k \notin DOMAIN b.credits[c].entries
          <6>1. after.credits[c].entries[k] = [by |-> by, cents |-> cents[c]]
            BY <3>2, <5>2 DEF IsEntered
          <6> QED BY <6>1
        <5> QED BY <5>1, <5>2
      <4> QED BY <2>2, <3>1, <4>1
    <3> QED BY <3>1, <3>3, <3>4
  <2> QED BY <1>1, <1>5, <2>1, <2>3 DEF Named
<1>8. SettlesKept(after)
  BY <1>1, <1>5, SettlesSame
<1>9. ASSUME NEW s \in 1 .. m
      PROVE  Fits(after, s, IF s = r THEN short ELSE 0)
  <2> DEFINE name == <<"reversal", s>>
  <2>1. name = by <=> s = r
    BY ReversalNames
  <2>2. Fits(b, s, IF s = r THEN SumOf(cents) + short ELSE 0)
    BY DEF AllFit
  <2>3. /\ HeldOf(after, name) = HeldOf(b, name) + IF name = by THEN SumOf(cents) ELSE 0
        /\ CreditsOf(after, name) = CreditsOf(b, name)
    BY <1>4 DEF IsEnteredAll
  <2>4. CaseSum(after, name) = CaseSum(b, name)
    BY <1>5, SameSums
  <2>5. Unmatched(after, s) = Unmatched(b, s) /\ Reopened(after, s) = Reopened(b, s)
    BY <1>5, <2>3, <2>4 DEF Unmatched, Reopened
  <2>6. HeldOf(b, name) \in Int /\ SumOf(cents) \in Int
    BY <1>1, <1>2, SumOfInt, TableSums
  <2>7. Unmatched(b, s) \in Int /\ Reopened(b, s) \in Int
    <3>1. CaseSum(b, name) \in Int /\ CreditsOf(b, name) \in Int
      BY <1>1, TableSums
    <3>2. b.reversals[s] \in Reversal
      BY <1>1, BooksAre
    <3>3. SumOf(b.reversals[s].opened) \in Int /\ b.reversals[s].toCases \in Int
      <4>1. b.reversals[s].opened \in [1 .. MaxInvoices -> Int] /\ b.reversals[s].toCases \in Nat
        BY <3>2, RowsAre
      <4>2. MaxInvoices \in Nat
        BY RowsAre
      <4> QED BY <4>1, <4>2, SumOfInt
    <3> QED BY <3>1, <3>3 DEF Unmatched, Reopened
  <2>8. after.reversals[s] = b.reversals[s]
    BY <1>5
  <2>9. CASE s = r
    BY <2>1, <2>3, <2>9, <2>6, <2>2, <2>7, <2>5, <2>8 DEF Fits
  <2>10. CASE s # r
    <3>1. HeldOf(after, name) = HeldOf(b, name)
      BY <2>1, <2>3, <2>6, <2>10
    <3> QED BY <2>2, <2>5, <2>8, <2>10, <3>1 DEF Fits
  <2> QED BY <2>9, <2>10
<1>10. AllFit(after, r, short)
  BY <1>5, <1>9 DEF AllFit
<1>11. Sound(after, left)
  BY <1>5, <1>6, <1>7, <1>8 DEF Sound
<1>12. Extends(b, after)
  BY <1>5 DEF Extends, IsEntered
<1> QED BY <1>4, <1>10, <1>11, <1>12

-----------------------------------------------------------------------------
(* What the books come to                                                  *)

CollectedOf(b) == Total(b.payments, AmountOf)

SettledOf(b) == SumOf([i \in Invoices |-> SettledOn(b, i)])

UnspentOf(b) == Total(b.credits, LAMBDA credit : credit.amount - Spent(credit))

GrantOf(credit) == IF credit.origin[1] = "invoice" THEN credit.amount ELSE 0

GrantedOf(b) == Total(b.credits, GrantOf)

WithdrawnOf(b) == Total(b.reversals, AmountOf)

ReinstatedOf(b) == Total(b.reversals, LAMBDA r : r.reinstated)

ToCasesOf(b) == Total(b.reversals, LAMBDA r : r.toCases)

RefundedOf(b) == Total(b.refunds, LAMBDA f : IF f.ended THEN 0 ELSE f.amount)

\* A case of a refund that failed is none any more.
StandingIn(each, refunds) ==
    IF each.by[1] = "refund" /\ refunds[each.by[2]].ended THEN 0 ELSE each.amount

CasesOf(b) == Total(b.cases, LAMBDA each : StandingIn(each, b.refunds))

SettledEach(b) == [i \in 1 .. MaxInvoices |-> SettledOn(b, i)]

UnspentEach(b) == [c \in 1 .. Len(b.credits) |-> b.credits[c].amount - Spent(b.credits[c])]

GrantEach(b) == [c \in 1 .. Len(b.credits) |-> GrantOf(b.credits[c])]

AmountEach(rows) == [k \in 1 .. Len(rows) |-> rows[k].amount]

ReinstatedEach(b) == [r \in 1 .. Len(b.reversals) |-> b.reversals[r].reinstated]

ToCasesEach(b) == [r \in 1 .. Len(b.reversals) |-> b.reversals[r].toCases]

RefundedEach(b) ==
    [f \in 1 .. Len(b.refunds) |-> IF b.refunds[f].ended THEN 0 ELSE b.refunds[f].amount]

StandingEach(b) == [k \in 1 .. Len(b.cases) |-> StandingIn(b.cases[k], b.refunds)]

LEMMA WholeSums ==
    ASSUME NEW b \in Books
    PROVE  /\ /\ AmountEach(b.payments) \in [1 .. Len(b.payments) -> Int]
              /\ CollectedOf(b) = SumOf(AmountEach(b.payments)) /\ CollectedOf(b) \in Int
           /\ /\ SettledEach(b) \in [1 .. MaxInvoices -> Int]
              /\ SettledOf(b) = SumOf(SettledEach(b)) /\ SettledOf(b) \in Int
           /\ /\ UnspentEach(b) \in [1 .. Len(b.credits) -> Int]
              /\ UnspentOf(b) = SumOf(UnspentEach(b)) /\ UnspentOf(b) \in Int
           /\ /\ GrantEach(b) \in [1 .. Len(b.credits) -> Int]
              /\ GrantedOf(b) = SumOf(GrantEach(b)) /\ GrantedOf(b) \in Int
           /\ /\ AmountEach(b.reversals) \in [1 .. Len(b.reversals) -> Int]
              /\ WithdrawnOf(b) = SumOf(AmountEach(b.reversals)) /\ WithdrawnOf(b) \in Int
           /\ /\ ReinstatedEach(b) \in [1 .. Len(b.reversals) -> Int]
              /\ ReinstatedOf(b) = SumOf(ReinstatedEach(b)) /\ ReinstatedOf(b) \in Int
           /\ /\ ToCasesEach(b) \in [1 .. Len(b.reversals) -> Int]
              /\ ToCasesOf(b) = SumOf(ToCasesEach(b)) /\ ToCasesOf(b) \in Int
           /\ /\ RefundedEach(b) \in [1 .. Len(b.refunds) -> Int]
              /\ RefundedOf(b) = SumOf(RefundedEach(b)) /\ RefundedOf(b) \in Int
           /\ /\ StandingEach(b) \in [1 .. Len(b.cases) -> Int]
              /\ CasesOf(b) = SumOf(StandingEach(b)) /\ CasesOf(b) \in Int
<1>1. /\ Len(b.payments) \in Nat /\ DOMAIN b.payments = 1 .. Len(b.payments)
      /\ Len(b.credits) \in Nat /\ DOMAIN b.credits = 1 .. Len(b.credits)
      /\ Len(b.reversals) \in Nat /\ DOMAIN b.reversals = 1 .. Len(b.reversals)
      /\ Len(b.refunds) \in Nat /\ DOMAIN b.refunds = 1 .. Len(b.refunds)
      /\ Len(b.cases) \in Nat /\ DOMAIN b.cases = 1 .. Len(b.cases)
  BY BooksAre
<1>2. Invoices = 1 .. MaxInvoices /\ MaxInvoices \in Nat
  BY RowsAre
<1>3. AmountEach(b.payments) \in [1 .. Len(b.payments) -> Int]
  BY BooksAre, RowsAre DEF AmountEach
<1>4. SettledEach(b) \in [1 .. MaxInvoices -> Int]
  BY <1>2, TableSums DEF SettledEach
<1>5. UnspentEach(b) \in [1 .. Len(b.credits) -> Int]
  BY BooksAre, RowsAre, SpentInt DEF UnspentEach
<1>6. GrantEach(b) \in [1 .. Len(b.credits) -> Int]
  BY BooksAre, RowsAre DEF GrantEach, GrantOf
<1>7. AmountEach(b.reversals) \in [1 .. Len(b.reversals) -> Int]
  BY BooksAre, RowsAre DEF AmountEach
<1>8. ReinstatedEach(b) \in [1 .. Len(b.reversals) -> Int]
  BY BooksAre, RowsAre DEF ReinstatedEach
<1>9. ToCasesEach(b) \in [1 .. Len(b.reversals) -> Int]
  BY BooksAre, RowsAre DEF ToCasesEach
<1>10. RefundedEach(b) \in [1 .. Len(b.refunds) -> Int]
  BY BooksAre, RowsAre DEF RefundedEach
<1>11. StandingEach(b) \in [1 .. Len(b.cases) -> Int]
  BY BooksAre, RowsAre DEF StandingEach, StandingIn
<1>12. CollectedOf(b) = SumOf(AmountEach(b.payments))
  BY <1>1 DEF CollectedOf, AmountEach, AmountOf, Total
<1>13. SettledOf(b) = SumOf(SettledEach(b))
  BY <1>2 DEF SettledOf, SettledEach
<1>14. UnspentOf(b) = SumOf(UnspentEach(b)) /\ GrantedOf(b) = SumOf(GrantEach(b))
  BY <1>1 DEF UnspentOf, UnspentEach, GrantedOf, GrantEach, Total
<1>15. WithdrawnOf(b) = SumOf(AmountEach(b.reversals))
  BY <1>1 DEF WithdrawnOf, AmountEach, AmountOf, Total
<1>16. ReinstatedOf(b) = SumOf(ReinstatedEach(b)) /\ ToCasesOf(b) = SumOf(ToCasesEach(b))
  BY <1>1 DEF ReinstatedOf, ReinstatedEach, ToCasesOf, ToCasesEach, Total
<1>17. RefundedOf(b) = SumOf(RefundedEach(b))
  BY <1>1 DEF RefundedOf, RefundedEach, Total
<1>18. CasesOf(b) = SumOf(StandingEach(b))
  BY <1>1 DEF CasesOf, StandingEach, Total
<1>19. /\ SumOf(AmountEach(b.payments)) \in Int /\ SumOf(SettledEach(b)) \in Int
       /\ SumOf(UnspentEach(b)) \in Int /\ SumOf(GrantEach(b)) \in Int
  BY <1>1, <1>2, <1>3, <1>4, <1>5, <1>6, SumOfInt
<1>20. /\ SumOf(AmountEach(b.reversals)) \in Int /\ SumOf(ReinstatedEach(b)) \in Int
       /\ SumOf(ToCasesEach(b)) \in Int /\ SumOf(RefundedEach(b)) \in Int
       /\ SumOf(StandingEach(b)) \in Int
  BY <1>1, <1>7, <1>8, <1>9, <1>10, <1>11, SumOfInt
<1> QED
  BY <1>3, <1>4, <1>5, <1>6, <1>7, <1>8, <1>9, <1>10, <1>11, <1>12, <1>13, <1>14, <1>15,
     <1>16, <1>17, <1>18, <1>19, <1>20, Zenon

\* What did not change comes to the same.
LEMMA WholeSumsSame ==
    ASSUME NEW b, NEW after
    PROVE  /\ after.payments = b.payments =>
                CollectedOf(after) = CollectedOf(b) /\ SettledOf(after) = SettledOf(b)
           /\ after.credits = b.credits =>
                UnspentOf(after) = UnspentOf(b) /\ GrantedOf(after) = GrantedOf(b)
           /\ after.reversals = b.reversals =>
                /\ WithdrawnOf(after) = WithdrawnOf(b) /\ ReinstatedOf(after) = ReinstatedOf(b)
                /\ ToCasesOf(after) = ToCasesOf(b)
           /\ after.refunds = b.refunds =>
                /\ RefundedOf(after) = RefundedOf(b)
                /\ after.cases = b.cases => CasesOf(after) = CasesOf(b)
<1>1. after.payments = b.payments =>
        CollectedOf(after) = CollectedOf(b) /\ SettledOf(after) = SettledOf(b)
  BY DEF CollectedOf, SettledOf, SettledOn, Total
<1>2. after.credits = b.credits =>
        UnspentOf(after) = UnspentOf(b) /\ GrantedOf(after) = GrantedOf(b)
  BY DEF UnspentOf, GrantedOf
<1>3. after.reversals = b.reversals =>
        /\ WithdrawnOf(after) = WithdrawnOf(b) /\ ReinstatedOf(after) = ReinstatedOf(b)
        /\ ToCasesOf(after) = ToCasesOf(b)
  BY DEF WithdrawnOf, ReinstatedOf, ToCasesOf
<1>4. after.refunds = b.refunds =>
        /\ RefundedOf(after) = RefundedOf(b)
        /\ after.cases = b.cases => CasesOf(after) = CasesOf(b)
  BY DEF RefundedOf, CasesOf, Total
<1> QED BY <1>1, <1>2, <1>3, <1>4

LEMMA EnteredAllWhole ==
    ASSUME NEW b \in Books, NEW by, NEW cents \in [1 .. Len(b.credits) -> Int],
           NEW after, IsEnteredAll(b, by, cents, after)
    PROVE  /\ UnspentOf(after) = UnspentOf(b) - SumOf(cents) /\ GrantedOf(after) = GrantedOf(b)
           /\ CollectedOf(after) = CollectedOf(b) /\ SettledOf(after) = SettledOf(b)
           /\ WithdrawnOf(after) = WithdrawnOf(b) /\ ReinstatedOf(after) = ReinstatedOf(b)
           /\ ToCasesOf(after) = ToCasesOf(b) /\ RefundedOf(after) = RefundedOf(b)
           /\ CasesOf(after) = CasesOf(b)
<1> DEFINE n == Len(b.credits)
           s == UnspentEach(b)
           t == UnspentEach(after)
<1>1. /\ after \in Books /\ Len(after.credits) = n
      /\ \A c \in 1 .. n : IsEntered(b.credits[c], by, cents[c], after.credits[c])
      /\ after.payments = b.payments /\ after.reversals = b.reversals
      /\ after.refunds = b.refunds /\ after.cases = b.cases
  BY DEF IsEnteredAll
<1>2. n \in Nat /\ \A c \in 1 .. n : b.credits[c] \in Credit
  BY BooksAre
<1>3. /\ s \in [1 .. n -> Int] /\ UnspentOf(b) = SumOf(s) /\ SumOf(s) \in Int
      /\ t \in [1 .. n -> Int] /\ UnspentOf(after) = SumOf(t) /\ SumOf(t) \in Int
  BY <1>1, WholeSums
<1>4. \A c \in 1 .. n : s[c] = t[c] + cents[c]
  <2> SUFFICES ASSUME NEW c \in 1 .. n
               PROVE  s[c] = t[c] + cents[c]
    OBVIOUS
  <2>1. /\ after.credits[c].amount = b.credits[c].amount
        /\ Spent(after.credits[c]) = Spent(b.credits[c]) + cents[c]
    BY <1>1 DEF IsEntered
  <2>2. /\ s[c] = b.credits[c].amount - Spent(b.credits[c])
        /\ t[c] = after.credits[c].amount - Spent(after.credits[c])
    BY <1>1 DEF UnspentEach
  <2>3. b.credits[c].amount \in Int /\ Spent(b.credits[c]) \in Int /\ cents[c] \in Int
    BY <1>2, RowsAre, SpentInt
  <2> HIDE DEF s, t
  <2> QED BY <2>1, <2>2, <2>3
<1> HIDE DEF s, t
<1>5. SumOf(s) = SumOf(t) + SumOf(cents) /\ SumOf(cents) \in Int
  BY <1>2, <1>3, <1>4, SumOfAdds, SumOfInt
<1>6. UnspentOf(after) = UnspentOf(b) - SumOf(cents)
  BY <1>3, <1>5
<1>7. GrantEach(after) = GrantEach(b)
  <2>1. \A c \in 1 .. n : /\ after.credits[c].amount = b.credits[c].amount
                          /\ after.credits[c].origin = b.credits[c].origin
    BY <1>1 DEF IsEntered
  <2> QED BY <1>1, <2>1 DEF GrantEach, GrantOf
<1>8. GrantedOf(after) = GrantedOf(b)
  BY <1>1, <1>7, WholeSums
<1> QED BY <1>1, <1>6, <1>8, WholeSumsSame

LEMMA OpenedWhole ==
    ASSUME NEW b \in Books, NEW r, NEW p, NEW cents \in [Invoices -> Int],
           NEW after, IsOpened(b, r, p, cents, after)
    PROVE  /\ SettledOf(after) = SettledOf(b) - SumOf(cents)
           /\ CollectedOf(after) = CollectedOf(b)
           /\ UnspentOf(after) = UnspentOf(b) /\ GrantedOf(after) = GrantedOf(b)
           /\ WithdrawnOf(after) = WithdrawnOf(b) /\ ReinstatedOf(after) = ReinstatedOf(b)
           /\ ToCasesOf(after) = ToCasesOf(b) /\ RefundedOf(after) = RefundedOf(b)
           /\ CasesOf(after) = CasesOf(b)
<1> DEFINE s == SettledEach(b)
           t == SettledEach(after)
<1>1. /\ after \in Books /\ after.credits = b.credits
      /\ after.refunds = b.refunds /\ after.cases = b.cases
      /\ Len(after.payments) = Len(b.payments) /\ Len(after.reversals) = Len(b.reversals)
  BY DEF IsOpened
<1>2. Invoices = 1 .. MaxInvoices /\ MaxInvoices \in Nat
  BY RowsAre
<1>3. /\ s \in [1 .. MaxInvoices -> Int] /\ SettledOf(b) = SumOf(s) /\ SumOf(s) \in Int
      /\ t \in [1 .. MaxInvoices -> Int] /\ SettledOf(after) = SumOf(t) /\ SumOf(t) \in Int
  BY <1>1, WholeSums
<1>4. \A i \in 1 .. MaxInvoices : s[i] = t[i] + cents[i]
  <2> SUFFICES ASSUME NEW i \in 1 .. MaxInvoices
               PROVE  s[i] = t[i] + cents[i]
    OBVIOUS
  <2>1. SettledOn(after, i) = SettledOn(b, i) - cents[i]
    BY <1>2 DEF IsOpened
  <2>2. s[i] = SettledOn(b, i) /\ t[i] = SettledOn(after, i)
    BY DEF SettledEach
  <2>3. SettledOn(b, i) \in Int /\ cents[i] \in Int
    BY <1>2, TableSums
  <2> HIDE DEF s, t
  <2> QED BY <2>1, <2>2, <2>3
<1> HIDE DEF s, t
<1>5. SumOf(s) = SumOf(t) + SumOf(cents) /\ SumOf(cents) \in Int
  BY <1>2, <1>3, <1>4, SumOfAdds, SumOfInt
<1>6. SettledOf(after) = SettledOf(b) - SumOf(cents)
  BY <1>3, <1>5
<1>7. AmountEach(after.payments) = AmountEach(b.payments)
  BY <1>1 DEF AmountEach, IsOpened
<1>8. AmountEach(after.reversals) = AmountEach(b.reversals)
  BY <1>1 DEF AmountEach, IsOpened
<1>9. ReinstatedEach(after) = ReinstatedEach(b) /\ ToCasesEach(after) = ToCasesEach(b)
  BY <1>1 DEF ReinstatedEach, ToCasesEach, IsOpened
<1> QED BY <1>1, <1>6, <1>7, <1>8, <1>9, WholeSums, WholeSumsSame

LEMMA TakenFromWhole ==
    ASSUME NEW b \in Books, NEW after, IsTakenFrom(b, after)
    PROVE  /\ CollectedOf(after) = CollectedOf(b) /\ SettledOf(after) = SettledOf(b)
           /\ UnspentOf(after) = UnspentOf(b) /\ GrantedOf(after) = GrantedOf(b)
           /\ WithdrawnOf(after) = WithdrawnOf(b) /\ ReinstatedOf(after) = ReinstatedOf(b)
           /\ ToCasesOf(after) = ToCasesOf(b) /\ RefundedOf(after) = RefundedOf(b)
           /\ CasesOf(after) = CasesOf(b)
<1>1. /\ after \in Books /\ after.payments = b.payments /\ after.credits = b.credits
      /\ after.refunds = b.refunds /\ after.cases = b.cases
      /\ Len(after.reversals) = Len(b.reversals)
      /\ \A s \in 1 .. Len(b.reversals) : SameBut(b.reversals[s], after.reversals[s])
  BY DEF IsTakenFrom
<1>2. AmountEach(after.reversals) = AmountEach(b.reversals)
  BY <1>1 DEF AmountEach, SameBut
<1>3. ReinstatedEach(after) = ReinstatedEach(b) /\ ToCasesEach(after) = ToCasesEach(b)
  BY <1>1 DEF ReinstatedEach, ToCasesEach, SameBut
<1> QED BY <1>1, <1>2, <1>3, WholeSums, WholeSumsSame

LEMMA CaseOpenedWhole ==
    ASSUME NEW b \in Books, NEW by \in By, NEW cents \in Int,
           ~(by[1] = "refund" /\ b.refunds[by[2]].ended),
           NEW after, after = CaseOpened(b, by, cents)
    PROVE  /\ CasesOf(after) = CasesOf(b) + AtLeastZero(cents)
           /\ CollectedOf(after) = CollectedOf(b) /\ SettledOf(after) = SettledOf(b)
           /\ UnspentOf(after) = UnspentOf(b) /\ GrantedOf(after) = GrantedOf(b)
           /\ WithdrawnOf(after) = WithdrawnOf(b) /\ ReinstatedOf(after) = ReinstatedOf(b)
           /\ ToCasesOf(after) = ToCasesOf(b) /\ RefundedOf(after) = RefundedOf(b)
<1>1. IsCaseOpened(b, by, cents, after)
  BY CaseOpenedIs
<1>2. /\ after \in Books /\ after.payments = b.payments /\ after.credits = b.credits
      /\ after.reversals = b.reversals /\ after.refunds = b.refunds
  BY <1>1 DEF IsCaseOpened
<1>3. CasesOf(after) = CasesOf(b) + AtLeastZero(cents)
  <2>1. CASE cents <= 0
    <3>1. after = b
      BY <2>1 DEF CaseOpened
    <3>2. AtLeastZero(cents) = 0
      BY <2>1 DEF AtLeastZero
    <3> QED BY <3>1, <3>2, WholeSums
  <2>2. CASE cents > 0
    <3> DEFINE n == Len(b.cases)
               new == [by |-> by, amount |-> cents]
               s == StandingEach(b)
               t == StandingEach(after)
    <3>0. new \in Case
      BY <2>2 DEF Case
    <3>1. n \in Nat /\ b.cases \in Seq(Case)
      BY BooksAre
    <3>2. after.cases = Append(b.cases, new)
      <4>1. after = [b EXCEPT !.cases = Append(@, new)]
        BY <2>2 DEF CaseOpened
      <4> HIDE DEF new
      <4> QED BY <4>1 DEF Books
    <3>3. StandingIn(new, b.refunds) = cents
      BY DEF StandingIn
    <3> HIDE DEF new
    <3>4. /\ Len(after.cases) = n + 1 /\ after.cases[n + 1] = new
          /\ \A k \in 1 .. n : after.cases[k] = b.cases[k]
      BY <3>0, <3>1, <3>2
    <3>5. /\ s \in [1 .. n -> Int] /\ CasesOf(b) = SumOf(s)
          /\ t \in [1 .. n + 1 -> Int] /\ CasesOf(after) = SumOf(t)
      BY <1>2, <3>4, WholeSums
    <3>6. t[n + 1] = cents /\ \A k \in 1 .. n : t[k] = s[k]
      BY <1>2, <3>1, <3>3, <3>4 DEF StandingEach
    <3> HIDE DEF s, t, n
    <3>7. SumOf(t) = SumOf(s) + t[n + 1]
      BY <3>1, <3>5, <3>6, SumOfAppended
    <3> QED BY <2>2, <3>5, <3>6, <3>7 DEF AtLeastZero
  <2> QED BY <2>1, <2>2
<1> QED BY <1>2, <1>3, WholeSumsSame

LEMMA CreditedWhole ==
    ASSUME NEW b \in Books, NEW origin \in Origins, NEW cents \in Int,
           NEW after, after = Credited(b, origin, cents)
    PROVE  /\ UnspentOf(after) = UnspentOf(b) + AtLeastZero(cents)
           /\ GrantedOf(after) =
                GrantedOf(b) + IF origin[1] = "invoice" THEN AtLeastZero(cents) ELSE 0
           /\ CollectedOf(after) = CollectedOf(b) /\ SettledOf(after) = SettledOf(b)
           /\ WithdrawnOf(after) = WithdrawnOf(b) /\ ReinstatedOf(after) = ReinstatedOf(b)
           /\ ToCasesOf(after) = ToCasesOf(b) /\ RefundedOf(after) = RefundedOf(b)
           /\ CasesOf(after) = CasesOf(b)
<1>1. IsCredited(b, origin, cents, after)
  BY CreditedIs
<1>2. /\ after \in Books /\ after.payments = b.payments /\ after.reversals = b.reversals
      /\ after.refunds = b.refunds /\ after.cases = b.cases
  BY <1>1 DEF IsCredited
<1>3. CASE cents <= 0
  BY <1>3, WholeSums DEF Credited, AtLeastZero
<1>4. CASE cents > 0
  <2> DEFINE n == Len(b.credits)
             new == [origin |-> origin, amount |-> cents, entries |-> <<>>]
             s == UnspentEach(b)
             t == UnspentEach(after)
             u == GrantEach(b)
             v == GrantEach(after)
  <2>1. n \in Nat /\ b.credits \in Seq(Credit) /\ DOMAIN b.credits = 1 .. n
    BY BooksAre
  <2>2. after.credits = Append(b.credits, new)
    <3>1. after = [b EXCEPT !.credits = Append(@, new)]
      BY <1>4 DEF Credited
    <3> HIDE DEF new
    <3> QED BY <3>1 DEF Books
  <2>3. new \in Credit /\ new.origin = origin /\ new.amount = cents /\ new.entries = <<>>
    BY <1>4 DEF Credit
  <2>4. GrantOf(new) = IF origin[1] = "invoice" THEN cents ELSE 0
    BY <2>3 DEF GrantOf
  <2> HIDE DEF new
  <2>5. /\ Len(after.credits) = n + 1 /\ after.credits[n + 1] = new
        /\ \A k \in 1 .. n : after.credits[k] = b.credits[k]
    BY <2>1, <2>2, <2>3
  <2>6. Spent(new) = 0
    BY <2>3, EntriesOf, SumOfNothing
  <2>7. /\ s \in [1 .. n -> Int] /\ UnspentOf(b) = SumOf(s)
        /\ t \in [1 .. n + 1 -> Int] /\ UnspentOf(after) = SumOf(t)
        /\ u \in [1 .. n -> Int] /\ GrantedOf(b) = SumOf(u)
        /\ v \in [1 .. n + 1 -> Int] /\ GrantedOf(after) = SumOf(v)
    BY <1>2, <2>5, WholeSums
  <2>8. t[n + 1] = cents /\ \A k \in 1 .. n : t[k] = s[k]
    <3>1. new.amount - Spent(new) = cents
      BY <2>3, <2>6
    <3> QED BY <2>1, <2>5, <3>1 DEF UnspentEach
  <2>9. /\ v[n + 1] = IF origin[1] = "invoice" THEN cents ELSE 0
        /\ \A k \in 1 .. n : v[k] = u[k]
    BY <2>1, <2>4, <2>5 DEF GrantEach
  <2> HIDE DEF s, t, u, v, n
  <2>10. SumOf(t) = SumOf(s) + t[n + 1] /\ SumOf(v) = SumOf(u) + v[n + 1]
    BY <2>1, <2>7, <2>8, <2>9, SumOfAppended
  <2>11. AtLeastZero(cents) = cents
    BY <1>4 DEF AtLeastZero
  <2>12. /\ CollectedOf(after) = CollectedOf(b) /\ SettledOf(after) = SettledOf(b)
         /\ WithdrawnOf(after) = WithdrawnOf(b) /\ ReinstatedOf(after) = ReinstatedOf(b)
         /\ ToCasesOf(after) = ToCasesOf(b) /\ RefundedOf(after) = RefundedOf(b)
         /\ CasesOf(after) = CasesOf(b)
    BY <1>2, WholeSumsSame
  <2> QED BY <2>7, <2>8, <2>9, <2>10, <2>11, <2>12
<1>5. /\ CollectedOf(after) = CollectedOf(b) /\ SettledOf(after) = SettledOf(b)
      /\ WithdrawnOf(after) = WithdrawnOf(b) /\ ReinstatedOf(after) = ReinstatedOf(b)
      /\ ToCasesOf(after) = ToCasesOf(b) /\ RefundedOf(after) = RefundedOf(b)
      /\ CasesOf(after) = CasesOf(b)
  BY <1>2, WholeSumsSame
<1> QED BY <1>3, <1>4, <1>5

-----------------------------------------------------------------------------
(* What a step moves between them                                          *)

\* What a refund that has not failed is of, it holds of the credits or is a case;
\* one there is not yet holds nothing.
RefundsFit(b) ==
    /\ \A k \in 1 .. Len(b.cases) :
         b.cases[k].by[1] = "refund" => b.cases[k].by[2] \in 1 .. Len(b.refunds)
    /\ \A f \in 1 .. Len(b.refunds) : ~b.refunds[f].ended =>
         HeldOf(b, <<"refund", f>>) + CaseSum(b, <<"refund", f>>) = b.refunds[f].amount
    /\ \A f \in Nat : f > Len(b.refunds) =>
         HeldOf(b, <<"refund", f>>) = 0 /\ CaseSum(b, <<"refund", f>>) = 0

LEMMA RefundsFitSame ==
    ASSUME NEW b, RefundsFit(b), NEW after, after.refunds = b.refunds,
           \A f \in Nat : /\ HeldOf(after, <<"refund", f>>) = HeldOf(b, <<"refund", f>>)
                          /\ CaseSum(after, <<"refund", f>>) = CaseSum(b, <<"refund", f>>),
           \A k \in 1 .. Len(after.cases) :
             after.cases[k].by[1] = "refund" =>
                 k \in 1 .. Len(b.cases) /\ after.cases[k] = b.cases[k]
    PROVE  RefundsFit(after)
<1>1. \A k \in 1 .. Len(after.cases) :
        after.cases[k].by[1] = "refund" => after.cases[k].by[2] \in 1 .. Len(after.refunds)
  BY DEF RefundsFit
<1>2. ASSUME NEW f \in 1 .. Len(after.refunds), ~after.refunds[f].ended
      PROVE  HeldOf(after, <<"refund", f>>) + CaseSum(after, <<"refund", f>>)
               = after.refunds[f].amount
  <2>1. f \in Nat
    OBVIOUS
  <2> QED BY <1>2, <2>1 DEF RefundsFit
<1>3. \A f \in Nat : f > Len(after.refunds) =>
        HeldOf(after, <<"refund", f>>) = 0 /\ CaseSum(after, <<"refund", f>>) = 0
  BY DEF RefundsFit
<1> QED BY <1>1, <1>2, <1>3 DEF RefundsFit

\* What a withdrawal leaves alone.
OthersSame(b, after) ==
    /\ RefundsFit(b) => RefundsFit(after)
    /\ after.refunds = b.refunds
    /\ HeldOf(after, <<"payout", 0>>) = HeldOf(b, <<"payout", 0>>)
    /\ CollectedOf(after) = CollectedOf(b) /\ GrantedOf(after) = GrantedOf(b)

\* A withdrawal, or a part of one, opens invoices and adds cases; it leaves no more
\* than `owed` more on the credits, and `all` more on credits and invoices less
\* what is in cases.
Shifts(b, after, owed, all) ==
    /\ OthersSame(b, after)
    /\ WithdrawnOf(after) = WithdrawnOf(b) /\ ReinstatedOf(after) = ReinstatedOf(b)
    /\ ToCasesOf(after) = ToCasesOf(b)
    /\ SettledOf(after) <= SettledOf(b) /\ CasesOf(b) <= CasesOf(after)
    /\ UnspentOf(after) <= UnspentOf(b) + owed
    /\ SettledOf(after) + UnspentOf(after) - CasesOf(after)
         = SettledOf(b) + UnspentOf(b) - CasesOf(b) + all

LEMMA ShiftsNone ==
    ASSUME NEW b \in Books
    PROVE  Shifts(b, b, 0, 0)
<1>1. SettledOf(b) \in Int /\ CasesOf(b) \in Int /\ UnspentOf(b) \in Int
  BY WholeSums
<1> QED BY <1>1 DEF Shifts, OthersSame

LEMMA ShiftsOn ==
    ASSUME NEW b \in Books, NEW c \in Books, NEW d \in Books,
           NEW owed \in Int, NEW all \in Int, Shifts(b, c, owed, all),
           NEW owed2 \in Int, NEW all2 \in Int, Shifts(c, d, owed2, all2)
    PROVE  Shifts(b, d, owed + owed2, all + all2)
<1>1. /\ SettledOf(b) \in Int /\ CasesOf(b) \in Int /\ UnspentOf(b) \in Int
      /\ SettledOf(c) \in Int /\ CasesOf(c) \in Int /\ UnspentOf(c) \in Int
      /\ SettledOf(d) \in Int /\ CasesOf(d) \in Int /\ UnspentOf(d) \in Int
  BY WholeSums
<1>2. OthersSame(b, d)
  BY DEF Shifts, OthersSame
<1>3. /\ WithdrawnOf(d) = WithdrawnOf(b) /\ ReinstatedOf(d) = ReinstatedOf(b)
      /\ ToCasesOf(d) = ToCasesOf(b)
  BY DEF Shifts
<1>4. /\ SettledOf(c) <= SettledOf(b) /\ CasesOf(b) <= CasesOf(c)
      /\ UnspentOf(c) <= UnspentOf(b) + owed
      /\ SettledOf(c) + UnspentOf(c) - CasesOf(c)
           = SettledOf(b) + UnspentOf(b) - CasesOf(b) + all
      /\ SettledOf(d) <= SettledOf(c) /\ CasesOf(c) <= CasesOf(d)
      /\ UnspentOf(d) <= UnspentOf(c) + owed2
      /\ SettledOf(d) + UnspentOf(d) - CasesOf(d)
           = SettledOf(c) + UnspentOf(c) - CasesOf(c) + all2
  BY DEF Shifts
<1>5. /\ SettledOf(d) <= SettledOf(b) /\ CasesOf(b) <= CasesOf(d)
      /\ UnspentOf(d) <= UnspentOf(b) + (owed + owed2)
      /\ SettledOf(d) + UnspentOf(d) - CasesOf(d)
           = SettledOf(b) + UnspentOf(b) - CasesOf(b) + (all + all2)
  BY <1>1, <1>4
<1> QED BY <1>2, <1>3, <1>5 DEF Shifts

LEMMA ShiftsLess ==
    ASSUME NEW b \in Books, NEW c \in Books, NEW owed \in Int, NEW all,
           Shifts(b, c, owed, all), NEW most \in Int, owed <= most
    PROVE  Shifts(b, c, most, all)
<1>1. UnspentOf(b) \in Int /\ UnspentOf(c) \in Int /\ UnspentOf(c) <= UnspentOf(b) + owed
  BY WholeSums DEF Shifts
<1>2. UnspentOf(c) <= UnspentOf(b) + most
  BY <1>1
<1> QED BY <1>2 DEF Shifts

LEMMA OtherNames ==
    /\ \A r, f : <<"refund", f>> # <<"reversal", r>>
    /\ \A r : <<"payout", 0>> # <<"reversal", r>>
  OBVIOUS

LEMMA EnteredShifts ==
    ASSUME NEW b \in Books, NEW r, NEW cents \in [1 .. Len(b.credits) -> Int],
           NEW after, IsEnteredAll(b, <<"reversal", r>>, cents, after),
           NEW all, all = -SumOf(cents)
    PROVE  Shifts(b, after, all, all)
<1> DEFINE by == <<"reversal", r>>
<1>1. /\ after \in Books /\ after.refunds = b.refunds /\ after.cases = b.cases
      /\ \A other : HeldOf(after, other) =
           HeldOf(b, other) + IF other = by THEN SumOf(cents) ELSE 0
  BY DEF IsEnteredAll
<1>2. SumOf(cents) \in Int /\ \A other : HeldOf(b, other) \in Int
  BY BooksAre, SumOfInt, TableSums
<1>3. \A other : CaseSum(after, other) = CaseSum(b, other)
  BY <1>1, SameSums
<1>4. /\ \A f : HeldOf(after, <<"refund", f>>) = HeldOf(b, <<"refund", f>>)
      /\ HeldOf(after, <<"payout", 0>>) = HeldOf(b, <<"payout", 0>>)
  <2>1. (\A f : <<"refund", f>> # by) /\ <<"payout", 0>> # by
    BY OtherNames
  <2> HIDE DEF by
  <2>2. \A other : other # by => HeldOf(after, other) = HeldOf(b, other)
    BY <1>1, <1>2
  <2> QED BY <2>1, <2>2
<1>5. RefundsFit(b) => RefundsFit(after)
  <2> SUFFICES ASSUME RefundsFit(b) PROVE RefundsFit(after)
    OBVIOUS
  <2> QED BY <1>1, <1>3, <1>4, RefundsFitSame
<1>6. /\ UnspentOf(after) = UnspentOf(b) - SumOf(cents) /\ GrantedOf(after) = GrantedOf(b)
      /\ CollectedOf(after) = CollectedOf(b) /\ SettledOf(after) = SettledOf(b)
      /\ WithdrawnOf(after) = WithdrawnOf(b) /\ ReinstatedOf(after) = ReinstatedOf(b)
      /\ ToCasesOf(after) = ToCasesOf(b) /\ CasesOf(after) = CasesOf(b)
  BY EnteredAllWhole
<1>7. OthersSame(b, after)
  BY <1>1, <1>4, <1>5, <1>6 DEF OthersSame
<1>8. SettledOf(b) \in Int /\ CasesOf(b) \in Int /\ UnspentOf(b) \in Int
  BY WholeSums
<1>9. /\ UnspentOf(b) - SumOf(cents) <= UnspentOf(b) + all
      /\ SettledOf(b) + (UnspentOf(b) - SumOf(cents)) - CasesOf(b)
           = SettledOf(b) + UnspentOf(b) - CasesOf(b) + all
      /\ SettledOf(b) <= SettledOf(b) /\ CasesOf(b) <= CasesOf(b)
  BY <1>2, <1>8
<1> QED BY <1>6, <1>7, <1>9 DEF Shifts

LEMMA OpenedShifts ==
    ASSUME NEW b \in Books, NEW r, NEW p, NEW cents \in [Invoices -> Int],
           \A i \in Invoices : cents[i] >= 0,
           NEW after, IsOpened(b, r, p, cents, after),
           NEW all, all = -SumOf(cents)
    PROVE  Shifts(b, after, 0, all)
<1>1. /\ after \in Books /\ after.refunds = b.refunds /\ after.cases = b.cases
      /\ after.credits = b.credits
  BY DEF IsOpened
<1>2. SumOf(cents) \in Nat
  BY RowsAre, SumOfNat
<1>3. /\ \A other : HeldOf(after, other) = HeldOf(b, other)
      /\ \A other : CaseSum(after, other) = CaseSum(b, other)
  BY <1>1, SameSums
<1>4. RefundsFit(b) => RefundsFit(after)
  <2> SUFFICES ASSUME RefundsFit(b) PROVE RefundsFit(after)
    OBVIOUS
  <2> QED BY <1>1, <1>3, RefundsFitSame
<1>5. /\ SettledOf(after) = SettledOf(b) - SumOf(cents) /\ CollectedOf(after) = CollectedOf(b)
      /\ UnspentOf(after) = UnspentOf(b) /\ GrantedOf(after) = GrantedOf(b)
      /\ WithdrawnOf(after) = WithdrawnOf(b) /\ ReinstatedOf(after) = ReinstatedOf(b)
      /\ ToCasesOf(after) = ToCasesOf(b) /\ CasesOf(after) = CasesOf(b)
  BY OpenedWhole
<1>6. OthersSame(b, after)
  BY <1>1, <1>3, <1>4, <1>5 DEF OthersSame
<1>7. SettledOf(b) \in Int /\ CasesOf(b) \in Int /\ UnspentOf(b) \in Int
  BY WholeSums
<1>8. /\ SettledOf(b) - SumOf(cents) <= SettledOf(b) /\ UnspentOf(b) <= UnspentOf(b) + 0
      /\ (SettledOf(b) - SumOf(cents)) + UnspentOf(b) - CasesOf(b)
           = SettledOf(b) + UnspentOf(b) - CasesOf(b) + all
      /\ CasesOf(b) <= CasesOf(b)
  BY <1>2, <1>7
<1> QED BY <1>5, <1>6, <1>8 DEF Shifts

LEMMA TakenFromShifts ==
    ASSUME NEW b \in Books, NEW after, IsTakenFrom(b, after)
    PROVE  Shifts(b, after, 0, 0)
<1>1. /\ after \in Books /\ after.refunds = b.refunds /\ after.cases = b.cases
      /\ after.credits = b.credits
  BY DEF IsTakenFrom
<1>2. /\ \A other : HeldOf(after, other) = HeldOf(b, other)
      /\ \A other : CaseSum(after, other) = CaseSum(b, other)
  BY <1>1, SameSums
<1>3. RefundsFit(b) => RefundsFit(after)
  <2> SUFFICES ASSUME RefundsFit(b) PROVE RefundsFit(after)
    OBVIOUS
  <2> QED BY <1>1, <1>2, RefundsFitSame
<1>4. /\ CollectedOf(after) = CollectedOf(b) /\ SettledOf(after) = SettledOf(b)
      /\ UnspentOf(after) = UnspentOf(b) /\ GrantedOf(after) = GrantedOf(b)
      /\ WithdrawnOf(after) = WithdrawnOf(b) /\ ReinstatedOf(after) = ReinstatedOf(b)
      /\ ToCasesOf(after) = ToCasesOf(b) /\ CasesOf(after) = CasesOf(b)
  BY TakenFromWhole
<1>5. OthersSame(b, after)
  BY <1>1, <1>2, <1>3, <1>4 DEF OthersSame
<1>6. SettledOf(b) \in Int /\ CasesOf(b) \in Int /\ UnspentOf(b) \in Int
  BY WholeSums
<1> QED BY <1>4, <1>5, <1>6 DEF Shifts

LEMMA CaseShifts ==
    ASSUME NEW b \in Books, NEW r \in Nat, NEW cents \in Nat,
           NEW after, after = CaseOpened(b, <<"reversal", r>>, cents),
           NEW all, all = -cents
    PROVE  Shifts(b, after, 0, all)
<1> DEFINE by == <<"reversal", r>>
<1>1. by \in By /\ by[1] # "refund"
  BY ReversalNames
<1> HIDE DEF by
<1>2. after = CaseOpened(b, by, cents) /\ cents \in Int
  BY DEF by
<1>3. IsCaseOpened(b, by, cents, after)
  BY <1>1, <1>2, CaseOpenedIs
<1>4. /\ after \in Books /\ after.credits = b.credits /\ after.refunds = b.refunds
      /\ \A other : CaseSum(after, other) =
           CaseSum(b, other) + IF other = by THEN AtLeastZero(cents) ELSE 0
      /\ \A k \in DOMAIN after.cases :
           \/ after.cases[k].by = by
           \/ k \in DOMAIN b.cases /\ after.cases[k] = b.cases[k]
  BY <1>3 DEF IsCaseOpened
<1>5. /\ DOMAIN after.cases = 1 .. Len(after.cases) /\ DOMAIN b.cases = 1 .. Len(b.cases)
      /\ \A other : CaseSum(b, other) \in Int
  BY <1>4, BooksAre, TableSums
<1>6. \A other : HeldOf(after, other) = HeldOf(b, other)
  BY <1>4, SameSums
<1>7. \A f : CaseSum(after, <<"refund", f>>) = CaseSum(b, <<"refund", f>>)
  <2>1. \A f : <<"refund", f>> # by
    BY OtherNames DEF by
  <2> QED BY <1>4, <1>5, <2>1
<1>8. \A k \in 1 .. Len(after.cases) :
        after.cases[k].by[1] = "refund" =>
            k \in 1 .. Len(b.cases) /\ after.cases[k] = b.cases[k]
  BY <1>1, <1>4, <1>5
<1>9. RefundsFit(b) => RefundsFit(after)
  <2> SUFFICES ASSUME RefundsFit(b) PROVE RefundsFit(after)
    OBVIOUS
  <2> QED BY <1>4, <1>6, <1>7, <1>8, RefundsFitSame
<1>10. /\ CasesOf(after) = CasesOf(b) + AtLeastZero(cents)
       /\ CollectedOf(after) = CollectedOf(b) /\ SettledOf(after) = SettledOf(b)
       /\ UnspentOf(after) = UnspentOf(b) /\ GrantedOf(after) = GrantedOf(b)
       /\ WithdrawnOf(after) = WithdrawnOf(b) /\ ReinstatedOf(after) = ReinstatedOf(b)
       /\ ToCasesOf(after) = ToCasesOf(b)
  BY <1>1, <1>2, CaseOpenedWhole
<1>11. AtLeastZero(cents) = cents
  BY DEF AtLeastZero
<1>12. OthersSame(b, after)
  BY <1>4, <1>6, <1>9, <1>10 DEF OthersSame
<1>13. SettledOf(b) \in Int /\ CasesOf(b) \in Int /\ UnspentOf(b) \in Int
  BY WholeSums
<1>14. /\ SettledOf(b) <= SettledOf(b) /\ UnspentOf(b) <= UnspentOf(b) + 0
       /\ SettledOf(b) + UnspentOf(b) - (CasesOf(b) + cents)
            = SettledOf(b) + UnspentOf(b) - CasesOf(b) + all
       /\ CasesOf(b) <= CasesOf(b) + cents
  BY <1>13
<1> QED BY <1>10, <1>11, <1>12, <1>14 DEF Shifts

LEMMA TakenShifts ==
    ASSUME NEW b, NEW lifting, Sound(b, lifting),
           NEW r \in 1 .. Len(b.reversals), NEW parts, NEW cases, NEW ofOwn, NEW left,
           MayTake(b, r, parts, ofOwn, cases, left),
           NEW after, after \in Books, after = Taken(b, r, parts, ofOwn, cases),
           NEW owed, owed = -(SumOf(ofOwn) + SumOf(parts.covered)),
           NEW all, all = -(SumOf(ofOwn) + SumOf(parts.covered) + SumOf(parts.opens) + cases)
    PROVE  Shifts(b, after, owed, all) /\ owed \in Int /\ all \in Int
<1> DEFINE n == Len(b.credits)
           p == b.reversals[r].payment
           by == <<"reversal", r>>
           take == [c \in 1 .. n |-> ofOwn[c] + parts.covered[c]]
           b1 == EnteredAll(b, by, take)
           b2 == Opened(b1, r, parts.opens)
           b3 == TakenFrom(b2, r, parts.fromCredit)
           b4 == CaseOpened(b3, by, cases)
<1>1. /\ cases \in Nat /\ ofOwn \in [1 .. n -> Int] /\ parts.covered \in [1 .. n -> Int]
      /\ parts.fromCredit \in Nat /\ parts.opens \in [Invoices -> Int]
      /\ \A i \in Invoices : parts.opens[i] >= 0
  BY DEF MayTake
<1>2. /\ b \in Books /\ Named(b) /\ \A c \in 1 .. n : Single(b.credits[c])
  BY DEF Sound, CreditKept
<1>3. /\ n \in Nat /\ DOMAIN b.credits = 1 .. n /\ DOMAIN b.reversals = 1 .. Len(b.reversals)
      /\ DOMAIN b.payments = 1 .. Len(b.payments) /\ Len(b.reversals) \in Nat
  BY <1>2, BooksAre
<1>4. p \in 1 .. Len(b.payments)
  BY <1>2, <1>3 DEF Named
<1>5. by \in By /\ r \in Nat
  BY <1>3, ReversalNames
<1>6. take \in [1 .. n -> Int] /\ \A c \in 1 .. n : take[c] = ofOwn[c] + parts.covered[c]
  BY <1>1
<1>7. after = b4
  <2>1. take = [c \in DOMAIN b.credits |-> ofOwn[c] + parts.covered[c]]
    BY <1>3
  <2> QED BY <2>1 DEF Taken, TakenFrom
<1> HIDE DEF take
<1>8. /\ SumOf(take) = SumOf(ofOwn) + SumOf(parts.covered)
      /\ SumOf(take) \in Int /\ SumOf(ofOwn) \in Int /\ SumOf(parts.covered) \in Int
  BY <1>1, <1>3, <1>6, SumOfAdds, SumOfInt
<1>9. SumOf(parts.opens) \in Int
  BY <1>1, RowsAre, SumOfInt
<1>10. IsEnteredAll(b, by, take, b1)
  BY <1>2, <1>3, <1>5, <1>6, EnteredAllIs
<1> HIDE DEF b1
<1>11. /\ b1 \in Books /\ r \in 1 .. Len(b1.reversals) /\ p \in 1 .. Len(b1.payments)
       /\ p = b1.reversals[r].payment
  BY <1>4, <1>10 DEF IsEnteredAll
<1> HIDE DEF p
<1>12. IsOpened(b1, r, p, parts.opens, b2)
  BY <1>1, <1>11, OpenedIs
<1> HIDE DEF b2
<1>13. b2 \in Books /\ r \in 1 .. Len(b2.reversals)
  BY <1>11, <1>12 DEF IsOpened
<1>14. IsTakenFrom(b2, b3)
  BY <1>1, <1>13, TakenFromIs
<1> HIDE DEF b3
<1>15. b3 \in Books
  BY <1>14 DEF IsTakenFrom
<1> DEFINE e == -SumOf(take)
           o == -SumOf(parts.opens)
           k == -cases
<1>16. e \in Int /\ o \in Int /\ k \in Int
  <2>1. e \in Int
    BY <1>8
  <2>2. o \in Int
    BY <1>9
  <2>3. k \in Int
    BY <1>1
  <2> QED BY <2>1, <2>2, <2>3
<1>17. Shifts(b, b1, e, e)
  BY <1>2, <1>6, <1>10, EnteredShifts
<1>18. Shifts(b1, b2, 0, o)
  BY <1>1, <1>11, <1>12, OpenedShifts
<1>19. Shifts(b2, b3, 0, 0)
  BY <1>13, <1>14, TakenFromShifts
<1>20. Shifts(b3, b4, 0, k)
  <2>1. k = -cases
    OBVIOUS
  <2> HIDE DEF k
  <2> QED BY <1>1, <1>5, <1>15, <2>1, CaseShifts
<1>21. b4 \in Books
  BY <1>7
<1>22. owed = e /\ all = e + o + k
  <2> DEFINE x == SumOf(ofOwn)
             y == SumOf(parts.covered)
             z == SumOf(parts.opens)
  <2>1. x \in Int /\ y \in Int /\ z \in Int /\ cases \in Int
    BY <1>1, <1>8, <1>9
  <2>2. e = -(x + y) /\ o = -z /\ k = -cases
    BY <1>8
  <2>3. owed = -(x + y) /\ all = -(x + y + z + cases)
    OBVIOUS
  <2> HIDE DEF x, y, z, e, o, k
  <2> QED BY <2>1, <2>2, <2>3
<1> HIDE DEF e, o, k, b4
<1>23. Shifts(b, b2, e + 0, e + o)
  BY <1>2, <1>11, <1>13, <1>16, <1>17, <1>18, ShiftsOn
<1>24. Shifts(b, b3, e, e + o)
  BY <1>16, <1>2, <1>13, <1>15, <1>19, <1>23, ShiftsOn
<1>25. Shifts(b, b4, e, e + o + k)
  <2>1. e + o \in Int /\ 0 \in Int /\ e + 0 = e
    BY <1>16
  <2> QED BY <1>2, <1>15, <1>16, <1>20, <1>21, <1>24, <2>1, ShiftsOn
<1> QED BY <1>7, <1>16, <1>22, <1>25

-----------------------------------------------------------------------------
(* A cover that is lifted                                                  *)

LEMMA ExtendsOn ==
    ASSUME NEW b, NEW c, NEW d, Extends(b, c), Extends(c, d)
    PROVE  Extends(b, d)
<1>1. /\ d.totals = b.totals /\ d.standing = b.standing
      /\ Len(d.payments) = Len(b.payments) /\ Len(d.credits) = Len(b.credits)
      /\ Len(d.reversals) = Len(b.reversals)
  BY DEF Extends
<1>2. \A r \in 1 .. Len(b.reversals) :
        /\ d.reversals[r].payment = b.reversals[r].payment
        /\ d.reversals[r].amount = b.reversals[r].amount
        /\ d.reversals[r].reinstated = b.reversals[r].reinstated
  BY DEF Extends
<1>3. ASSUME NEW e \in 1 .. Len(b.credits)
      PROVE  /\ DOMAIN b.credits[e].entries \subseteq DOMAIN d.credits[e].entries
             /\ \A k \in DOMAIN b.credits[e].entries :
                  d.credits[e].entries[k].by = b.credits[e].entries[k].by
  BY DEF Extends
<1> QED BY <1>1, <1>2, <1>3 DEF Extends

\* No entry of `after` is of less than in b, but entry k of credit c by d.
NotLess(b, after, c, k, d) ==
    \A e \in 1 .. Len(b.credits) : \A j \in DOMAIN b.credits[e].entries :
        after.credits[e].entries[j].cents >=
            b.credits[e].entries[j].cents - IF e = c /\ j = k THEN d ELSE 0

CoverReturns(b, c, r, cents) ==
    EnteredAll(b, <<"reversal", r>>, [e \in 1 .. Len(b.credits) |-> IF e = c THEN -cents ELSE 0])

LEMMA CoverLiftedBy ==
    ASSUME NEW b \in Books, NEW c \in 1 .. Len(b.credits), NEW r, NEW cents \in Nat, cents > 0
    PROVE  LET returned == CoverReturns(b, c, r, cents)
               parts == WithdrawalParts(returned, b.reversals[r].payment, cents)
           IN CoverLifted(b, c, r, cents)
                = Taken(returned, r, parts, parts.credits, parts.unmatched)
<1> DEFINE by == <<"reversal", r>>
           give == [e \in 1 .. Len(b.credits) |-> IF e = c THEN -cents ELSE 0]
           returned == [b EXCEPT !.credits[c] = Entered(@, by, -cents)]
<1>1. b.credits \in Seq(Credit) /\ DOMAIN b.credits = 1 .. Len(b.credits)
  BY BooksAre
<1>2. [e \in DOMAIN b.credits |-> Entered(b.credits[e], by, give[e])]
        = [b.credits EXCEPT ![c] = Entered(@, by, -cents)]
  <2>1. \A e \in DOMAIN b.credits :
          Entered(b.credits[e], by, give[e])
            = IF e = c THEN Entered(b.credits[e], by, -cents) ELSE b.credits[e]
    BY <1>1 DEF Entered
  <2>2. c \in DOMAIN b.credits
    BY <1>1
  <2> HIDE DEF give, by
  <2> QED BY <1>1, <2>1, <2>2
<1>3. returned = CoverReturns(b, c, r, cents)
  <2> HIDE DEF give
  <2>1. returned = [b EXCEPT !.credits = [e \in DOMAIN b.credits |-> Entered(b.credits[e], by, give[e])]]
    BY <1>2
  <2> QED BY <2>1 DEF CoverReturns, EnteredAll, give
<1>4. cents # 0
  OBVIOUS
<1> QED BY <1>3, <1>4 DEF CoverLifted

LEMMA CoverLiftedKeeps ==
    ASSUME NEW b, NEW lifting, Sound(b, lifting), Fitting(b),
           lifting \in [1 .. Len(b.credits) -> Int],
           \A e \in 1 .. Len(b.credits) : lifting[e] >= 0,
           NEW c \in 1 .. Len(b.credits), NEW k \in DOMAIN b.credits[c].entries,
           NEW r, b.credits[c].entries[k].by = <<"reversal", r>>,
           NEW cents \in Nat, cents <= b.credits[c].entries[k].cents, cents <= lifting[c],
           NEW left \in [1 .. Len(b.credits) -> Int],
           \A e \in 1 .. Len(b.credits) :
             left[e] = IF e = c THEN lifting[c] - cents ELSE lifting[e],
           NEW after, after = CoverLifted(b, c, r, cents)
    PROVE  /\ Sound(after, left) /\ Fitting(after) /\ Extends(b, after)
           /\ NotLess(b, after, c, k, cents) /\ Shifts(b, after, cents, 0)
<1> DEFINE n == Len(b.credits)
           m == Len(b.reversals)
           by == <<"reversal", r>>
           p == b.reversals[r].payment
           give == [e \in 1 .. n |-> IF e = c THEN -cents ELSE 0]
           returned == CoverReturns(b, c, r, cents)
           parts == WithdrawalParts(returned, p, cents)
<1>1. /\ b \in Books /\ Named(b) /\ SettlesKept(b)
      /\ \A e \in 1 .. n : CreditKept(b.credits[e], lifting[e])
  BY DEF Sound
<1>2. /\ n \in Nat /\ DOMAIN b.credits = 1 .. n /\ \A e \in 1 .. n : b.credits[e] \in Credit
      /\ m \in Nat /\ DOMAIN b.reversals = 1 .. m
      /\ DOMAIN b.payments = 1 .. Len(b.payments)
  BY <1>1, BooksAre
<1>3. \A e \in 1 .. n : \A j \in DOMAIN b.credits[e].entries : b.credits[e].entries[j].cents \in Int
  BY <1>2, EntriesOf
<1>4. CASE cents = 0
  <2>1. after = b
    BY <1>4 DEF CoverLifted
  <2>2. left = lifting
    BY <1>4
  <2>3. Extends(b, b)
    BY DEF Extends
  <2>4. NotLess(b, b, c, k, cents)
    BY <1>3, <1>4 DEF NotLess
  <2>5. Shifts(b, b, cents, 0)
    BY <1>1, <1>4, ShiftsNone
  <2> QED BY <2>1, <2>2, <2>3, <2>4, <2>5
<1>5. CASE cents > 0
  <2>1. r \in 1 .. m
    <3>1. NamesOneOf(b.credits[c].entries[k].by, m)
      BY <1>1, <1>2 DEF Named
    <3> QED BY <3>1 DEF NamesOneOf
  <2>2. give \in [1 .. n -> Int] /\ \A e \in 1 .. n : give[e] = IF e = c THEN -cents ELSE 0
    OBVIOUS
  <2> HIDE DEF give
  <2>3. SumOf(give) = -cents
    <3> DEFINE d == -cents
    <3>1. d \in Int /\ n \in Nat
      BY <1>2
    <3>2. give = [e \in 1 .. n |-> IF e = c THEN d ELSE 0]
      BY DEF give
    <3> HIDE DEF d
    <3>3. SumOf(give) = d
      BY <3>1, <3>2, SumOfOne
    <3> QED BY <3>3 DEF d
  <2>4. ASSUME NEW e \in 1 .. n
        PROVE  MayEnter(b.credits[e], by, give[e], left[e])
    <3>1. /\ Spent(b.credits[e]) \in Int /\ b.credits[e].amount \in Int /\ lifting[e] \in Int
          /\ Spent(b.credits[e]) <= b.credits[e].amount + lifting[e]
          /\ Single(b.credits[e]) /\ NoneNegative(b.credits[e])
      <4>1. CreditKept(b.credits[e], lifting[e]) /\ b.credits[e] \in Credit
        BY <1>1, <1>2
      <4>2. b.credits[e].amount \in Int
        BY <4>1, RowsAre
      <4>3. Spent(b.credits[e]) \in Int
        BY <4>1, SpentInt
      <4>4. lifting[e] \in Int
        OBVIOUS
      <4> QED BY <4>1, <4>2, <4>3, <4>4 DEF CreditKept
    <3>2. CASE e = c
      <4>1. give[e] = -cents /\ left[e] = lifting[e] - cents
        BY <2>2, <3>2
      <4>2. \A j \in DOMAIN b.credits[e].entries : b.credits[e].entries[j].by = by => j = k
        BY <3>1, <3>2 DEF Single
      <4>3. \E j \in DOMAIN b.credits[e].entries : b.credits[e].entries[j].by = by
        BY <3>2
      <4>4. Spent(b.credits[e]) + give[e] <= b.credits[e].amount + left[e]
        <5> DEFINE spent == Spent(b.credits[e])
                   amount == b.credits[e].amount
        <5>1. /\ spent \in Int /\ amount \in Int /\ lifting[e] \in Int /\ cents \in Int
              /\ spent <= amount + lifting[e]
          BY <3>1
        <5> HIDE DEF spent, amount
        <5>2. spent + -cents <= amount + (lifting[e] - cents)
          BY <5>1
        <5> QED BY <4>1, <5>2 DEF spent, amount
      <4>5. b.credits[e].entries[k].cents + give[e] >= 0
        BY <1>3, <3>2, <4>1
      <4> QED BY <4>2, <4>3, <4>4, <4>5 DEF MayEnter
    <3>3. CASE e # c
      <4>1. give[e] = 0 /\ left[e] = lifting[e]
        BY <2>2, <3>3
      <4>2. \A j \in DOMAIN b.credits[e].entries : b.credits[e].entries[j].cents + 0 >= 0
        <5>1. \A j \in DOMAIN b.credits[e].entries : b.credits[e].entries[j].cents >= 0
          BY <3>1 DEF NoneNegative
        <5>2. \A j \in DOMAIN b.credits[e].entries : b.credits[e].entries[j].cents \in Int
          BY <1>3
        <5> QED BY <5>1, <5>2
      <4> QED BY <3>1, <4>1, <4>2 DEF MayEnter
    <3> QED BY <3>2, <3>3
  <2>5. AllFit(b, r, SumOf(give) + cents)
    <3>1. SumOf(give) + cents = 0
      BY <2>3
    <3> QED BY <3>1, FittingIs
  <2>6. returned = EnteredAll(b, by, give)
    BY DEF CoverReturns, give
  <2>7. /\ Sound(returned, left) /\ AllFit(returned, r, cents) /\ Extends(b, returned)
        /\ IsEnteredAll(b, by, give, returned)
    <3> HIDE DEF returned
    <3>1. cents \in Int
      OBVIOUS
    <3> QED BY <2>1, <2>2, <2>4, <2>5, <2>6, <3>1, EnteredAllKeeps
  <2>8. after = Taken(returned, r, parts, parts.credits, parts.unmatched)
    BY <1>1, <1>5, CoverLiftedBy
  <2> HIDE DEF returned
  <2>9. /\ returned \in Books /\ Len(returned.credits) = n /\ Len(returned.reversals) = m
        /\ returned.reversals = b.reversals /\ returned.payments = b.payments
        /\ returned.credits \in Seq(Credit) /\ \A e \in 1 .. n : returned.credits[e] \in Credit
    BY <2>7, BooksAre DEF IsEnteredAll
  <2>10. p \in 1 .. Len(b.payments)
    BY <1>1, <1>2, <2>1 DEF Named
  <2>11. PartsAre(returned, p, cents, parts)
    <3>1. \A i \in Invoices : returned.payments[p].settles[i] >= 0
      BY <1>1, <2>9, <2>10 DEF SettlesKept
    <3> HIDE DEF p
    <3> QED BY <2>9, <2>10, <3>1, WithdrawalPartsAre
  <2> HIDE DEF parts
  <2>12. /\ parts.fromCredit \in Nat /\ parts.credits \in [1 .. n -> Int]
         /\ parts.covered \in [1 .. n -> Int] /\ parts.opens \in [Invoices -> Int]
         /\ \A i \in Invoices : 0 <= parts.opens[i] /\ parts.opens[i] <= returned.payments[p].settles[i]
         /\ \A e \in 1 .. n :
              /\ parts.credits[e] >= 0 /\ parts.covered[e] >= 0
              /\ parts.credits[e] + parts.covered[e] <= OpenOf(returned.credits[e])
         /\ SumOf(parts.credits) + SumOf(parts.covered) + SumOf(parts.opens) + parts.unmatched = cents
    BY <2>9, <2>11 DEF PartsAre
  <2>13. parts.unmatched \in Nat
    <3>1. /\ parts.beyondOpen \in [1 .. n -> Int] /\ \A e \in 1 .. n : parts.beyondOpen[e] >= 0
          /\ parts.unmatched \in Int /\ SumOf(parts.beyondOpen) <= parts.unmatched
      BY <2>9, <2>11 DEF PartsAre
    <3>2. SumOf(parts.beyondOpen) \in Nat
      BY <1>2, <3>1, SumOfNat
    <3> QED BY <3>1, <3>2
  <2>14. ASSUME NEW e \in 1 .. n
         PROVE  MayHold(returned.credits[e], parts.credits[e], parts.covered[e], left[e])
    <3>1. CreditKept(returned.credits[e], left[e])
      BY <2>7, <2>9 DEF Sound
    <3>2. left[e] \in Int /\ left[e] >= 0
      OBVIOUS
    <3>3. /\ parts.credits[e] \in Int /\ parts.covered[e] \in Int
          /\ parts.credits[e] >= 0 /\ parts.covered[e] >= 0
          /\ parts.credits[e] + parts.covered[e] <= OpenOf(returned.credits[e])
      BY <2>12
    <3>4. returned.credits[e] \in Credit
      BY <2>9
    <3> QED BY <3>1, <3>2, <3>3, <3>4, RoomIs
  <2>15. MayTake(returned, r, parts, parts.credits, parts.unmatched, left)
    BY <2>9, <2>7, <2>12, <2>13, <2>14 DEF MayTake
  <2>16. /\ Sound(after, left) /\ AllFit(after, r, 0) /\ Extends(returned, after)
         /\ \A e \in 1 .. n : \A j \in DOMAIN returned.credits[e].entries :
              after.credits[e].entries[j].cents >= returned.credits[e].entries[j].cents
    <3> HIDE DEF m, n
    <3>1. r \in 1 .. Len(returned.reversals) /\ Sound(returned, left)
      BY <2>1, <2>7, <2>9
    <3>2. /\ Sound(after, left) /\ AllFit(after, r, 0) /\ Extends(returned, after)
          /\ \A e \in 1 .. Len(returned.credits) : \A j \in DOMAIN returned.credits[e].entries :
               after.credits[e].entries[j].cents >= returned.credits[e].entries[j].cents
      BY <2>8, <2>15, <3>1, TakenKeeps
    <3> QED BY <2>9, <3>2
  <2>17. Extends(b, after)
    BY <2>7, <2>16, ExtendsOn
  <2>18. NotLess(b, after, c, k, cents)
    <3> SUFFICES ASSUME NEW e \in 1 .. n, NEW j \in DOMAIN b.credits[e].entries
                 PROVE  after.credits[e].entries[j].cents >=
                          b.credits[e].entries[j].cents - IF e = c /\ j = k THEN cents ELSE 0
      BY DEF NotLess
    <3>1. IsEntered(b.credits[e], by, give[e], returned.credits[e])
      BY <2>7 DEF IsEnteredAll
    <3>2. /\ j \in DOMAIN returned.credits[e].entries
          /\ returned.credits[e].entries[j].cents = b.credits[e].entries[j].cents
               + IF b.credits[e].entries[j].by = by THEN give[e] ELSE 0
      BY <3>1 DEF IsEntered
    <3>3. after.credits[e].entries[j].cents >= returned.credits[e].entries[j].cents
      BY <2>16, <3>2
    <3>4. b.credits[e].entries[j].cents \in Int
      BY <1>3
    <3>5. (IF b.credits[e].entries[j].by = by THEN give[e] ELSE 0)
            = IF e = c /\ j = k THEN -cents ELSE 0
      <4>1. CASE e = c
        <5>1. b.credits[e].entries[j].by = by <=> j = k
          BY <1>1, <4>1 DEF CreditKept, Single
        <5> QED BY <2>2, <4>1, <5>1
      <4>2. CASE e # c
        BY <2>2, <4>2
      <4> QED BY <4>1, <4>2
    <3>6. returned.credits[e].entries[j].cents
            = b.credits[e].entries[j].cents - IF e = c /\ j = k THEN cents ELSE 0
      <4>1. CASE e = c /\ j = k
        BY <3>2, <3>5, <4>1, <3>4
      <4>2. CASE ~(e = c /\ j = k)
        <5>1. returned.credits[e].entries[j].cents = b.credits[e].entries[j].cents + 0
          BY <3>2, <3>5, <4>2
        <5> QED BY <3>4, <4>2, <5>1
      <4> QED BY <4>1, <4>2
    <3> QED BY <3>3, <3>6
  <2>19. Fitting(after)
    BY <2>16, FittingIs
  <2>20. Shifts(b, after, cents, 0)
    <3> DEFINE owed == -(SumOf(parts.credits) + SumOf(parts.covered))
               all == -(SumOf(parts.credits) + SumOf(parts.covered) + SumOf(parts.opens)
                          + parts.unmatched)
    <3>1. after \in Books /\ r \in 1 .. Len(returned.reversals) /\ Sound(returned, left)
      BY <2>1, <2>7, <2>9, <2>16 DEF Sound
    <3>2. owed = -(SumOf(parts.credits) + SumOf(parts.covered))
      OBVIOUS
    <3>3. all = -(SumOf(parts.credits) + SumOf(parts.covered) + SumOf(parts.opens)
                    + parts.unmatched)
      OBVIOUS
    <3> HIDE DEF owed, all
    <3>4. Shifts(returned, after, owed, all) /\ owed \in Int /\ all \in Int
      BY <2>8, <2>15, <3>1, <3>2, <3>3, TakenShifts
    <3>5. Shifts(b, returned, cents, cents)
      <4>1. cents = -SumOf(give)
        BY <2>3
      <4> QED BY <1>1, <2>2, <2>7, <4>1, EnteredShifts
    <3>6. SumOf(parts.credits) \in Nat /\ SumOf(parts.covered) \in Nat
      BY <1>2, <2>12, SumOfNat
    <3>7. cents \in Int /\ cents + owed <= cents /\ cents + all = 0 /\ cents + owed \in Int
      BY <2>12, <3>2, <3>3, <3>4, <3>6
    <3>8. Shifts(b, after, cents + owed, cents + all)
      BY <1>1, <2>9, <3>1, <3>4, <3>5, <3>7, ShiftsOn
    <3> QED BY <1>1, <3>1, <3>7, <3>8, ShiftsLess
  <2> QED BY <2>16, <2>17, <2>18, <2>19, <2>20
<1> QED BY <1>4, <1>5

-----------------------------------------------------------------------------
(* The covers that are lifted, one after the other                         *)

LEMMA FirstOfGrows ==
    ASSUME NEW n \in Nat, NEW s \in [1 .. n -> Int], \A i \in 1 .. n : s[i] >= 0
    PROVE  \A k \in 0 .. n : FirstOf(s, k) <= SumOf(s)
<1> DEFINE T == {j \in Nat : j <= n => FirstOf(s, n - j) <= SumOf(s)}
<1>1. SumOf(s) = FirstOf(s, n) /\ SumOf(s) \in Int
  BY SumOfInt
<1>2. 0 \in T
  BY <1>1
<1>3. ASSUME NEW j \in Nat, j \in T
      PROVE  j + 1 \in T
  <2> SUFFICES ASSUME j + 1 <= n
               PROVE  FirstOf(s, n - (j + 1)) <= SumOf(s)
    OBVIOUS
  <2> DEFINE i == n - (j + 1)
  <2>1. i \in Nat /\ i + 1 = n - j /\ i + 1 \in 1 .. n /\ i \in 0 .. n
    OBVIOUS
  <2> HIDE DEF i
  <2>2. FirstOf(s, i + 1) = FirstOf(s, i) + s[i + 1]
    BY <2>1, FirstOfStep
  <2>3. FirstOf(s, i) \in Int /\ s[i + 1] \in Int /\ s[i + 1] >= 0
    BY <2>1, FirstOfInt
  <2>4. FirstOf(s, i + 1) <= SumOf(s)
    BY <1>3, <2>1
  <2>5. FirstOf(s, i) <= SumOf(s)
    BY <1>1, <2>2, <2>3, <2>4
  <2> QED BY <2>5 DEF i
<1>4. \A j \in Nat : j \in T
  BY <1>2, <1>3, Inductive
<1> HIDE DEF T
<1>5. ASSUME NEW k \in 0 .. n
      PROVE  FirstOf(s, k) <= SumOf(s)
  <2>1. n - k \in Nat /\ n - k <= n /\ n - (n - k) = k
    OBVIOUS
  <2>2. n - k \in T
    BY <1>4, <2>1
  <2> QED BY <2>1, <2>2 DEF T
<1> QED BY <1>5

LiftsInTurn(b, c, lifts, n, f) ==
    f = [k \in 0 .. n |->
            IF k = 0 THEN b
            ELSE CoverLifted(f[k - 1], c, b.credits[c].entries[k].by[2], lifts[k])]

LEMMA LiftsInTurnExist ==
    ASSUME NEW b, NEW c, NEW lifts
    PROVE  \A n \in Nat : \E f : LiftsInTurn(b, c, lifts, n, f)
<1> DEFINE T == {n \in Nat : \E f : LiftsInTurn(b, c, lifts, n, f)}
           Next1(before, k) == CoverLifted(before, c, b.credits[c].entries[k].by[2], lifts[k])
<1>1. 0 \in T
  <2>1. LiftsInTurn(b, c, lifts, 0, [k \in 0 .. 0 |-> b])
    BY DEF LiftsInTurn
  <2> QED BY <2>1
<1>2. ASSUME NEW n \in Nat, n \in T
      PROVE  n + 1 \in T
  <2>1. PICK f : LiftsInTurn(b, c, lifts, n, f)
    BY <1>2
  <2> DEFINE g == [k \in 0 .. n + 1 |-> IF k = n + 1 THEN Next1(f[n], n + 1) ELSE f[k]]
  <2>2. f = [k \in 0 .. n |-> IF k = 0 THEN b ELSE Next1(f[k - 1], k)]
    BY <2>1 DEF LiftsInTurn
  <2>3. g = [k \in 0 .. n + 1 |-> IF k = 0 THEN b ELSE Next1(g[k - 1], k)]
    <3> HIDE DEF Next1
    <3> QED BY <2>2
  <2>4. LiftsInTurn(b, c, lifts, n + 1, g)
    BY <2>3 DEF LiftsInTurn
  <2> QED BY <2>4
<1>3. \A n \in Nat : n \in T
  BY <1>1, <1>2, Inductive
<1> QED BY <1>3

LEMMA LiftedOfIs ==
    ASSUME NEW b, NEW c, NEW n \in Nat, NEW lifts, Len(lifts) = n
    PROVE  \E f : LiftsInTurn(b, c, lifts, n, f) /\ LiftedOf(b, c, lifts) = f[n]
<1> DEFINE f == CHOOSE f : f = [k \in 0 .. n |->
                    IF k = 0 THEN b
                    ELSE CoverLifted(f[k - 1], c, b.credits[c].entries[k].by[2], lifts[k])]
<1>1. LiftsInTurn(b, c, lifts, n, f)
  <2>1. \E g : LiftsInTurn(b, c, lifts, n, g)
    BY LiftsInTurnExist
  <2>2. \E g : g = [k \in 0 .. n |->
                    IF k = 0 THEN b
                    ELSE CoverLifted(g[k - 1], c, b.credits[c].entries[k].by[2], lifts[k])]
    BY <2>1 DEF LiftsInTurn
  <2>3. f = [k \in 0 .. n |->
                IF k = 0 THEN b
                ELSE CoverLifted(f[k - 1], c, b.credits[c].entries[k].by[2], lifts[k])]
    BY <2>2
  <2> HIDE DEF f
  <2> QED BY <2>3 DEF LiftsInTurn
<1>2. LiftedOf(b, c, lifts) = f[n]
  BY DEF LiftedOf
<1> QED BY <1>1, <1>2

\* The first n entries are lifted by no more than they are of, and only covers.
LiftsWithin(credit, n, lifts) ==
    /\ n \in Nat /\ lifts \in [1 .. n -> Int]
    /\ 1 .. n \subseteq DOMAIN credit.entries
    /\ \A k \in 1 .. n :
         /\ 0 <= lifts[k] /\ lifts[k] <= credit.entries[k].cents
         /\ lifts[k] > 0 => credit.entries[k].by[1] = "reversal"

\* No entry of another credit is of less, nor any of credit c behind its first k.
OthersNotLess(b, after, c, k) ==
    \A e \in 1 .. Len(b.credits) : \A j \in DOMAIN b.credits[e].entries :
        e # c \/ j > k => after.credits[e].entries[j].cents >= b.credits[e].entries[j].cents

LEMMA SoundSame ==
    ASSUME NEW b, NEW lifting, Sound(b, lifting), NEW left,
           \A c \in 1 .. Len(b.credits) : left[c] = lifting[c]
    PROVE  Sound(b, left)
  BY DEF Sound

LEMMA LiftedOfKeeps ==
    ASSUME NEW b, NEW lifting, Sound(b, lifting), Fitting(b),
           lifting \in [1 .. Len(b.credits) -> Int],
           \A e \in 1 .. Len(b.credits) : lifting[e] >= 0,
           NEW c \in 1 .. Len(b.credits), NEW n, NEW lifts, LiftsWithin(b.credits[c], n, lifts),
           SumOf(lifts) <= lifting[c],
           NEW left \in [1 .. Len(b.credits) -> Int],
           \A e \in 1 .. Len(b.credits) :
             left[e] = IF e = c THEN lifting[c] - SumOf(lifts) ELSE lifting[e],
           NEW after, after = LiftedOf(b, c, lifts)
    PROVE  /\ Sound(after, left) /\ Fitting(after) /\ Extends(b, after)
           /\ OthersNotLess(b, after, c, n) /\ Shifts(b, after, SumOf(lifts), 0)
<1> DEFINE N == Len(b.credits)
           By2(k) == b.credits[c].entries[k].by[2]
           Pending(k) == [e \in 1 .. N |-> IF e = c THEN lifting[c] - FirstOf(lifts, k) ELSE lifting[e]]
           Kept(k, now) == /\ Sound(now, Pending(k)) /\ Fitting(now) /\ Extends(b, now)
                           /\ OthersNotLess(b, now, c, k)
                           /\ Shifts(b, now, FirstOf(lifts, k), 0)
<1>1. b \in Books /\ N \in Nat /\ \A e \in 1 .. N : b.credits[e] \in Credit
  BY BooksAre DEF Sound
<1>2. /\ n \in Nat /\ lifts \in [1 .. n -> Int] /\ 1 .. n \subseteq DOMAIN b.credits[c].entries
      /\ \A k \in 1 .. n : /\ 0 <= lifts[k] /\ lifts[k] <= b.credits[c].entries[k].cents
                           /\ lifts[k] > 0 => b.credits[c].entries[k].by[1] = "reversal"
  BY DEF LiftsWithin
<1>3. Len(lifts) = n
  BY <1>2
<1>4. PICK f : LiftsInTurn(b, c, lifts, n, f) /\ after = f[n]
  BY <1>2, <1>3, LiftedOfIs
<1>5. /\ f[0] = b
      /\ \A k \in Nat : k + 1 <= n => f[k + 1] = CoverLifted(f[k], c, By2(k + 1), lifts[k + 1])
  BY <1>2, <1>4 DEF LiftsInTurn
<1>6. /\ \A k \in 0 .. n : FirstOf(lifts, k) \in Int /\ FirstOf(lifts, k) <= SumOf(lifts)
      /\ SumOf(lifts) = FirstOf(lifts, n) /\ SumOf(lifts) \in Int
      /\ FirstOf(lifts, 0) = 0
      /\ \A k \in Nat : FirstOf(lifts, k + 1) = FirstOf(lifts, k) + lifts[k + 1]
  BY <1>2, FirstOfGrows, FirstOfInt, FirstOfStep, SumOfInt
<1>7. \A k \in 0 .. n : /\ Pending(k) \in [1 .. N -> Int]
                        /\ \A e \in 1 .. N : Pending(k)[e] >= 0
  <2> SUFFICES ASSUME NEW k \in 0 .. n, NEW e \in 1 .. N
               PROVE  Pending(k)[e] \in Int /\ Pending(k)[e] >= 0
    OBVIOUS
  <2>1. /\ FirstOf(lifts, k) \in Int /\ FirstOf(lifts, k) <= SumOf(lifts) /\ SumOf(lifts) \in Int
        /\ lifting[e] \in Int /\ lifting[e] >= 0 /\ lifting[c] \in Int /\ SumOf(lifts) <= lifting[c]
    BY <1>6
  <2> QED BY <2>1
<1> DEFINE T == {k \in Nat : k <= n => Kept(k, f[k])}
<1>8. 0 \in T
  <2>1. \A e \in 1 .. N : Pending(0)[e] = lifting[e]
    <3> SUFFICES ASSUME NEW e \in 1 .. N
                 PROVE  Pending(0)[e] = lifting[e]
      OBVIOUS
    <3>1. lifting[c] \in Int
      OBVIOUS
    <3>2. Pending(0)[e] = IF e = c THEN lifting[c] - 0 ELSE lifting[e]
      BY <1>6
    <3> QED BY <3>1, <3>2
  <2> HIDE DEF Pending
  <2>2. Sound(b, Pending(0))
    BY <2>1, SoundSame
  <2>3. Extends(b, b)
    BY DEF Extends
  <2>4. OthersNotLess(b, b, c, 0)
    <3>1. \A e \in 1 .. N : \A j \in DOMAIN b.credits[e].entries : b.credits[e].entries[j].cents \in Int
      BY <1>1, EntriesOf
    <3> QED BY <3>1 DEF OthersNotLess
  <2>5. Shifts(b, b, FirstOf(lifts, 0), 0)
    BY <1>1, <1>6, ShiftsNone
  <2> QED BY <1>5, <2>2, <2>3, <2>4, <2>5
<1>9. ASSUME NEW k \in Nat, k \in T
      PROVE  k + 1 \in T
  <2> SUFFICES ASSUME k + 1 <= n
               PROVE  Kept(k + 1, f[k + 1])
    <3> HIDE DEF Kept
    <3> QED OBVIOUS
  <2> DEFINE now == f[k]
             then == f[k + 1]
             cents == lifts[k + 1]
             r == By2(k + 1)
  <2>1. Kept(k, now)
    <3>1. k <= n
      BY <1>2, <1>9
    <3> HIDE DEF Kept
    <3> QED BY <1>9, <3>1
  <2>2. k \in 0 .. n /\ k + 1 \in 0 .. n /\ k + 1 \in 1 .. n
    BY <1>2
  <2>3. then = CoverLifted(now, c, r, cents)
    BY <1>5
  <2>4. /\ Pending(k) \in [1 .. N -> Int] /\ \A e \in 1 .. N : Pending(k)[e] >= 0
        /\ Pending(k + 1) \in [1 .. N -> Int] /\ \A e \in 1 .. N : Pending(k + 1)[e] >= 0
    BY <1>7, <2>2
  <2>5. /\ \A e \in 1 .. N :
             Pending(k + 1)[e] = IF e = c THEN Pending(k)[c] - cents ELSE Pending(k)[e]
        /\ cents <= Pending(k)[c]
    <3>1. /\ FirstOf(lifts, k) \in Int /\ FirstOf(lifts, k + 1) = FirstOf(lifts, k) + cents
          /\ cents \in Int /\ lifting[c] \in Int /\ FirstOf(lifts, k + 1) \in Int
      BY <1>2, <1>6, <2>2
    <3>2. /\ Pending(k)[c] = lifting[c] - FirstOf(lifts, k)
          /\ Pending(k + 1)[c] = lifting[c] - FirstOf(lifts, k + 1)
          /\ \A e \in 1 .. N : e # c => /\ Pending(k)[e] = lifting[e]
                                       /\ Pending(k + 1)[e] = lifting[e]
      OBVIOUS
    <3>3. Pending(k + 1)[c] >= 0
      BY <2>4
    <3> HIDE DEF Pending, cents
    <3>4. Pending(k + 1)[c] = Pending(k)[c] - cents /\ cents <= Pending(k)[c]
      BY <3>1, <3>2, <3>3
    <3> QED BY <3>2, <3>4
  <2> DEFINE pending == Pending(k)
             pending2 == Pending(k + 1)
  <2>6. /\ Sound(now, pending) /\ Fitting(now) /\ Extends(b, now) /\ OthersNotLess(b, now, c, k)
        /\ Len(now.credits) = N /\ Shifts(b, now, FirstOf(lifts, k), 0)
    BY <2>1 DEF Extends
  <2>7. /\ k + 1 \in DOMAIN b.credits[c].entries
        /\ k + 1 \in DOMAIN now.credits[c].entries
        /\ now.credits[c].entries[k + 1].by = b.credits[c].entries[k + 1].by
        /\ now.credits[c].entries[k + 1].cents >= b.credits[c].entries[k + 1].cents
    BY <1>2, <2>2, <2>6 DEF Extends, OthersNotLess
  <2>8. /\ now.credits[c].entries[k + 1].cents \in Int
        /\ b.credits[c].entries[k + 1].cents \in Int
        /\ b.credits[c].entries[k + 1].by \in By
    BY <2>6, BooksAre, <1>1, <2>7, EntriesOf DEF Sound
  <2>9. cents \in Nat /\ cents <= now.credits[c].entries[k + 1].cents
    <3>1. cents \in Int /\ 0 <= cents /\ cents <= b.credits[c].entries[k + 1].cents
      BY <1>2, <2>2
    <3> DEFINE was == b.credits[c].entries[k + 1].cents
               is == now.credits[c].entries[k + 1].cents
    <3>2. was \in Int /\ is \in Int /\ is >= was /\ cents <= was
      BY <2>7, <2>8, <3>1
    <3> HIDE DEF cents, was, is
    <3>3. cents <= is
      BY <3>1, <3>2
    <3> QED BY <3>1, <3>3 DEF is
  <2>10. \A e \in 1 .. N : \A j \in DOMAIN b.credits[e].entries : j > k + 1 => j > k
    <3> SUFFICES ASSUME NEW e \in 1 .. N, NEW j \in DOMAIN b.credits[e].entries
                 PROVE  j > k + 1 => j > k
      OBVIOUS
    <3>1. b.credits[e] \in Credit
      BY <1>1
    <3>2. j \in Nat
      BY <3>1, EntriesOf
    <3> QED BY <3>2
  <2>11. CASE cents = 0
    <3>1. then = now
      BY <2>3, <2>11 DEF CoverLifted
    <3>2. \A e \in 1 .. N : pending2[e] = pending[e]
      <4> HIDE DEF Pending
      <4> SUFFICES ASSUME NEW e \in 1 .. N
                   PROVE  pending2[e] = pending[e]
        OBVIOUS
      <4>1. pending[c] \in Int
        BY <2>4
      <4>2. pending2[e] = IF e = c THEN pending[c] - cents ELSE pending[e]
        BY <2>5
      <4> HIDE DEF cents, pending, pending2
      <4> QED BY <2>11, <4>1, <4>2
    <3>3. Sound(then, pending2)
      <4> HIDE DEF pending, pending2, now, then
      <4> QED BY <2>6, <3>1, <3>2, SoundSame
    <3>4. OthersNotLess(b, now, c, k + 1)
      BY <2>6, <2>10 DEF OthersNotLess
    <3>5. FirstOf(lifts, k + 1) = FirstOf(lifts, k)
      <4>1. FirstOf(lifts, k) \in Int /\ FirstOf(lifts, k + 1) = FirstOf(lifts, k) + 0
        BY <1>6, <2>2, <2>11
      <4> QED BY <4>1
    <3> QED BY <2>6, <3>1, <3>3, <3>4, <3>5
  <2>12. CASE cents > 0
    <3>1. now.credits[c].entries[k + 1].by = <<"reversal", r>>
      <4>1. b.credits[c].entries[k + 1].by[1] = "reversal"
        BY <1>2, <2>2, <2>12
      <4>2. b.credits[c].entries[k + 1].by = <<"reversal", r>>
        BY <2>8, <4>1 DEF By
      <4> QED BY <2>7, <4>2
    <3>2. /\ Sound(then, pending2) /\ Fitting(then) /\ Extends(now, then)
          /\ NotLess(now, then, c, k + 1, cents) /\ Shifts(now, then, cents, 0)
      <4> HIDE DEF now, then, cents, r, pending, pending2
      <4>1. /\ pending \in [1 .. Len(now.credits) -> Int]
            /\ \A e \in 1 .. Len(now.credits) : pending[e] >= 0
            /\ pending2 \in [1 .. Len(now.credits) -> Int]
            /\ \A e \in 1 .. Len(now.credits) :
                 pending2[e] = IF e = c THEN pending[c] - cents ELSE pending[e]
            /\ c \in 1 .. Len(now.credits) /\ cents <= pending[c]
        BY <2>4, <2>5, <2>6 DEF pending, pending2
      <4> HIDE DEF Pending
      <4> QED BY <2>3, <2>6, <2>7, <2>9, <3>1, <4>1, CoverLiftedKeeps
    <3>3. Extends(b, then)
      BY <2>6, <3>2, ExtendsOn
    <3>4. OthersNotLess(b, then, c, k + 1)
      <4> SUFFICES ASSUME NEW e \in 1 .. N, NEW j \in DOMAIN b.credits[e].entries,
                          e # c \/ j > k + 1
                   PROVE  then.credits[e].entries[j].cents >= b.credits[e].entries[j].cents
        BY DEF OthersNotLess
      <4>1. b.credits[e].entries[j].cents \in Int /\ j \in Nat
        BY <1>1, EntriesOf
      <4>2. j \in DOMAIN now.credits[e].entries
        BY <2>6 DEF Extends
      <4>3. now.credits[e].entries[j].cents \in Int
        BY <2>6, BooksAre, <4>2, EntriesOf DEF Sound
      <4>4. now.credits[e].entries[j].cents >= b.credits[e].entries[j].cents
        BY <2>6, <2>10 DEF OthersNotLess
      <4>5. then.credits[e].entries[j].cents >= now.credits[e].entries[j].cents - 0
        BY <2>6, <3>2, <4>1, <4>2 DEF NotLess
      <4>6. then.credits[e].entries[j].cents \in Int
        BY <2>6, <3>2, <4>2, BooksAre, EntriesOf DEF Sound, Extends
      <4> DEFINE first == b.credits[e].entries[j].cents
                 second == now.credits[e].entries[j].cents
                 third == then.credits[e].entries[j].cents
      <4>7. first \in Int /\ second \in Int /\ third \in Int
            /\ second >= first /\ third >= second - 0
        BY <4>1, <4>3, <4>4, <4>5, <4>6
      <4> HIDE DEF now, then, first, second, third
      <4>8. third >= first
        BY <4>7
      <4> QED BY <4>8 DEF first, third
    <3>5. Shifts(b, then, FirstOf(lifts, k + 1), 0)
      <4>1. /\ FirstOf(lifts, k) \in Int /\ FirstOf(lifts, k + 1) = FirstOf(lifts, k) + cents
            /\ cents \in Int /\ 0 \in Int /\ 0 + 0 = 0
        <5>1. FirstOf(lifts, k) \in Int /\ FirstOf(lifts, k + 1) = FirstOf(lifts, k) + cents
          BY <1>6, <2>2
        <5>2. cents \in Int
          BY <2>9
        <5> QED BY <5>1, <5>2
      <4>2. now \in Books /\ then \in Books
        BY <2>6, <3>2 DEF Sound
      <4> HIDE DEF now, then, cents
      <4>3. Shifts(b, then, FirstOf(lifts, k) + cents, 0 + 0)
        BY <1>1, <2>6, <3>2, <4>1, <4>2, ShiftsOn
      <4> QED BY <4>1, <4>3
    <3> QED BY <3>2, <3>3, <3>4, <3>5
  <2> QED BY <2>9, <2>11, <2>12
<1>10. \A k \in Nat : k \in T
  BY <1>8, <1>9, Inductive
<1>11. Kept(n, after)
  BY <1>2, <1>4, <1>10
<1>12. Sound(after, left)
  <2>1. Sound(after, Pending(n)) /\ Len(after.credits) = N
    BY <1>11 DEF Extends
  <2>2. \A e \in 1 .. Len(after.credits) : left[e] = Pending(n)[e]
    BY <1>6, <2>1
  <2> HIDE DEF Pending
  <2> QED BY <2>1, <2>2, SoundSame
<1>13. Shifts(b, after, SumOf(lifts), 0)
  BY <1>6, <1>11
<1> QED BY <1>11, <1>12, <1>13

CreditsInTurn(b, lifts, n, f) ==
    f = [c \in 0 .. n |-> IF c = 0 THEN b ELSE LiftedOf(f[c - 1], c, lifts[c])]

LEMMA CreditsInTurnExist ==
    ASSUME NEW b, NEW lifts
    PROVE  \A n \in Nat : \E f : CreditsInTurn(b, lifts, n, f)
<1> DEFINE T == {n \in Nat : \E f : CreditsInTurn(b, lifts, n, f)}
<1>1. 0 \in T
  <2>1. CreditsInTurn(b, lifts, 0, [c \in 0 .. 0 |-> b])
    BY DEF CreditsInTurn
  <2> QED BY <2>1
<1>2. ASSUME NEW n \in Nat, n \in T
      PROVE  n + 1 \in T
  <2>1. PICK f : CreditsInTurn(b, lifts, n, f)
    BY <1>2
  <2> DEFINE g == [c \in 0 .. n + 1 |->
                      IF c = n + 1 THEN LiftedOf(f[n], n + 1, lifts[n + 1]) ELSE f[c]]
  <2>2. f = [c \in 0 .. n |-> IF c = 0 THEN b ELSE LiftedOf(f[c - 1], c, lifts[c])]
    BY <2>1 DEF CreditsInTurn
  <2>3. g = [c \in 0 .. n + 1 |-> IF c = 0 THEN b ELSE LiftedOf(g[c - 1], c, lifts[c])]
    BY <2>2
  <2>4. CreditsInTurn(b, lifts, n + 1, g)
    BY <2>3 DEF CreditsInTurn
  <2> QED BY <2>4
<1>3. \A n \in Nat : n \in T
  BY <1>1, <1>2, Inductive
<1> QED BY <1>3

LEMMA LiftedIs ==
    ASSUME NEW b, NEW n \in Nat, NEW lifts, Len(lifts) = n
    PROVE  \E f : CreditsInTurn(b, lifts, n, f) /\ Lifted(b, lifts) = f[n]
<1> DEFINE f == CHOOSE f : f = [c \in 0 .. n |->
                    IF c = 0 THEN b ELSE LiftedOf(f[c - 1], c, lifts[c])]
<1>1. CreditsInTurn(b, lifts, n, f)
  <2>1. \E g : CreditsInTurn(b, lifts, n, g)
    BY CreditsInTurnExist
  <2>2. \E g : g = [c \in 0 .. n |-> IF c = 0 THEN b ELSE LiftedOf(g[c - 1], c, lifts[c])]
    BY <2>1 DEF CreditsInTurn
  <2>3. f = [c \in 0 .. n |-> IF c = 0 THEN b ELSE LiftedOf(f[c - 1], c, lifts[c])]
    BY <2>2
  <2> HIDE DEF f
  <2> QED BY <2>3 DEF CreditsInTurn
<1>2. Lifted(b, lifts) = f[n]
  BY DEF Lifted
<1> QED BY <1>1, <1>2

\* Nothing is lifted any more.
Kept(b) == Sound(b, [c \in 1 .. Len(b.credits) |-> 0])

\* No entry of a credit behind the first d is of less.
RestNotLess(b, after, d) ==
    \A e \in 1 .. Len(b.credits) : \A j \in DOMAIN b.credits[e].entries :
        e > d => after.credits[e].entries[j].cents >= b.credits[e].entries[j].cents

LEMMA LiftsStillWithin ==
    ASSUME NEW b, NEW now, b \in Books, now \in Books, Extends(b, now), NEW d \in Nat,
           RestNotLess(b, now, d), NEW c \in 1 .. Len(b.credits), c > d,
           NEW n, NEW lifts, LiftsWithin(b.credits[c], n, lifts)
    PROVE  LiftsWithin(now.credits[c], n, lifts)
<1>1. /\ n \in Nat /\ lifts \in [1 .. n -> Int] /\ 1 .. n \subseteq DOMAIN b.credits[c].entries
      /\ \A k \in 1 .. n : /\ 0 <= lifts[k] /\ lifts[k] <= b.credits[c].entries[k].cents
                           /\ lifts[k] > 0 => b.credits[c].entries[k].by[1] = "reversal"
  BY DEF LiftsWithin
<1>2. 1 .. n \subseteq DOMAIN now.credits[c].entries
  BY <1>1 DEF Extends
<1>3. ASSUME NEW k \in 1 .. n
      PROVE  /\ lifts[k] <= now.credits[c].entries[k].cents
             /\ now.credits[c].entries[k].by = b.credits[c].entries[k].by
  <2>1. k \in DOMAIN b.credits[c].entries /\ k \in DOMAIN now.credits[c].entries
    BY <1>1, <1>2
  <2>2. now.credits[c].entries[k].by = b.credits[c].entries[k].by
    BY <2>1 DEF Extends
  <2>3. now.credits[c].entries[k].cents >= b.credits[c].entries[k].cents
    BY <2>1 DEF RestNotLess
  <2>4. b.credits[c] \in Credit /\ now.credits[c] \in Credit
    <3>1. c \in 1 .. Len(now.credits)
      BY DEF Extends
    <3> QED BY <3>1, BooksAre
  <2>5. b.credits[c].entries[k].cents \in Int /\ now.credits[c].entries[k].cents \in Int
    BY <2>1, <2>4, EntriesOf
  <2>6. lifts[k] \in Int /\ lifts[k] <= b.credits[c].entries[k].cents
    BY <1>1
  <2> QED BY <2>2, <2>3, <2>5, <2>6
<1> QED BY <1>1, <1>2, <1>3 DEF LiftsWithin

LEMMA LiftedKeeps ==
    ASSUME NEW b, NEW lifting, Sound(b, lifting), Fitting(b),
           NEW lifts, Len(lifts) = Len(b.credits),
           lifting \in [1 .. Len(b.credits) -> Int],
           \A c \in 1 .. Len(b.credits) :
             /\ LiftsWithin(b.credits[c], Len(lifts[c]), lifts[c])
             /\ lifting[c] = SumOf(lifts[c]) /\ lifting[c] >= 0,
           NEW after, after = Lifted(b, lifts)
    PROVE  /\ Kept(after) /\ Fitting(after) /\ Extends(b, after)
           /\ Shifts(b, after, SumOf(lifting), 0)
<1> DEFINE n == Len(b.credits)
           Pending(d) == [e \in 1 .. n |-> IF e <= d THEN 0 ELSE lifting[e]]
           Holds(d, now) == /\ Sound(now, Pending(d)) /\ Fitting(now) /\ Extends(b, now)
                            /\ RestNotLess(b, now, d)
                            /\ Shifts(b, now, FirstOf(lifting, d), 0)
<1>1. b \in Books /\ n \in Nat /\ \A e \in 1 .. n : b.credits[e] \in Credit
  BY BooksAre DEF Sound
<1>2. PICK f : CreditsInTurn(b, lifts, n, f) /\ after = f[n]
  BY <1>1, LiftedIs
<1>3. /\ f[0] = b
      /\ \A d \in Nat : d + 1 <= n => f[d + 1] = LiftedOf(f[d], d + 1, lifts[d + 1])
  BY <1>1, <1>2 DEF CreditsInTurn
<1>4. \A d \in Nat : /\ Pending(d) \in [1 .. n -> Int]
                     /\ \A e \in 1 .. n : Pending(d)[e] >= 0
  OBVIOUS
<1>0. /\ FirstOf(lifting, 0) = 0 /\ SumOf(lifting) = FirstOf(lifting, n)
      /\ \A d \in 0 .. n : FirstOf(lifting, d) \in Int
      /\ \A d \in Nat : FirstOf(lifting, d + 1) = FirstOf(lifting, d) + lifting[d + 1]
  BY <1>1, FirstOfInt, FirstOfStep, SumOfInt
<1> DEFINE T == {d \in Nat : d <= n => Holds(d, f[d])}
<1>5. 0 \in T
  <2>1. \A e \in 1 .. n : Pending(0)[e] = lifting[e]
    OBVIOUS
  <2> HIDE DEF Pending
  <2>2. Sound(b, Pending(0))
    BY <2>1, SoundSame
  <2>3. Extends(b, b)
    BY DEF Extends
  <2>4. RestNotLess(b, b, 0)
    BY <1>1, EntriesOf DEF RestNotLess
  <2>5. Shifts(b, b, FirstOf(lifting, 0), 0)
    BY <1>0, <1>1, ShiftsNone
  <2> QED BY <1>3, <2>2, <2>3, <2>4, <2>5
<1>6. ASSUME NEW d \in Nat, d \in T
      PROVE  d + 1 \in T
  <2> SUFFICES ASSUME d + 1 <= n
               PROVE  Holds(d + 1, f[d + 1])
    <3> HIDE DEF Holds
    <3> QED OBVIOUS
  <2> DEFINE c == d + 1
             now == f[d]
             then == f[d + 1]
             pending == Pending(d)
             pending2 == Pending(d + 1)
             given == lifts[d + 1]
  <2>1. Holds(d, now)
    BY <1>6, <1>1
  <2>2. then = LiftedOf(now, c, given)
    BY <1>3
  <2>3. c \in 1 .. n /\ c > d
    BY <1>1
  <2>4. /\ Sound(now, pending) /\ Fitting(now) /\ Extends(b, now) /\ RestNotLess(b, now, d)
        /\ Len(now.credits) = n /\ Shifts(b, now, FirstOf(lifting, d), 0)
    BY <2>1 DEF Extends
  <2>5. LiftsWithin(now.credits[c], Len(given), given)
    <3>1. now \in Books
      BY <2>4 DEF Sound
    <3>2. LiftsWithin(b.credits[c], Len(given), given)
      BY <2>3
    <3> HIDE DEF now, given, c
    <3> QED BY <1>1, <2>3, <2>4, <3>1, <3>2, LiftsStillWithin
  <2>6. /\ pending \in [1 .. n -> Int] /\ \A e \in 1 .. n : pending[e] >= 0
        /\ pending2 \in [1 .. n -> Int] /\ pending[c] = SumOf(given)
        /\ \A e \in 1 .. n : pending2[e] = IF e = c THEN 0 ELSE pending[e]
    BY <1>4, <2>3
  <2>7. /\ Sound(then, pending2) /\ Fitting(then) /\ Extends(now, then)
        /\ OthersNotLess(now, then, c, Len(given)) /\ Shifts(now, then, SumOf(given), 0)
    <3> HIDE DEF now, then, c, pending, pending2, given
    <3>1. /\ pending \in [1 .. Len(now.credits) -> Int]
          /\ \A e \in 1 .. Len(now.credits) : pending[e] >= 0
          /\ pending2 \in [1 .. Len(now.credits) -> Int]
          /\ c \in 1 .. Len(now.credits)
      BY <2>3, <2>4, <2>6
    <3>0. pending[c] \in Int /\ SumOf(given) = pending[c]
      BY <2>6, <3>1
    <3>2. \A e \in 1 .. Len(now.credits) :
            pending2[e] = IF e = c THEN pending[c] - SumOf(given) ELSE pending[e]
      <4>1. pending[c] - SumOf(given) = 0
        BY <3>0
      <4> QED BY <2>4, <2>6, <4>1
    <3>3. SumOf(given) <= pending[c]
      BY <3>0
    <3> QED BY <2>2, <2>4, <2>5, <3>1, <3>2, <3>3, LiftedOfKeeps
  <2>8. Extends(b, then)
    BY <2>4, <2>7, ExtendsOn
  <2>9. RestNotLess(b, then, c)
    <3> SUFFICES ASSUME NEW e \in 1 .. n, NEW j \in DOMAIN b.credits[e].entries, e > c
                 PROVE  then.credits[e].entries[j].cents >= b.credits[e].entries[j].cents
      BY DEF RestNotLess
    <3>1. j \in DOMAIN now.credits[e].entries /\ j \in DOMAIN then.credits[e].entries
      BY <2>4, <2>8 DEF Extends
    <3>2. /\ b.credits[e] \in Credit /\ now.credits[e] \in Credit /\ then.credits[e] \in Credit
      <4>1. now \in Books /\ then \in Books /\ Len(then.credits) = n
        BY <2>4, <2>7, <2>8 DEF Sound, Extends
      <4> QED BY <1>1, <2>4, <4>1, BooksAre
    <3>3. /\ b.credits[e].entries[j].cents \in Int /\ now.credits[e].entries[j].cents \in Int
          /\ then.credits[e].entries[j].cents \in Int
      BY <3>1, <3>2, EntriesOf
    <3>4. e > d /\ e # c
      BY <2>3
    <3>5. now.credits[e].entries[j].cents >= b.credits[e].entries[j].cents
      BY <2>4, <3>4 DEF RestNotLess
    <3>6. then.credits[e].entries[j].cents >= now.credits[e].entries[j].cents
      BY <2>4, <2>7, <3>1, <3>4 DEF OthersNotLess
    <3> HIDE DEF now, then
    <3> QED BY <3>3, <3>5, <3>6
  <2>10. Shifts(b, then, FirstOf(lifting, d + 1), 0)
    <3>1. /\ d \in 0 .. n /\ FirstOf(lifting, d) \in Int /\ 0 \in Int /\ 0 + 0 = 0
          /\ FirstOf(lifting, d + 1) = FirstOf(lifting, d) + lifting[d + 1]
      <4>1. d \in 0 .. n
        BY <1>1
      <4> QED BY <1>0, <4>1
    <3>2. SumOf(given) \in Int /\ SumOf(given) = lifting[d + 1]
      BY <2>3
    <3>3. now \in Books /\ then \in Books
      BY <2>4, <2>7 DEF Sound
    <3> HIDE DEF now, then, given
    <3>4. Shifts(b, then, FirstOf(lifting, d) + SumOf(given), 0 + 0)
      BY <1>1, <2>4, <2>7, <3>1, <3>2, <3>3, ShiftsOn
    <3> QED BY <3>1, <3>2, <3>4
  <2> QED BY <2>7, <2>8, <2>9, <2>10
<1>7. \A d \in Nat : d \in T
  BY <1>5, <1>6, Inductive
<1>8. Holds(n, after)
  BY <1>1, <1>2, <1>7
<1>9. Kept(after)
  <2>1. Sound(after, Pending(n)) /\ Len(after.credits) = n
    BY <1>8 DEF Extends
  <2>2. \A e \in 1 .. Len(after.credits) :
          [c \in 1 .. Len(after.credits) |-> 0][e] = Pending(n)[e]
    BY <1>1, <2>1
  <2> HIDE DEF Pending
  <2>3. Sound(after, [c \in 1 .. Len(after.credits) |-> 0])
    BY <2>1, <2>2, SoundSame
  <2> QED BY <2>3 DEF Kept
<1>10. Shifts(b, after, SumOf(lifting), 0)
  BY <1>0, <1>8
<1> QED BY <1>8, <1>9, <1>10

-----------------------------------------------------------------------------
(* A withdrawal                                                            *)

Grown(b, r, amount) == [b EXCEPT !.reversals[r].amount = @ + amount]

IsGrown(b, r, amount, after) ==
    /\ after \in Books
    /\ after.totals = b.totals /\ after.standing = b.standing
    /\ after.payments = b.payments /\ after.credits = b.credits
    /\ after.refunds = b.refunds /\ after.cases = b.cases
    /\ Len(after.reversals) = Len(b.reversals)
    /\ \A s \in 1 .. Len(b.reversals) :
         /\ after.reversals[s].payment = b.reversals[s].payment
         /\ after.reversals[s].reinstated = b.reversals[s].reinstated
         /\ after.reversals[s].toCases = b.reversals[s].toCases
         /\ after.reversals[s].opened = b.reversals[s].opened
         /\ after.reversals[s].amount = b.reversals[s].amount + IF s = r THEN amount ELSE 0

LEMMA GrownIs ==
    ASSUME NEW b \in Books, NEW r \in 1 .. Len(b.reversals), NEW amount \in Nat
    PROVE  IsGrown(b, r, amount, Grown(b, r, amount))
<1> DEFINE after == Grown(b, r, amount)
           grown == b.reversals[r].amount + amount
           reversals == [b.reversals EXCEPT ![r].amount = grown]
<1> SUFFICES IsGrown(b, r, amount, after)
  OBVIOUS
<1> HIDE DEF after
<1>1. /\ b.reversals \in Seq(Reversal) /\ DOMAIN b.reversals = 1 .. Len(b.reversals)
      /\ \A s \in 1 .. Len(b.reversals) : b.reversals[s] \in Reversal
  BY BooksAre
<1>2. grown \in Nat /\ \A s \in 1 .. Len(b.reversals) : b.reversals[s].amount \in Nat
  BY <1>1, RowsAre
<1>3. reversals \in Seq(Reversal) /\ Len(reversals) = Len(b.reversals)
  <2> HIDE DEF grown
  <2>1. [b.reversals[r] EXCEPT !.amount = grown] \in Reversal
    BY <1>1, <1>2 DEF Reversal
  <2> QED BY <1>1, <2>1
<1>4. \A s \in 1 .. Len(b.reversals) :
        /\ reversals[s].payment = b.reversals[s].payment
        /\ reversals[s].reinstated = b.reversals[s].reinstated
        /\ reversals[s].toCases = b.reversals[s].toCases
        /\ reversals[s].opened = b.reversals[s].opened
        /\ reversals[s].amount = IF s = r THEN grown ELSE b.reversals[s].amount
  <2> HIDE DEF grown
  <2> QED BY <1>1 DEF Reversal
<1>5. \A s \in 1 .. Len(b.reversals) :
        /\ reversals[s].payment = b.reversals[s].payment
        /\ reversals[s].reinstated = b.reversals[s].reinstated
        /\ reversals[s].toCases = b.reversals[s].toCases
        /\ reversals[s].opened = b.reversals[s].opened
        /\ reversals[s].amount = b.reversals[s].amount + IF s = r THEN amount ELSE 0
  <2> HIDE DEF reversals
  <2> QED BY <1>2, <1>4
<1>6. after = [b EXCEPT !.reversals = reversals]
  BY DEF after, Grown
<1> HIDE DEF reversals
<1> QED BY <1>3, <1>5, <1>6 DEF Books, IsGrown

\* A reversal that withdrew more has as much yet to take.
LEMMA GrownKeeps ==
    ASSUME NEW b, Kept(b), Fitting(b), NEW r \in 1 .. Len(b.reversals), NEW amount \in Nat,
           NEW after, after = Grown(b, r, amount)
    PROVE  IsGrown(b, r, amount, after) /\ Kept(after) /\ AllFit(after, r, amount)
<1> DEFINE zeros == [c \in 1 .. Len(b.credits) |-> 0]
           m == Len(b.reversals)
<1>1. /\ Sound(b, zeros) /\ b \in Books /\ Named(b) /\ SettlesKept(b)
      /\ \A c \in 1 .. Len(b.credits) : CreditKept(b.credits[c], zeros[c])
  BY DEF Kept, Sound
<1>2. IsGrown(b, r, amount, after)
  BY <1>1, GrownIs
<1>3. /\ after \in Books /\ after.totals = b.totals /\ after.standing = b.standing
      /\ after.payments = b.payments /\ after.credits = b.credits /\ after.cases = b.cases
      /\ Len(after.reversals) = m
      /\ DOMAIN after.reversals = 1 .. m /\ DOMAIN b.reversals = 1 .. m
  BY <1>1, <1>2, BooksAre DEF IsGrown
<1>4. Named(after)
  BY <1>2, <1>1, <1>3 DEF IsGrown, Named
<1>5. SettlesKept(after)
  BY <1>1, <1>3, SettlesSame
<1>6. Sound(after, zeros)
  BY <1>1, <1>3, <1>4, <1>5 DEF Sound
<1>7. Kept(after)
  BY <1>3, <1>6 DEF Kept
<1>8. ASSUME NEW s \in 1 .. m
      PROVE  Fits(after, s, IF s = r THEN amount ELSE 0)
  <2> DEFINE name == <<"reversal", s>>
             x == IF s = r THEN amount ELSE 0
  <2>1. /\ HeldOf(after, name) = HeldOf(b, name) /\ CreditsOf(after, name) = CreditsOf(b, name)
        /\ CaseSum(after, name) = CaseSum(b, name)
    BY <1>3, SameSums
  <2>2. /\ after.reversals[s].toCases = b.reversals[s].toCases
        /\ after.reversals[s].opened = b.reversals[s].opened
        /\ after.reversals[s].reinstated = b.reversals[s].reinstated
        /\ after.reversals[s].amount = b.reversals[s].amount + x
    BY <1>2 DEF IsGrown
  <2>3. Unmatched(after, s) = Unmatched(b, s) /\ Reopened(after, s) = Reopened(b, s)
    BY <2>1, <2>2 DEF Unmatched, Reopened
  <2>4. /\ Unmatched(b, s) >= 0 /\ Reopened(b, s) >= 0
        /\ Unmatched(b, s) + Reopened(b, s) + HeldOf(b, name) + 0
             = b.reversals[s].amount - b.reversals[s].reinstated
    BY DEF Fitting, Fits
  <2>5. /\ HeldOf(b, name) \in Int /\ CaseSum(b, name) \in Int /\ CreditsOf(b, name) \in Int
        /\ b.reversals[s].amount \in Int /\ b.reversals[s].reinstated \in Int
        /\ b.reversals[s].toCases \in Int /\ SumOf(b.reversals[s].opened) \in Int
    BY <1>1, BooksAre, RowsAre, SumOfInt, TableSums
  <2>6. Unmatched(b, s) \in Int /\ Reopened(b, s) \in Int
    BY <2>5 DEF Unmatched, Reopened
  <2>7. x \in Int
    OBVIOUS
  <2> HIDE DEF x, name
  <2>8. Unmatched(after, s) + Reopened(after, s) + HeldOf(after, name) + x
          = after.reversals[s].amount - after.reversals[s].reinstated
    <3>1. Unmatched(b, s) + Reopened(b, s) + HeldOf(b, name) + x
            = (b.reversals[s].amount + x) - b.reversals[s].reinstated
      <4> DEFINE u == Unmatched(b, s)
                 o == Reopened(b, s)
                 h == HeldOf(b, name)
                 k == b.reversals[s].amount
                 l == b.reversals[s].reinstated
      <4>1. u \in Int /\ o \in Int /\ h \in Int /\ k \in Int /\ l \in Int
        BY <2>5, <2>6
      <4>2. u + o + h + 0 = k - l
        BY <2>4
      <4> HIDE DEF u, o, h, k, l
      <4>3. u + o + h + x = (k + x) - l
        BY <2>7, <4>1, <4>2
      <4> QED BY <4>3 DEF u, o, h, k, l
    <3> QED BY <2>1, <2>2, <2>3, <3>1
  <2>9. Unmatched(after, s) >= 0 /\ Reopened(after, s) >= 0
    BY <2>3, <2>4
  <2>10. Fits(after, s, x)
    BY <2>8, <2>9 DEF Fits, name
  <2> QED BY <2>10 DEF x
<1>9. AllFit(after, r, amount)
  BY <1>3, <1>8 DEF AllFit
<1> QED BY <1>2, <1>7, <1>9

\* What is lifted of a credit: no more than the withdrawal reaches beyond it.
LEMMA LiftsOfAre ==
    ASSUME NEW b \in Books, NEW p, NEW parts,
           NEW c \in 1 .. Len(b.credits), CreditKept(b.credits[c], 0),
           parts.beyondOpen[c] \in Int, parts.beyondOpen[c] >= 0,
           NEW lifts, lifts = LiftsOf(b, p, parts)[c]
    PROVE  /\ LiftsWithin(b.credits[c], Len(lifts), lifts)
           /\ SumOf(lifts) \in Nat /\ SumOf(lifts) <= parts.beyondOpen[c]
<1> DEFINE entries == b.credits[c].entries
           n == Len(entries)
           caps == [k \in 1 .. n |-> IF IsCover(b, entries[k], p) THEN entries[k].cents ELSE 0]
           beyond == parts.beyondOpen[c]
<1>1. b.credits[c] \in Credit /\ DOMAIN b.credits = 1 .. Len(b.credits)
  BY BooksAre
<1>2. n \in Nat /\ DOMAIN entries = 1 .. n /\ \A k \in 1 .. n : entries[k].cents \in Int
  BY <1>1, EntriesOf
<1>3. \A k \in 1 .. n : entries[k].cents >= 0
  BY <1>2 DEF CreditKept, NoneNegative
<1>4. lifts = Dealt(beyond, caps)
  BY <1>1, <1>2 DEF LiftsOf
<1>5. /\ caps \in [1 .. n -> Int] /\ \A k \in 1 .. n : caps[k] >= 0
      /\ \A k \in 1 .. n : /\ caps[k] <= entries[k].cents
                           /\ caps[k] > 0 => entries[k].by[1] = "reversal"
  <2>1. \A k \in 1 .. n : caps[k] = IF IsCover(b, entries[k], p) THEN entries[k].cents ELSE 0
    OBVIOUS
  <2>2. \A k \in 1 .. n : IsCover(b, entries[k], p) => entries[k].by[1] = "reversal"
    BY DEF IsCover
  <2>3. caps \in [1 .. n -> Int]
    BY <1>2
  <2> HIDE DEF caps, entries, n
  <2> QED BY <1>2, <1>3, <2>1, <2>2, <2>3
<1> HIDE DEF n, caps, beyond, entries
<1>6. IsDealt(n, beyond, caps, lifts)
  BY <1>2, <1>4, <1>5, DealtTakes DEF beyond
<1>7. /\ lifts \in [1 .. n -> Int] /\ \A k \in 1 .. n : 0 <= lifts[k] /\ lifts[k] <= caps[k]
      /\ SumOf(lifts) \in Nat /\ SumOf(lifts) <= beyond
  BY <1>6 DEF IsDealt
<1>8. Len(lifts) = n
  BY <1>2, <1>7
<1>9. ASSUME NEW k \in 1 .. n
      PROVE  /\ 0 <= lifts[k] /\ lifts[k] <= entries[k].cents
             /\ lifts[k] > 0 => entries[k].by[1] = "reversal"
  <2>1. /\ lifts[k] \in Int /\ caps[k] \in Int /\ entries[k].cents \in Int
        /\ 0 <= lifts[k] /\ lifts[k] <= caps[k] /\ caps[k] <= entries[k].cents
    BY <1>2, <1>5, <1>7
  <2>2. lifts[k] > 0 => caps[k] > 0
    BY <2>1
  <2> QED BY <1>5, <2>1, <2>2
<1>10. LiftsWithin(b.credits[c], n, lifts)
  BY <1>2, <1>7, <1>9 DEF LiftsWithin, entries
<1> QED BY <1>7, <1>8, <1>10 DEF beyond

\* After a withdrawal of `amount` the books are kept, and reversal r withdrew so
\* much more.
IsWithdrawn(b, r, amount, after) ==
    /\ Kept(after) /\ Fitting(after)
    /\ after.totals = b.totals /\ after.standing = b.standing
    /\ Len(after.reversals) = Len(b.reversals)
    /\ \A s \in 1 .. Len(b.reversals) :
         /\ after.reversals[s].payment = b.reversals[s].payment
         /\ after.reversals[s].reinstated = b.reversals[s].reinstated
         /\ after.reversals[s].amount = b.reversals[s].amount + IF s = r THEN amount ELSE 0
    /\ Shifts(Grown(b, r, amount), after, 0, -amount)

LEMMA WithdrawnKeeps ==
    ASSUME NEW b, Kept(b), Fitting(b), NEW r \in 1 .. Len(b.reversals), NEW amount \in Nat
    PROVE  IsWithdrawn(b, r, amount, Withdrawn(b, r, amount))
<1> DEFINE n == Len(b.credits)
           m == Len(b.reversals)
           zeros == [c \in 1 .. n |-> 0]
           p == b.reversals[r].payment
           grown == Grown(b, r, amount)
           parts == WithdrawalParts(b, p, amount)
           lifts == LiftsOf(b, p, parts)
           lifted == [c \in 1 .. n |-> SumOf(lifts[c])]
           ofOwn == [c \in 1 .. n |-> parts.credits[c] + lifted[c]]
           cases == parts.unmatched - SumOf(lifted)
           taken == Taken(grown, r, parts, ofOwn, cases)
           after == Lifted(taken, lifts)
<1>1. /\ Sound(b, zeros) /\ b \in Books /\ Named(b) /\ SettlesKept(b)
      /\ \A c \in 1 .. n : CreditKept(b.credits[c], 0)
  BY DEF Kept, Sound
<1>2. /\ n \in Nat /\ DOMAIN b.credits = 1 .. n /\ \A c \in 1 .. n : b.credits[c] \in Credit
      /\ m \in Nat /\ DOMAIN b.reversals = 1 .. m
      /\ DOMAIN b.payments = 1 .. Len(b.payments)
  BY <1>1, BooksAre
<1>3. p \in 1 .. Len(b.payments)
  BY <1>1, <1>2 DEF Named
<1>4. DOMAIN lifts = 1 .. n /\ Len(lifts) = n
  <2>1. DOMAIN lifts = 1 .. n
    BY <1>2 DEF LiftsOf
  <2> QED BY <1>2, <2>1
<1>5. Withdrawn(b, r, amount) = after
  <2>1. Total(lifts, SumOf) = SumOf(lifted)
    BY <1>4 DEF Total
  <2> QED BY <1>4, <2>1 DEF Withdrawn, Grown
<1> SUFFICES IsWithdrawn(b, r, amount, after)
  BY <1>5
<1>6. /\ IsGrown(b, r, amount, grown) /\ Kept(grown) /\ AllFit(grown, r, amount)
  BY GrownKeeps
<1> HIDE DEF grown
<1>7. /\ grown \in Books /\ grown.credits = b.credits /\ grown.payments = b.payments
      /\ grown.totals = b.totals /\ grown.standing = b.standing
      /\ Len(grown.reversals) = m /\ grown.reversals[r].payment = p
  BY <1>6 DEF IsGrown
<1>8. PartsAre(b, p, amount, parts)
  <2>1. \A i \in Invoices : b.payments[p].settles[i] >= 0
    BY <1>1, <1>3 DEF SettlesKept
  <2> HIDE DEF p
  <2> QED BY <1>1, <1>3, <2>1, WithdrawalPartsAre
<1> HIDE DEF parts
<1>9. /\ parts.fromCredit \in Nat /\ parts.credits \in [1 .. n -> Int]
      /\ parts.covered \in [1 .. n -> Int] /\ parts.beyondOpen \in [1 .. n -> Int]
      /\ \A c \in 1 .. n :
           /\ parts.credits[c] >= 0 /\ parts.covered[c] >= 0 /\ parts.beyondOpen[c] >= 0
           /\ parts.credits[c] + parts.covered[c] <= OpenOf(b.credits[c])
      /\ parts.opens \in [Invoices -> Int]
      /\ \A i \in Invoices : 0 <= parts.opens[i] /\ parts.opens[i] <= b.payments[p].settles[i]
      /\ parts.unmatched \in Int
      /\ SumOf(parts.beyondOpen) <= parts.unmatched
      /\ SumOf(parts.credits) + SumOf(parts.covered) + SumOf(parts.opens) + parts.unmatched = amount
  BY <1>8 DEF PartsAre
<1>10. \A c \in 1 .. n : /\ LiftsWithin(b.credits[c], Len(lifts[c]), lifts[c])
                         /\ SumOf(lifts[c]) \in Nat /\ SumOf(lifts[c]) <= parts.beyondOpen[c]
  <2> SUFFICES ASSUME NEW c \in 1 .. n
               PROVE  /\ LiftsWithin(b.credits[c], Len(lifts[c]), lifts[c])
                      /\ SumOf(lifts[c]) \in Nat /\ SumOf(lifts[c]) <= parts.beyondOpen[c]
    OBVIOUS
  <2>1. /\ CreditKept(b.credits[c], 0) /\ parts.beyondOpen[c] \in Int /\ parts.beyondOpen[c] >= 0
    BY <1>1, <1>9
  <2> HIDE DEF p
  <2> QED BY <1>1, <2>1, LiftsOfAre
<1> HIDE DEF lifts
<1>11. /\ lifted \in [1 .. n -> Int] /\ \A c \in 1 .. n : lifted[c] = SumOf(lifts[c])
       /\ \A c \in 1 .. n : lifted[c] >= 0 /\ lifted[c] <= parts.beyondOpen[c]
  BY <1>10
<1> HIDE DEF lifted
<1>12. SumOf(lifted) \in Nat /\ SumOf(lifted) <= SumOf(parts.beyondOpen)
  BY <1>2, <1>9, <1>11, SumOfNat, SumOfOrdered
<1>13. /\ ofOwn \in [1 .. n -> Int] /\ \A c \in 1 .. n : ofOwn[c] = parts.credits[c] + lifted[c]
  BY <1>9, <1>11
<1> HIDE DEF ofOwn
<1>14. SumOf(ofOwn) = SumOf(parts.credits) + SumOf(lifted)
  BY <1>2, <1>9, <1>11, <1>13, SumOfAdds
<1>15. /\ SumOf(parts.credits) \in Int /\ SumOf(parts.covered) \in Int
       /\ SumOf(parts.opens) \in Int /\ SumOf(parts.beyondOpen) \in Int
  <2>1. parts.opens \in [1 .. MaxInvoices -> Int] /\ MaxInvoices \in Nat
    BY <1>9, RowsAre
  <2> QED BY <1>2, <1>9, <2>1, SumOfInt
<1>16. cases \in Nat
  BY <1>9, <1>12, <1>15
<1>17. SumOf(ofOwn) + SumOf(parts.covered) + SumOf(parts.opens) + cases = amount
  BY <1>9, <1>12, <1>14, <1>15
<1> HIDE DEF cases
<1>18. ASSUME NEW c \in 1 .. n
       PROVE  MayHold(b.credits[c], ofOwn[c], parts.covered[c], lifted[c])
  <2>1. /\ parts.credits[c] \in Int /\ parts.covered[c] \in Int
        /\ parts.credits[c] >= 0 /\ parts.covered[c] >= 0
        /\ parts.credits[c] + parts.covered[c] <= OpenOf(b.credits[c])
        /\ lifted[c] \in Int /\ lifted[c] >= 0 /\ ofOwn[c] = parts.credits[c] + lifted[c]
    BY <1>9, <1>11, <1>13
  <2>2. MayHold(b.credits[c], parts.credits[c], parts.covered[c], 0)
    <3>1. 0 \in Int /\ 0 >= 0
      OBVIOUS
    <3> QED BY <1>1, <1>2, <2>1, <3>1, RoomIs
  <2>3. Spent(b.credits[c]) \in Int /\ b.credits[c].amount \in Int
    BY <1>2, RowsAre, SpentInt
  <2>4. Spent(b.credits[c]) + parts.credits[c] + parts.covered[c] <= b.credits[c].amount + 0
    BY <2>2 DEF MayHold
  <2>5. Spent(b.credits[c]) + (parts.credits[c] + lifted[c]) + parts.covered[c]
          <= b.credits[c].amount + lifted[c]
    <3> DEFINE x == parts.credits[c]
               y == parts.covered[c]
               z == lifted[c]
               spent == Spent(b.credits[c])
               amount1 == b.credits[c].amount
    <3>1. x \in Int /\ y \in Int /\ z \in Int /\ spent \in Int /\ amount1 \in Int
      BY <2>1, <2>3
    <3>2. spent + x + y <= amount1 + 0
      BY <2>4
    <3> HIDE DEF x, y, z, spent, amount1
    <3>3. spent + (x + z) + y <= amount1 + z
      BY <3>1, <3>2
    <3> QED BY <3>3 DEF x, y, z, spent, amount1
  <2>6. 0 <= (parts.credits[c] + lifted[c]) + parts.covered[c]
    BY <2>1
  <2> QED BY <2>1, <2>5, <2>6 DEF MayHold
<1>19. MayTake(grown, r, parts, ofOwn, cases, lifted)
  BY <1>6, <1>7, <1>9, <1>11, <1>13, <1>16, <1>17, <1>18 DEF MayTake
<1>20. /\ Sound(taken, lifted) /\ AllFit(taken, r, 0) /\ Extends(grown, taken)
       /\ \A c \in 1 .. Len(grown.credits) : \A k \in DOMAIN grown.credits[c].entries :
            taken.credits[c].entries[k].cents >= grown.credits[c].entries[k].cents
  <2>1. Sound(grown, [c \in 1 .. Len(grown.credits) |-> 0]) /\ r \in 1 .. Len(grown.reversals)
    BY <1>6, <1>7 DEF Kept
  <2> HIDE DEF taken
  <2>2. taken = Taken(grown, r, parts, ofOwn, cases)
    BY DEF taken
  <2> QED BY <1>19, <2>1, <2>2, TakenKeeps
<1> HIDE DEF taken
<1>21. Fitting(taken) /\ taken \in Books /\ Len(taken.credits) = n
  BY <1>7, <1>20, FittingIs DEF Sound, Extends
<1>22. \A c \in 1 .. n : LiftsWithin(taken.credits[c], Len(lifts[c]), lifts[c])
  <2> SUFFICES ASSUME NEW c \in 1 .. n
               PROVE  LiftsWithin(taken.credits[c], Len(lifts[c]), lifts[c])
    OBVIOUS
  <2>1. RestNotLess(grown, taken, 0)
    BY <1>20 DEF RestNotLess
  <2>2. LiftsWithin(grown.credits[c], Len(lifts[c]), lifts[c])
    BY <1>7, <1>10
  <2>3. c \in 1 .. Len(grown.credits) /\ c > 0 /\ 0 \in Nat
    BY <1>7
  <2> QED BY <1>7, <1>20, <1>21, <2>1, <2>2, <2>3, LiftsStillWithin
<1>23. /\ Kept(after) /\ Fitting(after) /\ Extends(taken, after)
       /\ Shifts(taken, after, SumOf(lifted), 0)
  BY <1>11, <1>21, <1>22, <1>4, <1>20, LiftedKeeps
<1> HIDE DEF after
<1>24. Extends(grown, after)
  BY <1>20, <1>23, ExtendsOn
<1>25. \A s \in 1 .. m :
         /\ grown.reversals[s].payment = b.reversals[s].payment
         /\ grown.reversals[s].reinstated = b.reversals[s].reinstated
         /\ grown.reversals[s].amount = b.reversals[s].amount + IF s = r THEN amount ELSE 0
  BY <1>6 DEF IsGrown
<1>26. Shifts(grown, after, 0, -amount)
  <2> DEFINE owed == -(SumOf(ofOwn) + SumOf(parts.covered))
             all == -(SumOf(ofOwn) + SumOf(parts.covered) + SumOf(parts.opens) + cases)
  <2>1. /\ owed = -(SumOf(ofOwn) + SumOf(parts.covered))
        /\ all = -(SumOf(ofOwn) + SumOf(parts.covered) + SumOf(parts.opens) + cases)
    OBVIOUS
  <2> HIDE DEF owed, all
  <2>2. Sound(grown, [c \in 1 .. Len(grown.credits) |-> 0]) /\ r \in 1 .. Len(grown.reversals)
    BY <1>6, <1>7 DEF Kept
  <2>3. taken = Taken(grown, r, parts, ofOwn, cases)
    BY DEF taken
  <2>4. Shifts(grown, taken, owed, all) /\ owed \in Int /\ all \in Int
    BY <1>19, <1>21, <2>1, <2>2, <2>3, TakenShifts
  <2>5. after \in Books
    BY <1>23 DEF Kept, Sound
  <2>6. SumOf(parts.credits) \in Nat /\ SumOf(parts.covered) \in Nat
    BY <1>2, <1>9, SumOfNat
  <2>7. /\ owed + SumOf(lifted) \in Int /\ owed + SumOf(lifted) <= 0
        /\ all + 0 = -amount /\ 0 \in Int
    BY <1>12, <1>14, <1>17, <2>1, <2>4, <2>6
  <2>8. Shifts(grown, after, owed + SumOf(lifted), all + 0)
    BY <1>7, <1>12, <1>21, <1>23, <2>4, <2>5, <2>7, ShiftsOn
  <2>9. Shifts(grown, after, owed + SumOf(lifted), -amount)
    BY <2>7, <2>8
  <2> QED BY <1>7, <2>5, <2>7, <2>9, ShiftsLess
<1>27. Shifts(Grown(b, r, amount), after, 0, -amount)
  BY <1>26 DEF grown
<1> QED BY <1>7, <1>23, <1>24, <1>25, <1>27 DEF IsWithdrawn, Extends

LEMMA GrownWhole ==
    ASSUME NEW b \in Books, NEW r \in 1 .. Len(b.reversals), NEW amount \in Nat,
           NEW after, IsGrown(b, r, amount, after)
    PROVE  /\ OthersSame(b, after)
           /\ WithdrawnOf(after) = WithdrawnOf(b) + amount
           /\ ReinstatedOf(after) = ReinstatedOf(b) /\ ToCasesOf(after) = ToCasesOf(b)
           /\ SettledOf(after) = SettledOf(b) /\ UnspentOf(after) = UnspentOf(b)
           /\ CasesOf(after) = CasesOf(b)
<1> DEFINE m == Len(b.reversals)
           s == AmountEach(b.reversals)
           t == AmountEach(after.reversals)
<1>1. /\ after \in Books /\ after.payments = b.payments /\ after.credits = b.credits
      /\ after.refunds = b.refunds /\ after.cases = b.cases
      /\ Len(after.reversals) = m
  BY DEF IsGrown
<1>2. /\ \A other : HeldOf(after, other) = HeldOf(b, other)
      /\ \A other : CaseSum(after, other) = CaseSum(b, other)
  BY <1>1, SameSums
<1>3. RefundsFit(b) => RefundsFit(after)
  <2> SUFFICES ASSUME RefundsFit(b) PROVE RefundsFit(after)
    OBVIOUS
  <2> QED BY <1>1, <1>2, RefundsFitSame
<1>4. /\ CollectedOf(after) = CollectedOf(b) /\ SettledOf(after) = SettledOf(b)
      /\ UnspentOf(after) = UnspentOf(b) /\ GrantedOf(after) = GrantedOf(b)
      /\ CasesOf(after) = CasesOf(b)
  BY <1>1, WholeSumsSame
<1>5. OthersSame(b, after)
  BY <1>1, <1>2, <1>3, <1>4 DEF OthersSame
<1>6. ReinstatedEach(after) = ReinstatedEach(b) /\ ToCasesEach(after) = ToCasesEach(b)
  BY <1>1 DEF ReinstatedEach, ToCasesEach, IsGrown
<1>7. ReinstatedOf(after) = ReinstatedOf(b) /\ ToCasesOf(after) = ToCasesOf(b)
  BY <1>1, <1>6, WholeSums
<1>8. /\ s \in [1 .. m -> Int] /\ WithdrawnOf(b) = SumOf(s)
      /\ t \in [1 .. m -> Int] /\ WithdrawnOf(after) = SumOf(t)
  BY <1>1, WholeSums
<1>9. \A i \in 1 .. m : t[i] = IF i = r THEN s[i] + amount ELSE s[i]
  <2> SUFFICES ASSUME NEW i \in 1 .. m
               PROVE  t[i] = IF i = r THEN s[i] + amount ELSE s[i]
    OBVIOUS
  <2>1. after.reversals[i].amount = b.reversals[i].amount + IF i = r THEN amount ELSE 0
    BY DEF IsGrown
  <2>2. s[i] = b.reversals[i].amount /\ t[i] = after.reversals[i].amount /\ s[i] \in Int
    BY <1>1, <1>8 DEF AmountEach
  <2> HIDE DEF s, t
  <2> QED BY <2>1, <2>2
<1>10. m \in Nat
  BY BooksAre
<1> HIDE DEF s, t, m
<1>11. SumOf(t) = SumOf(s) + amount
  <2>1. r \in 1 .. m /\ amount \in Int
    BY DEF m
  <2> QED BY <1>8, <1>9, <1>10, <2>1, SumOfChanged
<1> QED BY <1>4, <1>5, <1>7, <1>8, <1>11

\* What a withdrawal takes of the whole.
TakesOf(b, after, cents) ==
    /\ OthersSame(b, after)
    /\ WithdrawnOf(after) = WithdrawnOf(b) + cents
    /\ ReinstatedOf(after) = ReinstatedOf(b) /\ ToCasesOf(after) = ToCasesOf(b)
    /\ SettledOf(after) <= SettledOf(b) /\ CasesOf(b) <= CasesOf(after)
    /\ UnspentOf(after) <= UnspentOf(b)
    /\ SettledOf(after) + UnspentOf(after) - CasesOf(after)
         = SettledOf(b) + UnspentOf(b) - CasesOf(b) - cents

LEMMA WithdrawnTakes ==
    ASSUME NEW b \in Books, NEW r \in 1 .. Len(b.reversals), NEW amount \in Nat,
           NEW after, IsWithdrawn(b, r, amount, after)
    PROVE  TakesOf(b, after, amount)
<1> DEFINE grown == Grown(b, r, amount)
<1>1. IsGrown(b, r, amount, grown) /\ Shifts(grown, after, 0, -amount)
  BY GrownIs DEF IsWithdrawn
<1> HIDE DEF grown
<1>2. grown \in Books /\ after \in Books
  BY <1>1 DEF IsGrown, IsWithdrawn, Kept, Sound
<1>3. /\ OthersSame(b, grown)
      /\ WithdrawnOf(grown) = WithdrawnOf(b) + amount
      /\ ReinstatedOf(grown) = ReinstatedOf(b) /\ ToCasesOf(grown) = ToCasesOf(b)
      /\ SettledOf(grown) = SettledOf(b) /\ UnspentOf(grown) = UnspentOf(b)
      /\ CasesOf(grown) = CasesOf(b)
  BY <1>1, GrownWhole
<1>4. OthersSame(b, after)
  BY <1>1, <1>3 DEF Shifts, OthersSame
<1>5. /\ SettledOf(b) \in Int /\ CasesOf(b) \in Int /\ UnspentOf(b) \in Int
      /\ SettledOf(after) \in Int /\ CasesOf(after) \in Int /\ UnspentOf(after) \in Int
  BY <1>2, WholeSums
<1>6. /\ WithdrawnOf(after) = WithdrawnOf(grown) /\ ReinstatedOf(after) = ReinstatedOf(grown)
      /\ ToCasesOf(after) = ToCasesOf(grown)
      /\ SettledOf(after) <= SettledOf(grown) /\ CasesOf(grown) <= CasesOf(after)
      /\ UnspentOf(after) <= UnspentOf(grown) + 0
      /\ SettledOf(after) + UnspentOf(after) - CasesOf(after)
           = SettledOf(grown) + UnspentOf(grown) - CasesOf(grown) + (-amount)
  BY <1>1 DEF Shifts
<1>7. /\ UnspentOf(after) <= UnspentOf(b)
      /\ SettledOf(after) + UnspentOf(after) - CasesOf(after)
           = SettledOf(b) + UnspentOf(b) - CasesOf(b) - amount
  BY <1>3, <1>5, <1>6
<1> QED BY <1>3, <1>4, <1>6, <1>7 DEF TakesOf

WholeSame(b, after) ==
    /\ OthersSame(b, after)
    /\ WithdrawnOf(after) = WithdrawnOf(b) /\ ReinstatedOf(after) = ReinstatedOf(b)
    /\ ToCasesOf(after) = ToCasesOf(b) /\ CasesOf(after) = CasesOf(b)
    /\ SettledOf(after) = SettledOf(b) /\ UnspentOf(after) = UnspentOf(b)

\* A reversal seen first withdrew nothing before.
LEMMA NewReversalWhole ==
    ASSUME NEW b \in Books, NEW p, NEW after, after = NewReversal(b, p), after \in Books
    PROVE  WholeSame(b, after)
<1> DEFINE m == Len(b.reversals)
           row == [payment |-> p, amount |-> 0, fromCredit |-> 0, reinstated |-> 0,
                   toCases |-> 0, opened |-> [i \in Invoices |-> 0]]
<1>1. /\ after.payments = b.payments /\ after.credits = b.credits
      /\ after.refunds = b.refunds /\ after.cases = b.cases
      /\ after.reversals = Append(b.reversals, row)
  BY DEF NewReversal, Books
<1>2. row.amount = 0 /\ row.reinstated = 0 /\ row.toCases = 0
  OBVIOUS
<1> HIDE DEF row
<1>3. m \in Nat /\ b.reversals \in Seq(Reversal)
  BY BooksAre
<1>4. /\ Len(after.reversals) = m + 1 /\ after.reversals[m + 1] = row
      /\ \A s \in 1 .. m : after.reversals[s] = b.reversals[s]
  BY <1>1, <1>3
<1>5. /\ \A other : HeldOf(after, other) = HeldOf(b, other)
      /\ \A other : CaseSum(after, other) = CaseSum(b, other)
  BY <1>1, SameSums
<1>6. RefundsFit(b) => RefundsFit(after)
  <2> SUFFICES ASSUME RefundsFit(b) PROVE RefundsFit(after)
    OBVIOUS
  <2> QED BY <1>1, <1>5, RefundsFitSame
<1>7. /\ CollectedOf(after) = CollectedOf(b) /\ SettledOf(after) = SettledOf(b)
      /\ UnspentOf(after) = UnspentOf(b) /\ GrantedOf(after) = GrantedOf(b)
      /\ CasesOf(after) = CasesOf(b)
  BY <1>1, WholeSumsSame
<1>8. OthersSame(b, after)
  BY <1>1, <1>5, <1>6, <1>7 DEF OthersSame
<1>9. /\ AmountEach(b.reversals) \in [1 .. m -> Int]
      /\ WithdrawnOf(b) = SumOf(AmountEach(b.reversals)) /\ WithdrawnOf(b) \in Int
      /\ AmountEach(after.reversals) \in [1 .. m + 1 -> Int]
      /\ WithdrawnOf(after) = SumOf(AmountEach(after.reversals))
      /\ \A s \in 1 .. m : AmountEach(after.reversals)[s] = AmountEach(b.reversals)[s]
      /\ AmountEach(after.reversals)[m + 1] = 0
  <2>1. \A s \in 1 .. m : AmountEach(after.reversals)[s] = AmountEach(b.reversals)[s]
    BY <1>3, <1>4 DEF AmountEach
  <2>2. AmountEach(after.reversals)[m + 1] = 0
    BY <1>2, <1>3, <1>4 DEF AmountEach
  <2> HIDE DEF m
  <2> QED BY <1>4, <2>1, <2>2, WholeSums DEF m
<1>10. /\ ReinstatedEach(b) \in [1 .. m -> Int]
       /\ ReinstatedOf(b) = SumOf(ReinstatedEach(b)) /\ ReinstatedOf(b) \in Int
       /\ ReinstatedEach(after) \in [1 .. m + 1 -> Int]
       /\ ReinstatedOf(after) = SumOf(ReinstatedEach(after))
       /\ \A s \in 1 .. m : ReinstatedEach(after)[s] = ReinstatedEach(b)[s]
       /\ ReinstatedEach(after)[m + 1] = 0
  <2>1. \A s \in 1 .. m : ReinstatedEach(after)[s] = ReinstatedEach(b)[s]
    BY <1>3, <1>4 DEF ReinstatedEach
  <2>2. ReinstatedEach(after)[m + 1] = 0
    BY <1>2, <1>3, <1>4 DEF ReinstatedEach
  <2> HIDE DEF m
  <2> QED BY <1>4, <2>1, <2>2, WholeSums DEF m
<1>11. /\ ToCasesEach(b) \in [1 .. m -> Int]
       /\ ToCasesOf(b) = SumOf(ToCasesEach(b)) /\ ToCasesOf(b) \in Int
       /\ ToCasesEach(after) \in [1 .. m + 1 -> Int]
       /\ ToCasesOf(after) = SumOf(ToCasesEach(after))
       /\ \A s \in 1 .. m : ToCasesEach(after)[s] = ToCasesEach(b)[s]
       /\ ToCasesEach(after)[m + 1] = 0
  <2>1. \A s \in 1 .. m : ToCasesEach(after)[s] = ToCasesEach(b)[s]
    BY <1>3, <1>4 DEF ToCasesEach
  <2>2. ToCasesEach(after)[m + 1] = 0
    BY <1>2, <1>3, <1>4 DEF ToCasesEach
  <2> HIDE DEF m
  <2> QED BY <1>4, <2>1, <2>2, WholeSums DEF m
<1> HIDE DEF m
<1>12. WithdrawnOf(after) = WithdrawnOf(b)
  <2>1. SumOf(AmountEach(after.reversals)) = SumOf(AmountEach(b.reversals)) + 0
    BY <1>3, <1>9, SumOfAppended
  <2> QED BY <1>9, <2>1
<1>13. ReinstatedOf(after) = ReinstatedOf(b)
  <2>1. SumOf(ReinstatedEach(after)) = SumOf(ReinstatedEach(b)) + 0
    BY <1>3, <1>10, SumOfAppended
  <2> QED BY <1>10, <2>1
<1>14. ToCasesOf(after) = ToCasesOf(b)
  <2>1. SumOf(ToCasesEach(after)) = SumOf(ToCasesEach(b)) + 0
    BY <1>3, <1>11, SumOfAppended
  <2> QED BY <1>11, <2>1
<1> QED BY <1>7, <1>8, <1>12, <1>13, <1>14 DEF WholeSame

-----------------------------------------------------------------------------
(* What is dealt to the own credits first                                  *)

LEMMA DealtOwnFirstIs ==
    ASSUME NEW b, NEW p, NEW n \in Nat, NEW caps \in [1 .. n -> Int], NEW amount \in Int,
           amount >= 0, \A c \in 1 .. n : caps[c] >= 0
    PROVE  IsDealt(n, amount, caps, DealtOwnFirst(b, p, amount, caps))
<1> DEFINE Of(own) == [c \in 1 .. n |-> IF IsOwnCreditOf(b.credits[c], p) = own THEN caps[c] ELSE 0]
           mine == Of(TRUE)
           theirs == Of(FALSE)
           first == Dealt(amount, mine)
           others == Dealt(amount - SumOf(first), theirs)
           dealt == [c \in 1 .. n |-> first[c] + others[c]]
<1>1. DealtOwnFirst(b, p, amount, caps) = dealt
  BY DEF DealtOwnFirst
<1>2. /\ mine \in [1 .. n -> Int] /\ \A c \in 1 .. n : mine[c] >= 0
      /\ theirs \in [1 .. n -> Int] /\ \A c \in 1 .. n : theirs[c] >= 0
  OBVIOUS
<1>3. \A c \in 1 .. n : \/ mine[c] = caps[c] /\ theirs[c] = 0
                        \/ mine[c] = 0 /\ theirs[c] = caps[c]
  <2>1. \A c \in 1 .. n : IsOwnCreditOf(b.credits[c], p) \in BOOLEAN
    BY DEF IsOwnCreditOf
  <2> QED BY <2>1
<1> HIDE DEF mine, theirs
<1>4. IsDealt(n, amount, mine, first)
  BY <1>2, DealtTakes
<1> HIDE DEF first
<1>5. /\ first \in [1 .. n -> Int] /\ SumOf(first) \in Nat /\ SumOf(first) <= amount
      /\ \A c \in 1 .. n : 0 <= first[c] /\ first[c] <= mine[c]
      /\ SumOf(first) = amount \/ SumOf(first) = SumOf(mine)
  BY <1>4 DEF IsDealt
<1>6. IsDealt(n, amount - SumOf(first), theirs, others)
  <2>1. amount - SumOf(first) \in Int /\ amount - SumOf(first) >= 0
    BY <1>5
  <2> QED BY <1>2, <2>1, DealtTakes
<1> HIDE DEF others
<1>7. /\ others \in [1 .. n -> Int] /\ SumOf(others) \in Nat
      /\ SumOf(others) <= amount - SumOf(first)
      /\ \A c \in 1 .. n : 0 <= others[c] /\ others[c] <= theirs[c]
      /\ SumOf(others) = amount - SumOf(first) \/ SumOf(others) = SumOf(theirs)
  BY <1>6 DEF IsDealt
<1>8. /\ dealt \in [1 .. n -> Int] /\ \A c \in 1 .. n : dealt[c] = first[c] + others[c]
  BY <1>5, <1>7
<1> HIDE DEF dealt
<1>9. SumOf(dealt) = SumOf(first) + SumOf(others)
  BY <1>5, <1>7, <1>8, SumOfAdds
<1>10. SumOf(caps) = SumOf(mine) + SumOf(theirs) /\ SumOf(mine) \in Nat /\ SumOf(theirs) \in Nat
  <2>1. \A c \in 1 .. n : caps[c] = mine[c] + theirs[c]
    BY <1>3
  <2>2. SumOf(caps) = SumOf(mine) + SumOf(theirs)
    BY <1>2, <2>1, SumOfAdds
  <2> QED BY <1>2, <2>2, SumOfNat
<1>11. ASSUME NEW c \in 1 .. n
       PROVE  0 <= dealt[c] /\ dealt[c] <= caps[c]
  <2>1. /\ first[c] \in Int /\ others[c] \in Int /\ dealt[c] = first[c] + others[c]
        /\ 0 <= first[c] /\ first[c] <= mine[c] /\ 0 <= others[c] /\ others[c] <= theirs[c]
        /\ caps[c] \in Int
    BY <1>5, <1>7, <1>8
  <2>2. CASE mine[c] = caps[c] /\ theirs[c] = 0
    BY <2>1, <2>2
  <2>3. CASE mine[c] = 0 /\ theirs[c] = caps[c]
    BY <2>1, <2>3
  <2> QED BY <1>3, <2>2, <2>3
<1>12. /\ SumOf(dealt) \in Nat /\ SumOf(dealt) <= amount
       /\ SumOf(dealt) = amount \/ SumOf(dealt) = SumOf(caps)
  <2>1. CASE SumOf(others) = amount - SumOf(first)
    BY <1>5, <1>7, <1>9, <2>1
  <2>2. CASE SumOf(first) = amount
    <3>1. SumOf(others) = 0
      BY <1>5, <1>7, <2>2
    <3> QED BY <1>5, <1>9, <2>2, <3>1
  <2>3. CASE SumOf(first) = SumOf(mine) /\ SumOf(others) = SumOf(theirs)
    BY <1>5, <1>7, <1>9, <1>10, <2>3
  <2> QED BY <1>5, <1>7, <2>1, <2>2, <2>3
<1>13. SumOf(dealt) <= SumOf(caps)
  BY <1>8, <1>11, SumOfOrdered
<1>14. amount <= SumOf(caps) => SumOf(dealt) = amount
  BY <1>10, <1>12
<1>15. IsDealt(n, amount, caps, dealt)
  BY <1>8, <1>11, <1>12, <1>13, <1>14 DEF IsDealt
<1> QED BY <1>1, <1>15

-----------------------------------------------------------------------------
(* A credit that is written                                                *)

LEMMA CreditedKeeps ==
    ASSUME NEW b, Kept(b), NEW origin \in Origins, NamesOneOf(origin, Len(b.reversals)),
           NEW cents \in Int, NEW after, after = Credited(b, origin, cents)
    PROVE  Kept(after) /\ IsCredited(b, origin, cents, after)
<1> DEFINE m == Len(b.reversals)
           zeros == [c \in 1 .. Len(b.credits) |-> 0]
           left == [c \in 1 .. Len(after.credits) |-> 0]
<1>1. /\ b \in Books /\ Named(b) /\ SettlesKept(b)
      /\ \A c \in 1 .. Len(b.credits) : CreditKept(b.credits[c], 0)
  BY DEF Kept, Sound
<1>2. IsCredited(b, origin, cents, after)
  BY <1>1, CreditedIs
<1>3. /\ after \in Books /\ after.totals = b.totals /\ after.standing = b.standing
      /\ after.payments = b.payments /\ after.reversals = b.reversals /\ after.cases = b.cases
      /\ DOMAIN b.credits = 1 .. Len(b.credits) /\ DOMAIN after.credits = 1 .. Len(after.credits)
  BY <1>1, <1>2, BooksAre DEF IsCredited
<1>4. ASSUME NEW c \in 1 .. Len(after.credits)
      PROVE  /\ CreditKept(after.credits[c], 0)
             /\ NamesOneOf(after.credits[c].origin, m)
             /\ \A k \in DOMAIN after.credits[c].entries :
                  NamesOneOf(after.credits[c].entries[k].by, m)
  <2>1. CASE c \in DOMAIN b.credits /\ after.credits[c] = b.credits[c]
    BY <1>1, <1>3, <2>1 DEF Named
  <2>2. CASE /\ after.credits[c].origin = origin /\ after.credits[c].entries = <<>>
             /\ Single(after.credits[c]) /\ Spent(after.credits[c]) = 0
    <3>1. after.credits[c].amount \in Nat
      <4>1. after.credits[c] \in Credit
        BY <1>3, BooksAre
      <4> QED BY <4>1, RowsAre
    <3>2. \A k \in DOMAIN after.credits[c].entries : FALSE
      BY <2>2
    <3>3. NoneNegative(after.credits[c])
      BY <3>2 DEF NoneNegative
    <3>4. CreditKept(after.credits[c], 0)
      BY <2>2, <3>1, <3>3 DEF CreditKept
    <3> QED BY <2>2, <3>2, <3>4
  <2> QED BY <1>2, <1>3, <2>1, <2>2 DEF IsCredited
<1>5. Named(after)
  BY <1>1, <1>3, <1>4 DEF Named
<1>6. SettlesKept(after)
  BY <1>1, <1>3, SettlesSame
<1>7. Sound(after, left)
  BY <1>3, <1>4, <1>5, <1>6 DEF Sound
<1> QED BY <1>2, <1>7 DEF Kept

LEMMA CreditedFits ==
    ASSUME NEW b, Kept(b), Fitting(b), NEW origin \in Origins, origin[1] # "reversal",
           NEW cents \in Int, NEW after, after = Credited(b, origin, cents)
    PROVE  Kept(after) /\ Fitting(after) /\ IsCredited(b, origin, cents, after)
<1>1. Kept(after) /\ IsCredited(b, origin, cents, after)
  BY CreditedKeeps DEF NamesOneOf
<1>2. after.reversals = b.reversals /\ after.cases = b.cases
  BY <1>1 DEF IsCredited
<1>3. ASSUME NEW s \in 1 .. Len(b.reversals)
      PROVE  Fits(after, s, 0)
  <2> DEFINE name == <<"reversal", s>>
  <2>1. name # origin
    OBVIOUS
  <2>2. CreditsOf(b, name) \in Int
    BY TableSums DEF Kept, Sound
  <2> HIDE DEF name
  <2>3. HeldOf(after, name) = HeldOf(b, name) /\ CreditsOf(after, name) = CreditsOf(b, name)
    BY <1>1, <2>1, <2>2 DEF IsCredited
  <2>4. CaseSum(after, name) = CaseSum(b, name)
    BY <1>2, SameSums
  <2>5. Fits(b, s, 0)
    BY DEF Fitting
  <2> QED BY <1>2, <2>3, <2>4, <2>5 DEF Fits, Unmatched, Reopened, name
<1> QED BY <1>1, <1>2, <1>3 DEF Fitting

-----------------------------------------------------------------------------
(* What is given back                                                      *)

LEMMA ReopenedIs ==
    ASSUME NEW b \in Books, Named(b), NEW r \in 1 .. Len(b.reversals)
    PROVE  /\ ReopenedByStanding(b, r) \in [1 .. MaxInvoices -> Int]
           /\ SumOf(ReopenedByStanding(b, r)) = SumOf(b.reversals[r].opened)
           /\ SumOf(b.reversals[r].opened) \in Int
<1> DEFINE opened == b.reversals[r].opened
           total == SumOf(opened)
<1>1. opened \in [1 .. MaxInvoices -> Int] /\ MaxInvoices \in Nat /\ Invoices = 1 .. MaxInvoices
  <2>1. b.reversals[r] \in Reversal
    BY BooksAre
  <2> QED BY <2>1, RowsAre
<1>2. total \in Int
  BY <1>1, SumOfInt
<1>3. CASE b.standing = 0
  BY <1>1, <1>2, <1>3 DEF ReopenedByStanding
<1>4. CASE b.standing # 0
  <2>1. b.standing \in 1 .. MaxInvoices
    BY <1>1, <1>4, BooksAre DEF Named
  <2>2. ReopenedByStanding(b, r)
          = [i \in 1 .. MaxInvoices |-> IF i = b.standing THEN total ELSE 0]
    BY <1>1, <1>4 DEF ReopenedByStanding
  <2> HIDE DEF total
  <2>3. /\ [i \in 1 .. MaxInvoices |-> IF i = b.standing THEN total ELSE 0] \in [1 .. MaxInvoices -> Int]
        /\ SumOf([i \in 1 .. MaxInvoices |-> IF i = b.standing THEN total ELSE 0]) = total
    BY <1>1, <1>2, <2>1, SumOfOne
  <2> QED BY <1>2, <2>2, <2>3 DEF total
<1> QED BY <1>3, <1>4

\* All is dealt where the caps come to as much, though some be negative.
LEMMA DealtAll ==
    ASSUME NEW n \in Nat, NEW caps \in [1 .. n -> Int], NEW amount \in Nat, amount <= SumOf(caps)
    PROVE  /\ Dealt(amount, caps) \in [1 .. n -> Int]
           /\ \A i \in 1 .. n : Dealt(amount, caps)[i] >= 0
           /\ SumOf(Dealt(amount, caps)) = amount
<1> DEFINE cap == [i \in 1 .. n |-> AtLeastZero(caps[i])]
<1>1. /\ cap \in [1 .. n -> Int] /\ \A i \in 1 .. n : caps[i] <= cap[i]
  BY AtLeastZeroIs
<1>2. SumOf(caps) <= SumOf(cap) /\ SumOf(caps) \in Int /\ SumOf(cap) \in Int
  BY <1>1, SumOfInt, SumOfOrdered
<1>3. AtLeastZero(amount) = amount
  BY DEF AtLeastZero
<1>4. SumOf(Dealt(amount, caps)) = Least(amount, SumOf(cap))
  BY <1>3, DealtIs
<1> HIDE DEF cap
<1>5. SumOf(Dealt(amount, caps)) = amount
  BY <1>2, <1>4 DEF Least
<1>6. Dealt(amount, caps) \in [1 .. n -> Int]
  <2>1. amount \in Int
    OBVIOUS
  <2> QED BY <2>1, DealtIs
<1>7. ASSUME NEW i \in 1 .. n
      PROVE  Dealt(amount, caps)[i] >= 0
  <2>1. amount \in Int
    OBVIOUS
  <2>2. Dealt(amount, caps)[i] \in Nat
    BY <2>1, DealtIs
  <2> QED BY <2>2
<1> QED BY <1>5, <1>6, <1>7

Said(b, r, amount, covered) ==
    [b EXCEPT !.reversals[r].reinstated = @ + amount, !.reversals[r].toCases = @ + covered]

IsSaid(b, r, amount, covered, after) ==
    /\ after \in Books
    /\ after.totals = b.totals /\ after.standing = b.standing
    /\ after.payments = b.payments /\ after.credits = b.credits
    /\ after.refunds = b.refunds /\ after.cases = b.cases
    /\ Len(after.reversals) = Len(b.reversals)
    /\ \A s \in 1 .. Len(b.reversals) :
         /\ after.reversals[s].payment = b.reversals[s].payment
         /\ after.reversals[s].amount = b.reversals[s].amount
         /\ after.reversals[s].opened = b.reversals[s].opened
         /\ after.reversals[s].reinstated = b.reversals[s].reinstated + IF s = r THEN amount ELSE 0
         /\ after.reversals[s].toCases = b.reversals[s].toCases + IF s = r THEN covered ELSE 0

LEMMA SaidIs ==
    ASSUME NEW b \in Books, NEW r \in 1 .. Len(b.reversals), NEW amount \in Nat, NEW covered \in Nat
    PROVE  IsSaid(b, r, amount, covered, Said(b, r, amount, covered))
<1> DEFINE after == Said(b, r, amount, covered)
           back == b.reversals[r].reinstated + amount
           toCases == b.reversals[r].toCases + covered
           reversal == [b.reversals[r] EXCEPT !.reinstated = back, !.toCases = toCases]
           reversals == [b.reversals EXCEPT ![r] = reversal]
<1> SUFFICES IsSaid(b, r, amount, covered, after)
  OBVIOUS
<1> HIDE DEF after
<1>1. /\ b.reversals \in Seq(Reversal) /\ DOMAIN b.reversals = 1 .. Len(b.reversals)
      /\ \A s \in 1 .. Len(b.reversals) : b.reversals[s] \in Reversal
  BY BooksAre
<1>2. /\ back \in Nat /\ toCases \in Nat
      /\ \A s \in 1 .. Len(b.reversals) :
           b.reversals[s].reinstated \in Nat /\ b.reversals[s].toCases \in Nat
  <2>1. \A s \in 1 .. Len(b.reversals) :
           b.reversals[s].reinstated \in Nat /\ b.reversals[s].toCases \in Nat
    BY <1>1, RowsAre
  <2>2. b.reversals[r].reinstated \in Nat /\ b.reversals[r].toCases \in Nat
    BY <2>1
  <2> QED BY <2>1, <2>2
<1>3. /\ reversal \in Reversal
      /\ reversal.payment = b.reversals[r].payment /\ reversal.amount = b.reversals[r].amount
      /\ reversal.opened = b.reversals[r].opened
      /\ reversal.reinstated = back /\ reversal.toCases = toCases
  <2> HIDE DEF back, toCases
  <2> DEFINE old == b.reversals[r]
  <2>1. old \in Reversal
    BY <1>1
  <2> HIDE DEF old
  <2>2. [old EXCEPT !.reinstated = back, !.toCases = toCases] \in Reversal
    BY <1>2, <2>1 DEF Reversal
  <2>3. reversal = [old EXCEPT !.reinstated = back, !.toCases = toCases]
    BY DEF old
  <2> HIDE DEF reversal
  <2> QED BY <2>1, <2>2, <2>3 DEF Reversal, old
<1>4. after = [b EXCEPT !.reversals = reversals]
  BY <1>1 DEF after, Said
<1> HIDE DEF reversal
<1>5. reversals \in Seq(Reversal) /\ Len(reversals) = Len(b.reversals)
  BY <1>1, <1>3
<1>6. \A s \in 1 .. Len(b.reversals) : reversals[s] = IF s = r THEN reversal ELSE b.reversals[s]
  BY <1>1
<1> HIDE DEF reversals
<1>7. \A s \in 1 .. Len(b.reversals) :
        /\ reversals[s].payment = b.reversals[s].payment
        /\ reversals[s].amount = b.reversals[s].amount
        /\ reversals[s].opened = b.reversals[s].opened
        /\ reversals[s].reinstated = b.reversals[s].reinstated + IF s = r THEN amount ELSE 0
        /\ reversals[s].toCases = b.reversals[s].toCases + IF s = r THEN covered ELSE 0
  <2> SUFFICES ASSUME NEW s \in 1 .. Len(b.reversals)
               PROVE  /\ reversals[s].payment = b.reversals[s].payment
                      /\ reversals[s].amount = b.reversals[s].amount
                      /\ reversals[s].opened = b.reversals[s].opened
                      /\ reversals[s].reinstated
                           = b.reversals[s].reinstated + IF s = r THEN amount ELSE 0
                      /\ reversals[s].toCases
                           = b.reversals[s].toCases + IF s = r THEN covered ELSE 0
    OBVIOUS
  <2>1. CASE s = r
    BY <1>3, <1>6, <2>1
  <2>2. CASE s # r
    <3>1. reversals[s] = b.reversals[s]
      BY <1>6, <2>2
    <3>2. b.reversals[s].reinstated \in Int /\ b.reversals[s].toCases \in Int
      BY BooksAre, RowsAre
    <3> QED BY <2>2, <3>1, <3>2
  <2> QED BY <2>1, <2>2
<1> QED BY <1>4, <1>5, <1>7 DEF Books, IsSaid

LEMMA SaidWhole ==
    ASSUME NEW b \in Books, NEW r \in 1 .. Len(b.reversals), NEW amount \in Nat,
           NEW covered \in Nat, NEW after, IsSaid(b, r, amount, covered, after)
    PROVE  /\ ReinstatedOf(after) = ReinstatedOf(b) + amount
           /\ ToCasesOf(after) = ToCasesOf(b) + covered
           /\ WithdrawnOf(after) = WithdrawnOf(b)
           /\ CollectedOf(after) = CollectedOf(b) /\ SettledOf(after) = SettledOf(b)
           /\ UnspentOf(after) = UnspentOf(b) /\ GrantedOf(after) = GrantedOf(b)
           /\ CasesOf(after) = CasesOf(b)
<1> DEFINE m == Len(b.reversals)
<1>1. /\ after \in Books /\ after.payments = b.payments /\ after.credits = b.credits
      /\ after.refunds = b.refunds /\ after.cases = b.cases
      /\ Len(after.reversals) = m
  BY DEF IsSaid
<1>2. /\ CollectedOf(after) = CollectedOf(b) /\ SettledOf(after) = SettledOf(b)
      /\ UnspentOf(after) = UnspentOf(b) /\ GrantedOf(after) = GrantedOf(b)
      /\ CasesOf(after) = CasesOf(b)
  BY <1>1, WholeSumsSame
<1>3. AmountEach(after.reversals) = AmountEach(b.reversals)
  BY <1>1 DEF AmountEach, IsSaid
<1>4. WithdrawnOf(after) = WithdrawnOf(b)
  BY <1>1, <1>3, WholeSums
<1>5. m \in Nat /\ r \in 1 .. m
  BY BooksAre
<1>6. ReinstatedOf(after) = ReinstatedOf(b) + amount
  <2> DEFINE s == ReinstatedEach(b)
             t == ReinstatedEach(after)
  <2>1. /\ s \in [1 .. m -> Int] /\ ReinstatedOf(b) = SumOf(s)
        /\ t \in [1 .. m -> Int] /\ ReinstatedOf(after) = SumOf(t)
    BY <1>1, WholeSums
  <2>2. \A i \in 1 .. m : t[i] = IF i = r THEN s[i] + amount ELSE s[i]
    <3> SUFFICES ASSUME NEW i \in 1 .. m
                 PROVE  t[i] = IF i = r THEN s[i] + amount ELSE s[i]
      OBVIOUS
    <3>1. after.reversals[i].reinstated = b.reversals[i].reinstated + IF i = r THEN amount ELSE 0
      BY DEF IsSaid
    <3>2. s[i] = b.reversals[i].reinstated /\ t[i] = after.reversals[i].reinstated
      BY <1>1 DEF ReinstatedEach
    <3>3. s[i] \in Int
      BY <2>1
    <3> HIDE DEF s, t
    <3> QED BY <3>1, <3>2, <3>3
  <2> HIDE DEF s, t, m
  <2>3. SumOf(t) = SumOf(s) + amount
    <3>1. amount \in Int
      OBVIOUS
    <3> QED BY <1>5, <2>1, <2>2, <3>1, SumOfChanged
  <2> QED BY <2>1, <2>3
<1>7. ToCasesOf(after) = ToCasesOf(b) + covered
  <2> DEFINE s == ToCasesEach(b)
             t == ToCasesEach(after)
  <2>1. /\ s \in [1 .. m -> Int] /\ ToCasesOf(b) = SumOf(s)
        /\ t \in [1 .. m -> Int] /\ ToCasesOf(after) = SumOf(t)
    BY <1>1, WholeSums
  <2>2. \A i \in 1 .. m : t[i] = IF i = r THEN s[i] + covered ELSE s[i]
    <3> SUFFICES ASSUME NEW i \in 1 .. m
                 PROVE  t[i] = IF i = r THEN s[i] + covered ELSE s[i]
      OBVIOUS
    <3>1. after.reversals[i].toCases = b.reversals[i].toCases + IF i = r THEN covered ELSE 0
      BY DEF IsSaid
    <3>2. s[i] = b.reversals[i].toCases /\ t[i] = after.reversals[i].toCases
      BY <1>1 DEF ToCasesEach
    <3>3. s[i] \in Int
      BY <2>1
    <3> HIDE DEF s, t
    <3> QED BY <3>1, <3>2, <3>3
  <2> HIDE DEF s, t, m
  <2>3. SumOf(t) = SumOf(s) + covered
    <3>1. covered \in Int
      OBVIOUS
    <3> QED BY <1>5, <2>1, <2>2, <3>1, SumOfChanged
  <2> QED BY <2>1, <2>3
<1> QED BY <1>2, <1>4, <1>6, <1>7

\* What comes back of a reversal.
GivesOf(b, after, cents) ==
    /\ OthersSame(b, after)
    /\ WithdrawnOf(after) = WithdrawnOf(b) /\ CasesOf(after) = CasesOf(b)
    /\ ReinstatedOf(after) = ReinstatedOf(b) + cents
    /\ ToCasesOf(b) <= ToCasesOf(after)
    /\ SettledOf(b) <= SettledOf(after) /\ UnspentOf(b) <= UnspentOf(after)
    /\ SettledOf(after) + UnspentOf(after) + ToCasesOf(after)
         = SettledOf(b) + UnspentOf(b) + ToCasesOf(b) + cents

LEMMA GivesFrom ==
    ASSUME NEW b \in Books, NEW r \in 1 .. Len(b.reversals), NEW p,
           NEW returned \in [1 .. Len(b.credits) -> Int], NEW unopened \in [Invoices -> Int],
           NEW amount \in Nat, NEW covered \in Nat, NEW left \in Nat,
           NEW b1, IsEnteredAll(b, <<"reversal", r>>, returned, b1),
           NEW b2, IsOpened(b1, r, p, unopened, b2),
           NEW b3, IsSaid(b2, r, amount, covered, b3),
           NEW after, after = Credited(b3, <<"reversal", r>>, left),
           SumOf(returned) <= 0, SumOf(unopened) <= 0,
           covered - SumOf(returned) - SumOf(unopened) + left = amount
    PROVE  GivesOf(b, after, amount)
<1> DEFINE by == <<"reversal", r>>
<1>1. /\ b1 \in Books /\ b2 \in Books /\ b3 \in Books
      /\ b1.refunds = b.refunds /\ b2.refunds = b.refunds /\ b3.refunds = b.refunds
      /\ b1.cases = b.cases /\ b2.cases = b.cases /\ b3.cases = b.cases
      /\ b2.credits = b1.credits /\ b3.credits = b1.credits
      /\ Len(b2.reversals) = Len(b.reversals) /\ Len(b.reversals) \in Nat
  BY BooksAre DEF IsEnteredAll, IsOpened, IsSaid
<1>2. by \in Origins /\ by[1] # "invoice"
  BY <1>1, ReversalNames
<1>3. IsCredited(b3, by, left, after)
  BY <1>1, <1>2, CreditedIs
<1>4. after \in Books /\ after.refunds = b.refunds /\ after.cases = b.cases
  BY <1>1, <1>3 DEF IsCredited
<1>5. SumOf(returned) \in Int /\ SumOf(unopened) \in Int
  BY BooksAre, RowsAre, SumOfInt
<1>6. \A other : HeldOf(after, other) = HeldOf(b, other) + IF other = by THEN SumOf(returned) ELSE 0
  <2>1. \A other : HeldOf(after, other) = HeldOf(b3, other)
    BY <1>3 DEF IsCredited
  <2>2. \A other : HeldOf(b3, other) = HeldOf(b1, other)
    BY <1>1, SameSums
  <2>3. \A other :
          HeldOf(b1, other) = HeldOf(b, other) + IF other = by THEN SumOf(returned) ELSE 0
    BY DEF IsEnteredAll
  <2> QED BY <2>1, <2>2, <2>3
<1>7. /\ \A f : HeldOf(after, <<"refund", f>>) = HeldOf(b, <<"refund", f>>)
      /\ HeldOf(after, <<"payout", 0>>) = HeldOf(b, <<"payout", 0>>)
  <2>1. \A other : other # by => HeldOf(after, other) = HeldOf(b, other)
    <3> SUFFICES ASSUME NEW other, other # by
                 PROVE  HeldOf(after, other) = HeldOf(b, other)
      OBVIOUS
    <3>1. HeldOf(after, other) = HeldOf(b, other) + 0
      BY <1>6
    <3>2. HeldOf(b, other) \in Int
      BY TableSums
    <3> QED BY <3>1, <3>2
  <2>2. /\ \A f : <<"refund", f>> # by
        /\ <<"payout", 0>> # by
    BY OtherNames
  <2> HIDE DEF by
  <2> QED BY <2>1, <2>2
<1>8. \A other : CaseSum(after, other) = CaseSum(b, other)
  BY <1>4, SameSums
<1>9. RefundsFit(b) => RefundsFit(after)
  <2> SUFFICES ASSUME RefundsFit(b) PROVE RefundsFit(after)
    OBVIOUS
  <2> QED BY <1>4, <1>7, <1>8, RefundsFitSame
<1>10. /\ UnspentOf(b1) = UnspentOf(b) - SumOf(returned) /\ GrantedOf(b1) = GrantedOf(b)
       /\ CollectedOf(b1) = CollectedOf(b) /\ SettledOf(b1) = SettledOf(b)
       /\ WithdrawnOf(b1) = WithdrawnOf(b) /\ ReinstatedOf(b1) = ReinstatedOf(b)
       /\ ToCasesOf(b1) = ToCasesOf(b) /\ CasesOf(b1) = CasesOf(b)
  BY EnteredAllWhole
<1>11. /\ SettledOf(b2) = SettledOf(b1) - SumOf(unopened) /\ CollectedOf(b2) = CollectedOf(b1)
       /\ UnspentOf(b2) = UnspentOf(b1) /\ GrantedOf(b2) = GrantedOf(b1)
       /\ WithdrawnOf(b2) = WithdrawnOf(b1) /\ ReinstatedOf(b2) = ReinstatedOf(b1)
       /\ ToCasesOf(b2) = ToCasesOf(b1) /\ CasesOf(b2) = CasesOf(b1)
  BY <1>1, OpenedWhole
<1>12. /\ ReinstatedOf(b3) = ReinstatedOf(b2) + amount
       /\ ToCasesOf(b3) = ToCasesOf(b2) + covered
       /\ WithdrawnOf(b3) = WithdrawnOf(b2)
       /\ CollectedOf(b3) = CollectedOf(b2) /\ SettledOf(b3) = SettledOf(b2)
       /\ UnspentOf(b3) = UnspentOf(b2) /\ GrantedOf(b3) = GrantedOf(b2)
       /\ CasesOf(b3) = CasesOf(b2)
  <2>1. r \in 1 .. Len(b2.reversals)
    BY <1>1
  <2> QED BY <1>1, <2>1, SaidWhole
<1>13. /\ UnspentOf(after) = UnspentOf(b3) + AtLeastZero(left)
       /\ GrantedOf(after) =
            GrantedOf(b3) + IF by[1] = "invoice" THEN AtLeastZero(left) ELSE 0
       /\ CollectedOf(after) = CollectedOf(b3) /\ SettledOf(after) = SettledOf(b3)
       /\ WithdrawnOf(after) = WithdrawnOf(b3) /\ ReinstatedOf(after) = ReinstatedOf(b3)
       /\ ToCasesOf(after) = ToCasesOf(b3) /\ CasesOf(after) = CasesOf(b3)
  <2>1. left \in Int /\ after = Credited(b3, by, left)
    OBVIOUS
  <2> HIDE DEF by
  <2> QED BY <1>1, <1>2, <2>1, CreditedWhole
<1>14. AtLeastZero(left) = left
  BY DEF AtLeastZero
<1>15. /\ SettledOf(b) \in Int /\ CasesOf(b) \in Int /\ UnspentOf(b) \in Int
       /\ ToCasesOf(b) \in Int /\ GrantedOf(b) \in Int
  BY WholeSums
<1> HIDE DEF by
<1>16. GrantedOf(after) = GrantedOf(b) /\ CollectedOf(after) = CollectedOf(b)
  BY <1>2, <1>10, <1>11, <1>12, <1>13, <1>15
<1>17. OthersSame(b, after)
  BY <1>4, <1>7, <1>9, <1>16 DEF OthersSame
<1>18. /\ WithdrawnOf(after) = WithdrawnOf(b) /\ CasesOf(after) = CasesOf(b)
       /\ ReinstatedOf(after) = ReinstatedOf(b) + amount
       /\ ToCasesOf(after) = ToCasesOf(b) + covered
       /\ SettledOf(after) = SettledOf(b) - SumOf(unopened)
       /\ UnspentOf(after) = (UnspentOf(b) - SumOf(returned)) + left
  BY <1>10, <1>11, <1>12, <1>13, <1>14
<1>19. /\ ToCasesOf(b) <= ToCasesOf(after)
       /\ SettledOf(b) <= SettledOf(after) /\ UnspentOf(b) <= UnspentOf(after)
       /\ SettledOf(after) + UnspentOf(after) + ToCasesOf(after)
            = SettledOf(b) + UnspentOf(b) + ToCasesOf(b) + amount
  <2> DEFINE y == SettledOf(b)
             u == UnspentOf(b)
             t == ToCasesOf(b)
             back == SumOf(returned)
             less == SumOf(unopened)
  <2>1. /\ y \in Int /\ u \in Int /\ t \in Int /\ back \in Int /\ less \in Int
        /\ back <= 0 /\ less <= 0 /\ covered - back - less + left = amount
        /\ SettledOf(after) = y - less /\ UnspentOf(after) = (u - back) + left
        /\ ToCasesOf(after) = t + covered
    BY <1>5, <1>15, <1>18
  <2> HIDE DEF y, u, t, back, less
  <2>2. /\ t <= t + covered /\ y <= y - less /\ u <= (u - back) + left
        /\ (y - less) + ((u - back) + left) + (t + covered) = y + u + t + amount
    BY <2>1
  <2> QED BY <2>1, <2>2 DEF y, u, t
<1> QED BY <1>17, <1>18, <1>19 DEF GivesOf

\* An invoice that owes no more is settled no further.
LEMMA OwedIs ==
    ASSUME NEW b \in Books, Named(b), SettlesKept(b), NEW i \in Invoices, NEW x \in Int,
           0 <= x, x <= AtLeastZero(OwedOn(b, i))
    PROVE  /\ i > Len(b.totals) => x = 0
           /\ i \in 1 .. Len(b.totals) => SettledOn(b, i) + x <= AtLeastZero(b.totals[i])
<1>1. SettledOn(b, i) \in Int
  BY TableSums
<1>2. b.standing \in 0 .. Len(b.totals) /\ Len(b.totals) \in Nat
  BY BooksAre DEF Named
<1>3. CASE i # b.standing
  <2>1. OwedOn(b, i) = 0
    BY <1>3 DEF OwedOn
  <2>2. x = 0
    BY <2>1 DEF AtLeastZero
  <2> QED BY <1>1, <2>2 DEF SettlesKept
<1>4. CASE i = b.standing
  BY <1>2, <1>4, RowsAre, BooksAre, <1>1 DEF SettlesKept, OwedOn, AtLeastZero
<1> QED BY <1>3, <1>4

LEMMA ReinstatedKeeps ==
    ASSUME NEW b, Kept(b), Fitting(b), NEW r \in 1 .. Len(b.reversals), NEW amount \in Nat,
           amount <= b.reversals[r].amount - b.reversals[r].reinstated,
           NEW after, after = Reinstated(b, r, amount)
    PROVE  Kept(after) /\ Fitting(after) /\ GivesOf(b, after, amount)
<1> DEFINE n == Len(b.credits)
           m == Len(b.reversals)
           zeros == [c \in 1 .. n |-> 0]
           by == <<"reversal", r>>
           p == b.reversals[r].payment
           unmatched == Unmatched(b, r)
           reopened == Reopened(b, r)
           held == HeldOf(b, by)
           covered == Least(amount, AtLeastZero(unmatched))
           caps == TakenByEach(b, by)
           credits == DealtOwnFirst(b, p, amount - covered, caps)
           returned == [c \in 1 .. n |-> -credits[c]]
           rest == amount - covered - SumOf(credits)
           given == Dealt(rest, ReopenedByStanding(b, r))
           settles == [i \in Invoices |-> Least(given[i], AtLeastZero(OwedOn(b, i)))]
           unopened == [i \in Invoices |-> -settles[i]]
           b1 == EnteredAll(b, by, returned)
           b2 == Opened(b1, r, unopened)
           b3 == Said(b2, r, amount, covered)
           b4 == Credited(b3, by, SumOf(given) - SumOf(settles))
<1>1. /\ b \in Books /\ Named(b) /\ SettlesKept(b) /\ Sound(b, zeros)
      /\ \A c \in 1 .. n : CreditKept(b.credits[c], 0)
  BY DEF Kept, Sound
<1>2. /\ n \in Nat /\ DOMAIN b.credits = 1 .. n /\ \A c \in 1 .. n : b.credits[c] \in Credit
      /\ m \in Nat /\ DOMAIN b.reversals = 1 .. m
      /\ DOMAIN b.payments = 1 .. Len(b.payments)
      /\ Invoices = 1 .. MaxInvoices /\ MaxInvoices \in Nat
  BY <1>1, BooksAre, RowsAre
<1>3. p \in 1 .. Len(b.payments)
  BY <1>1, <1>2 DEF Named
<1>4. by \in By /\ by \in Origins /\ NamesOneOf(by, m)
  BY <1>2, ReversalNames
<1>5. after = b4
  <2> DEFINE capsOf == [c \in DOMAIN b.credits |-> TakenBy(b.credits[c], by)]
             creditsOf == DealtOwnFirst(b, p, amount - covered, capsOf)
             givenOf == Dealt(amount - covered - SumOf(creditsOf), ReopenedByStanding(b, r))
             settlesOf == [i \in Invoices |-> Least(givenOf[i], AtLeastZero(OwedOn(b, i)))]
             returnedOf == [c \in DOMAIN creditsOf |-> -creditsOf[c]]
             entered == EnteredAll(b, by, returnedOf)
             opened == Opened(entered, r, [i \in Invoices |-> -settlesOf[i]])
  <2>1. capsOf = caps
    BY <1>2 DEF TakenByEach
  <2>2. creditsOf = credits
    BY <2>1
  <2>3. givenOf = given
    BY <2>2
  <2>4. settlesOf = settles
    BY <2>3
  <2>5. DOMAIN caps = 1 .. n
    BY DEF TakenByEach
  <2>6. DOMAIN credits = 1 .. n
    <3> HIDE DEF caps, covered
    <3> QED BY <2>5 DEF DealtOwnFirst
  <2>7. returnedOf = returned
    BY <2>2, <2>6
  <2>8. opened = b2
    BY <2>4, <2>7
  <2>9. Reinstated(b, r, amount)
          = Credited(Said(opened, r, amount, covered), by, SumOf(givenOf) - SumOf(settlesOf))
    BY DEF Reinstated, Said, Unmatched
  <2> QED BY <2>3, <2>4, <2>8, <2>9
<1>6. /\ unmatched \in Int /\ reopened \in Int /\ held \in Int
      /\ unmatched >= 0 /\ reopened >= 0 /\ amount <= unmatched + reopened + held
  <2>1. CaseSum(b, by) \in Int /\ CreditsOf(b, by) \in Int /\ HeldOf(b, by) \in Int
    BY <1>1, TableSums
  <2>2. b.reversals[r].toCases \in Int /\ SumOf(b.reversals[r].opened) \in Int
    <3>1. b.reversals[r] \in Reversal
      BY <1>1, BooksAre
    <3> QED BY <1>1, <3>1, RowsAre, ReopenedIs
  <2>3. unmatched \in Int /\ reopened \in Int /\ held \in Int
    BY <2>1, <2>2 DEF Unmatched, Reopened
  <2>4. /\ unmatched >= 0 /\ reopened >= 0
        /\ unmatched + reopened + held + 0 = b.reversals[r].amount - b.reversals[r].reinstated
    BY DEF Fitting, Fits
  <2> HIDE DEF unmatched, reopened, held
  <2>5. amount <= unmatched + reopened + held + 0
    BY <2>4
  <2> QED BY <2>3, <2>4, <2>5
<1> HIDE DEF unmatched, reopened
<1>7. /\ covered \in Nat /\ covered <= amount /\ covered <= unmatched
      /\ covered = amount \/ covered = unmatched
  BY <1>6 DEF Least, AtLeastZero
<1> HIDE DEF covered
<1>8. /\ caps \in [1 .. n -> Int] /\ \A c \in 1 .. n : caps[c] >= 0
      /\ \A c \in 1 .. n : caps[c] = TakenBy(b.credits[c], by)
      /\ held = SumOf(caps)
  <2>1. \A c \in 1 .. n : TakenBy(b.credits[c], by) \in Nat
    BY <1>1, <1>2, SpentNat DEF CreditKept
  <2>2. /\ caps \in [1 .. n -> Int]
        /\ \A c \in 1 .. n : caps[c] = TakenBy(b.credits[c], by)
    <3>1. caps = [c \in 1 .. n |-> TakenBy(b.credits[c], by)]
      BY DEF TakenByEach
    <3> HIDE DEF caps, by
    <3> QED BY <2>1, <3>1
  <2>3. held = SumOf(caps)
    BY <1>1, TableSums
  <2> HIDE DEF caps, held
  <2>4. ASSUME NEW c \in 1 .. n
        PROVE  caps[c] >= 0
    <3>1. caps[c] \in Nat
      BY <2>1, <2>2
    <3> HIDE DEF n
    <3> QED BY <3>1
  <2> QED BY <2>2, <2>3, <2>4
<1> HIDE DEF caps, held
<1>9. /\ credits \in [1 .. n -> Int] /\ \A c \in 1 .. n : 0 <= credits[c] /\ credits[c] <= caps[c]
      /\ SumOf(credits) \in Nat /\ SumOf(credits) <= amount - covered
      /\ SumOf(credits) <= held
      /\ SumOf(credits) = amount - covered \/ SumOf(credits) = held
  <2>0. covered \in Nat /\ covered <= amount
    BY <1>7
  <2>1. amount - covered \in Int /\ amount - covered >= 0
    BY <2>0
  <2>2. IsDealt(n, amount - covered, caps, credits)
    BY <1>2, <1>8, <2>1, DealtOwnFirstIs
  <2> HIDE DEF credits
  <2> QED BY <1>8, <2>2 DEF IsDealt
<1> HIDE DEF credits
<1>10. rest \in Nat /\ rest <= reopened
  BY <1>6, <1>7, <1>9
<1>11. /\ given \in [1 .. MaxInvoices -> Int] /\ \A i \in 1 .. MaxInvoices : given[i] >= 0
       /\ SumOf(given) = rest
  <2> DEFINE opened == ReopenedByStanding(b, r)
  <2>1. /\ opened \in [1 .. MaxInvoices -> Int] /\ SumOf(opened) = SumOf(b.reversals[r].opened)
        /\ SumOf(opened) \in Int
    BY <1>1, ReopenedIs
  <2>2. CreditsOf(b, by) \in Int /\ CreditsOf(b, by) >= 0
    <3>1. \A c \in 1 .. n : b.credits[c].amount \in Nat
      BY <1>2, RowsAre
    <3>2. AmountOfEach(b, by) \in [1 .. n -> Int] /\ \A c \in 1 .. n : AmountOfEach(b, by)[c] >= 0
      BY <3>1 DEF AmountOfEach
    <3>3. SumOf(AmountOfEach(b, by)) \in Nat
      BY <1>2, <3>2, SumOfNat
    <3> QED BY <1>1, <3>3, TableSums
  <2>3. reopened = SumOf(opened) - CreditsOf(b, by)
    BY <2>1 DEF reopened, Reopened
  <2> HIDE DEF rest, opened
  <2>4. rest <= SumOf(opened)
    BY <1>6, <1>10, <2>1, <2>2, <2>3
  <2>5. given = Dealt(rest, opened)
    BY DEF opened
  <2> HIDE DEF given
  <2> QED BY <1>2, <1>10, <2>1, <2>4, <2>5, DealtAll
<1> HIDE DEF given
<1>12. /\ settles \in [1 .. MaxInvoices -> Int] /\ unopened \in [Invoices -> Int]
       /\ \A i \in Invoices : /\ 0 <= settles[i] /\ settles[i] <= given[i]
                              /\ settles[i] <= AtLeastZero(OwedOn(b, i))
                              /\ unopened[i] = -settles[i]
  <2> SUFFICES ASSUME NEW i \in Invoices
               PROVE  /\ settles[i] \in Int /\ 0 <= settles[i] /\ settles[i] <= given[i]
                      /\ settles[i] <= AtLeastZero(OwedOn(b, i))
    BY <1>2
  <2>1. given[i] \in Int /\ given[i] >= 0
    BY <1>2, <1>11
  <2>2. AtLeastZero(OwedOn(b, i)) \in Int /\ AtLeastZero(OwedOn(b, i)) >= 0
    <3>1. SettledOn(b, i) \in Int /\ \A j \in 1 .. Len(b.totals) : b.totals[j] \in Int
      BY <1>1, TableSums, BooksAre
    <3>2. OwedOn(b, i) \in Int
      <4>1. CASE i = b.standing
        <5>1. i \in 1 .. Len(b.totals)
          BY <1>1, <1>2, <4>1 DEF Named
        <5> QED BY <3>1, <4>1, <5>1 DEF OwedOn
      <4>2. CASE i # b.standing
        BY <4>2 DEF OwedOn
      <4> QED BY <4>1, <4>2
    <3> QED BY <3>2, AtLeastZeroIs
  <2> QED BY <2>1, <2>2 DEF Least
<1> HIDE DEF settles, unopened
<1>13. /\ SumOf(settles) \in Nat /\ SumOf(settles) <= SumOf(given)
       /\ SumOf(unopened) = -SumOf(settles)
  <2>1. \A i \in 1 .. MaxInvoices : settles[i] >= 0 /\ settles[i] <= given[i]
    BY <1>2, <1>12
  <2>2. SumOf(settles) \in Nat /\ SumOf(settles) <= SumOf(given)
    BY <1>2, <1>11, <1>12, <2>1, SumOfNat, SumOfOrdered
  <2> DEFINE none == [i \in 1 .. MaxInvoices |-> 0]
  <2>3. none \in [1 .. MaxInvoices -> Int] /\ \A i \in 1 .. MaxInvoices : none[i] = 0
    OBVIOUS
  <2> HIDE DEF none
  <2>4. unopened \in [1 .. MaxInvoices -> Int]
        /\ \A i \in 1 .. MaxInvoices : none[i] = settles[i] + unopened[i]
    BY <1>2, <1>12, <2>3
  <2>7. SumOf(none) = 0
    BY <1>2, <2>3, SumOfNothing
  <2>8. SumOf(none) = SumOf(settles) + SumOf(unopened)
    BY <1>2, <1>12, <2>3, <2>4, SumOfAdds
  <2>5. SumOf(none) = SumOf(settles) + SumOf(unopened) /\ SumOf(none) = 0
    BY <2>7, <2>8
  <2>6. SumOf(unopened) \in Int
    BY <1>2, <2>4, SumOfInt
  <2> QED BY <2>2, <2>5, <2>6
<1>14. /\ returned \in [1 .. n -> Int] /\ \A c \in 1 .. n : returned[c] = -credits[c]
       /\ SumOf(returned) = -SumOf(credits)
  <2>1. returned \in [1 .. n -> Int] /\ \A c \in 1 .. n : returned[c] = -credits[c]
    BY <1>9
  <2> HIDE DEF returned
  <2> DEFINE none == [c \in 1 .. n |-> 0]
  <2>2. none \in [1 .. n -> Int] /\ \A c \in 1 .. n : none[c] = 0
    OBVIOUS
  <2> HIDE DEF none
  <2>3. \A c \in 1 .. n : none[c] = credits[c] + returned[c]
    BY <1>9, <2>1, <2>2
  <2>6. SumOf(none) = 0
    BY <1>2, <2>2, SumOfNothing
  <2>7. credits \in [1 .. n -> Int] /\ returned \in [1 .. n -> Int] /\ n \in Nat
    BY <1>2, <1>9, <2>1
  <2>8. SumOf(none) = SumOf(credits) + SumOf(returned)
    BY <2>2, <2>3, <2>7, SumOfAdds
  <2>4. SumOf(none) = SumOf(credits) + SumOf(returned) /\ SumOf(none) = 0
    BY <2>6, <2>8
  <2>5. SumOf(returned) \in Int
    BY <1>2, <2>1, SumOfInt
  <2> QED BY <1>9, <2>1, <2>4, <2>5
<1> HIDE DEF returned
<1>15. ASSUME NEW c \in 1 .. n
       PROVE  MayEnter(b.credits[c], by, returned[c], zeros[c])
  <2>1. /\ Single(b.credits[c]) /\ NoneNegative(b.credits[c])
        /\ Spent(b.credits[c]) <= b.credits[c].amount + 0
    BY <1>1 DEF CreditKept
  <2>2. /\ Spent(b.credits[c]) \in Int /\ b.credits[c].amount \in Int
        /\ b.credits[c] \in Credit
    BY <1>2, RowsAre, SpentInt
  <2>3. /\ returned[c] = -credits[c] /\ credits[c] \in Int /\ 0 <= credits[c]
        /\ credits[c] <= TakenBy(b.credits[c], by) /\ TakenBy(b.credits[c], by) \in Int
    BY <1>8, <1>9, <1>14
  <2>4. Spent(b.credits[c]) + returned[c] <= b.credits[c].amount + 0
    BY <2>1, <2>2, <2>3
  <2>5. ASSUME NEW k \in DOMAIN b.credits[c].entries, b.credits[c].entries[k].by = by
        PROVE  b.credits[c].entries[k].cents + returned[c] >= 0
    <3>1. TakenBy(b.credits[c], by) = b.credits[c].entries[k].cents
      BY <2>1, <2>2, <2>5, TakenByOne
    <3> QED BY <2>3, <3>1
  <2>6. returned[c] >= 0 \/ \E k \in DOMAIN b.credits[c].entries : b.credits[c].entries[k].by = by
    <3>1. SUFFICES ASSUME \A k \in DOMAIN b.credits[c].entries : b.credits[c].entries[k].by # by
                   PROVE  returned[c] >= 0
      OBVIOUS
    <3>2. TakenBy(b.credits[c], by) = 0
      BY <2>1, <2>2, <3>1, TakenByOne
    <3> QED BY <2>3, <3>2
  <2>7. zeros[c] = 0
    OBVIOUS
  <2> HIDE DEF by, zeros
  <2> QED BY <2>4, <2>5, <2>6, <2>7 DEF MayEnter
<1>16. /\ Sound(b1, zeros) /\ AllFit(b1, r, SumOf(credits)) /\ IsEnteredAll(b, by, returned, b1)
  <2>1. SumOf(returned) + SumOf(credits) = 0
    BY <1>9, <1>14
  <2>2. AllFit(b, r, SumOf(returned) + SumOf(credits))
    BY <2>1, FittingIs
  <2>3. SumOf(credits) \in Int /\ zeros \in [1 .. n -> Int]
    BY <1>9
  <2>4. b1 = EnteredAll(b, by, returned)
    OBVIOUS
  <2> HIDE DEF b1, zeros
  <2> QED BY <1>1, <1>14, <1>15, <2>2, <2>3, <2>4, EnteredAllKeeps
<1> HIDE DEF b1
<1>17. /\ b1 \in Books /\ b1.totals = b.totals /\ b1.standing = b.standing
       /\ b1.payments = b.payments /\ b1.reversals = b.reversals /\ b1.cases = b.cases
       /\ Len(b1.credits) = n /\ Named(b1) /\ SettlesKept(b1)
       /\ \A c \in 1 .. n : CreditKept(b1.credits[c], 0)
  BY <1>16 DEF IsEnteredAll, Sound
<1>18. IsOpened(b1, r, p, unopened, b2)
  <2>1. r \in 1 .. Len(b1.reversals) /\ p \in 1 .. Len(b1.payments) /\ p = b1.reversals[r].payment
    BY <1>3, <1>17
  <2> HIDE DEF p
  <2> QED BY <1>12, <1>17, <2>1, OpenedIs
<1> HIDE DEF b2
<1>19. IsSaid(b2, r, amount, covered, b3)
  <2>1. b2 \in Books /\ r \in 1 .. Len(b2.reversals)
    BY <1>17, <1>18 DEF IsOpened
  <2>2. b3 = Said(b2, r, amount, covered) /\ covered \in Nat
    BY <1>7
  <2>3. r \in 1 .. Len(b2.reversals)
    BY <2>1
  <2> HIDE DEF b3
  <2>4. IsSaid(b2, r, amount, covered, Said(b2, r, amount, covered))
    BY <2>1, <2>2, <2>3, SaidIs
  <2> QED BY <2>2, <2>4
<1> HIDE DEF b3
<1>20. /\ b3 \in Books /\ b3.totals = b.totals /\ b3.standing = b.standing
       /\ b3.payments = b2.payments /\ b3.credits = b1.credits /\ b3.cases = b.cases
       /\ Len(b3.reversals) = m /\ Len(b3.payments) = Len(b.payments)
  BY <1>17, <1>18, <1>19 DEF IsOpened, IsSaid
<1>21. \A s \in 1 .. m :
         /\ b3.reversals[s].payment = b.reversals[s].payment
         /\ b3.reversals[s].amount = b.reversals[s].amount
         /\ b3.reversals[s].reinstated = b.reversals[s].reinstated + IF s = r THEN amount ELSE 0
         /\ b3.reversals[s].toCases = b.reversals[s].toCases + IF s = r THEN covered ELSE 0
         /\ SumOf(b3.reversals[s].opened)
              = SumOf(b.reversals[s].opened) + IF s = r THEN SumOf(unopened) ELSE 0
  BY <1>17, <1>18, <1>19 DEF IsOpened, IsSaid
<1>22. Named(b3)
  <2>1. DOMAIN b3.reversals = 1 .. m /\ DOMAIN b3.payments = 1 .. Len(b.payments)
        /\ DOMAIN b1.reversals = 1 .. m /\ DOMAIN b1.payments = 1 .. Len(b.payments)
    BY <1>17, <1>20, BooksAre
  <2>2. \A s \in 1 .. m : b3.reversals[s].payment = b1.reversals[s].payment
    BY <1>17, <1>21
  <2>3. b3.totals = b1.totals /\ b3.standing = b1.standing /\ b3.cases = b1.cases
        /\ Len(b3.reversals) = Len(b1.reversals)
    BY <1>17, <1>20
  <2> QED BY <1>17, <1>20, <2>1, <2>2, <2>3 DEF Named
<1>23. SettlesKept(b3)
  <2>1. \A q \in 1 .. Len(b.payments) : \A i \in Invoices :
          b3.payments[q].settles[i] =
            IF q = p THEN b.payments[q].settles[i] - unopened[i] ELSE b.payments[q].settles[i]
    BY <1>17, <1>18, <1>20 DEF IsOpened
  <2>2. \A i \in Invoices : SettledOn(b3, i) = SettledOn(b, i) - unopened[i]
    BY <1>20, SameSums, <1>17, <1>18 DEF IsOpened
  <2>3. \A i \in Invoices : /\ i > Len(b.totals) => settles[i] = 0
                            /\ i \in 1 .. Len(b.totals) =>
                                 SettledOn(b, i) + settles[i] <= AtLeastZero(b.totals[i])
    <3> SUFFICES ASSUME NEW i \in Invoices
                 PROVE  /\ i > Len(b.totals) => settles[i] = 0
                        /\ i \in 1 .. Len(b.totals) =>
                             SettledOn(b, i) + settles[i] <= AtLeastZero(b.totals[i])
      OBVIOUS
    <3>1. settles[i] \in Int /\ 0 <= settles[i] /\ settles[i] <= AtLeastZero(OwedOn(b, i))
      BY <1>2, <1>12
    <3> QED BY <1>1, <3>1, OwedIs
  <2>4. ASSUME NEW q \in 1 .. Len(b.payments), NEW i \in Invoices
        PROVE  /\ b3.payments[q].settles[i] >= 0
               /\ i > Len(b.totals) => b3.payments[q].settles[i] = 0
    <3>1. /\ b.payments[q].settles[i] >= 0
          /\ i > Len(b.totals) => b.payments[q].settles[i] = 0
      BY <1>1 DEF SettlesKept
    <3>2. b.payments[q].settles[i] \in Int
      <4>1. b.payments[q] \in Payment
        BY <1>1, BooksAre
      <4> QED BY <4>1 DEF Payment
    <3>3. settles[i] \in Int /\ 0 <= settles[i] /\ unopened[i] = -settles[i]
      BY <1>2, <1>12
    <3>4. i > Len(b.totals) => settles[i] = 0
      BY <2>3
    <3>5. b3.payments[q].settles[i] =
            IF q = p THEN b.payments[q].settles[i] - unopened[i] ELSE b.payments[q].settles[i]
      BY <2>1
    <3> HIDE DEF p
    <3>6. b3.payments[q].settles[i] >= 0
      BY <3>1, <3>2, <3>3, <3>5
    <3>7. i > Len(b.totals) => b3.payments[q].settles[i] = 0
      BY <3>1, <3>2, <3>3, <3>4, <3>5
    <3> QED BY <3>6, <3>7
  <2>5. ASSUME NEW i \in 1 .. Len(b.totals)
        PROVE  SettledOn(b3, i) <= AtLeastZero(b.totals[i])
    <3>1. i \in Invoices
      BY <1>1, <1>2, BooksAre DEF Named
    <3>2. /\ SettledOn(b3, i) = SettledOn(b, i) - unopened[i] /\ unopened[i] = -settles[i]
          /\ settles[i] \in Int /\ SettledOn(b, i) \in Int
          /\ SettledOn(b, i) + settles[i] <= AtLeastZero(b.totals[i])
      BY <1>1, <1>2, <1>12, <2>2, <2>3, <3>1, TableSums
    <3> QED BY <3>2
  <2> QED BY <1>20, <2>4, <2>5 DEF SettlesKept
<1>24. Kept(b3)
  <2>2. Len(b3.credits) = n
    BY <1>17, <1>20
  <2>3. \A c \in 1 .. n : CreditKept(b3.credits[c], zeros[c])
    BY <1>17, <1>20
  <2>1. Sound(b3, [c \in 1 .. Len(b3.credits) |-> 0])
    <3> HIDE DEF zeros
    <3>1. zeros = [c \in 1 .. Len(b3.credits) |-> 0]
      BY <2>2 DEF zeros
    <3>2. Sound(b3, zeros)
      BY <1>20, <1>22, <1>23, <2>2, <2>3 DEF Sound
    <3> QED BY <3>1, <3>2
  <2> QED BY <1>20, <2>1 DEF Kept
<1>25. Kept(after) /\ IsCredited(b3, by, rest - SumOf(settles), after)
  <2>1. after = Credited(b3, by, rest - SumOf(settles)) /\ rest - SumOf(settles) \in Int
    BY <1>5, <1>10, <1>11, <1>13
  <2> HIDE DEF rest, by
  <2> QED BY <1>4, <1>20, <1>24, <2>1, CreditedKeeps
<1>26. AtLeastZero(rest - SumOf(settles)) = rest - SumOf(settles)
  BY <1>10, <1>11, <1>13 DEF AtLeastZero
<1>27. ASSUME NEW s \in 1 .. m
       PROVE  Fits(after, s, 0)
  <2> DEFINE name == <<"reversal", s>>
             cents == rest - SumOf(settles)
  <2>1. name = by <=> s = r
    BY ReversalNames
  <2>2. /\ after.reversals = b3.reversals /\ after.cases = b3.cases
        /\ HeldOf(after, name) = HeldOf(b3, name)
        /\ CreditsOf(after, name) = CreditsOf(b3, name) + IF s = r THEN cents ELSE 0
    BY <1>25, <1>26, <2>1 DEF IsCredited
  <2>3. /\ CaseSum(after, name) = CaseSum(b, name)
        /\ HeldOf(b3, name) = HeldOf(b1, name) /\ CreditsOf(b3, name) = CreditsOf(b1, name)
    BY <1>20, <2>2, SameSums
  <2>4. /\ HeldOf(b1, name) = HeldOf(b, name) + IF s = r THEN SumOf(returned) ELSE 0
        /\ CreditsOf(b1, name) = CreditsOf(b, name)
    BY <1>16, <2>1 DEF IsEnteredAll
  <2>5. /\ CaseSum(b, name) \in Int /\ CreditsOf(b, name) \in Int /\ HeldOf(b, name) \in Int
    BY <1>1, TableSums
  <2>6. /\ SumOf(b.reversals[s].opened) \in Int /\ b.reversals[s].toCases \in Int
        /\ b.reversals[s].amount \in Int /\ b.reversals[s].reinstated \in Int
    <3>1. b.reversals[s] \in Reversal
      BY <1>1, BooksAre
    <3>2. SumOf(b.reversals[s].opened) \in Int
      BY <1>1, ReopenedIs
    <3> QED BY <3>1, <3>2, RowsAre
  <2>7. Fits(b, s, 0)
    BY DEF Fitting
  <2>8. CASE s # r
    <3>1. /\ HeldOf(after, name) = HeldOf(b, name) /\ CreditsOf(after, name) = CreditsOf(b, name)
          /\ after.reversals[s].toCases = b.reversals[s].toCases
          /\ after.reversals[s].amount = b.reversals[s].amount
          /\ after.reversals[s].reinstated = b.reversals[s].reinstated
          /\ SumOf(after.reversals[s].opened) = SumOf(b.reversals[s].opened)
      BY <1>21, <2>2, <2>3, <2>4, <2>5, <2>6, <2>8
    <3>2. Unmatched(after, s) = Unmatched(b, s) /\ Reopened(after, s) = Reopened(b, s)
      BY <2>3, <3>1 DEF Unmatched, Reopened
    <3> QED BY <2>7, <3>1, <3>2 DEF Fits
  <2>9. CASE s = r
    <3>1. /\ HeldOf(after, name) = held + SumOf(returned)
          /\ CreditsOf(after, name) = CreditsOf(b, name) + cents
          /\ after.reversals[s].toCases = b.reversals[s].toCases + covered
          /\ after.reversals[s].amount = b.reversals[s].amount
          /\ after.reversals[s].reinstated = b.reversals[s].reinstated + amount
          /\ SumOf(after.reversals[s].opened) = SumOf(b.reversals[s].opened) + SumOf(unopened)
      BY <1>21, <2>2, <2>3, <2>4, <2>9 DEF held
    <3>2. Unmatched(after, s) = unmatched - covered
      BY <2>9, <2>3, <3>1, <1>7, <2>5, <2>6 DEF unmatched, Unmatched
    <3>3. Reopened(after, s) = reopened - rest
      <4>1. reopened = SumOf(b.reversals[s].opened) - CreditsOf(b, name)
        BY <2>9 DEF reopened, Reopened
      <4>2. Reopened(after, s)
              = (SumOf(b.reversals[s].opened) + SumOf(unopened)) - (CreditsOf(b, name) + cents)
        BY <3>1 DEF Reopened
      <4>3. SumOf(unopened) = -SumOf(settles) /\ SumOf(settles) \in Int /\ rest \in Int
        BY <1>10, <1>13
      <4> HIDE DEF rest
      <4> QED BY <2>5, <2>6, <4>1, <4>2, <4>3
    <3>4. unmatched + reopened + held + 0 = b.reversals[s].amount - b.reversals[s].reinstated
      BY <2>7, <2>9 DEF Fits, unmatched, reopened, held
    <3>5. Unmatched(after, s) >= 0 /\ Reopened(after, s) >= 0
      <4> HIDE DEF rest
      <4> QED BY <1>6, <1>7, <1>10, <3>2, <3>3
    <3>6. Unmatched(after, s) + Reopened(after, s) + HeldOf(after, name) + 0
            = after.reversals[s].amount - after.reversals[s].reinstated
      <4> DEFINE k == b.reversals[s].amount
                 l == b.reversals[s].reinstated
                 x == SumOf(credits)
      <4>1. /\ Unmatched(after, s) = unmatched - covered
            /\ Reopened(after, s) = reopened - (amount - covered - x)
            /\ HeldOf(after, name) = held + -x
            /\ after.reversals[s].amount = k /\ after.reversals[s].reinstated = l + amount
        BY <1>14, <3>1, <3>2, <3>3
      <4>2. /\ unmatched + reopened + held + 0 = k - l /\ k \in Int /\ l \in Int /\ x \in Int
            /\ unmatched \in Int /\ reopened \in Int /\ held \in Int /\ covered \in Int
        BY <1>6, <1>7, <1>9, <2>6, <3>4
      <4> HIDE DEF k, l, x
      <4>3. (unmatched - covered) + (reopened - (amount - covered - x)) + (held + -x) + 0
              = k - (l + amount)
        BY <4>2
      <4> QED BY <4>1, <4>3
    <3> QED BY <3>5, <3>6 DEF Fits
  <2> QED BY <2>8, <2>9
<1>28. Fitting(after)
  <2>1. Len(after.reversals) = m
    BY <1>20, <1>25 DEF IsCredited
  <2> QED BY <1>27, <2>1 DEF Fitting
<1>29. GivesOf(b, after, amount)
  <2> DEFINE left == rest - SumOf(settles)
  <2>1. /\ left \in Nat /\ covered \in Nat
        /\ SumOf(returned) <= 0 /\ SumOf(unopened) <= 0
        /\ covered - SumOf(returned) - SumOf(unopened) + left = amount
    <3> DEFINE x == SumOf(credits)
               y == SumOf(settles)
    <3>1. /\ covered \in Nat /\ x \in Nat /\ y \in Nat /\ rest \in Nat /\ y <= rest
          /\ SumOf(returned) = -x /\ SumOf(unopened) = -y
      BY <1>7, <1>9, <1>10, <1>11, <1>13, <1>14
    <3>2. rest = amount - covered - x
      OBVIOUS
    <3> HIDE DEF x, y, rest
    <3>3. /\ rest - y \in Nat /\ -x <= 0 /\ -y <= 0
          /\ covered - (-x) - (-y) + (rest - y) = amount
      BY <3>1, <3>2
    <3> QED BY <3>1, <3>3 DEF y
  <2>2. after = Credited(b3, by, left)
    BY <1>5, <1>11
  <2> HIDE DEF left, p
  <2> QED BY <1>1, <1>12, <1>14, <1>16, <1>18, <1>19, <2>1, <2>2, GivesFrom
<1> QED BY <1>25, <1>28, <1>29

\* No row names a reversal there is not.
LEMMA NothingOfTheNext ==
    ASSUME NEW b, Kept(b), NEW by, by = <<"reversal", Len(b.reversals) + 1>>
    PROVE  CaseSum(b, by) = 0 /\ CreditsOf(b, by) = 0 /\ HeldOf(b, by) = 0
<1> DEFINE m == Len(b.reversals)
<1>1. /\ b \in Books /\ Named(b)
      /\ \A c \in 1 .. Len(b.credits) : CreditKept(b.credits[c], 0)
  BY DEF Kept, Sound
<1>2. /\ m \in Nat /\ by[1] = "reversal" /\ by[2] = m + 1 /\ ~NamesOneOf(by, m)
  <2>1. m \in Nat
    BY <1>1, BooksAre
  <2>2. by[1] = "reversal" /\ by[2] = m + 1
    OBVIOUS
  <2> HIDE DEF m
  <2> QED BY <2>1, <2>2 DEF NamesOneOf
<1>3. /\ DOMAIN b.credits = 1 .. Len(b.credits) /\ Len(b.credits) \in Nat
      /\ DOMAIN b.cases = 1 .. Len(b.cases) /\ Len(b.cases) \in Nat
      /\ \A c \in 1 .. Len(b.credits) : b.credits[c] \in Credit
  BY <1>1, BooksAre
<1>4. CaseSum(b, by) = 0
  <2>1. \A k \in 1 .. Len(b.cases) : b.cases[k].by # by
    BY <1>1, <1>2, <1>3 DEF Named
  <2>2. \A k \in 1 .. Len(b.cases) : CaseOfEach(b, by)[k] = 0
    BY <2>1 DEF CaseOfEach
  <2>4. CaseOfEach(b, by) \in [1 .. Len(b.cases) -> Int] /\ CaseSum(b, by) = SumOf(CaseOfEach(b, by))
    BY <1>1, TableSums
  <2> QED BY <1>3, <2>2, <2>4, SumOfNothing
<1>5. CreditsOf(b, by) = 0
  <2>1. \A c \in 1 .. Len(b.credits) : b.credits[c].origin # by
    BY <1>1, <1>2, <1>3 DEF Named
  <2>2. \A c \in 1 .. Len(b.credits) : AmountOfEach(b, by)[c] = 0
    BY <2>1 DEF AmountOfEach
  <2>4. AmountOfEach(b, by) \in [1 .. Len(b.credits) -> Int] /\ CreditsOf(b, by) = SumOf(AmountOfEach(b, by))
    BY <1>1, TableSums
  <2> QED BY <1>3, <2>2, <2>4, SumOfNothing
<1>6. HeldOf(b, by) = 0
  <2>1. \A c \in 1 .. Len(b.credits) : \A k \in DOMAIN b.credits[c].entries :
          b.credits[c].entries[k].by # by
    BY <1>1, <1>2, <1>3 DEF Named
  <2>2. \A c \in 1 .. Len(b.credits) : TakenBy(b.credits[c], by) = 0
    BY <1>1, <1>3, <2>1, TakenByOne DEF CreditKept
  <2>3. \A c \in 1 .. Len(b.credits) : TakenByEach(b, by)[c] = 0
    BY <2>2 DEF TakenByEach
  <2>4. TakenByEach(b, by) \in [1 .. Len(b.credits) -> Int] /\ HeldOf(b, by) = SumOf(TakenByEach(b, by))
    BY <1>1, TableSums
  <2> QED BY <1>3, <2>3, <2>4, SumOfNothing
<1> QED BY <1>4, <1>5, <1>6

LEMMA NewReversalKeeps ==
    ASSUME NEW b, Kept(b), Fitting(b), NEW p \in 1 .. Len(b.payments),
           NEW after, after = NewReversal(b, p)
    PROVE  Kept(after) /\ Fitting(after) /\ Len(b.reversals) + 1 \in 1 .. Len(after.reversals)
<1> DEFINE m == Len(b.reversals)
           n == Len(b.credits)
           none == [i \in Invoices |-> 0]
           row == [payment |-> p, amount |-> 0, fromCredit |-> 0, reinstated |-> 0,
                   toCases |-> 0, opened |-> none]
           reversals == Append(b.reversals, row)
<1>1. /\ b \in Books /\ Named(b) /\ SettlesKept(b)
      /\ \A c \in 1 .. n : CreditKept(b.credits[c], 0)
  BY DEF Kept, Sound
<1>2. /\ b.reversals \in Seq(Reversal) /\ m \in Nat /\ DOMAIN b.reversals = 1 .. m
      /\ DOMAIN b.payments = 1 .. Len(b.payments) /\ Len(b.payments) \in Nat
      /\ n \in Nat /\ DOMAIN b.credits = 1 .. n
  BY <1>1, BooksAre
<1>3. none \in [Invoices -> Int] /\ SumOf(none) = 0
  <2>1. none \in [1 .. MaxInvoices -> Int] /\ \A i \in 1 .. MaxInvoices : none[i] = 0
    BY RowsAre
  <2> HIDE DEF none
  <2> QED BY <2>1, RowsAre, SumOfNothing
<1> HIDE DEF none
<1>4. row \in Reversal
  BY <1>2, <1>3 DEF Reversal
<1>5. /\ row.payment = p /\ row.amount = 0 /\ row.reinstated = 0
      /\ row.toCases = 0 /\ row.opened = none
  OBVIOUS
<1>6. after = [b EXCEPT !.reversals = reversals]
  BY DEF NewReversal, none
<1> HIDE DEF row
<1>7. /\ reversals \in Seq(Reversal) /\ Len(reversals) = m + 1
      /\ DOMAIN reversals = 1 .. m + 1
      /\ \A s \in 1 .. m : reversals[s] = b.reversals[s]
      /\ reversals[m + 1] = row
  BY <1>2, <1>4
<1> HIDE DEF reversals
<1>8. /\ after \in Books /\ after.reversals = reversals
      /\ after.totals = b.totals /\ after.standing = b.standing
      /\ after.payments = b.payments /\ after.credits = b.credits /\ after.cases = b.cases
  BY <1>1, <1>6, <1>7 DEF Books
<1>9. Named(after)
  <2>1. \A name : NamesOneOf(name, m) => NamesOneOf(name, m + 1)
    <3> HIDE DEF m
    <3> QED BY <1>2 DEF NamesOneOf
  <2>2. \A s \in DOMAIN after.reversals : after.reversals[s].payment \in DOMAIN after.payments
    <3> SUFFICES ASSUME NEW s \in 1 .. m + 1
                 PROVE  reversals[s].payment \in DOMAIN b.payments
      BY <1>7, <1>8
    <3>1. CASE s \in 1 .. m
      BY <1>1, <1>2, <1>7, <3>1 DEF Named
    <3>2. CASE s = m + 1
      BY <1>2, <1>5, <1>7, <3>2
    <3> QED BY <1>2, <3>1, <3>2
  <2>3. Len(after.reversals) = m + 1
    BY <1>7, <1>8
  <2>4. /\ Len(after.totals) \in Invoices /\ after.standing \in 0 .. Len(after.totals)
        /\ \A c \in DOMAIN after.credits :
             /\ NamesOneOf(after.credits[c].origin, m + 1)
             /\ \A k \in DOMAIN after.credits[c].entries :
                  NamesOneOf(after.credits[c].entries[k].by, m + 1)
        /\ \A k \in DOMAIN after.cases : NamesOneOf(after.cases[k].by, m + 1)
    BY <1>1, <1>8, <2>1 DEF Named
  <2> QED BY <2>2, <2>3, <2>4 DEF Named
<1>10. Kept(after)
  <2>1. SettlesKept(after)
    BY <1>1, <1>8, SettlesSame
  <2> DEFINE zeros == [c \in 1 .. Len(after.credits) |-> 0]
  <2>2. \A c \in 1 .. Len(after.credits) : CreditKept(after.credits[c], zeros[c])
    BY <1>1, <1>8
  <2>3. Sound(after, zeros)
    <3> HIDE DEF zeros
    <3> QED BY <1>8, <1>9, <2>1, <2>2 DEF Sound
  <2> QED BY <2>3 DEF Kept
<1>11. ASSUME NEW s \in 1 .. m + 1
       PROVE  Fits(after, s, 0)
  <2> DEFINE by == <<"reversal", s>>
  <2>1. /\ CaseSum(after, by) = CaseSum(b, by) /\ CreditsOf(after, by) = CreditsOf(b, by)
        /\ HeldOf(after, by) = HeldOf(b, by)
    BY <1>8, SameSums
  <2>2. CASE s \in 1 .. m
    BY <2>2, <1>7, <1>8, <2>1 DEF Fitting, Unmatched, Reopened, Fits
  <2>3. CASE s = m + 1
    BY <2>3, NothingOfTheNext, <1>3, <1>5, <1>7, <1>8, <2>1 DEF Unmatched, Reopened, Fits
  <2> QED BY <1>2, <2>2, <2>3
<1>12. Len(after.reversals) = m + 1
  BY <1>7, <1>8
<1>13. Fitting(after)
  BY <1>11, <1>12 DEF Fitting
<1> QED BY <1>2, <1>10, <1>12, <1>13

\* What is taken, or comes back, if anything is.
MayTakeOf(b, after, cents) ==
    (cents > 0 /\ TakesOf(b, after, cents)) \/ (cents = 0 /\ after = b)

MayGiveOf(b, after, cents) ==
    (cents > 0 /\ GivesOf(b, after, cents)) \/ (cents = 0 /\ after = b)

\* A report: what it took of the whole, and what came back.
ReportsOf(b, after, taken, given) ==
    /\ OthersSame(b, after)
    /\ WithdrawnOf(after) = WithdrawnOf(b) + taken
    /\ ReinstatedOf(after) = ReinstatedOf(b) + given
    /\ taken = 0 => /\ SettledOf(b) <= SettledOf(after) /\ UnspentOf(b) <= UnspentOf(after)
                    /\ CasesOf(after) - ToCasesOf(after) <= CasesOf(b) - ToCasesOf(b)
    /\ given = 0 => /\ SettledOf(after) <= SettledOf(b) /\ UnspentOf(after) <= UnspentOf(b)
                    /\ CasesOf(b) - ToCasesOf(b) <= CasesOf(after) - ToCasesOf(after)
    /\ SettledOf(after) + UnspentOf(after) - (CasesOf(after) - ToCasesOf(after))
         = SettledOf(b) + UnspentOf(b) - (CasesOf(b) - ToCasesOf(b)) - taken + given

LEMMA ReportsFrom ==
    ASSUME NEW b \in Books, NEW now \in Books, NEW after \in Books,
           NEW taken \in Nat, NEW given \in Nat,
           MayTakeOf(b, now, taken), MayGiveOf(now, after, given)
    PROVE  ReportsOf(b, after, taken, given)
<1>1. /\ SettledOf(b) \in Int /\ UnspentOf(b) \in Int /\ CasesOf(b) \in Int
      /\ ToCasesOf(b) \in Int /\ WithdrawnOf(b) \in Int /\ ReinstatedOf(b) \in Int
  BY WholeSums
<1>2. /\ SettledOf(now) \in Int /\ UnspentOf(now) \in Int /\ CasesOf(now) \in Int
      /\ ToCasesOf(now) \in Int /\ WithdrawnOf(now) \in Int /\ ReinstatedOf(now) \in Int
  BY WholeSums
<1>3. /\ SettledOf(after) \in Int /\ UnspentOf(after) \in Int /\ CasesOf(after) \in Int
      /\ ToCasesOf(after) \in Int
  BY WholeSums
<1>4. OthersSame(b, now) /\ OthersSame(now, after)
  BY DEF MayTakeOf, MayGiveOf, TakesOf, GivesOf, OthersSame
<1>5. OthersSame(b, after)
  BY <1>4 DEF OthersSame
<1>6. /\ WithdrawnOf(now) = WithdrawnOf(b) + taken
      /\ ReinstatedOf(now) = ReinstatedOf(b) /\ ToCasesOf(now) = ToCasesOf(b)
      /\ SettledOf(now) <= SettledOf(b) /\ CasesOf(b) <= CasesOf(now)
      /\ UnspentOf(now) <= UnspentOf(b)
      /\ SettledOf(now) + UnspentOf(now) - CasesOf(now)
           = SettledOf(b) + UnspentOf(b) - CasesOf(b) - taken
      /\ taken = 0 => now = b
  <2>1. CASE taken > 0 /\ TakesOf(b, now, taken)
    BY <2>1 DEF TakesOf
  <2>2. CASE taken = 0 /\ now = b
    BY <1>1, <2>2
  <2> QED BY <2>1, <2>2 DEF MayTakeOf
<1>7. /\ WithdrawnOf(after) = WithdrawnOf(now) /\ CasesOf(after) = CasesOf(now)
      /\ ReinstatedOf(after) = ReinstatedOf(now) + given
      /\ ToCasesOf(now) <= ToCasesOf(after)
      /\ SettledOf(now) <= SettledOf(after) /\ UnspentOf(now) <= UnspentOf(after)
      /\ SettledOf(after) + UnspentOf(after) + ToCasesOf(after)
           = SettledOf(now) + UnspentOf(now) + ToCasesOf(now) + given
      /\ given = 0 => after = now
  <2>1. CASE given > 0 /\ GivesOf(now, after, given)
    BY <2>1 DEF GivesOf
  <2>2. CASE given = 0 /\ after = now
    BY <1>2, <2>2
  <2> QED BY <2>1, <2>2 DEF MayGiveOf
<1>8. /\ WithdrawnOf(after) = WithdrawnOf(b) + taken
      /\ ReinstatedOf(after) = ReinstatedOf(b) + given
  BY <1>6, <1>7
<1>9. taken = 0 => /\ SettledOf(b) <= SettledOf(after) /\ UnspentOf(b) <= UnspentOf(after)
                   /\ CasesOf(after) - ToCasesOf(after) <= CasesOf(b) - ToCasesOf(b)
  <2> SUFFICES ASSUME taken = 0
               PROVE  /\ SettledOf(b) <= SettledOf(after) /\ UnspentOf(b) <= UnspentOf(after)
                      /\ CasesOf(after) - ToCasesOf(after) <= CasesOf(b) - ToCasesOf(b)
    OBVIOUS
  <2>1. now = b
    BY <1>6
  <2>2. /\ SettledOf(b) <= SettledOf(after) /\ UnspentOf(b) <= UnspentOf(after)
        /\ CasesOf(after) = CasesOf(b) /\ ToCasesOf(b) <= ToCasesOf(after)
    BY <1>7, <2>1
  <2> QED BY <1>1, <1>3, <2>2
<1>10. given = 0 => /\ SettledOf(after) <= SettledOf(b) /\ UnspentOf(after) <= UnspentOf(b)
                    /\ CasesOf(b) - ToCasesOf(b) <= CasesOf(after) - ToCasesOf(after)
  <2> SUFFICES ASSUME given = 0
               PROVE  /\ SettledOf(after) <= SettledOf(b) /\ UnspentOf(after) <= UnspentOf(b)
                      /\ CasesOf(b) - ToCasesOf(b) <= CasesOf(after) - ToCasesOf(after)
    OBVIOUS
  <2>1. after = now
    BY <1>7
  <2>2. /\ SettledOf(after) <= SettledOf(b) /\ UnspentOf(after) <= UnspentOf(b)
        /\ CasesOf(b) <= CasesOf(after) /\ ToCasesOf(after) = ToCasesOf(b)
    BY <1>6, <2>1
  <2> QED BY <1>1, <1>3, <2>2
<1>11. SettledOf(after) + UnspentOf(after) - (CasesOf(after) - ToCasesOf(after))
         = SettledOf(b) + UnspentOf(b) - (CasesOf(b) - ToCasesOf(b)) - taken + given
  <2> DEFINE all == SettledOf(b) + UnspentOf(b)
             between == SettledOf(now) + UnspentOf(now)
             end == SettledOf(after) + UnspentOf(after)
  <2>1. all \in Int /\ between \in Int /\ end \in Int
    BY <1>1, <1>2, <1>3
  <2>2. /\ between - CasesOf(now) = all - CasesOf(b) - taken
        /\ end + ToCasesOf(after) = between + ToCasesOf(b) + given
        /\ CasesOf(after) = CasesOf(now)
    BY <1>1, <1>2, <1>6, <1>7
  <2> HIDE DEF all, between, end
  <2>3. end - (CasesOf(after) - ToCasesOf(after)) = all - (CasesOf(b) - ToCasesOf(b)) - taken + given
    BY <1>1, <1>2, <1>3, <2>1, <2>2
  <2> QED BY <1>1, <1>3, <2>3 DEF all, end
<1> QED BY <1>5, <1>8, <1>9, <1>10, <1>11 DEF ReportsOf

LEMMA GivenBackKeeps ==
    ASSUME NEW b, Kept(b), Fitting(b), NEW r \in 1 .. Len(b.reversals), NEW reinstated \in Nat,
           NEW after, after = GivenBack(b, r, reinstated)
    PROVE  /\ Kept(after) /\ Fitting(after)
           /\ \E cents \in Nat : MayGiveOf(b, after, cents)
<1> DEFINE withdrawn == b.reversals[r].amount
           before == b.reversals[r].reinstated
           given == Least(reinstated, withdrawn) - before
<1>1. withdrawn \in Nat /\ before \in Nat
  <2>1. b \in Books
    BY DEF Kept, Sound
  <2> QED BY <2>1, BooksAre, RowsAre
<1> HIDE DEF withdrawn, before
<1>2. given \in Int /\ given <= withdrawn - before
  BY <1>1 DEF Least
<1>3. after = IF given > 0 THEN Reinstated(b, r, given) ELSE b
  BY DEF GivenBack, withdrawn, before
<1> HIDE DEF given
<1>4. CASE given > 0
  BY <1>2, <1>4, <1>3, ReinstatedKeeps DEF withdrawn, before, MayGiveOf
<1>5. CASE ~(given > 0)
  <2>1. after = b
    BY <1>3, <1>5
  <2>2. MayGiveOf(b, after, 0)
    BY <2>1 DEF MayGiveOf
  <2> QED BY <2>1, <2>2
<1> QED BY <1>4, <1>5

LEMMA ReportedKeeps ==
    ASSUME NEW b, Kept(b), Fitting(b), NEW r \in 1 .. Len(b.reversals),
           NEW withdrawn \in Nat, NEW reinstated \in Nat,
           NEW after, after = Reported(b, r, withdrawn, reinstated)
    PROVE  /\ Kept(after) /\ Fitting(after)
           /\ \E taken, given \in Nat : ReportsOf(b, after, taken, given)
<1> DEFINE grown == withdrawn - b.reversals[r].amount
           now == IF grown > 0 THEN Withdrawn(b, r, grown) ELSE b
<1>1. grown \in Int
  <2>1. b \in Books
    BY DEF Kept, Sound
  <2>2. b.reversals[r].amount \in Nat
    BY <2>1, BooksAre, RowsAre
  <2> QED BY <2>2
<1>2. after = GivenBack(now, r, reinstated)
  BY DEF Reported
<1> HIDE DEF grown
<1>3. /\ Kept(now) /\ Fitting(now) /\ r \in 1 .. Len(now.reversals)
      /\ \E taken \in Nat : MayTakeOf(b, now, taken)
  <2>1. CASE grown > 0
    <3>1. grown \in Nat /\ now = Withdrawn(b, r, grown)
      BY <1>1, <2>1
    <3> HIDE DEF now
    <3>2. IsWithdrawn(b, r, grown, Withdrawn(b, r, grown))
      BY <3>1, WithdrawnKeeps
    <3>3. b \in Books
      BY DEF Kept, Sound
    <3>4. TakesOf(b, now, grown)
      BY <3>1, <3>2, <3>3, WithdrawnTakes
    <3>5. MayTakeOf(b, now, grown)
      BY <2>1, <3>4 DEF MayTakeOf
    <3>6. Kept(now) /\ Fitting(now) /\ r \in 1 .. Len(now.reversals)
      BY <3>1, <3>2 DEF IsWithdrawn
    <3> QED BY <3>1, <3>5, <3>6
  <2>2. CASE ~(grown > 0)
    <3>1. now = b
      BY <2>2
    <3>2. MayTakeOf(b, now, 0)
      BY <3>1 DEF MayTakeOf
    <3> QED BY <3>1, <3>2
  <2> QED BY <2>1, <2>2
<1> HIDE DEF now
<1>4. PICK taken \in Nat : MayTakeOf(b, now, taken)
  BY <1>3
<1>5. Kept(after) /\ Fitting(after) /\ \E given \in Nat : MayGiveOf(now, after, given)
  BY <1>2, <1>3, GivenBackKeeps
<1>6. PICK given \in Nat : MayGiveOf(now, after, given)
  BY <1>5
<1>7. b \in Books /\ now \in Books /\ after \in Books
  BY <1>3, <1>5 DEF Kept, Sound
<1>8. ReportsOf(b, after, taken, given)
  BY <1>4, <1>6, <1>7, ReportsFrom
<1> QED BY <1>5, <1>8

-----------------------------------------------------------------------------
(* The operations                                                          *)

LEMMA FittingSame ==
    ASSUME NEW b, Fitting(b), NEW after, after.reversals = b.reversals,
           after.credits = b.credits, after.cases = b.cases
    PROVE  Fitting(after)
<1> SUFFICES ASSUME NEW s \in 1 .. Len(b.reversals)
             PROVE  Fits(after, s, 0)
  BY DEF Fitting
<1>1. Fits(b, s, 0)
  BY DEF Fitting
<1>2. /\ CaseSum(after, <<"reversal", s>>) = CaseSum(b, <<"reversal", s>>)
      /\ CreditsOf(after, <<"reversal", s>>) = CreditsOf(b, <<"reversal", s>>)
      /\ HeldOf(after, <<"reversal", s>>) = HeldOf(b, <<"reversal", s>>)
  BY SameSums
<1>3. Unmatched(after, s) = Unmatched(b, s) /\ Reopened(after, s) = Reopened(b, s)
  BY <1>2 DEF Unmatched, Reopened
<1> QED BY <1>1, <1>2, <1>3 DEF Fits

\* Only what is said of the refunds changes.
LEMMA RefundsKeep ==
    ASSUME NEW b, Kept(b), Fitting(b), NEW refunds \in Seq(Refund),
           NEW after, after = [b EXCEPT !.refunds = refunds]
    PROVE  Kept(after) /\ Fitting(after) /\ after.credits = b.credits /\ after.refunds = refunds
<1>1. /\ b \in Books /\ Named(b) /\ SettlesKept(b)
      /\ \A c \in 1 .. Len(b.credits) : CreditKept(b.credits[c], 0)
  BY DEF Kept, Sound
<1>2. /\ after \in Books /\ after.totals = b.totals /\ after.standing = b.standing
      /\ after.payments = b.payments /\ after.credits = b.credits
      /\ after.reversals = b.reversals /\ after.cases = b.cases /\ after.refunds = refunds
  BY <1>1 DEF Books
<1>3. Named(after)
  BY <1>1, <1>2 DEF Named
<1>4. SettlesKept(after)
  BY <1>1, <1>2, SettlesSame
<1> DEFINE zeros == [c \in 1 .. Len(after.credits) |-> 0]
<1>5. \A c \in 1 .. Len(after.credits) : CreditKept(after.credits[c], zeros[c])
  BY <1>1, <1>2
<1>6. Sound(after, zeros)
  <2> HIDE DEF zeros
  <2> QED BY <1>2, <1>3, <1>4, <1>5 DEF Sound
<1>7. Kept(after)
  BY <1>6 DEF Kept
<1> QED BY <1>2, <1>7, FittingSame

\* A credit gives back what was taken of it.
LEMMA MayReturn ==
    ASSUME NEW credit \in Credit, CreditKept(credit, 0), NEW by,
           NEW cents \in Int, 0 <= cents, cents <= TakenBy(credit, by)
    PROVE  MayEnter(credit, by, -cents, 0)
<1>1. /\ Single(credit) /\ NoneNegative(credit) /\ Spent(credit) <= credit.amount + 0
      /\ Spent(credit) \in Int /\ credit.amount \in Int /\ TakenBy(credit, by) \in Int
  BY RowsAre, SpentInt DEF CreditKept
<1>2. Spent(credit) + -cents <= credit.amount + 0
  BY <1>1
<1>3. ASSUME NEW k \in DOMAIN credit.entries, credit.entries[k].by = by
      PROVE  credit.entries[k].cents + -cents >= 0
  <2>1. TakenBy(credit, by) = credit.entries[k].cents
    BY <1>1, <1>3, TakenByOne
  <2> QED BY <1>1, <2>1
<1>4. -cents >= 0 \/ \E k \in DOMAIN credit.entries : credit.entries[k].by = by
  <2>1. SUFFICES ASSUME \A k \in DOMAIN credit.entries : credit.entries[k].by # by
                 PROVE  -cents >= 0
    OBVIOUS
  <2>2. TakenBy(credit, by) = 0
    BY <1>1, <2>1, TakenByOne
  <2> QED BY <2>2
<1> QED BY <1>2, <1>3, <1>4 DEF MayEnter

\* A credit gives no more than is open.
LEMMA MaySpend ==
    ASSUME NEW credit \in Credit, CreditKept(credit, 0), NEW by,
           NEW cents \in Int, 0 <= cents, cents <= OpenOf(credit)
    PROVE  MayEnter(credit, by, cents, 0)
<1>1. /\ NoneNegative(credit) /\ Spent(credit) <= credit.amount + 0
      /\ Spent(credit) \in Int /\ credit.amount \in Int
      /\ OpenOf(credit) = AtLeastZero(credit.amount - Spent(credit))
  BY RowsAre, SpentInt, OpenOfIs DEF CreditKept
<1>2. Spent(credit) + cents <= credit.amount + 0
  BY <1>1 DEF AtLeastZero
<1>3. ASSUME NEW k \in DOMAIN credit.entries
      PROVE  credit.entries[k].cents + cents >= 0
  <2>1. credit.entries[k].cents \in Int
    BY EntriesOf
  <2>2. credit.entries[k].cents >= 0
    BY <1>1 DEF NoneNegative
  <2> QED BY <2>1, <2>2
<1> QED BY <1>2, <1>3 DEF MayEnter

\* Refunds and payouts take of credits and give back; no reversal's parts change.
LEMMA PaidOutKeeps ==
    ASSUME NEW b, Kept(b), Fitting(b), NEW by \in By, by[1] # "reversal",
           NEW cents \in [1 .. Len(b.credits) -> Int],
           \A c \in 1 .. Len(b.credits) : MayEnter(b.credits[c], by, cents[c], 0),
           NEW after, after = EnteredAll(b, by, cents)
    PROVE  Kept(after) /\ Fitting(after) /\ IsEnteredAll(b, by, cents, after)
<1> DEFINE n == Len(b.credits)
           m == Len(b.reversals)
<1>1. /\ b \in Books /\ Named(b) /\ SettlesKept(b)
      /\ \A c \in 1 .. n : CreditKept(b.credits[c], 0)
  BY DEF Kept, Sound
<1>2. /\ n \in Nat /\ DOMAIN b.credits = 1 .. n /\ \A c \in 1 .. n : b.credits[c] \in Credit
  BY <1>1, BooksAre
<1>3. IsEnteredAll(b, by, cents, after)
  <2>1. \A c \in DOMAIN b.credits : Single(b.credits[c])
    BY <1>1, <1>2 DEF CreditKept
  <2> QED BY <1>1, <2>1, EnteredAllIs
<1>4. /\ after \in Books /\ after.totals = b.totals /\ after.standing = b.standing
      /\ after.payments = b.payments /\ after.reversals = b.reversals
      /\ after.refunds = b.refunds /\ after.cases = b.cases
      /\ Len(after.credits) = n /\ DOMAIN after.credits = 1 .. n
      /\ \A c \in 1 .. n : IsEntered(b.credits[c], by, cents[c], after.credits[c])
  BY <1>3, BooksAre DEF IsEnteredAll
<1>5. NamesOneOf(by, m)
  BY DEF NamesOneOf
<1>6. ASSUME NEW c \in 1 .. n
      PROVE  /\ NamesOneOf(after.credits[c].origin, m)
             /\ \A k \in DOMAIN after.credits[c].entries :
                  NamesOneOf(after.credits[c].entries[k].by, m)
             /\ CreditKept(after.credits[c], 0)
  <2>1. IsEntered(b.credits[c], by, cents[c], after.credits[c])
    BY <1>4
  <2>2. /\ NamesOneOf(b.credits[c].origin, m)
        /\ \A k \in DOMAIN b.credits[c].entries : NamesOneOf(b.credits[c].entries[k].by, m)
    BY <1>1, <1>2 DEF Named
  <2> HIDE DEF m
  <2>3. ASSUME NEW k \in DOMAIN after.credits[c].entries
        PROVE  NamesOneOf(after.credits[c].entries[k].by, m)
    <3>1. CASE k \in DOMAIN b.credits[c].entries
      BY <2>1, <2>2, <3>1 DEF IsEntered
    <3>2. CASE k \notin DOMAIN b.credits[c].entries
      <4>1. after.credits[c].entries[k].by = by
        BY <2>1, <3>2 DEF IsEntered
      <4> QED BY <1>5, <4>1
    <3> QED BY <3>1, <3>2
  <2>4. CreditKept(after.credits[c], 0)
    <3>1. CreditKept(b.credits[c], 0) /\ MayEnter(b.credits[c], by, cents[c], 0)
      BY <1>1
    <3>2. b.credits[c] \in Credit /\ cents[c] \in Int
      BY <1>2
    <3> DEFINE none == 0
               credit == b.credits[c]
    <3>3. /\ none \in Int /\ credit \in Credit
          /\ CreditKept(credit, none) /\ MayEnter(credit, by, cents[c], none)
          /\ IsEntered(credit, by, cents[c], after.credits[c])
      BY <2>1, <3>1, <3>2
    <3> HIDE DEF none, credit
    <3>4. CreditKept(after.credits[c], none)
      BY <3>2, <3>3, EnteredKept
    <3> QED BY <3>4 DEF none
  <2>5. after.credits[c].origin = b.credits[c].origin
    BY <2>1 DEF IsEntered
  <2> QED BY <2>2, <2>3, <2>4, <2>5
<1>7. Named(after)
  BY <1>1, <1>4, <1>6 DEF Named
<1>8. Kept(after)
  <2> DEFINE zeros == [c \in 1 .. Len(after.credits) |-> 0]
  <2>1. SettlesKept(after)
    BY <1>1, <1>4, SettlesSame
  <2>2. \A c \in 1 .. Len(after.credits) : CreditKept(after.credits[c], zeros[c])
    BY <1>4, <1>6
  <2>3. Sound(after, zeros)
    <3> HIDE DEF zeros
    <3> QED BY <1>4, <1>7, <2>1, <2>2 DEF Sound
  <2> QED BY <2>3 DEF Kept
<1>9. ASSUME NEW s \in 1 .. m
      PROVE  Fits(after, s, 0)
  <2> DEFINE name == <<"reversal", s>>
  <2>1. name # by
    <3>1. name[1] = "reversal"
      OBVIOUS
    <3> HIDE DEF name
    <3> QED BY <3>1
  <2>2. CreditsOf(after, name) = CreditsOf(b, name)
    BY <1>3 DEF IsEnteredAll
  <2>3. HeldOf(after, name) = HeldOf(b, name)
    <3>1. HeldOf(after, name) = HeldOf(b, name) + 0
      BY <1>3, <2>1 DEF IsEnteredAll
    <3>2. HeldOf(b, name) \in Int
      BY <1>1, TableSums
    <3> HIDE DEF name
    <3> QED BY <3>1, <3>2
  <2>4. CaseSum(after, name) = CaseSum(b, name)
    BY <1>4, SameSums
  <2>5. Unmatched(after, s) = Unmatched(b, s) /\ Reopened(after, s) = Reopened(b, s)
    BY <1>4, <2>2, <2>4 DEF Unmatched, Reopened
  <2>6. Fits(b, s, 0)
    BY DEF Fitting
  <2> QED BY <1>4, <2>3, <2>5, <2>6 DEF Fits
<1>10. Fitting(after)
  BY <1>4, <1>9 DEF Fitting
<1> QED BY <1>3, <1>8, <1>10

LEMMA CaseKeeps ==
    ASSUME NEW b, Kept(b), Fitting(b), NEW by \in By, by[1] # "reversal", NEW cents \in Int,
           NEW after, after = CaseOpened(b, by, cents)
    PROVE  Kept(after) /\ Fitting(after)
<1> DEFINE m == Len(b.reversals)
<1>1. /\ b \in Books /\ Named(b) /\ SettlesKept(b)
      /\ \A c \in 1 .. Len(b.credits) : CreditKept(b.credits[c], 0)
  BY DEF Kept, Sound
<1>2. IsCaseOpened(b, by, cents, after)
  BY <1>1, CaseOpenedIs
<1>3. /\ after \in Books /\ after.totals = b.totals /\ after.standing = b.standing
      /\ after.payments = b.payments /\ after.credits = b.credits
      /\ after.reversals = b.reversals
  BY <1>2 DEF IsCaseOpened
<1>4. Named(after)
  <2>1. /\ Len(after.totals) \in Invoices /\ after.standing \in 0 .. Len(after.totals)
        /\ \A r \in DOMAIN after.reversals :
             after.reversals[r].payment \in DOMAIN after.payments
        /\ \A c \in DOMAIN after.credits :
             /\ NamesOneOf(after.credits[c].origin, Len(after.reversals))
             /\ \A k \in DOMAIN after.credits[c].entries :
                  NamesOneOf(after.credits[c].entries[k].by, Len(after.reversals))
    BY <1>1, <1>3 DEF Named
  <2>2. ASSUME NEW k \in DOMAIN after.cases
        PROVE  NamesOneOf(after.cases[k].by, m)
    <3>1. CASE after.cases[k].by = by
      BY <3>1 DEF NamesOneOf
    <3>2. CASE after.cases[k].by # by
      <4>1. k \in DOMAIN b.cases /\ after.cases[k] = b.cases[k]
        BY <1>2, <3>2 DEF IsCaseOpened
      <4> QED BY <1>1, <4>1 DEF Named
    <3> QED BY <3>1, <3>2
  <2> QED BY <1>3, <2>1, <2>2 DEF Named
<1>5. Kept(after)
  <2> DEFINE zeros == [c \in 1 .. Len(after.credits) |-> 0]
  <2>1. SettlesKept(after)
    BY <1>1, <1>3, SettlesSame
  <2>2. \A c \in 1 .. Len(after.credits) : CreditKept(after.credits[c], zeros[c])
    BY <1>1, <1>3
  <2>3. Sound(after, zeros)
    <3> HIDE DEF zeros
    <3> QED BY <1>3, <1>4, <2>1, <2>2 DEF Sound
  <2> QED BY <2>3 DEF Kept
<1>6. ASSUME NEW s \in 1 .. m
      PROVE  Fits(after, s, 0)
  <2> DEFINE name == <<"reversal", s>>
  <2>1. name # by
    <3>1. name[1] = "reversal"
      OBVIOUS
    <3> HIDE DEF name
    <3> QED BY <3>1
  <2>2. CaseSum(after, name) = CaseSum(b, name)
    <3>1. CaseSum(after, name) = CaseSum(b, name) + 0
      BY <1>2, <2>1 DEF IsCaseOpened
    <3>2. CaseSum(b, name) \in Int
      BY <1>1, TableSums
    <3> HIDE DEF name
    <3> QED BY <3>1, <3>2
  <2>3. CreditsOf(after, name) = CreditsOf(b, name) /\ HeldOf(after, name) = HeldOf(b, name)
    BY <1>3, SameSums
  <2>4. Unmatched(after, s) = Unmatched(b, s) /\ Reopened(after, s) = Reopened(b, s)
    BY <1>3, <2>2, <2>3 DEF Unmatched, Reopened
  <2>5. Fits(b, s, 0)
    BY DEF Fitting
  <2> QED BY <1>3, <2>3, <2>4, <2>5 DEF Fits
<1>7. Fitting(after)
  BY <1>3, <1>6 DEF Fitting
<1> QED BY <1>5, <1>7

\* One more payment, which settles no more than is owed.
Paid(b, payment) == [b EXCEPT !.payments = Append(@, payment)]

LEMMA PaidKeeps ==
    ASSUME NEW b, Kept(b), Fitting(b), NEW payment \in Payment,
           \A i \in Invoices : /\ 0 <= payment.settles[i]
                               /\ payment.settles[i] <= AtLeastZero(OwedOn(b, i)),
           NEW after, after = Paid(b, payment)
    PROVE  /\ Kept(after) /\ Fitting(after)
           /\ \A i \in Invoices : SettledOn(after, i) = SettledOn(b, i) + payment.settles[i]
<1> DEFINE n == Len(b.payments)
           payments == Append(b.payments, payment)
<1>1. /\ b \in Books /\ Named(b) /\ SettlesKept(b)
      /\ \A c \in 1 .. Len(b.credits) : CreditKept(b.credits[c], 0)
  BY DEF Kept, Sound
<1>2. /\ b.payments \in Seq(Payment) /\ n \in Nat /\ DOMAIN b.payments = 1 .. n
      /\ Invoices = 1 .. MaxInvoices /\ \A p \in 1 .. n : b.payments[p] \in Payment
  BY <1>1, BooksAre, RowsAre
<1>3. /\ payments \in Seq(Payment) /\ Len(payments) = n + 1 /\ DOMAIN payments = 1 .. n + 1
      /\ \A p \in 1 .. n : payments[p] = b.payments[p]
      /\ payments[n + 1] = payment
  BY <1>2
<1>4. after = [b EXCEPT !.payments = payments]
  BY DEF Paid
<1> HIDE DEF payments
<1>5. /\ after \in Books /\ after.totals = b.totals /\ after.standing = b.standing
      /\ after.payments = payments /\ after.credits = b.credits
      /\ after.reversals = b.reversals /\ after.cases = b.cases
  BY <1>1, <1>3, <1>4 DEF Books
<1>6. Named(after)
  BY <1>2, <1>3, <1>5, <1>1 DEF Named
<1>7. \A i \in Invoices : payment.settles[i] \in Int
  BY <1>2, RowsAre
<1>8. \A i \in Invoices : SettledOn(after, i) = SettledOn(b, i) + payment.settles[i]
  <2> SUFFICES ASSUME NEW i \in Invoices
               PROVE  SettledOn(after, i) = SettledOn(b, i) + payment.settles[i]
    OBVIOUS
  <2> DEFINE s == SettledByEach(b, i)
             t == SettledByEach(after, i)
  <2>1. s \in [1 .. n -> Int] /\ SettledOn(b, i) = SumOf(s)
    BY <1>1, TableSums
  <2>2. t \in [1 .. n + 1 -> Int] /\ SettledOn(after, i) = SumOf(t)
    BY <1>3, <1>5, TableSums
  <2>3. \A p \in 1 .. n : t[p] = s[p]
    BY <1>2, <1>3, <1>5 DEF SettledByEach
  <2>4. t[n + 1] = payment.settles[i]
    BY <1>2, <1>3, <1>5 DEF SettledByEach
  <2> HIDE DEF s, t, n
  <2>5. SumOf(t) = SumOf(s) + t[n + 1]
    BY <1>2, <2>1, <2>2, <2>3, SumOfAppended
  <2> QED BY <2>1, <2>2, <2>4, <2>5
<1>9. SettlesKept(after)
  <2>1. ASSUME NEW i \in Invoices
        PROVE  /\ i > Len(b.totals) => payment.settles[i] = 0
               /\ i \in 1 .. Len(b.totals) =>
                    SettledOn(b, i) + payment.settles[i] <= AtLeastZero(b.totals[i])
    BY <1>1, <1>7, OwedIs
  <2>2. ASSUME NEW p \in 1 .. n + 1, NEW i \in Invoices
        PROVE  /\ after.payments[p].settles[i] >= 0
               /\ i > Len(after.totals) => after.payments[p].settles[i] = 0
    <3>1. CASE p \in 1 .. n
      BY <1>1, <1>3, <1>5, <3>1 DEF SettlesKept
    <3>2. CASE p = n + 1
      BY <1>3, <1>5, <1>7, <2>1, <3>2
    <3> QED BY <1>2, <3>1, <3>2
  <2>3. ASSUME NEW i \in 1 .. Len(b.totals)
        PROVE  SettledOn(after, i) <= AtLeastZero(b.totals[i])
    <3>1. i \in Invoices
      BY <1>1, <1>2, RowsAre DEF Named
    <3> QED BY <1>8, <2>1, <3>1
  <2>4. Len(after.payments) = n + 1 /\ after.totals = b.totals
    BY <1>3, <1>5
  <2> QED BY <2>2, <2>3, <2>4 DEF SettlesKept
<1>10. Kept(after)
  <2> DEFINE zeros == [c \in 1 .. Len(after.credits) |-> 0]
  <2>1. \A c \in 1 .. Len(after.credits) : CreditKept(after.credits[c], zeros[c])
    BY <1>1, <1>5
  <2>2. Sound(after, zeros)
    <3> HIDE DEF zeros
    <3> QED BY <1>5, <1>6, <1>9, <2>1 DEF Sound
  <2> QED BY <2>2 DEF Kept
<1> QED BY <1>5, <1>8, <1>10, FittingSame

\* One more invoice, which nothing settles yet.
Issued(b, total) == [b EXCEPT !.totals = Append(@, total)]

LEMMA IssuedKeeps ==
    ASSUME NEW b, Kept(b), Fitting(b), Len(b.totals) < MaxInvoices, NEW total \in Totals,
           NEW after, after = Issued(b, total)
    PROVE  /\ Kept(after) /\ Fitting(after)
           /\ Len(after.totals) = Len(b.totals) + 1 /\ after.standing = b.standing
           /\ after.payments = b.payments
           /\ after.totals[Len(b.totals) + 1] = total
           /\ Len(b.totals) + 1 \in Invoices
           /\ \A p \in 1 .. Len(b.payments) : b.payments[p].settles[Len(b.totals) + 1] = 0
<1> DEFINE n == Len(b.totals)
           totals == Append(b.totals, total)
<1>1. /\ b \in Books /\ Named(b) /\ SettlesKept(b)
      /\ \A c \in 1 .. Len(b.credits) : CreditKept(b.credits[c], 0)
  BY DEF Kept, Sound
<1>2. /\ b.totals \in Seq(Totals) /\ n \in Nat /\ DOMAIN b.totals = 1 .. n
      /\ Invoices = 1 .. MaxInvoices /\ MaxInvoices \in Nat /\ total \in Int
      /\ b.standing \in 0 .. n
  BY <1>1, BooksAre, RowsAre, LedgerAssumption DEF Named
<1>3. /\ totals \in Seq(Totals) /\ Len(totals) = n + 1
      /\ \A i \in 1 .. n : totals[i] = b.totals[i]
      /\ totals[n + 1] = total
  BY <1>2
<1>4. after = [b EXCEPT !.totals = totals]
  BY DEF Issued
<1> HIDE DEF totals
<1>5. /\ after \in Books /\ after.totals = totals /\ after.standing = b.standing
      /\ after.payments = b.payments /\ after.credits = b.credits
      /\ after.reversals = b.reversals /\ after.cases = b.cases
  BY <1>1, <1>3, <1>4 DEF Books
<1>6. n + 1 \in Invoices /\ n + 1 > n
  BY <1>2
<1>7. \A p \in 1 .. Len(b.payments) : b.payments[p].settles[n + 1] = 0
  BY <1>1, <1>6 DEF SettlesKept
<1>8. Named(after)
  BY <1>2, <1>3, <1>5, <1>6, <1>1 DEF Named
<1>9. \A i : SettledOn(after, i) = SettledOn(b, i)
  BY <1>5, SameSums
<1>10. SettledOn(b, n + 1) = 0
  BY <1>1, <1>6, TableSums, <1>7, BooksAre, SumOfNothing DEF SettledByEach
<1>11. SettlesKept(after)
  <2>1. ASSUME NEW p \in 1 .. Len(b.payments), NEW i \in Invoices
        PROVE  /\ b.payments[p].settles[i] >= 0
               /\ i > n + 1 => b.payments[p].settles[i] = 0
    BY <1>1, <1>2 DEF SettlesKept
  <2>2. ASSUME NEW i \in 1 .. n + 1
        PROVE  SettledOn(after, i) <= AtLeastZero(totals[i])
    <3>1. CASE i \in 1 .. n
      BY <1>1, <1>3, <1>9, <3>1 DEF SettlesKept
    <3>2. CASE i = n + 1
      <4>1. AtLeastZero(total) >= 0
        BY <1>2, AtLeastZeroIs
      <4> QED BY <1>3, <1>9, <1>10, <3>2, <4>1
    <3> QED BY <1>2, <3>1, <3>2
  <2> QED BY <1>3, <1>5, <2>1, <2>2 DEF SettlesKept
<1>12. Kept(after)
  <2> DEFINE zeros == [c \in 1 .. Len(after.credits) |-> 0]
  <2>1. \A c \in 1 .. Len(after.credits) : CreditKept(after.credits[c], zeros[c])
    BY <1>1, <1>5
  <2>2. Sound(after, zeros)
    <3> HIDE DEF zeros
    <3> QED BY <1>5, <1>8, <1>11, <2>1 DEF Sound
  <2> QED BY <2>2 DEF Kept
<1> QED BY <1>3, <1>5, <1>6, <1>7, <1>12, FittingSame

-----------------------------------------------------------------------------
(* What was paid moves to another invoice, and the rest is credited        *)

SharesInTurn(b, cents, n, f) ==
    f = [p \in 0 .. n |-> IF p = 0 THEN b ELSE Credited(f[p - 1], <<"payment", p>>, cents[p])]

LEMMA SharesInTurnExist ==
    ASSUME NEW b, NEW cents
    PROVE  \A n \in Nat : \E f : SharesInTurn(b, cents, n, f)
<1> DEFINE T == {n \in Nat : \E f : SharesInTurn(b, cents, n, f)}
           Next1(before, p) == Credited(before, <<"payment", p>>, cents[p])
<1>1. 0 \in T
  <2>1. SharesInTurn(b, cents, 0, [p \in 0 .. 0 |-> b])
    BY DEF SharesInTurn
  <2> QED BY <2>1
<1>2. ASSUME NEW n \in Nat, n \in T
      PROVE  n + 1 \in T
  <2>1. PICK f : SharesInTurn(b, cents, n, f)
    BY <1>2
  <2> DEFINE g == [p \in 0 .. n + 1 |-> IF p = n + 1 THEN Next1(f[n], n + 1) ELSE f[p]]
  <2>2. f = [p \in 0 .. n |-> IF p = 0 THEN b ELSE Next1(f[p - 1], p)]
    BY <2>1 DEF SharesInTurn
  <2>3. g = [p \in 0 .. n + 1 |-> IF p = 0 THEN b ELSE Next1(g[p - 1], p)]
    <3> HIDE DEF Next1
    <3> QED BY <2>2
  <2>4. SharesInTurn(b, cents, n + 1, g)
    BY <2>3 DEF SharesInTurn
  <2> QED BY <2>4
<1>3. \A n \in Nat : n \in T
  <2> HIDE DEF T
  <2> QED BY <1>1, <1>2, Inductive
<1> QED BY <1>3

LEMMA SharesCreditedIs ==
    ASSUME NEW b, NEW n \in Nat, NEW cents, Len(cents) = n
    PROVE  \E f : SharesInTurn(b, cents, n, f) /\ SharesCredited(b, cents) = f[n]
<1> DEFINE f == CHOOSE f : f = [p \in 0 .. n |->
                    IF p = 0 THEN b ELSE Credited(f[p - 1], <<"payment", p>>, cents[p])]
<1>1. SharesInTurn(b, cents, n, f)
  <2>1. \E g : SharesInTurn(b, cents, n, g)
    BY SharesInTurnExist
  <2>2. \E g : g = [p \in 0 .. n |->
                IF p = 0 THEN b ELSE Credited(g[p - 1], <<"payment", p>>, cents[p])]
    BY <2>1 DEF SharesInTurn
  <2>3. f = [p \in 0 .. n |->
                IF p = 0 THEN b ELSE Credited(f[p - 1], <<"payment", p>>, cents[p])]
    BY <2>2
  <2> HIDE DEF f
  <2> QED BY <2>3 DEF SharesInTurn
<1>2. SharesCredited(b, cents) = f[n]
  BY DEF SharesCredited
<1> QED BY <1>1, <1>2

LEMMA SharesCreditedKeeps ==
    ASSUME NEW b, Kept(b), Fitting(b), NEW n \in Nat, NEW cents \in [1 .. n -> Int],
           NEW after, after = SharesCredited(b, cents)
    PROVE  Kept(after) /\ Fitting(after)
<1>1. Len(cents) = n
  OBVIOUS
<1>2. PICK f : SharesInTurn(b, cents, n, f) /\ SharesCredited(b, cents) = f[n]
  BY <1>1, SharesCreditedIs
<1>3. f = [p \in 0 .. n |->
              IF p = 0 THEN b ELSE Credited(f[p - 1], <<"payment", p>>, cents[p])]
  BY <1>2 DEF SharesInTurn
<1> DEFINE T == {p \in Nat : p <= n => Kept(f[p]) /\ Fitting(f[p])}
<1>4. 0 \in T
  BY <1>3
<1>5. ASSUME NEW p \in Nat, p \in T
      PROVE  p + 1 \in T
  <2>1. SUFFICES ASSUME p + 1 <= n
                 PROVE  Kept(f[p + 1]) /\ Fitting(f[p + 1])
    OBVIOUS
  <2> DEFINE origin == <<"payment", p + 1>>
             before == f[p]
             share == cents[p + 1]
  <2>2. Kept(before) /\ Fitting(before)
    BY <1>5, <2>1
  <2>3. f[p + 1] = Credited(before, origin, share)
    BY <1>3, <2>1
  <2>4. share \in Int
    BY <2>1
  <2>5. origin \in Origins /\ origin[1] # "reversal"
    BY DEF Origins
  <2> HIDE DEF origin, before, share
  <2> QED BY <2>2, <2>3, <2>4, <2>5, CreditedFits
<1>6. \A p \in Nat : p \in T
  <2> HIDE DEF T
  <2> QED BY <1>4, <1>5, Inductive
<1>7. Kept(f[n]) /\ Fitting(f[n])
  BY <1>6
<1> QED BY <1>2, <1>7

LEMMA DealtAtMost ==
    ASSUME NEW n \in Nat, NEW caps \in [1 .. n -> Int], NEW amount \in Int,
           \A i \in 1 .. n : caps[i] >= 0
    PROVE  IsDealt(n, AtLeastZero(amount), caps, Dealt(amount, caps))
<1> DEFINE cap == [i \in 1 .. n |-> AtLeastZero(caps[i])]
<1>1. \A i \in 1 .. n : AtLeastZero(caps[i]) = caps[i]
  BY DEF AtLeastZero
<1>2. cap = caps
  BY <1>1
<1>3. AtLeastZero(amount) \in Nat
  BY AtLeastZeroIs
<1> DEFINE dealt == Dealt(amount, caps)
<1>4. /\ dealt \in [1 .. n -> Int]
      /\ \A i \in 1 .. n : dealt[i] \in Nat /\ dealt[i] <= AtLeastZero(caps[i])
      /\ SumOf(dealt) = Least(AtLeastZero(amount), SumOf(cap))
  BY DealtIs
<1> HIDE DEF dealt
<1>5. SumOf(caps) \in Nat
  BY SumOfNat
<1>6. \A i \in 1 .. n : 0 <= dealt[i] /\ dealt[i] <= caps[i]
  BY <1>1, <1>4
<1> DEFINE most == AtLeastZero(amount)
<1>7. SumOf(dealt) = Least(most, SumOf(caps)) /\ most \in Nat
  BY <1>2, <1>3, <1>4
<1> HIDE DEF cap, most
<1>8. IsDealt(n, most, caps, dealt)
  BY <1>4, <1>5, <1>6, <1>7 DEF Least, IsDealt
<1> QED BY <1>8 DEF dealt, most

\* The payments, once what they settled of the invoice that stood is moved.
SharesLeft(b, standing, owes) ==
    LET i == b.standing
        share == [p \in DOMAIN b.payments |-> AtLeastZero(b.payments[p].settles[i])]
        movedIn == Dealt(owes, share)
        Moved(p) == [b.payments[p] EXCEPT !.settles = [j \in Invoices |->
                        CASE j = i -> @[j] - share[p]
                          [] j = standing -> @[j] + movedIn[p]
                          [] OTHER -> @[j]]]
    IN [b EXCEPT !.standing = standing, !.payments = [p \in DOMAIN share |-> Moved(p)]]

\* What is moved is no more than the invoice that stands now owes.
MayMove(b, standing, owes) ==
    /\ b.standing # 0 /\ standing # b.standing /\ standing \in 0 .. Len(b.totals)
    /\ owes \in Int
    /\ standing # 0 =>
         /\ owes <= AtLeastZero(b.totals[standing])
         /\ \A p \in 1 .. Len(b.payments) : b.payments[p].settles[standing] = 0

\* A payment whose share of one invoice moves to another, as far as it may.
ShareMoved(payment, i, standing, cents) ==
    [payment EXCEPT !.settles = [j \in Invoices |->
        CASE j = i -> @[j] - AtLeastZero(payment.settles[i])
          [] j = standing -> @[j] + cents
          [] OTHER -> @[j]]]

LEMMA ShareMovedIs ==
    ASSUME NEW payment \in Payment, NEW i \in Invoices, payment.settles[i] >= 0,
           NEW standing, standing # i, NEW cents \in Int
    PROVE  /\ ShareMoved(payment, i, standing, cents) \in Payment
           /\ ShareMoved(payment, i, standing, cents).amount = payment.amount
           /\ \A j \in Invoices : ShareMoved(payment, i, standing, cents).settles[j] =
                IF j = i THEN 0
                ELSE payment.settles[j] + IF j = standing THEN cents ELSE 0
<1> DEFINE settles == [j \in Invoices |->
                CASE j = i -> payment.settles[j] - AtLeastZero(payment.settles[i])
                  [] j = standing -> payment.settles[j] + cents
                  [] OTHER -> payment.settles[j]]
<1>1. payment.settles \in [Invoices -> Int]
  BY DEF Payment
<1>2. AtLeastZero(payment.settles[i]) = payment.settles[i]
  BY <1>1, AtLeastZeroIs
<1>3. \A j \in Invoices : settles[j] \in Int
        /\ settles[j] = IF j = i THEN 0
                        ELSE payment.settles[j] + IF j = standing THEN cents ELSE 0
  BY <1>1, <1>2
<1>4. settles \in [Invoices -> Int]
  BY <1>3
<1>5. ShareMoved(payment, i, standing, cents) = [payment EXCEPT !.settles = settles]
  BY DEF ShareMoved
<1> HIDE DEF settles
<1>6. /\ [payment EXCEPT !.settles = settles] \in Payment
      /\ [payment EXCEPT !.settles = settles].settles = settles
      /\ [payment EXCEPT !.settles = settles].amount = payment.amount
  BY <1>4 DEF Payment
<1> QED BY <1>3, <1>5, <1>6

AreShares(b, standing, owes, share, movedIn) ==
    /\ share \in [1 .. Len(b.payments) -> Int]
    /\ \A p \in 1 .. Len(b.payments) :
         share[p] = AtLeastZero(b.payments[p].settles[b.standing])
    /\ IsDealt(Len(b.payments), AtLeastZero(owes), share, movedIn)
    /\ SharesMoved(b, standing, owes)
         = SharesCredited(SharesLeft(b, standing, owes),
                          [p \in 1 .. Len(b.payments) |-> share[p] - movedIn[p]])
    /\ SharesLeft(b, standing, owes) =
         [b EXCEPT !.standing = standing,
                   !.payments = [p \in 1 .. Len(b.payments) |->
                      ShareMoved(b.payments[p], b.standing, standing, movedIn[p])]]

LEMMA SharesMovedIs ==
    ASSUME NEW b, Kept(b), NEW standing, NEW owes, MayMove(b, standing, owes)
    PROVE  \E share, movedIn : AreShares(b, standing, owes, share, movedIn)
<1> DEFINE n == Len(b.payments)
           i == b.standing
           share == [p \in 1 .. n |-> AtLeastZero(b.payments[p].settles[i])]
           movedIn == Dealt(owes, share)
<1>1. /\ b \in Books /\ Named(b) /\ SettlesKept(b) /\ owes \in Int /\ i # 0
  BY DEF Kept, Sound, MayMove
<1>2. /\ n \in Nat /\ DOMAIN b.payments = 1 .. n /\ \A p \in 1 .. n : b.payments[p] \in Payment
      /\ i \in Invoices
  BY <1>1, RowsAre, BooksAre DEF Named
<1>3. share \in [1 .. n -> Int] /\ \A p \in 1 .. n : share[p] >= 0
  <2> SUFFICES ASSUME NEW p \in 1 .. n
               PROVE  AtLeastZero(b.payments[p].settles[i]) \in Nat
    OBVIOUS
  <2>1. b.payments[p].settles[i] \in Int
    BY <1>2 DEF Payment
  <2> QED BY <2>1, AtLeastZeroIs
<1>5. IsDealt(n, AtLeastZero(owes), share, movedIn)
  <2> HIDE DEF share
  <2> QED BY <1>1, <1>2, <1>3, DealtAtMost
<1>6. SharesMoved(b, standing, owes)
        = SharesCredited(SharesLeft(b, standing, owes), [p \in 1 .. n |-> share[p] - movedIn[p]])
  BY <1>2 DEF SharesMoved, SharesLeft
<1>7. SharesLeft(b, standing, owes) =
        [b EXCEPT !.standing = standing,
                  !.payments = [p \in 1 .. n |->
                     ShareMoved(b.payments[p], i, standing, movedIn[p])]]
  <2> DEFINE Moved(p) == [b.payments[p] EXCEPT !.settles = [j \in Invoices |->
                            CASE j = i -> @[j] - share[p]
                              [] j = standing -> @[j] + movedIn[p]
                              [] OTHER -> @[j]]]
  <2>1. \A p \in 1 .. n : Moved(p) = ShareMoved(b.payments[p], i, standing, movedIn[p])
    <3> SUFFICES ASSUME NEW p \in 1 .. n
                 PROVE  Moved(p) = ShareMoved(b.payments[p], i, standing, movedIn[p])
      OBVIOUS
    <3>1. share[p] = AtLeastZero(b.payments[p].settles[i])
      OBVIOUS
    <3> HIDE DEF share, movedIn, i
    <3> QED BY <3>1 DEF ShareMoved
  <2>2. SharesLeft(b, standing, owes) =
          [b EXCEPT !.standing = standing, !.payments = [p \in 1 .. n |-> Moved(p)]]
    BY <1>2 DEF SharesLeft
  <2> HIDE DEF Moved, share, movedIn
  <2> QED BY <2>1, <2>2
<1>8. \A p \in 1 .. n : share[p] = AtLeastZero(b.payments[p].settles[i])
  OBVIOUS
<1> HIDE DEF share, movedIn
<1>9. AreShares(b, standing, owes, share, movedIn)
  BY <1>3, <1>5, <1>6, <1>7, <1>8 DEF AreShares
<1> QED BY <1>9

\* The books once what was paid on the invoice that stood is moved.
IsLeft(b, standing, movedIn, left) ==
    /\ left \in Books /\ left.totals = b.totals /\ left.standing = standing
    /\ left.credits = b.credits /\ left.reversals = b.reversals
    /\ left.refunds = b.refunds /\ left.cases = b.cases
    /\ Len(left.payments) = Len(b.payments) /\ DOMAIN left.payments = 1 .. Len(b.payments)
    /\ \A p \in 1 .. Len(b.payments) :
         /\ left.payments[p].amount = b.payments[p].amount
         /\ \A j \in Invoices : left.payments[p].settles[j] =
              IF j = b.standing THEN 0
              ELSE b.payments[p].settles[j] + IF j = standing THEN movedIn[p] ELSE 0

LEMMA MovesBetween ==
    ASSUME NEW b, Kept(b), NEW standing, NEW owes, MayMove(b, standing, owes)
    PROVE  /\ b \in Books /\ b.standing \in 1 .. Len(b.totals) /\ b.standing \in Invoices
           /\ standing # b.standing /\ standing \in 0 .. Len(b.totals) /\ owes \in Int
           /\ Len(b.payments) \in Nat /\ DOMAIN b.payments = 1 .. Len(b.payments)
           /\ Len(b.totals) \in 1 .. MaxInvoices /\ Invoices = 1 .. MaxInvoices
           /\ MaxInvoices \in Nat
           /\ \A p \in 1 .. Len(b.payments) : /\ b.payments[p] \in Payment
                /\ \A j \in Invoices :
                     b.payments[p].settles[j] \in Int /\ b.payments[p].settles[j] >= 0
<1>1. /\ b \in Books /\ Named(b) /\ SettlesKept(b)
      /\ b.standing # 0 /\ standing # b.standing /\ standing \in 0 .. Len(b.totals)
      /\ owes \in Int
  BY DEF Kept, Sound, MayMove
<1>2. /\ Len(b.payments) \in Nat /\ DOMAIN b.payments = 1 .. Len(b.payments)
      /\ \A p \in 1 .. Len(b.payments) : b.payments[p] \in Payment
      /\ Len(b.totals) \in 1 .. MaxInvoices /\ Invoices = 1 .. MaxInvoices
      /\ MaxInvoices \in Nat
  BY <1>1, BooksAre, RowsAre DEF Named
<1>3. b.standing \in 1 .. Len(b.totals) /\ b.standing \in Invoices
  BY <1>1, <1>2 DEF Named
<1>4. \A p \in 1 .. Len(b.payments) : \A j \in Invoices :
        b.payments[p].settles[j] \in Int /\ b.payments[p].settles[j] >= 0
  BY <1>1, <1>2 DEF SettlesKept, Payment
<1> QED BY <1>1, <1>2, <1>3, <1>4

LEMMA SharesLeftIs ==
    ASSUME NEW b, Kept(b), NEW standing, NEW owes, MayMove(b, standing, owes),
           NEW share, NEW movedIn, AreShares(b, standing, owes, share, movedIn),
           NEW left, left = SharesLeft(b, standing, owes)
    PROVE  IsLeft(b, standing, movedIn, left)
<1> DEFINE n == Len(b.payments)
           i == b.standing
           payments == [p \in 1 .. n |-> ShareMoved(b.payments[p], i, standing, movedIn[p])]
<1>1. /\ b \in Books /\ i \in Invoices /\ standing # i /\ standing \in 0 .. Len(b.totals)
      /\ n \in Nat /\ DOMAIN b.payments = 1 .. n /\ Len(b.totals) \in 1 .. MaxInvoices
      /\ \A p \in 1 .. n : /\ b.payments[p] \in Payment
           /\ \A j \in Invoices :
                b.payments[p].settles[j] \in Int /\ b.payments[p].settles[j] >= 0
  BY MovesBetween
<1>2. movedIn \in [1 .. n -> Int]
  BY DEF AreShares, IsDealt
<1>3. ASSUME NEW p \in 1 .. n
      PROVE  /\ payments[p] \in Payment /\ payments[p].amount = b.payments[p].amount
             /\ \A j \in Invoices : payments[p].settles[j] =
                  IF j = i THEN 0
                  ELSE b.payments[p].settles[j] + IF j = standing THEN movedIn[p] ELSE 0
  <2> DEFINE payment == b.payments[p]
             cents == movedIn[p]
  <2>1. /\ payment \in Payment /\ payment.settles[i] >= 0 /\ cents \in Int
        /\ i \in Invoices /\ standing # i
        /\ payments[p] = ShareMoved(payment, i, standing, cents)
    BY <1>1, <1>2
  <2> HIDE DEF payment, cents, payments, i
  <2>2. /\ payments[p] \in Payment /\ payments[p].amount = payment.amount
        /\ \A j \in Invoices : payments[p].settles[j] =
             IF j = i THEN 0 ELSE payment.settles[j] + IF j = standing THEN cents ELSE 0
    BY <2>1, ShareMovedIs
  <2> QED BY <2>2 DEF payment, cents, i
<1>4. payments \in [1 .. n -> Payment]
  BY <1>3
<1>5. left = [b EXCEPT !.standing = standing, !.payments = payments]
  BY DEF AreShares
<1> HIDE DEF payments
<1>6. payments \in Seq(Payment) /\ Len(payments) = n /\ DOMAIN payments = 1 .. n
  BY <1>1, <1>4
<1>7. /\ left \in Books /\ left.totals = b.totals /\ left.standing = standing
      /\ left.payments = payments /\ left.credits = b.credits
      /\ left.reversals = b.reversals /\ left.refunds = b.refunds /\ left.cases = b.cases
  <2>1. standing \in Nat
    BY <1>1
  <2> QED BY <1>1, <1>5, <1>6, <2>1 DEF Books
<1> QED BY <1>3, <1>6, <1>7 DEF IsLeft

LEMMA SharesMovedKeeps ==
    ASSUME NEW b, Kept(b), Fitting(b), NEW standing, NEW owes, MayMove(b, standing, owes),
           NEW after, after = SharesMoved(b, standing, owes)
    PROVE  Kept(after) /\ Fitting(after)
<1> DEFINE n == Len(b.payments)
           i == b.standing
           left == SharesLeft(b, standing, owes)
<1>1. /\ b \in Books /\ Named(b) /\ SettlesKept(b)
      /\ \A c \in 1 .. Len(b.credits) : CreditKept(b.credits[c], 0)
  BY DEF Kept, Sound
<1>2. /\ n \in Nat /\ DOMAIN b.payments = 1 .. n
      /\ Len(b.totals) \in 1 .. MaxInvoices /\ Invoices = 1 .. MaxInvoices /\ MaxInvoices \in Nat
      /\ standing # i /\ standing \in 0 .. Len(b.totals) /\ owes \in Int
      /\ \A j \in 1 .. Len(b.totals) : b.totals[j] \in Int
  BY MovesBetween, BooksAre
<1>3. \A p \in 1 .. n : \A j \in Invoices :
        b.payments[p].settles[j] \in Int /\ b.payments[p].settles[j] >= 0
  BY MovesBetween
<1>4. PICK share, movedIn : AreShares(b, standing, owes, share, movedIn)
  BY SharesMovedIs
<1>5. /\ movedIn \in [1 .. n -> Int] /\ \A p \in 1 .. n : movedIn[p] >= 0
      /\ SumOf(movedIn) <= AtLeastZero(owes) /\ SumOf(movedIn) \in Int
  BY <1>4 DEF AreShares, IsDealt
<1>6. IsLeft(b, standing, movedIn, left)
  BY <1>4, SharesLeftIs
<1> HIDE DEF left
<1>7. /\ left \in Books /\ left.totals = b.totals /\ left.standing = standing
      /\ left.credits = b.credits /\ left.reversals = b.reversals /\ left.cases = b.cases
  BY <1>6 DEF IsLeft
<1>8. /\ Len(left.payments) = n /\ DOMAIN left.payments = 1 .. n
      /\ \A p \in 1 .. n : \A j \in Invoices : left.payments[p].settles[j] =
           IF j = i THEN 0
           ELSE b.payments[p].settles[j] + IF j = standing THEN movedIn[p] ELSE 0
  BY <1>6 DEF IsLeft
<1>9. Named(left)
  <2>1. DOMAIN left.payments = DOMAIN b.payments
    BY <1>2, <1>8
  <2> QED BY <1>1, <1>2, <1>7, <2>1 DEF Named
<1>10. ASSUME NEW j \in 1 .. Len(b.totals)
       PROVE  SettledOn(left, j) <= AtLeastZero(b.totals[j])
  <2> DEFINE s == SettledByEach(b, j)
             t == SettledByEach(left, j)
  <2>1. j \in Invoices
    BY <1>2
  <2>2. /\ s \in [1 .. n -> Int] /\ t \in [1 .. n -> Int]
        /\ SettledOn(b, j) = SumOf(s) /\ SettledOn(left, j) = SumOf(t)
    BY <1>1, <1>8, <1>7, <2>1, TableSums
  <2>3. SettledOn(b, j) <= AtLeastZero(b.totals[j])
    BY <1>1 DEF SettlesKept
  <2>4. \A p \in 1 .. n : /\ s[p] = b.payments[p].settles[j]
                          /\ t[p] = left.payments[p].settles[j]
    BY <1>8, <1>7 DEF SettledByEach
  <2> HIDE DEF s, t
  <2>5. CASE j = i
    <3>1. \A p \in 1 .. n : t[p] = 0
      BY <1>8, <2>1, <2>4, <2>5
    <3>2. SumOf(t) = 0
      BY <1>2, <2>2, <3>1, SumOfNothing
    <3>3. AtLeastZero(b.totals[j]) >= 0
      BY <1>2, AtLeastZeroIs
    <3> QED BY <2>2, <3>2, <3>3
  <2>6. CASE j # i /\ j # standing
    <3>1. \A p \in 1 .. n : t[p] = s[p]
      BY <1>3, <1>8, <2>1, <2>4, <2>6
    <3>2. t = s
      BY <2>2, <3>1
    <3> QED BY <2>2, <2>3, <3>2
  <2>7. CASE j # i /\ j = standing
    <3>1. /\ owes <= AtLeastZero(b.totals[j])
          /\ \A p \in 1 .. n : b.payments[p].settles[j] = 0
      <4>1. standing # 0
        BY <2>7, <1>2
      <4> QED BY <2>7, <4>1 DEF MayMove
    <3>2. \A p \in 1 .. n : t[p] = movedIn[p]
      BY <1>5, <1>8, <2>1, <2>4, <2>7, <3>1
    <3>3. t = movedIn
      BY <1>5, <2>2, <3>2
    <3>4. AtLeastZero(b.totals[j]) \in Int /\ AtLeastZero(b.totals[j]) >= 0
      BY <1>2, AtLeastZeroIs
    <3>5. AtLeastZero(owes) <= AtLeastZero(b.totals[j]) /\ AtLeastZero(owes) \in Int
      BY <1>2, <3>1, <3>4, AtLeastZeroIs
    <3> QED BY <1>5, <2>2, <3>3, <3>4, <3>5
  <2> QED BY <2>5, <2>6, <2>7
<1>11. ASSUME NEW p \in 1 .. n, NEW j \in Invoices
       PROVE  /\ left.payments[p].settles[j] >= 0
              /\ j > Len(b.totals) => left.payments[p].settles[j] = 0
  <2>1. left.payments[p].settles[j] =
           IF j = i THEN 0
           ELSE b.payments[p].settles[j] + IF j = standing THEN movedIn[p] ELSE 0
    BY <1>8
  <2>2. /\ b.payments[p].settles[j] \in Int /\ b.payments[p].settles[j] >= 0
        /\ movedIn[p] \in Int /\ movedIn[p] >= 0
    BY <1>3, <1>5
  <2>3. j > Len(b.totals) => b.payments[p].settles[j] = 0 /\ j # standing
    BY <1>1, <1>2 DEF SettlesKept
  <2> QED BY <2>1, <2>2, <2>3
<1>12. SettlesKept(left)
  BY <1>8, <1>7, <1>10, <1>11 DEF SettlesKept
<1>13. Kept(left)
  <2> DEFINE zeros == [c \in 1 .. Len(left.credits) |-> 0]
  <2>1. \A c \in 1 .. Len(left.credits) : CreditKept(left.credits[c], zeros[c])
    BY <1>1, <1>7
  <2>2. Sound(left, zeros)
    <3> HIDE DEF zeros
    <3> QED BY <1>7, <1>9, <1>12, <2>1 DEF Sound
  <2> QED BY <2>2 DEF Kept
<1>14. Fitting(left)
  BY <1>7, FittingSame
<1> DEFINE rest == [p \in 1 .. n |-> share[p] - movedIn[p]]
<1>15. rest \in [1 .. n -> Int]
  BY <1>4, <1>5 DEF AreShares
<1>16. after = SharesCredited(left, rest)
  BY <1>4 DEF AreShares, left
<1> HIDE DEF rest
<1> QED BY <1>2, <1>13, <1>14, <1>15, <1>16, SharesCreditedKeeps

-----------------------------------------------------------------------------
(* What an operation moves between them                                    *)

LEMMA RefundsKept ==
    ASSUME NEW b, NEW after, after.refunds = b.refunds, after.cases = b.cases,
           \A by : HeldOf(after, by) = HeldOf(b, by)
    PROVE  RefundsFit(b) => RefundsFit(after)
<1> SUFFICES ASSUME RefundsFit(b) PROVE RefundsFit(after)
  OBVIOUS
<1>1. \A by : CaseSum(after, by) = CaseSum(b, by)
  BY SameSums
<1> QED BY <1>1, RefundsFitSame

\* What operations but reports leave alone of the whole.
PartsSame(b, after) ==
    /\ RefundsFit(b) => RefundsFit(after)
    /\ WithdrawnOf(after) = WithdrawnOf(b) /\ ReinstatedOf(after) = ReinstatedOf(b)
    /\ ToCasesOf(after) = ToCasesOf(b)

\* And what they leave alone that pay nothing out.
RefundsSame(b, after) ==
    /\ RefundedOf(after) = RefundedOf(b) /\ CasesOf(after) = CasesOf(b)
    /\ HeldOf(after, <<"payout", 0>>) = HeldOf(b, <<"payout", 0>>)

LEMMA CreditedParts ==
    ASSUME NEW b \in Books, NEW origin \in Origins, NEW cents \in Int,
           NEW after, after = Credited(b, origin, cents)
    PROVE  PartsSame(b, after) /\ RefundsSame(b, after) /\ after \in Books
<1>1. IsCredited(b, origin, cents, after)
  BY CreditedIs
<1>2. /\ after \in Books /\ after.refunds = b.refunds /\ after.cases = b.cases
      /\ \A by : HeldOf(after, by) = HeldOf(b, by)
  BY <1>1 DEF IsCredited
<1>3. RefundsFit(b) => RefundsFit(after)
  BY <1>2, RefundsKept
<1>4. /\ WithdrawnOf(after) = WithdrawnOf(b) /\ ReinstatedOf(after) = ReinstatedOf(b)
      /\ ToCasesOf(after) = ToCasesOf(b) /\ RefundedOf(after) = RefundedOf(b)
      /\ CasesOf(after) = CasesOf(b)
  BY CreditedWhole
<1> QED BY <1>2, <1>3, <1>4 DEF PartsSame, RefundsSame

LEMMA PaidWhole ==
    ASSUME NEW b \in Books, NEW payment \in Payment, NEW after, after = Paid(b, payment),
           \A i \in Invoices : SettledOn(after, i) = SettledOn(b, i) + payment.settles[i]
    PROVE  /\ after \in Books /\ PartsSame(b, after) /\ RefundsSame(b, after)
           /\ CollectedOf(after) = CollectedOf(b) + payment.amount
           /\ SettledOf(after) = SettledOf(b) + SumOf(payment.settles)
           /\ UnspentOf(after) = UnspentOf(b) /\ GrantedOf(after) = GrantedOf(b)
<1> DEFINE n == Len(b.payments)
           payments == Append(b.payments, payment)
<1>1. /\ b.payments \in Seq(Payment) /\ n \in Nat
      /\ Invoices = 1 .. MaxInvoices /\ MaxInvoices \in Nat
  BY BooksAre, RowsAre
<1>2. /\ payments \in Seq(Payment) /\ Len(payments) = n + 1
      /\ \A p \in 1 .. n : payments[p] = b.payments[p]
      /\ payments[n + 1] = payment
  BY <1>1
<1>3. after = [b EXCEPT !.payments = payments]
  BY DEF Paid
<1> HIDE DEF payments
<1>4. /\ after \in Books /\ after.payments = payments /\ after.credits = b.credits
      /\ after.reversals = b.reversals /\ after.cases = b.cases /\ after.refunds = b.refunds
  BY <1>2, <1>3 DEF Books
<1>5. \A by : HeldOf(after, by) = HeldOf(b, by)
  BY <1>4, SameSums
<1>6. RefundsFit(b) => RefundsFit(after)
  BY <1>4, <1>5, RefundsKept
<1>7. /\ UnspentOf(after) = UnspentOf(b) /\ GrantedOf(after) = GrantedOf(b)
      /\ WithdrawnOf(after) = WithdrawnOf(b) /\ ReinstatedOf(after) = ReinstatedOf(b)
      /\ ToCasesOf(after) = ToCasesOf(b) /\ RefundedOf(after) = RefundedOf(b)
      /\ CasesOf(after) = CasesOf(b)
  BY <1>4, WholeSumsSame
<1>8. PartsSame(b, after) /\ RefundsSame(b, after)
  BY <1>5, <1>6, <1>7 DEF PartsSame, RefundsSame
<1>9. CollectedOf(after) = CollectedOf(b) + payment.amount
  <2> DEFINE s == AmountEach(b.payments)
             t == AmountEach(after.payments)
  <2>1. s \in [1 .. n -> Int] /\ CollectedOf(b) = SumOf(s)
    BY WholeSums
  <2>2. t \in [1 .. n + 1 -> Int] /\ CollectedOf(after) = SumOf(t)
    BY <1>2, <1>4, WholeSums
  <2>3. \A p \in 1 .. n : t[p] = s[p]
    BY <1>1, <1>2, <1>4 DEF AmountEach
  <2>4. t[n + 1] = payment.amount
    BY <1>1, <1>2, <1>4 DEF AmountEach
  <2> HIDE DEF s, t, n
  <2>5. SumOf(t) = SumOf(s) + t[n + 1]
    BY <1>1, <2>1, <2>2, <2>3, SumOfAppended
  <2> QED BY <2>1, <2>2, <2>4, <2>5
<1>10. SettledOf(after) = SettledOf(b) + SumOf(payment.settles)
  <2> DEFINE s == SettledEach(b)
             t == SettledEach(after)
             u == payment.settles
  <2>1. /\ s \in [1 .. MaxInvoices -> Int] /\ SettledOf(b) = SumOf(s)
        /\ t \in [1 .. MaxInvoices -> Int] /\ SettledOf(after) = SumOf(t)
        /\ u \in [1 .. MaxInvoices -> Int]
    BY <1>4, WholeSums, RowsAre
  <2>2. \A i \in 1 .. MaxInvoices : t[i] = s[i] + u[i]
    BY <1>1 DEF SettledEach
  <2> HIDE DEF s, t, u
  <2>3. SumOf(t) = SumOf(s) + SumOf(u)
    BY <1>1, <2>1, <2>2, SumOfAdds
  <2> QED BY <2>1, <2>3 DEF u
<1> QED BY <1>4, <1>7, <1>8, <1>9, <1>10

LEMMA SharesCreditedWhole ==
    ASSUME NEW b \in Books, NEW n \in Nat, NEW cents \in [1 .. n -> Int],
           \A p \in 1 .. n : cents[p] >= 0,
           NEW after, after = SharesCredited(b, cents)
    PROVE  /\ after \in Books /\ PartsSame(b, after) /\ RefundsSame(b, after)
           /\ UnspentOf(after) = UnspentOf(b) + SumOf(cents)
           /\ GrantedOf(after) = GrantedOf(b)
           /\ CollectedOf(after) = CollectedOf(b) /\ SettledOf(after) = SettledOf(b)
<1> DEFINE Upto(now, p) ==
               /\ now \in Books /\ PartsSame(b, now) /\ RefundsSame(b, now)
               /\ UnspentOf(now) = UnspentOf(b) + FirstOf(cents, p)
               /\ GrantedOf(now) = GrantedOf(b)
               /\ CollectedOf(now) = CollectedOf(b) /\ SettledOf(now) = SettledOf(b)
<1>1. Len(cents) = n
  OBVIOUS
<1>2. PICK f : SharesInTurn(b, cents, n, f) /\ SharesCredited(b, cents) = f[n]
  BY <1>1, SharesCreditedIs
<1>3. f = [p \in 0 .. n |->
              IF p = 0 THEN b ELSE Credited(f[p - 1], <<"payment", p>>, cents[p])]
  BY <1>2 DEF SharesInTurn
<1>4. /\ FirstOf(cents, 0) = 0
      /\ \A p \in Nat : FirstOf(cents, p + 1) = FirstOf(cents, p) + cents[p + 1]
      /\ \A p \in 0 .. n : FirstOf(cents, p) \in Int
  BY FirstOfStep, FirstOfInt
<1> DEFINE T == {p \in Nat : p <= n => Upto(f[p], p)}
<1>5. 0 \in T
  BY <1>3, WholeSums, <1>4 DEF PartsSame, RefundsSame
<1>6. ASSUME NEW p \in Nat, p \in T
      PROVE  p + 1 \in T
  <2>1. SUFFICES ASSUME p + 1 <= n
                 PROVE  Upto(f[p + 1], p + 1)
    OBVIOUS
  <2> DEFINE origin == <<"payment", p + 1>>
             before == f[p]
             share == cents[p + 1]
             next == f[p + 1]
  <2>2. Upto(before, p)
    BY <1>6, <2>1
  <2>3. next = Credited(before, origin, share)
    BY <1>3, <2>1
  <2>4. share \in Int /\ AtLeastZero(share) = share
    <3>1. share \in Int /\ share >= 0
      BY <2>1
    <3> HIDE DEF share
    <3> QED BY <3>1, AtLeastZeroIs
  <2>5. origin \in Origins /\ origin[1] # "invoice"
    BY DEF Origins
  <2>6. FirstOf(cents, p + 1) = FirstOf(cents, p) + share /\ FirstOf(cents, p) \in Int
    <3>1. p \in 0 .. n
      BY <2>1
    <3>2. FirstOf(cents, p) \in Int
      BY <1>4, <3>1
    <3>3. FirstOf(cents, p + 1) = FirstOf(cents, p) + cents[p + 1]
      BY <1>4
    <3> QED BY <3>2, <3>3
  <2> HIDE DEF origin, before, share, next
  <2>7. /\ UnspentOf(next) = UnspentOf(before) + share
        /\ GrantedOf(next) = GrantedOf(before)
        /\ CollectedOf(next) = CollectedOf(before) /\ SettledOf(next) = SettledOf(before)
    <3>1. before \in Books /\ GrantedOf(before) \in Int
      BY <2>2, WholeSums
    <3>2. GrantedOf(next) = GrantedOf(before) + 0
      BY <2>3, <2>4, <2>5, <3>1, CreditedWhole
    <3> QED BY <2>3, <2>4, <2>5, <3>1, <3>2, CreditedWhole
  <2>8. next \in Books /\ PartsSame(before, next) /\ RefundsSame(before, next)
    BY <2>2, <2>3, <2>4, <2>5, CreditedParts
  <2>9. PartsSame(b, next) /\ RefundsSame(b, next)
    BY <2>2, <2>8 DEF PartsSame, RefundsSame
  <2>10. UnspentOf(next) = UnspentOf(b) + FirstOf(cents, p + 1)
    <3>1. UnspentOf(b) \in Int /\ UnspentOf(before) = UnspentOf(b) + FirstOf(cents, p)
      BY <2>2, WholeSums
    <3> QED BY <2>4, <2>6, <2>7, <3>1
  <2>11. Upto(next, p + 1)
    BY <2>2, <2>7, <2>8, <2>9, <2>10
  <2> QED BY <2>11 DEF next
<1>7. \A p \in Nat : p \in T
  <2> HIDE DEF T
  <2> QED BY <1>5, <1>6, Inductive
<1>8. Upto(f[n], n)
  BY <1>7
<1>9. SumOf(cents) = FirstOf(cents, n)
  BY SumOfInt
<1> QED BY <1>2, <1>8, <1>9

LEMMA IssuedWhole ==
    ASSUME NEW b \in Books, NEW total \in Totals, NEW after, after = Issued(b, total)
    PROVE  /\ after \in Books /\ PartsSame(b, after) /\ RefundsSame(b, after)
           /\ CollectedOf(after) = CollectedOf(b) /\ GrantedOf(after) = GrantedOf(b)
           /\ SettledOf(after) = SettledOf(b) /\ UnspentOf(after) = UnspentOf(b)
<1> DEFINE totals == Append(b.totals, total)
<1>1. totals \in Seq(Totals)
  BY BooksAre
<1>2. after = [b EXCEPT !.totals = totals]
  BY DEF Issued
<1> HIDE DEF totals
<1>3. /\ after \in Books /\ after.payments = b.payments /\ after.credits = b.credits
      /\ after.reversals = b.reversals /\ after.refunds = b.refunds /\ after.cases = b.cases
  BY <1>1, <1>2 DEF Books
<1>4. \A by : HeldOf(after, by) = HeldOf(b, by)
  BY <1>3, SameSums
<1>5. RefundsFit(b) => RefundsFit(after)
  BY <1>3, <1>4, RefundsKept
<1> QED BY <1>3, <1>4, <1>5, WholeSumsSame DEF PartsSame, RefundsSame

\* What one invoice is settled by, once what settled another moved.
LEMMA SettledOnLeft ==
    ASSUME NEW b, Kept(b), NEW standing, NEW owes, MayMove(b, standing, owes),
           NEW share, NEW movedIn, AreShares(b, standing, owes, share, movedIn),
           NEW left, IsLeft(b, standing, movedIn, left)
    PROVE  \A j \in Invoices : SettledOn(left, j) =
             IF j = b.standing THEN SettledOn(b, j) + (-SumOf(share))
             ELSE IF j = standing THEN SettledOn(b, j) + SumOf(movedIn) ELSE SettledOn(b, j)
<1> SUFFICES ASSUME NEW j \in Invoices
             PROVE  SettledOn(left, j) =
                      IF j = b.standing THEN SettledOn(b, j) + (-SumOf(share))
                      ELSE IF j = standing THEN SettledOn(b, j) + SumOf(movedIn)
                      ELSE SettledOn(b, j)
  OBVIOUS
<1> DEFINE n == Len(b.payments)
           s == SettledByEach(b, j)
           t == SettledByEach(left, j)
<1>1. /\ b \in Books /\ n \in Nat /\ b.standing \in Invoices
      /\ \A p \in 1 .. n : \A i \in Invoices :
           b.payments[p].settles[i] \in Int /\ b.payments[p].settles[i] >= 0
  BY MovesBetween
<1>2. share \in [1 .. n -> Int] /\ movedIn \in [1 .. n -> Int] /\ SumOf(movedIn) \in Int
  BY DEF AreShares, IsDealt
<1>3. /\ left \in Books /\ Len(left.payments) = n
      /\ \A p \in 1 .. n : left.payments[p].settles[j] =
           IF j = b.standing THEN 0
           ELSE b.payments[p].settles[j] + IF j = standing THEN movedIn[p] ELSE 0
  BY DEF IsLeft
<1>4. /\ s \in [1 .. n -> Int] /\ t \in [1 .. n -> Int]
      /\ SettledOn(b, j) = SumOf(s) /\ SettledOn(left, j) = SumOf(t)
  BY <1>1, <1>3, TableSums
<1>5. \A p \in 1 .. n : /\ s[p] = b.payments[p].settles[j]
                        /\ t[p] = left.payments[p].settles[j]
  BY <1>3 DEF SettledByEach
<1> HIDE DEF s, t
<1>6. CASE j = b.standing
  <2>1. \A p \in 1 .. n : t[p] = 0
    BY <1>3, <1>5, <1>6
  <2>2. SumOf(t) = 0
    BY <1>1, <1>4, <2>1, SumOfNothing
  <2>3. \A p \in 1 .. n : share[p] = s[p]
    <3> SUFFICES ASSUME NEW p \in 1 .. n
                 PROVE  share[p] = s[p]
      OBVIOUS
    <3> DEFINE settled == b.payments[p].settles[j]
    <3>1. settled \in Int /\ settled >= 0 /\ share[p] = AtLeastZero(settled)
      BY <1>1, <1>6 DEF AreShares
    <3>2. s[p] = settled
      BY <1>5
    <3> HIDE DEF settled
    <3> QED BY <3>1, <3>2, AtLeastZeroIs
  <2>4. share = s
    BY <1>2, <1>4, <2>3
  <2>5. SumOf(s) \in Int
    BY <1>1, <1>4, SumOfInt
  <2> QED BY <1>4, <1>6, <2>2, <2>4, <2>5
<1>7. CASE j # b.standing /\ j = standing
  <2>1. \A p \in 1 .. n : t[p] = s[p] + movedIn[p]
    BY <1>3, <1>5, <1>7
  <2>2. SumOf(t) = SumOf(s) + SumOf(movedIn)
    BY <1>1, <1>2, <1>4, <2>1, SumOfAdds
  <2> QED BY <1>4, <1>7, <2>2
<1>8. CASE j # b.standing /\ j # standing
  <2>1. \A p \in 1 .. n : t[p] = s[p]
    BY <1>1, <1>3, <1>5, <1>8
  <2>2. t = s
    BY <1>4, <2>1
  <2> QED BY <1>4, <1>8, <2>2
<1> QED BY <1>6, <1>7, <1>8

LEMMA SharesLeftWhole ==
    ASSUME NEW b, Kept(b), NEW standing, NEW owes, MayMove(b, standing, owes),
           standing = 0 => owes <= 0,
           NEW share, NEW movedIn, AreShares(b, standing, owes, share, movedIn),
           NEW left, IsLeft(b, standing, movedIn, left)
    PROVE  /\ PartsSame(b, left) /\ RefundsSame(b, left)
           /\ UnspentOf(left) = UnspentOf(b) /\ GrantedOf(left) = GrantedOf(b)
           /\ CollectedOf(left) = CollectedOf(b)
           /\ SettledOf(left) = SettledOf(b) + (-SumOf(share)) + SumOf(movedIn)
<1> DEFINE n == Len(b.payments)
           i == b.standing
<1>1. /\ b \in Books /\ n \in Nat /\ i \in Invoices /\ standing # i
      /\ standing \in 0 .. Len(b.totals) /\ Len(b.totals) \in 1 .. MaxInvoices
      /\ Invoices = 1 .. MaxInvoices /\ MaxInvoices \in Nat /\ owes \in Int
  BY MovesBetween
<1>2. /\ share \in [1 .. n -> Int] /\ movedIn \in [1 .. n -> Int]
      /\ SumOf(movedIn) \in Int /\ SumOf(movedIn) <= AtLeastZero(owes)
      /\ \A p \in 1 .. n : movedIn[p] >= 0
  BY DEF AreShares, IsDealt
<1>3. /\ left \in Books /\ left.credits = b.credits /\ left.reversals = b.reversals
      /\ left.refunds = b.refunds /\ left.cases = b.cases /\ Len(left.payments) = n
      /\ \A p \in 1 .. n : left.payments[p].amount = b.payments[p].amount
  BY DEF IsLeft
<1>4. \A by : HeldOf(left, by) = HeldOf(b, by)
  BY <1>3, SameSums
<1>5. RefundsFit(b) => RefundsFit(left)
  BY <1>3, <1>4, RefundsKept
<1>6. PartsSame(b, left) /\ RefundsSame(b, left)
  BY <1>3, <1>4, <1>5, WholeSumsSame DEF PartsSame, RefundsSame
<1>7. CollectedOf(left) = CollectedOf(b)
  <2>1. AmountEach(left.payments) = AmountEach(b.payments)
    BY <1>3 DEF AmountEach
  <2> QED BY <1>1, <1>3, <2>1, WholeSums
<1> HIDE DEF n
<1>8. n \in Nat /\ MaxInvoices \in Nat
  BY <1>1
<1>9. SettledOf(left) = SettledOf(b) + (-SumOf(share)) + SumOf(movedIn)
  <2> DEFINE s == SettledEach(b)
             t == SettledEach(left)
             out == -SumOf(share)
             u == [j \in 1 .. MaxInvoices |-> IF j = i THEN s[j] + out ELSE s[j]]
  <2>1. /\ s \in [1 .. MaxInvoices -> Int] /\ SettledOf(b) = SumOf(s) /\ SumOf(s) \in Int
        /\ t \in [1 .. MaxInvoices -> Int] /\ SettledOf(left) = SumOf(t)
    BY <1>1, <1>3, WholeSums
  <2>2. out \in Int
    <3>1. SumOf(share) \in Int
      BY <1>2, <1>8, SumOfInt
    <3> QED BY <3>1
  <2>3. \A j \in 1 .. MaxInvoices :
          t[j] = IF j = i THEN s[j] + out
                 ELSE IF j = standing THEN s[j] + SumOf(movedIn) ELSE s[j]
    BY <1>1, SettledOnLeft DEF SettledEach
  <2> HIDE DEF s, t, out, i
  <2>4. u \in [1 .. MaxInvoices -> Int] /\ SumOf(u) = SumOf(s) + out
    <3>1. u \in [1 .. MaxInvoices -> Int]
      BY <2>1, <2>2
    <3>2. \A j \in 1 .. MaxInvoices : u[j] = IF j = i THEN s[j] + out ELSE s[j]
      OBVIOUS
    <3> HIDE DEF u
    <3>3. i \in 1 .. MaxInvoices
      BY <1>1 DEF i
    <3> QED BY <1>8, <2>1, <2>2, <3>1, <3>2, <3>3, SumOfChanged
  <2>5. \A j \in 1 .. MaxInvoices :
          t[j] = IF j = standing THEN u[j] + SumOf(movedIn) ELSE u[j]
    BY <1>1, <2>3
  <2> HIDE DEF u
  <2>6. CASE standing # 0
    <3>1. standing \in 1 .. MaxInvoices
      BY <1>1, <2>6
    <3>2. SumOf(t) = SumOf(u) + SumOf(movedIn)
      BY <1>2, <1>8, <2>1, <2>4, <2>5, <3>1, SumOfChanged
    <3> QED BY <1>2, <2>1, <2>2, <2>4, <3>2 DEF out
  <2>7. CASE standing = 0
    <3>1. SumOf(movedIn) = 0
      <4>1. AtLeastZero(owes) = 0
        BY <1>1, <2>7, AtLeastZeroIs
      <4>2. SumOf(movedIn) >= 0
        BY <1>2, <1>8, SumOfNat
      <4> QED BY <1>2, <4>1, <4>2
    <3>2. \A j \in 1 .. MaxInvoices : t[j] = u[j]
      BY <2>5, <2>7
    <3>3. t = u
      BY <2>1, <2>4, <1>8, <3>2
    <3> QED BY <2>1, <2>2, <2>4, <3>1, <3>3 DEF out
  <2> QED BY <2>6, <2>7
<1> QED BY <1>3, <1>6, <1>7, <1>9, WholeSumsSame

LEMMA SharesMovedWhole ==
    ASSUME NEW b, Kept(b), NEW standing, NEW owes, MayMove(b, standing, owes),
           standing = 0 => owes <= 0,
           NEW after, after = SharesMoved(b, standing, owes)
    PROVE  /\ PartsSame(b, after) /\ RefundsSame(b, after)
           /\ CollectedOf(after) = CollectedOf(b) /\ GrantedOf(after) = GrantedOf(b)
           /\ \E cents \in Nat : /\ SettledOf(after) = SettledOf(b) - cents
                                 /\ UnspentOf(after) = UnspentOf(b) + cents
<1> DEFINE n == Len(b.payments)
           left == SharesLeft(b, standing, owes)
<1>1. b \in Books /\ n \in Nat
  BY MovesBetween
<1>2. PICK share, movedIn : AreShares(b, standing, owes, share, movedIn)
  BY SharesMovedIs
<1> DEFINE rest == [p \in 1 .. n |-> share[p] - movedIn[p]]
<1>3. /\ share \in [1 .. n -> Int] /\ movedIn \in [1 .. n -> Int]
      /\ \A p \in 1 .. n : movedIn[p] <= share[p]
      /\ after = SharesCredited(left, rest)
  BY <1>2 DEF AreShares, IsDealt
<1>4. IsLeft(b, standing, movedIn, left)
  BY <1>2, SharesLeftIs
<1> HIDE DEF left
<1>5. /\ PartsSame(b, left) /\ RefundsSame(b, left)
      /\ UnspentOf(left) = UnspentOf(b) /\ GrantedOf(left) = GrantedOf(b)
      /\ CollectedOf(left) = CollectedOf(b)
      /\ SettledOf(left) = SettledOf(b) + (-SumOf(share)) + SumOf(movedIn)
  BY <1>2, <1>4, SharesLeftWhole
<1>6. /\ rest \in [1 .. n -> Int]
      /\ \A p \in 1 .. n : rest[p] >= 0
      /\ \A p \in 1 .. n : share[p] = rest[p] + movedIn[p]
  <2>1. \A p \in 1 .. n : /\ share[p] \in Int /\ movedIn[p] \in Int
                          /\ movedIn[p] <= share[p] /\ rest[p] = share[p] - movedIn[p]
    BY <1>3
  <2>2. rest = [p \in 1 .. n |-> rest[p]]
    OBVIOUS
  <2> HIDE DEF rest, n
  <2> QED BY <2>1, <2>2
<1> HIDE DEF rest
<1>7. left \in Books
  BY <1>4 DEF IsLeft
<1>8. /\ PartsSame(left, after) /\ RefundsSame(left, after)
      /\ UnspentOf(after) = UnspentOf(left) + SumOf(rest)
      /\ GrantedOf(after) = GrantedOf(left)
      /\ CollectedOf(after) = CollectedOf(left) /\ SettledOf(after) = SettledOf(left)
  BY <1>1, <1>3, <1>6, <1>7, SharesCreditedWhole
<1>9. SumOf(share) = SumOf(rest) + SumOf(movedIn) /\ SumOf(movedIn) \in Int
  BY <1>1, <1>3, <1>6, SumOfAdds, SumOfInt
<1>10. SumOf(rest) \in Nat
  BY <1>1, <1>6, SumOfNat
<1>11. PartsSame(b, after) /\ RefundsSame(b, after)
  BY <1>5, <1>8 DEF PartsSame, RefundsSame
<1>12. SettledOf(b) \in Int
  BY <1>1, WholeSums
<1>13. SettledOf(after) = SettledOf(b) - SumOf(rest)
  BY <1>5, <1>8, <1>9, <1>10, <1>12
<1>14. UnspentOf(after) = UnspentOf(b) + SumOf(rest)
  BY <1>5, <1>8
<1> QED BY <1>5, <1>8, <1>10, <1>11, <1>13, <1>14

\* A refund that was seen, or is seen to have failed, changes what the refunds and
\* the cases come to, and nothing else.
IsSeen(b, after) ==
    /\ after \in Books /\ after.credits = b.credits /\ after.cases = b.cases
    /\ \A by : HeldOf(after, by) = HeldOf(b, by) /\ CaseSum(after, by) = CaseSum(b, by)
    /\ CollectedOf(after) = CollectedOf(b) /\ SettledOf(after) = SettledOf(b)
    /\ UnspentOf(after) = UnspentOf(b) /\ GrantedOf(after) = GrantedOf(b)
    /\ WithdrawnOf(after) = WithdrawnOf(b) /\ ReinstatedOf(after) = ReinstatedOf(b)
    /\ ToCasesOf(after) = ToCasesOf(b)

LEMMA SeenIs ==
    ASSUME NEW b \in Books, NEW refunds \in Seq(Refund),
           NEW after, after = [b EXCEPT !.refunds = refunds]
    PROVE  IsSeen(b, after) /\ after.refunds = refunds
<1>1. /\ after \in Books /\ after.payments = b.payments /\ after.credits = b.credits
      /\ after.reversals = b.reversals /\ after.refunds = refunds /\ after.cases = b.cases
  BY DEF Books
<1>2. \A by : HeldOf(after, by) = HeldOf(b, by) /\ CaseSum(after, by) = CaseSum(b, by)
  BY <1>1, SameSums
<1> QED BY <1>1, <1>2, WholeSumsSame DEF IsSeen

LEMMA SeenMore ==
    ASSUME NEW b \in Books, RefundsFit(b), NEW refund \in Refund,
           NEW after, after = [b EXCEPT !.refunds = Append(b.refunds, refund)]
    PROVE  /\ IsSeen(b, after) /\ CasesOf(after) = CasesOf(b)
           /\ RefundedOf(after) = RefundedOf(b) + IF refund.ended THEN 0 ELSE refund.amount
           /\ Len(after.refunds) = Len(b.refunds) + 1
           /\ after.refunds[Len(b.refunds) + 1] = refund
           /\ \A f \in 1 .. Len(b.refunds) : after.refunds[f] = b.refunds[f]
<1> DEFINE n == Len(b.refunds)
           refunds == Append(b.refunds, refund)
<1>1. b.refunds \in Seq(Refund) /\ n \in Nat /\ b.cases \in Seq(Case) /\ Len(b.cases) \in Nat
  BY BooksAre
<1>2. /\ refunds \in Seq(Refund) /\ Len(refunds) = n + 1 /\ refunds[n + 1] = refund
      /\ \A f \in 1 .. n : refunds[f] = b.refunds[f]
      /\ after = [b EXCEPT !.refunds = refunds]
  BY <1>1
<1> HIDE DEF refunds
<1>3. IsSeen(b, after) /\ after.refunds = refunds
  BY <1>2, SeenIs
<1>4. after \in Books /\ after.cases = b.cases
  BY <1>3 DEF IsSeen
<1>5. CasesOf(after) = CasesOf(b)
  <2>1. ASSUME NEW k \in 1 .. Len(b.cases)
        PROVE  StandingIn(b.cases[k], refunds) = StandingIn(b.cases[k], b.refunds)
    <3>1. b.cases[k].by[1] = "refund" => b.cases[k].by[2] \in 1 .. n
      BY DEF RefundsFit
    <3> QED BY <1>2, <3>1 DEF StandingIn
  <2>2. StandingEach(after) = StandingEach(b)
    BY <1>3, <1>4, <2>1 DEF StandingEach
  <2> QED BY <1>4, <2>2, WholeSums
<1>6. RefundedOf(after) = RefundedOf(b) + IF refund.ended THEN 0 ELSE refund.amount
  <2> DEFINE s == RefundedEach(b)
             t == RefundedEach(after)
  <2>1. /\ s \in [1 .. n -> Int] /\ RefundedOf(b) = SumOf(s)
        /\ t \in [1 .. n + 1 -> Int] /\ RefundedOf(after) = SumOf(t)
    BY <1>2, <1>3, <1>4, WholeSums
  <2>2. \A f \in 1 .. n : t[f] = s[f]
    BY <1>1, <1>2, <1>3 DEF RefundedEach
  <2>3. t[n + 1] = IF refund.ended THEN 0 ELSE refund.amount
    BY <1>1, <1>2, <1>3 DEF RefundedEach
  <2> HIDE DEF s, t, n
  <2>4. SumOf(t) = SumOf(s) + t[n + 1]
    BY <1>1, <2>1, <2>2, SumOfAppended
  <2> QED BY <2>1, <2>3, <2>4
<1> QED BY <1>2, <1>3, <1>5, <1>6

LEMMA SeenEnded ==
    ASSUME NEW b \in Books, RefundsFit(b), NEW f \in 1 .. Len(b.refunds), ~b.refunds[f].ended,
           NEW refunds \in Seq(Refund), Len(refunds) = Len(b.refunds), refunds[f].ended,
           \A g \in 1 .. Len(b.refunds) : g # f => refunds[g] = b.refunds[g],
           NEW after, after = [b EXCEPT !.refunds = refunds]
    PROVE  /\ IsSeen(b, after)
           /\ CasesOf(b) = CasesOf(after) + CaseSum(b, <<"refund", f>>)
           /\ RefundedOf(b) = RefundedOf(after) + b.refunds[f].amount
           /\ Len(after.refunds) = Len(b.refunds) /\ after.refunds[f].ended
           /\ \A g \in 1 .. Len(b.refunds) : g # f => after.refunds[g] = b.refunds[g]
<1> DEFINE n == Len(b.refunds)
           by == <<"refund", f>>
           amount == b.refunds[f].amount
<1>1. /\ b.refunds \in Seq(Refund) /\ n \in Nat /\ b.cases \in Seq(Case) /\ Len(b.cases) \in Nat
      /\ DOMAIN b.refunds = 1 .. n /\ b.refunds[f] \in Refund /\ amount \in Nat
  BY BooksAre, RowsAre
<1>2. IsSeen(b, after) /\ after.refunds = refunds
  BY SeenIs
<1>3. after \in Books /\ after.cases = b.cases
  BY <1>2 DEF IsSeen
<1>4. CasesOf(b) = CasesOf(after) + CaseSum(b, by)
  <2> DEFINE s == StandingEach(b)
             t == StandingEach(after)
             u == CaseOfEach(b, by)
  <2>1. /\ s \in [1 .. Len(b.cases) -> Int] /\ CasesOf(b) = SumOf(s)
        /\ t \in [1 .. Len(b.cases) -> Int] /\ CasesOf(after) = SumOf(t)
        /\ u \in [1 .. Len(b.cases) -> Int] /\ CaseSum(b, by) = SumOf(u)
    BY <1>3, WholeSums, TableSums
  <2>2. ASSUME NEW k \in 1 .. Len(b.cases)
        PROVE  s[k] = t[k] + u[k]
    <3> DEFINE each == b.cases[k]
    <3>1. /\ s[k] = StandingIn(each, b.refunds) /\ t[k] = StandingIn(each, refunds)
          /\ u[k] = IF each.by = by THEN each.amount ELSE 0
      BY <1>2, <1>3 DEF StandingEach, CaseOfEach
    <3>2. each \in Case /\ each.amount \in Nat
      BY BooksAre, RowsAre
    <3>3. each.by[1] = "refund" => each.by[2] \in 1 .. n
      BY DEF RefundsFit
    <3>4. each.by = <<each.by[1], each.by[2]>>
      BY <3>2 DEF Case, By
    <3> HIDE DEF s, t, u, each
    <3>5. CASE each.by = by
      BY <3>5, <3>1, <3>2 DEF StandingIn
    <3>6. CASE each.by # by
      BY <3>4, <3>6, <3>3, <2>1, <3>1 DEF StandingIn
    <3> QED BY <3>5, <3>6
  <2> HIDE DEF s, t, u
  <2>3. SumOf(s) = SumOf(t) + SumOf(u)
    <3>1. Len(b.cases) \in Nat
      BY BooksAre
    <3> QED BY <3>1, <2>1, <2>2, SumOfAdds
  <2> QED BY <2>1, <2>3
<1>5. RefundedOf(b) = RefundedOf(after) + amount
  <2> DEFINE s == RefundedEach(b)
             t == RefundedEach(after)
  <2>1. /\ s \in [1 .. n -> Int] /\ RefundedOf(b) = SumOf(s)
        /\ t \in [1 .. n -> Int] /\ RefundedOf(after) = SumOf(t)
    BY <1>2, <1>3, WholeSums
  <2>2. \A g \in 1 .. n : s[g] = IF g = f THEN t[g] + amount ELSE t[g]
    <3>1. ASSUME NEW g \in 1 .. n
          PROVE  /\ s[g] = IF b.refunds[g].ended THEN 0 ELSE b.refunds[g].amount
                 /\ t[g] = IF refunds[g].ended THEN 0 ELSE refunds[g].amount
      BY <1>2 DEF RefundedEach
    <3> HIDE DEF s, t
    <3>2. s[f] = amount /\ t[f] = 0
      BY <3>1
    <3>3. \A g \in 1 .. n : g # f => s[g] = t[g]
      BY <3>1
    <3> HIDE DEF amount
    <3> QED BY <1>1, <3>2, <3>3
  <2>3. n \in Nat /\ f \in 1 .. n /\ amount \in Int
    BY <1>1
  <2> HIDE DEF s, t, n, amount
  <2>4. SumOf(s) = SumOf(t) + amount
    BY <2>1, <2>2, <2>3, SumOfChanged
  <2> QED BY <2>1, <2>4
<1> QED BY <1>2, <1>4, <1>5

-----------------------------------------------------------------------------
(* The account                                                             *)

\* The account of the books, in what they come to: nothing is overdrawn, so what is
\* open of the credits is what is unspent.
WholeAccount(b) ==
    [collected |-> CollectedOf(b), paidOut |-> HeldOf(b, <<"payout", 0>>) + RefundedOf(b),
     withdrawn |-> WithdrawnOf(b), reinstated |-> ReinstatedOf(b), granted |-> GrantedOf(b),
     settled |-> SettledOf(b), owedBack |-> UnspentOf(b),
     toReconcile |-> CasesOf(b) - ToCasesOf(b)]

LEMMA AccountIs ==
    ASSUME NEW b, Kept(b)
    PROVE  AccountOf(b) = WholeAccount(b)
<1>1. b \in Books /\ \A c \in 1 .. Len(b.credits) : CreditKept(b.credits[c], 0)
  BY DEF Kept, Sound
<1>2. /\ DOMAIN b.credits = 1 .. Len(b.credits)
      /\ \A c \in 1 .. Len(b.credits) : b.credits[c] \in Credit
  BY <1>1, BooksAre
<1>3. PaidOut(b) = HeldOf(b, <<"payout", 0>>) + RefundedOf(b)
  BY DEF PaidOut, HeldOf, RefundedOf
<1>4. OwedBack(b) = UnspentOf(b)
  <2>1. ASSUME NEW c \in 1 .. Len(b.credits)
        PROVE  OpenOf(b.credits[c]) = b.credits[c].amount - Spent(b.credits[c])
    <3> DEFINE credit == b.credits[c]
    <3>1. credit \in Credit /\ CreditKept(credit, 0)
      BY <1>1, <1>2
    <3> HIDE DEF credit
    <3>2. /\ OpenOf(credit) = AtLeastZero(credit.amount - Spent(credit))
          /\ credit.amount \in Int /\ Spent(credit) \in Int
          /\ Spent(credit) <= credit.amount + 0
      BY <3>1, OpenOfIs, RowsAre, SpentInt DEF CreditKept
    <3>3. OpenOf(credit) = credit.amount - Spent(credit)
      BY <3>2, AtLeastZeroIs
    <3> QED BY <3>3 DEF credit
  <2>2. [c \in 1 .. Len(b.credits) |-> OpenOf(b.credits[c])] = UnspentEach(b)
    BY <2>1 DEF UnspentEach
  <2>3. OwedBack(b) = SumOf([c \in 1 .. Len(b.credits) |-> OpenOf(b.credits[c])])
    BY <1>2 DEF OwedBack, Total
  <2> QED BY <1>1, <2>2, <2>3, WholeSums
<1>5. Total(b.credits,
            LAMBDA credit : IF credit.origin[1] = "invoice" THEN credit.amount ELSE 0)
        = GrantedOf(b)
  BY DEF GrantedOf, GrantOf, Total
<1>6. Total(b.cases, LAMBDA each :
                IF each.by[1] = "refund" /\ b.refunds[each.by[2]].ended THEN 0 ELSE each.amount)
        = CasesOf(b)
  BY DEF CasesOf, StandingIn, Total
<1>7. /\ Total(b.payments, AmountOf) = CollectedOf(b)
      /\ Total(b.reversals, AmountOf) = WithdrawnOf(b)
      /\ Total(b.reversals, LAMBDA r : r.reinstated) = ReinstatedOf(b)
      /\ Total(b.reversals, LAMBDA r : r.toCases) = ToCasesOf(b)
      /\ SumOf([i \in Invoices |-> SettledOn(b, i)]) = SettledOf(b)
  BY DEF CollectedOf, WithdrawnOf, ReinstatedOf, ToCasesOf, SettledOf
<1> QED BY <1>3, <1>4, <1>5, <1>6, <1>7 DEF AccountOf, WholeAccount

Cents(a) ==
    /\ a.collected \in Int /\ a.paidOut \in Int /\ a.withdrawn \in Int
    /\ a.reinstated \in Int /\ a.granted \in Int
    /\ a.settled \in Int /\ a.owedBack \in Int /\ a.toReconcile \in Int

LEMMA WholeAccountIs ==
    ASSUME NEW b \in Books
    PROVE  /\ Cents(WholeAccount(b))
           /\ WholeAccount(b).collected = CollectedOf(b)
           /\ WholeAccount(b).paidOut = HeldOf(b, <<"payout", 0>>) + RefundedOf(b)
           /\ WholeAccount(b).withdrawn = WithdrawnOf(b)
           /\ WholeAccount(b).reinstated = ReinstatedOf(b)
           /\ WholeAccount(b).granted = GrantedOf(b)
           /\ WholeAccount(b).settled = SettledOf(b)
           /\ WholeAccount(b).owedBack = UnspentOf(b)
           /\ WholeAccount(b).toReconcile = CasesOf(b) - ToCasesOf(b)
<1>1. HeldOf(b, <<"payout", 0>>) \in Int
  BY TableSums
<1> QED BY <1>1, WholeSums DEF WholeAccount, Cents

\* What of each flow came between two accounts, and so their balance.
Flowed(a, z, collected, paidOut, withdrawn, reinstated, granted) ==
    /\ collected \in Int /\ paidOut \in Int /\ withdrawn \in Int
    /\ reinstated \in Int /\ granted \in Int
    /\ z.collected = a.collected + collected /\ z.paidOut = a.paidOut + paidOut
    /\ z.withdrawn = a.withdrawn + withdrawn /\ z.reinstated = a.reinstated + reinstated
    /\ z.granted = a.granted + granted
    /\ z.settled + z.owedBack - z.toReconcile
         = a.settled + a.owedBack - a.toReconcile
             + (collected - paidOut - withdrawn + reinstated + granted)

\* Those of the positions grew, or shrank, that may.
Shifted(a, z, up, down) ==
    /\ z.settled > a.settled => "settled" \in up
    /\ z.owedBack > a.owedBack => "owedBack" \in up
    /\ z.toReconcile > a.toReconcile => "toReconcile" \in up
    /\ a.settled > z.settled => "settled" \in down
    /\ a.owedBack > z.owedBack => "owedBack" \in down
    /\ a.toReconcile > z.toReconcile => "toReconcile" \in down

LEMMA FlowedBalances ==
    ASSUME NEW a, NEW z, Cents(a), Cents(z), Account!Balanced(a),
           NEW collected, NEW paidOut, NEW withdrawn, NEW reinstated, NEW granted,
           Flowed(a, z, collected, paidOut, withdrawn, reinstated, granted)
    PROVE  Account!Balanced(z)
<1> DEFINE held == a.collected - a.paidOut - a.withdrawn + a.reinstated
           flow == collected - paidOut - withdrawn + reinstated + granted
<1>1. /\ held \in Int /\ flow \in Int /\ a.granted \in Int
      /\ a.settled + a.owedBack \in Int /\ a.toReconcile \in Int
      /\ z.settled + z.owedBack \in Int /\ z.toReconcile \in Int
  BY DEF Cents, Flowed
<1>2. held + a.granted + a.toReconcile = a.settled + a.owedBack
  BY DEF Account!Balanced, Account!Held
<1>3. z.collected - z.paidOut - z.withdrawn + z.reinstated + z.granted
        = held + a.granted + flow
  BY DEF Cents, Flowed
<1>4. (z.settled + z.owedBack) - z.toReconcile = (a.settled + a.owedBack) - a.toReconcile + flow
  BY DEF Cents, Flowed
<1> HIDE DEF held, flow
<1>5. held + a.granted + flow + z.toReconcile = z.settled + z.owedBack
  BY <1>1, <1>2, <1>4
<1> QED BY <1>3, <1>5 DEF Account!Balanced, Account!Held

LEMMA MovesAre ==
    ASSUME NEW a, NEW z, Cents(a), Cents(z),
           NEW collected, NEW paidOut, NEW withdrawn, NEW reinstated, NEW granted,
           Flowed(a, z, collected, paidOut, withdrawn, reinstated, granted),
           NEW up, NEW down, Shifted(a, z, up, down)
    PROVE  Account!Moves(a, z, (IF collected # 0 THEN {"collected"} ELSE {})
                                 \cup (IF paidOut # 0 THEN {"paidOut"} ELSE {})
                                 \cup (IF withdrawn # 0 THEN {"withdrawn"} ELSE {})
                                 \cup (IF reinstated # 0 THEN {"reinstated"} ELSE {})
                                 \cup (IF granted # 0 THEN {"granted"} ELSE {}), up, down)
<1> DEFINE flow == (IF collected # 0 THEN {"collected"} ELSE {})
                     \cup (IF paidOut # 0 THEN {"paidOut"} ELSE {})
                     \cup (IF withdrawn # 0 THEN {"withdrawn"} ELSE {})
                     \cup (IF reinstated # 0 THEN {"reinstated"} ELSE {})
                     \cup (IF granted # 0 THEN {"granted"} ELSE {})
<1>1. /\ collected # 0 <=> z.collected # a.collected
      /\ paidOut # 0 <=> z.paidOut # a.paidOut
      /\ withdrawn # 0 <=> z.withdrawn # a.withdrawn
      /\ reinstated # 0 <=> z.reinstated # a.reinstated
      /\ granted # 0 <=> z.granted # a.granted
  <2>1. /\ a.collected \in Int /\ a.paidOut \in Int /\ a.withdrawn \in Int
        /\ a.reinstated \in Int /\ a.granted \in Int
    BY DEF Cents
  <2>2. /\ collected \in Int /\ paidOut \in Int /\ withdrawn \in Int
        /\ reinstated \in Int /\ granted \in Int
        /\ z.collected = a.collected + collected /\ z.paidOut = a.paidOut + paidOut
        /\ z.withdrawn = a.withdrawn + withdrawn /\ z.reinstated = a.reinstated + reinstated
        /\ z.granted = a.granted + granted
    BY DEF Flowed
  <2> QED BY <2>1, <2>2
<1>2. flow = {f \in Account!Flows : z[f] # a[f]}
  BY <1>1 DEF Account!Flows
<1>3. /\ \A f \in Account!Positions : z[f] > a[f] => f \in up
      /\ \A f \in Account!Positions : a[f] > z[f] => f \in down
  BY DEF Shifted, Account!Positions
<1> HIDE DEF flow
<1>4. Account!Moves(a, z, flow, up, down)
  BY <1>2, <1>3 DEF Account!Moves, Account!Changed, Account!Grown
<1> QED BY <1>4 DEF flow

\* Each step of the account, from what flowed.
LEMMA CollectsIs ==
    ASSUME NEW a, NEW z, Cents(a), Cents(z), Account!Balanced(a),
           NEW cents, cents > 0, Flowed(a, z, cents, 0, 0, 0, 0),
           Shifted(a, z, {"settled", "owedBack"}, {})
    PROVE  Account!Step(a, z)
<1>1. Account!Moves(a, z, {"collected"}, {"settled", "owedBack"}, {})
  BY MovesAre
<1>2. z.collected > a.collected
  BY DEF Cents, Flowed
<1> QED BY <1>1, <1>2, FlowedBalances DEF Account!Step, Account!Collects

LEMMA GrantsIs ==
    ASSUME NEW a, NEW z, Cents(a), Cents(z), Account!Balanced(a),
           NEW cents, cents > 0, Flowed(a, z, 0, 0, 0, 0, cents),
           Shifted(a, z, {"owedBack"}, {})
    PROVE  Account!Step(a, z)
<1>1. Account!Moves(a, z, {"granted"}, {"owedBack"}, {})
  BY MovesAre
<1>2. z.granted > a.granted
  BY DEF Cents, Flowed
<1> QED BY <1>1, <1>2, FlowedBalances DEF Account!Step, Account!Grants

LEMMA ReplacesIs ==
    ASSUME NEW a, NEW z, Cents(a), Cents(z), Account!Balanced(a),
           Flowed(a, z, 0, 0, 0, 0, 0), Shifted(a, z, {"owedBack"}, {"settled"})
    PROVE  Account!Step(a, z)
<1>1. Account!Moves(a, z, {}, {"owedBack"}, {"settled"})
  BY MovesAre
<1> QED BY <1>1, FlowedBalances DEF Account!Step, Account!Replaces

LEMMA PaysOutIs ==
    ASSUME NEW a, NEW z, Cents(a), Cents(z), Account!Balanced(a),
           NEW cents, cents > 0, Flowed(a, z, 0, cents, 0, 0, 0),
           Shifted(a, z, {"toReconcile"}, {"owedBack"})
    PROVE  Account!Step(a, z)
<1>1. Account!Moves(a, z, {"paidOut"}, {"toReconcile"}, {"owedBack"})
  BY MovesAre
<1>2. z.paidOut > a.paidOut
  BY DEF Cents, Flowed
<1> QED BY <1>1, <1>2, FlowedBalances DEF Account!Step, Account!PaysOut

LEMMA FailsIs ==
    ASSUME NEW a, NEW z, Cents(a), Cents(z), Account!Balanced(a),
           NEW cents, cents < 0, Flowed(a, z, 0, cents, 0, 0, 0),
           Shifted(a, z, {"owedBack"}, {"toReconcile"})
    PROVE  Account!Step(a, z)
<1>1. Account!Moves(a, z, {"paidOut"}, {"owedBack"}, {"toReconcile"})
  BY MovesAre
<1>2. z.paidOut < a.paidOut
  BY DEF Cents, Flowed
<1> QED BY <1>1, <1>2, FlowedBalances DEF Account!Step, Account!Fails

\* A report that took something, gave something back, or both.
LEMMA TakesOrGivesIs ==
    ASSUME NEW a, NEW z, Cents(a), Cents(z), Account!Balanced(a),
           NEW taken \in Nat, NEW given \in Nat, taken > 0 \/ given > 0,
           Flowed(a, z, 0, 0, taken, given, 0),
           taken = 0 => Shifted(a, z, {"settled", "owedBack"}, {"toReconcile"}),
           given = 0 => Shifted(a, z, {"toReconcile"}, {"settled", "owedBack"})
    PROVE  Account!Step(a, z)
<1>1. Account!Balanced(z)
  BY FlowedBalances
<1>2. /\ taken > 0 => z.withdrawn > a.withdrawn
      /\ given > 0 => z.reinstated > a.reinstated
  BY DEF Cents, Flowed
<1>3. CASE given = 0
  BY <1>3, MovesAre, <1>1, <1>2 DEF Account!Step, Account!TakesBack
<1>4. CASE taken = 0 /\ given > 0
  BY <1>4, MovesAre, <1>1, <1>2 DEF Account!Step, Account!GivesBack
<1>5. CASE taken > 0 /\ given > 0
  BY <1>5, MovesAre, <1>1, <1>2 DEF Shifted, Account!Positions, Account!Step,
     Account!TakesAndGivesBack
<1> QED BY <1>3, <1>4, <1>5
-----------------------------------------------------------------------------
(* The account an operation leaves                                         *)

Tallying(b) == RefundsFit(b) /\ Account!Balanced(AccountOf(b))

\* The refunds fit still, and the account made a step or none.
Accounts(b, after) ==
    /\ RefundsFit(after)
    /\ AccountOf(after) = AccountOf(b) \/ Account!Step(AccountOf(b), AccountOf(after))

LEMMA AccountsAre ==
    ASSUME NEW b, Kept(b), Tallying(b), NEW after, Kept(after)
    PROVE  /\ Cents(WholeAccount(b)) /\ Cents(WholeAccount(after))
           /\ Account!Balanced(WholeAccount(b))
           /\ WholeAccount(after) = WholeAccount(b) => AccountOf(after) = AccountOf(b)
           /\ Account!Step(WholeAccount(b), WholeAccount(after))
                => Account!Step(AccountOf(b), AccountOf(after))
<1>1. b \in Books /\ after \in Books
  BY DEF Kept, Sound
<1>2. AccountOf(b) = WholeAccount(b) /\ AccountOf(after) = WholeAccount(after)
  BY AccountIs
<1> QED BY <1>1, <1>2, WholeAccountIs DEF Tallying

LEMMA PaymentAccounts ==
    ASSUME NEW b, Kept(b), Tallying(b), NEW payment \in Payment, payment.amount > 0,
           \A i \in Invoices : SettledOn(Paid(b, payment), i)
                                 = SettledOn(b, i) + payment.settles[i],
           NEW settled \in Nat, settled <= payment.amount, SumOf(payment.settles) = settled,
           NEW origin \in Origins, origin[1] = "payment",
           NEW after, after = Credited(Paid(b, payment), origin, payment.amount - settled),
           Kept(after)
    PROVE  Accounts(b, after)
<1> DEFINE paid == Paid(b, payment)
           amount == payment.amount
           rest == amount - settled
           a == WholeAccount(b)
           z == WholeAccount(after)
<1>1. b \in Books /\ after \in Books /\ amount \in Nat
  BY RowsAre DEF Kept, Sound
<1>2. /\ paid \in Books /\ PartsSame(b, paid) /\ RefundsSame(b, paid)
      /\ CollectedOf(paid) = CollectedOf(b) + amount
      /\ SettledOf(paid) = SettledOf(b) + settled
      /\ UnspentOf(paid) = UnspentOf(b) /\ GrantedOf(paid) = GrantedOf(b)
  BY <1>1, PaidWhole
<1>3. rest \in Nat /\ AtLeastZero(rest) = rest /\ after = Credited(paid, origin, rest)
  <2>1. rest \in Int /\ rest >= 0
    BY <1>1
  <2> QED BY <2>1, AtLeastZeroIs
<1> HIDE DEF paid, rest, a, z
<1>4. /\ PartsSame(paid, after) /\ RefundsSame(paid, after)
      /\ UnspentOf(after) = UnspentOf(paid) + rest /\ GrantedOf(after) = GrantedOf(paid) + 0
      /\ CollectedOf(after) = CollectedOf(paid) /\ SettledOf(after) = SettledOf(paid)
  BY <1>2, <1>3, CreditedParts, CreditedWhole
<1>5. /\ PartsSame(b, after) /\ RefundsSame(b, after)
  BY <1>2, <1>4 DEF PartsSame, RefundsSame
<1>6. /\ a.collected = CollectedOf(b) /\ z.collected = CollectedOf(b) + amount
      /\ z.paidOut = a.paidOut /\ z.withdrawn = a.withdrawn
      /\ z.reinstated = a.reinstated /\ a.granted = GrantedOf(b) /\ z.granted = GrantedOf(b) + 0
      /\ a.settled = SettledOf(b) /\ z.settled = SettledOf(b) + settled
      /\ a.owedBack = UnspentOf(b) /\ z.owedBack = UnspentOf(b) + rest
      /\ z.toReconcile = a.toReconcile
  BY <1>1, <1>2, <1>4, <1>5, WholeAccountIs DEF a, z, PartsSame, RefundsSame
<1>7. Cents(a) /\ Cents(z) /\ Account!Balanced(a)
  BY AccountsAre DEF a, z
<1>8. settled + rest = amount
  BY <1>1 DEF rest
<1>9. Flowed(a, z, amount, 0, 0, 0, 0) /\ Shifted(a, z, {"settled", "owedBack"}, {})
  BY <1>1, <1>3, <1>6, <1>7, <1>8 DEF Flowed, Shifted, Cents
<1>10. Account!Step(a, z)
  BY <1>7, <1>9, CollectsIs
<1>11. RefundsFit(after)
  BY <1>5 DEF PartsSame, Tallying
<1> QED BY <1>10, <1>11, AccountsAre DEF Accounts, a, z

LEMMA GrantAccounts ==
    ASSUME NEW b, Kept(b), Tallying(b), NEW origin \in Origins, origin[1] = "invoice",
           NEW cents \in Nat, cents > 0,
           NEW after, after = Credited(b, origin, cents), Kept(after)
    PROVE  Accounts(b, after)
<1> DEFINE a == WholeAccount(b)
           z == WholeAccount(after)
<1>1. b \in Books /\ after \in Books
  BY DEF Kept, Sound
<1>2. AtLeastZero(cents) = cents
  BY AtLeastZeroIs
<1>3. /\ PartsSame(b, after) /\ RefundsSame(b, after)
      /\ UnspentOf(after) = UnspentOf(b) + cents /\ GrantedOf(after) = GrantedOf(b) + cents
      /\ CollectedOf(after) = CollectedOf(b) /\ SettledOf(after) = SettledOf(b)
  BY <1>1, <1>2, CreditedParts, CreditedWhole
<1> HIDE DEF a, z
<1>4. /\ z.collected = a.collected /\ z.paidOut = a.paidOut /\ z.withdrawn = a.withdrawn
      /\ z.reinstated = a.reinstated /\ z.granted = a.granted + cents
      /\ z.settled = a.settled /\ z.owedBack = a.owedBack + cents
      /\ z.toReconcile = a.toReconcile
  BY <1>1, <1>3, WholeAccountIs DEF a, z, PartsSame, RefundsSame
<1>5. Cents(a) /\ Cents(z) /\ Account!Balanced(a)
  BY AccountsAre DEF a, z
<1>6. Flowed(a, z, 0, 0, 0, 0, cents) /\ Shifted(a, z, {"owedBack"}, {})
  BY <1>4, <1>5 DEF Flowed, Shifted, Cents
<1>7. Account!Step(a, z)
  BY <1>5, <1>6, GrantsIs
<1>8. RefundsFit(after)
  BY <1>3 DEF PartsSame, Tallying
<1> QED BY <1>7, <1>8, AccountsAre DEF Accounts, a, z

LEMMA MoveAccounts ==
    ASSUME NEW b, Kept(b), Tallying(b), NEW after, Kept(after),
           PartsSame(b, after), RefundsSame(b, after),
           CollectedOf(after) = CollectedOf(b), GrantedOf(after) = GrantedOf(b),
           NEW cents \in Nat, SettledOf(after) = SettledOf(b) - cents,
           UnspentOf(after) = UnspentOf(b) + cents
    PROVE  Accounts(b, after)
<1> DEFINE a == WholeAccount(b)
           z == WholeAccount(after)
<1>1. b \in Books /\ after \in Books
  BY DEF Kept, Sound
<1> HIDE DEF a, z
<1>2. /\ z.collected = a.collected /\ z.paidOut = a.paidOut /\ z.withdrawn = a.withdrawn
      /\ z.reinstated = a.reinstated /\ z.granted = a.granted
      /\ z.settled = a.settled - cents /\ z.owedBack = a.owedBack + cents
      /\ z.toReconcile = a.toReconcile
  BY <1>1, WholeAccountIs DEF a, z, PartsSame, RefundsSame
<1>3. Cents(a) /\ Cents(z) /\ Account!Balanced(a)
  BY AccountsAre DEF a, z
<1>4. Flowed(a, z, 0, 0, 0, 0, 0) /\ Shifted(a, z, {"owedBack"}, {"settled"})
  BY <1>2, <1>3 DEF Flowed, Shifted, Cents
<1>5. Account!Step(a, z)
  BY <1>3, <1>4, ReplacesIs
<1>6. RefundsFit(after)
  BY DEF PartsSame, Tallying
<1> QED BY <1>5, <1>6, AccountsAre DEF Accounts, a, z

LEMMA ReportAccounts ==
    ASSUME NEW b, Kept(b), Tallying(b), NEW after, Kept(after),
           NEW taken \in Nat, NEW given \in Nat, ReportsOf(b, after, taken, given)
    PROVE  Accounts(b, after)
<1> DEFINE a == WholeAccount(b)
           z == WholeAccount(after)
<1>1. b \in Books /\ after \in Books
  BY DEF Kept, Sound
<1>2. /\ HeldOf(after, <<"payout", 0>>) = HeldOf(b, <<"payout", 0>>)
      /\ RefundedOf(after) = RefundedOf(b)
      /\ CollectedOf(after) = CollectedOf(b) /\ GrantedOf(after) = GrantedOf(b)
      /\ WithdrawnOf(after) = WithdrawnOf(b) + taken
      /\ ReinstatedOf(after) = ReinstatedOf(b) + given
  BY WholeSumsSame DEF ReportsOf, OthersSame
<1> HIDE DEF a, z
<1>3. /\ z.collected = a.collected /\ z.paidOut = a.paidOut /\ z.granted = a.granted
      /\ z.withdrawn = a.withdrawn + taken /\ z.reinstated = a.reinstated + given
  BY <1>1, <1>2, WholeAccountIs DEF a, z
<1>4. Cents(a) /\ Cents(z) /\ Account!Balanced(a)
  BY AccountsAre DEF a, z
<1>5. /\ taken = 0 => /\ a.settled <= z.settled /\ a.owedBack <= z.owedBack
                      /\ z.toReconcile <= a.toReconcile
      /\ given = 0 => /\ z.settled <= a.settled /\ z.owedBack <= a.owedBack
                      /\ a.toReconcile <= z.toReconcile
      /\ z.settled + z.owedBack - z.toReconcile
           = a.settled + a.owedBack - a.toReconcile - taken + given
  BY <1>1, WholeAccountIs DEF a, z, ReportsOf
<1>6. Flowed(a, z, 0, 0, taken, given, 0)
  BY <1>3, <1>4, <1>5 DEF Flowed, Cents
<1>7. /\ taken = 0 => Shifted(a, z, {"settled", "owedBack"}, {"toReconcile"})
      /\ given = 0 => Shifted(a, z, {"toReconcile"}, {"settled", "owedBack"})
  BY <1>4, <1>5 DEF Shifted, Cents
<1>8. ASSUME taken > 0 \/ given > 0 PROVE Account!Step(a, z)
  BY <1>4, <1>6, <1>7, <1>8, TakesOrGivesIs
<1>9. ASSUME taken = 0 /\ given = 0 PROVE z = a
  <2>1. /\ CollectedOf(after) = CollectedOf(b) /\ WithdrawnOf(after) = WithdrawnOf(b)
        /\ ReinstatedOf(after) = ReinstatedOf(b) /\ SettledOf(after) = SettledOf(b)
        /\ UnspentOf(after) = UnspentOf(b)
        /\ CasesOf(after) - ToCasesOf(after) = CasesOf(b) - ToCasesOf(b)
    BY <1>4, <1>5, <1>9, <1>3, <1>1, <1>2, WholeAccountIs DEF Cents, a, z
  <2> QED BY <1>2, <2>1 DEF WholeAccount, a, z
<1>10. z = a \/ Account!Step(a, z)
  BY <1>8, <1>9
<1>11. RefundsFit(after)
  BY DEF ReportsOf, OthersSame, Tallying
<1> QED BY <1>10, <1>11, AccountsAre DEF Accounts, a, z

\* What was paid out was open, or is in a case; and what comes back of it.
LEMMA PaysOutFrom ==
    ASSUME NEW a, NEW z, Cents(a), Cents(z), Account!Balanced(a),
           NEW amount \in Nat, amount > 0, NEW part \in Nat, NEW short \in Nat,
           part + short = amount,
           z.collected = a.collected, z.paidOut = a.paidOut + amount,
           z.withdrawn = a.withdrawn, z.reinstated = a.reinstated, z.granted = a.granted,
           z.settled = a.settled, z.owedBack = a.owedBack - part,
           z.toReconcile = a.toReconcile + short
    PROVE  Account!Step(a, z)
<1>1. z.settled + z.owedBack - z.toReconcile
        = a.settled + a.owedBack - a.toReconcile + (0 - amount - 0 + 0 + 0)
  BY DEF Cents
<1>2. Flowed(a, z, 0, amount, 0, 0, 0)
  BY <1>1 DEF Flowed, Cents
<1>3. Shifted(a, z, {"toReconcile"}, {"owedBack"})
  BY DEF Shifted, Cents
<1> QED BY <1>2, <1>3, PaysOutIs

LEMMA FailsFrom ==
    ASSUME NEW a, NEW z, Cents(a), Cents(z), Account!Balanced(a),
           NEW amount \in Nat, amount > 0, NEW part \in Nat, NEW short \in Nat,
           part + short = amount,
           z.collected = a.collected, a.paidOut = z.paidOut + amount,
           z.withdrawn = a.withdrawn, z.reinstated = a.reinstated, z.granted = a.granted,
           z.settled = a.settled, z.owedBack = a.owedBack + part,
           a.toReconcile = z.toReconcile + short
    PROVE  Account!Step(a, z)
<1> DEFINE out == -amount
<1>1. out \in Int /\ out < 0 /\ z.paidOut = a.paidOut + out
  BY DEF Cents
<1>2. z.settled + z.owedBack - z.toReconcile
        = a.settled + a.owedBack - a.toReconcile + (0 - out - 0 + 0 + 0)
  BY DEF Cents
<1> HIDE DEF out
<1>3. Flowed(a, z, 0, out, 0, 0, 0)
  BY <1>1, <1>2 DEF Flowed, Cents
<1>4. Shifted(a, z, {"owedBack"}, {"toReconcile"})
  BY DEF Shifted, Cents
<1> QED BY <1>1, <1>3, <1>4, FailsIs

LEMMA PayoutAccounts ==
    ASSUME NEW b, Kept(b), Tallying(b), NEW c \in 1 .. Len(b.credits),
           NEW amount \in Nat, amount > 0,
           NEW cents \in [1 .. Len(b.credits) -> Int], SumOf(cents) = amount,
           NEW after, IsEnteredAll(b, <<"payout", 0>>, cents, after), Kept(after)
    PROVE  Accounts(b, after)
<1> DEFINE a == WholeAccount(b)
           z == WholeAccount(after)
           by == <<"payout", 0>>
<1>1. b \in Books /\ after \in Books /\ Len(b.credits) \in Nat
  BY BooksAre DEF Kept, Sound
<1>3. /\ UnspentOf(after) = UnspentOf(b) - amount /\ GrantedOf(after) = GrantedOf(b)
      /\ CollectedOf(after) = CollectedOf(b) /\ SettledOf(after) = SettledOf(b)
      /\ WithdrawnOf(after) = WithdrawnOf(b) /\ ReinstatedOf(after) = ReinstatedOf(b)
      /\ ToCasesOf(after) = ToCasesOf(b) /\ RefundedOf(after) = RefundedOf(b)
      /\ CasesOf(after) = CasesOf(b)
  BY <1>1, EnteredAllWhole
<1>4. /\ after.refunds = b.refunds /\ after.cases = b.cases
      /\ \A other : HeldOf(after, other) = HeldOf(b, other) + IF other = by THEN amount ELSE 0
  BY DEF IsEnteredAll
<1>5. HeldOf(after, by) = HeldOf(b, by) + amount /\ HeldOf(b, by) \in Int
  BY <1>1, <1>4, TableSums
<1>6. RefundsFit(after)
  <2>1. ASSUME NEW f \in Nat
        PROVE  /\ HeldOf(after, <<"refund", f>>) = HeldOf(b, <<"refund", f>>)
               /\ CaseSum(after, <<"refund", f>>) = CaseSum(b, <<"refund", f>>)
    <3>1. <<"refund", f>> # by
      OBVIOUS
    <3>2. HeldOf(b, <<"refund", f>>) \in Int
      BY <1>1, TableSums
    <3> HIDE DEF by
    <3>3. HeldOf(after, <<"refund", f>>) = HeldOf(b, <<"refund", f>>)
      BY <1>4, <3>1, <3>2
    <3> QED BY <1>4, <3>3, SameSums
  <2> QED BY <1>4, <2>1, RefundsFitSame DEF Tallying
<1> HIDE DEF a, z
<1>7. /\ z.collected = a.collected /\ z.paidOut = a.paidOut + amount
      /\ z.withdrawn = a.withdrawn /\ z.reinstated = a.reinstated /\ z.granted = a.granted
      /\ z.settled = a.settled /\ z.owedBack = a.owedBack - amount
      /\ z.toReconcile = a.toReconcile
  <2>1. RefundedOf(b) \in Int
    BY <1>1, WholeSums
  <2> QED BY <1>1, <1>3, <1>5, <2>1, WholeAccountIs DEF a, z
<1>8. Cents(a) /\ Cents(z) /\ Account!Balanced(a)
  BY AccountsAre DEF a, z
<1>9. amount + 0 = amount /\ z.toReconcile = a.toReconcile + 0
  BY <1>7, <1>8 DEF Cents
<1>10. Account!Step(a, z)
  BY <1>7, <1>8, <1>9, PaysOutFrom
<1> QED BY <1>6, <1>10, AccountsAre DEF Accounts, a, z

IsRefund(by, f) == by = <<"refund", f>>

\* A refund that has failed by the time it is seen moves nothing.
LEMMA FailedRefundAccounts ==
    ASSUME NEW b, Kept(b), Tallying(b), NEW refund \in Refund, refund.ended,
           NEW after, after = [b EXCEPT !.refunds = Append(b.refunds, refund)], Kept(after)
    PROVE  Accounts(b, after)
<1>1. b \in Books /\ RefundsFit(b) /\ Len(b.refunds) \in Nat
  BY BooksAre DEF Kept, Sound, Tallying
<1>2. /\ IsSeen(b, after) /\ CasesOf(after) = CasesOf(b)
      /\ RefundedOf(after) = RefundedOf(b) + 0
      /\ Len(after.refunds) = Len(b.refunds) + 1 /\ after.refunds[Len(b.refunds) + 1] = refund
      /\ \A f \in 1 .. Len(b.refunds) : after.refunds[f] = b.refunds[f]
  BY <1>1, SeenMore
<1>3. RefundedOf(b) \in Int
  BY <1>1, WholeSums
<1>4. WholeAccount(after) = WholeAccount(b)
  <2>1. CasesOf(after) = CasesOf(b) /\ RefundedOf(after) = RefundedOf(b)
    BY <1>2, <1>3
  <2>2. /\ HeldOf(after, <<"payout", 0>>) = HeldOf(b, <<"payout", 0>>)
        /\ CollectedOf(after) = CollectedOf(b) /\ SettledOf(after) = SettledOf(b)
        /\ UnspentOf(after) = UnspentOf(b) /\ GrantedOf(after) = GrantedOf(b)
        /\ WithdrawnOf(after) = WithdrawnOf(b) /\ ReinstatedOf(after) = ReinstatedOf(b)
        /\ ToCasesOf(after) = ToCasesOf(b)
    BY <1>2 DEF IsSeen
  <2> QED BY <2>1, <2>2 DEF WholeAccount
<1>5. RefundsFit(after)
  <2>1. /\ after.cases = b.cases
        /\ \A f : /\ HeldOf(after, <<"refund", f>>) = HeldOf(b, <<"refund", f>>)
                  /\ CaseSum(after, <<"refund", f>>) = CaseSum(b, <<"refund", f>>)
    BY <1>2 DEF IsSeen
  <2>2. \A k \in 1 .. Len(after.cases) :
          after.cases[k].by[1] = "refund" => after.cases[k].by[2] \in 1 .. Len(after.refunds)
    BY <1>1, <1>2, <2>1 DEF RefundsFit
  <2>3. ASSUME NEW f \in 1 .. Len(after.refunds), ~after.refunds[f].ended
        PROVE  HeldOf(after, <<"refund", f>>) + CaseSum(after, <<"refund", f>>)
                 = after.refunds[f].amount
    <3>1. f \in 1 .. Len(b.refunds) + 1 /\ f # Len(b.refunds) + 1
      BY <1>2, <2>3
    <3>2. f \in 1 .. Len(b.refunds)
      BY <1>1, <3>1
    <3>3. after.refunds[f] = b.refunds[f]
      BY <1>2, <3>2
    <3> QED BY <1>1, <2>1, <2>3, <3>2, <3>3 DEF RefundsFit
  <2>4. ASSUME NEW f \in Nat, f > Len(after.refunds)
        PROVE  HeldOf(after, <<"refund", f>>) = 0 /\ CaseSum(after, <<"refund", f>>) = 0
    <3>1. f > Len(b.refunds)
      BY <1>1, <1>2, <2>4
    <3> QED BY <1>1, <2>1, <3>1 DEF RefundsFit
  <2> QED BY <2>2, <2>3, <2>4 DEF RefundsFit
<1> QED BY <1>4, <1>5, AccountsAre DEF Accounts

\* The books once a refund is seen.
SeenIn(b, refund, after) == after = [b EXCEPT !.refunds = Append(b.refunds, refund)]

LEMMA RefundAccounts ==
    ASSUME NEW b, Kept(b), Tallying(b), NEW refund \in Refund, ~refund.ended, refund.amount > 0,
           NEW by, IsRefund(by, Len(b.refunds) + 1),
           NEW seen, SeenIn(b, refund, seen),
           NEW parts \in [1 .. Len(b.credits) -> Int], SumOf(parts) \in Nat,
           SumOf(parts) <= refund.amount,
           NEW entered, IsEnteredAll(seen, by, parts, entered),
           NEW after, after = CaseOpened(entered, by, refund.amount - SumOf(parts)), Kept(after)
    PROVE  Accounts(b, after)
<1> DEFINE a == WholeAccount(b)
           z == WholeAccount(after)
           n == Len(b.refunds)
           amount == refund.amount
           short == amount - SumOf(parts)
<1>1. b \in Books /\ after \in Books /\ RefundsFit(b) /\ n \in Nat /\ amount \in Nat
  BY BooksAre, RowsAre DEF Kept, Sound, Tallying
<1>2. /\ IsSeen(b, seen) /\ CasesOf(seen) = CasesOf(b)
      /\ RefundedOf(seen) = RefundedOf(b) + amount
      /\ Len(seen.refunds) = n + 1 /\ seen.refunds[n + 1] = refund
      /\ \A f \in 1 .. n : seen.refunds[f] = b.refunds[f]
  BY <1>1, SeenMore DEF SeenIn
<1>3. /\ seen \in Books /\ seen.credits = b.credits /\ seen.cases = b.cases
      /\ \A other : HeldOf(seen, other) = HeldOf(b, other)
      /\ \A other : CaseSum(seen, other) = CaseSum(b, other)
  BY <1>2 DEF IsSeen
<1>4. short \in Nat /\ AtLeastZero(short) = short /\ by \in By
  <2>1. short \in Int /\ short >= 0
    BY <1>1
  <2> QED BY <1>1, <2>1, AtLeastZeroIs DEF By, IsRefund
<1>5. /\ entered \in Books /\ entered.refunds = seen.refunds /\ entered.cases = b.cases
      /\ \A other : HeldOf(entered, other) =
                      HeldOf(b, other) + IF other = by THEN SumOf(parts) ELSE 0
  BY <1>3 DEF IsEnteredAll
<1>6. by[1] = "refund" /\ by[2] = n + 1 /\ ~entered.refunds[by[2]].ended
  BY <1>1, <1>2, <1>5 DEF IsRefund
<1>7. IsCaseOpened(entered, by, short, after) /\ after = CaseOpened(entered, by, short)
  BY <1>4, <1>5, CaseOpenedIs
<1>8. parts \in [1 .. Len(seen.credits) -> Int]
  BY <1>3
<1> HIDE DEF a, z, short
<1>9. /\ CasesOf(after) = CasesOf(entered) + short
      /\ UnspentOf(after) = UnspentOf(entered) /\ GrantedOf(after) = GrantedOf(entered)
      /\ CollectedOf(after) = CollectedOf(entered) /\ SettledOf(after) = SettledOf(entered)
      /\ WithdrawnOf(after) = WithdrawnOf(entered) /\ ReinstatedOf(after) = ReinstatedOf(entered)
      /\ ToCasesOf(after) = ToCasesOf(entered) /\ RefundedOf(after) = RefundedOf(entered)
  BY <1>4, <1>5, <1>6, <1>7, CaseOpenedWhole
<1>10. /\ UnspentOf(entered) = UnspentOf(seen) - SumOf(parts) /\ GrantedOf(entered) = GrantedOf(seen)
       /\ CollectedOf(entered) = CollectedOf(seen) /\ SettledOf(entered) = SettledOf(seen)
       /\ WithdrawnOf(entered) = WithdrawnOf(seen) /\ ReinstatedOf(entered) = ReinstatedOf(seen)
       /\ ToCasesOf(entered) = ToCasesOf(seen) /\ RefundedOf(entered) = RefundedOf(seen)
       /\ CasesOf(entered) = CasesOf(seen)
  BY <1>3, <1>8, EnteredAllWhole
<1>11. /\ after.refunds = seen.refunds /\ after.credits = entered.credits
       /\ \A k \in DOMAIN after.cases :
            \/ after.cases[k].by = by
            \/ k \in DOMAIN b.cases /\ after.cases[k] = b.cases[k]
  BY <1>7, <1>5 DEF IsCaseOpened
<1>20. /\ \A other : HeldOf(after, other) =
                       HeldOf(b, other) + IF other = by THEN SumOf(parts) ELSE 0
       /\ \A other : CaseSum(after, other) =
                       CaseSum(b, other) + IF other = by THEN short ELSE 0
  BY <1>11, SameSums, <1>5, <1>4, <1>7 DEF IsCaseOpened
<1>12. RefundsFit(after)
  <2>1. Len(after.refunds) = n + 1 /\ after.refunds[n + 1] = refund
    BY <1>2, <1>11
  <2>2. ASSUME NEW k \in 1 .. Len(after.cases), after.cases[k].by[1] = "refund"
        PROVE  after.cases[k].by[2] \in 1 .. n + 1
    <3>1. k \in DOMAIN after.cases /\ DOMAIN b.cases = 1 .. Len(b.cases)
      BY <1>1, BooksAre
    <3>2. CASE after.cases[k].by = by
      <4>1. after.cases[k].by[2] = n + 1
        BY <1>6, <3>2
      <4>2. n + 1 \in 1 .. n + 1
        BY <1>1
      <4> QED BY <4>1, <4>2
    <3>3. CASE k \in DOMAIN b.cases /\ after.cases[k] = b.cases[k]
      <4>1. b.cases[k].by[2] \in 1 .. n
        BY <1>1, <2>2, <3>1, <3>3 DEF RefundsFit
      <4> QED BY <1>1, <3>3, <4>1
    <3> QED BY <1>11, <3>1, <3>2, <3>3
  <2>3. ASSUME NEW f \in Nat, f # n + 1
        PROVE  /\ HeldOf(after, <<"refund", f>>) = HeldOf(b, <<"refund", f>>)
               /\ CaseSum(after, <<"refund", f>>) = CaseSum(b, <<"refund", f>>)
    <3>1. <<"refund", f>> # by
      BY <1>1, <2>3 DEF IsRefund
    <3>2. HeldOf(b, <<"refund", f>>) \in Int /\ CaseSum(b, <<"refund", f>>) \in Int
      BY <1>1, TableSums
    <3> QED BY <1>20, <3>1, <3>2
  <2>4. HeldOf(after, by) + CaseSum(after, by) = amount
    <3>1. HeldOf(b, by) = 0 /\ CaseSum(b, by) = 0
      BY <1>1 DEF RefundsFit, IsRefund
    <3>2. HeldOf(after, by) = SumOf(parts) /\ CaseSum(after, by) = short
      BY <1>1, <1>4, <1>20, <3>1
    <3> QED BY <1>1, <3>2 DEF short
  <2>5. ASSUME NEW f \in 1 .. n + 1, ~after.refunds[f].ended
        PROVE  HeldOf(after, <<"refund", f>>) + CaseSum(after, <<"refund", f>>)
                 = after.refunds[f].amount
    <3>1. CASE f = n + 1
      BY <2>1, <2>4, <3>1 DEF IsRefund
    <3>2. CASE f # n + 1
      <4>1. f \in 1 .. n /\ f \in Nat
        BY <1>1, <3>2
      <4>2. after.refunds[f] = b.refunds[f]
        BY <1>2, <1>11, <4>1
      <4> QED BY <1>1, <2>3, <2>5, <3>2, <4>1, <4>2 DEF RefundsFit
    <3> QED BY <3>1, <3>2
  <2>6. ASSUME NEW f \in Nat, f > n + 1
        PROVE  HeldOf(after, <<"refund", f>>) = 0 /\ CaseSum(after, <<"refund", f>>) = 0
    <3>1. f > n /\ f # n + 1
      BY <1>1, <2>6
    <3> QED BY <1>1, <2>3, <3>1 DEF RefundsFit
  <2> QED BY <2>1, <2>2, <2>5, <2>6 DEF RefundsFit
<1>13. HeldOf(after, <<"payout", 0>>) = HeldOf(b, <<"payout", 0>>)
  <2>1. <<"payout", 0>> # by
    BY DEF IsRefund
  <2>2. HeldOf(b, <<"payout", 0>>) \in Int
    BY <1>1, TableSums
  <2> QED BY <1>20, <2>1, <2>2
<1>14. /\ z.collected = a.collected /\ z.withdrawn = a.withdrawn
       /\ z.reinstated = a.reinstated /\ z.granted = a.granted
       /\ z.settled = a.settled /\ z.owedBack = a.owedBack - SumOf(parts)
  BY <1>1, <1>2, <1>9, <1>10, WholeAccountIs DEF a, z, IsSeen
<1>15. z.paidOut = a.paidOut + amount /\ z.toReconcile = a.toReconcile + short
  <2>1. /\ RefundedOf(after) = RefundedOf(b) + amount
        /\ CasesOf(after) = CasesOf(b) + short /\ ToCasesOf(after) = ToCasesOf(b)
    BY <1>2, <1>9, <1>10 DEF IsSeen
  <2>2. /\ HeldOf(b, <<"payout", 0>>) \in Int /\ RefundedOf(b) \in Int
        /\ CasesOf(b) \in Int /\ ToCasesOf(b) \in Int
    BY <1>1, TableSums, WholeSums
  <2>3. /\ z.paidOut = HeldOf(after, <<"payout", 0>>) + RefundedOf(after)
        /\ a.paidOut = HeldOf(b, <<"payout", 0>>) + RefundedOf(b)
        /\ z.toReconcile = CasesOf(after) - ToCasesOf(after)
        /\ a.toReconcile = CasesOf(b) - ToCasesOf(b)
    BY <1>1, WholeAccountIs DEF a, z
  <2> HIDE DEF amount
  <2>4. z.paidOut = a.paidOut + amount
    BY <1>1, <1>13, <2>1, <2>2, <2>3
  <2>5. z.toReconcile = a.toReconcile + short
    BY <1>4, <2>1, <2>2, <2>3
  <2> QED BY <2>4, <2>5
<1>16. Cents(a) /\ Cents(z) /\ Account!Balanced(a)
  BY AccountsAre DEF a, z
<1>17. SumOf(parts) + short = amount
  BY <1>1 DEF short
<1>19. Account!Step(a, z)
  BY <1>1, <1>4, <1>14, <1>15, <1>16, <1>17, PaysOutFrom
<1> QED BY <1>12, <1>19, AccountsAre DEF Accounts, a, z

LEMMA SumOfNegated ==
    ASSUME NEW n \in Nat, NEW s \in [1 .. n -> Int], NEW t \in [1 .. n -> Int],
           \A i \in 1 .. n : s[i] = -t[i]
    PROVE  SumOf(s) \in Int /\ SumOf(s) + SumOf(t) = 0
<1> DEFINE zeros == [i \in 1 .. n |-> 0]
<1>1. zeros \in [1 .. n -> Int] /\ \A i \in 1 .. n : zeros[i] = 0
  OBVIOUS
<1>2. \A i \in 1 .. n : zeros[i] = s[i] + t[i]
  BY <1>1
<1> HIDE DEF zeros
<1>3. SumOf(zeros) = 0
  BY <1>1, SumOfNothing
<1>4. SumOf(zeros) = SumOf(s) + SumOf(t)
  BY <1>1, <1>2, SumOfAdds
<1> QED BY <1>3, <1>4, SumOfInt

LEMMA EndRefundAccounts ==
    ASSUME NEW b, Kept(b), Tallying(b), NEW f \in 1 .. Len(b.refunds), ~b.refunds[f].ended,
           b.refunds[f].amount > 0,
           NEW by, IsRefund(by, f), NEW seen, IsSeen(b, seen), Len(seen.refunds) = Len(b.refunds),
           CasesOf(b) = CasesOf(seen) + CaseSum(b, by),
           RefundedOf(b) = RefundedOf(seen) + b.refunds[f].amount, seen.refunds[f].ended,
           \A g \in 1 .. Len(b.refunds) : g # f => seen.refunds[g] = b.refunds[g],
           NEW back \in [1 .. Len(b.credits) -> Int],
           \A c \in 1 .. Len(b.credits) : back[c] = -TakenBy(b.credits[c], by),
           NEW after, IsEnteredAll(seen, by, back, after), Kept(after)
    PROVE  Accounts(b, after)
<1> DEFINE a == WholeAccount(b)
           z == WholeAccount(after)
           n == Len(b.refunds)
           m == Len(b.credits)
           amount == b.refunds[f].amount
           held == HeldOf(b, by)
           case == CaseSum(b, by)
           taken == TakenByEach(b, by)
<1>1. /\ b \in Books /\ after \in Books /\ RefundsFit(b) /\ n \in Nat /\ m \in Nat
      /\ amount \in Nat /\ amount > 0
  BY BooksAre, RowsAre DEF Kept, Sound, Tallying
<1>2. /\ IsSeen(b, seen) /\ CasesOf(b) = CasesOf(seen) + case
      /\ RefundedOf(b) = RefundedOf(seen) + amount
      /\ Len(seen.refunds) = n /\ seen.refunds[f].ended
      /\ \A g \in 1 .. n : g # f => seen.refunds[g] = b.refunds[g]
  OBVIOUS
<1>3. /\ seen \in Books /\ seen.credits = b.credits /\ seen.cases = b.cases
      /\ \A other : HeldOf(seen, other) = HeldOf(b, other)
      /\ \A other : CaseSum(seen, other) = CaseSum(b, other)
  BY <1>2 DEF IsSeen
<1>4. /\ taken \in [1 .. m -> Int] /\ held = SumOf(taken) /\ held \in Int /\ case \in Int
  BY <1>1, TableSums
<1>5. SumOf(back) \in Int /\ SumOf(back) + held = 0
  <2>1. \A c \in 1 .. m : taken[c] = TakenBy(b.credits[c], by)
    BY DEF TakenByEach
  <2> HIDE DEF taken
  <2>2. \A c \in 1 .. m : back[c] = -taken[c]
    BY <2>1
  <2>3. SumOf(back) \in Int /\ SumOf(back) + SumOf(taken) = 0
    BY <1>1, <1>4, <2>2, SumOfNegated
  <2> QED BY <1>4, <2>3
<1> HIDE DEF taken
<1>6. /\ after.refunds = seen.refunds /\ after.cases = b.cases
      /\ \A other : HeldOf(after, other) =
                      HeldOf(b, other) + IF other = by THEN SumOf(back) ELSE 0
  BY <1>3 DEF IsEnteredAll
<1>7. /\ UnspentOf(after) = UnspentOf(seen) - SumOf(back) /\ GrantedOf(after) = GrantedOf(seen)
      /\ CollectedOf(after) = CollectedOf(seen) /\ SettledOf(after) = SettledOf(seen)
      /\ WithdrawnOf(after) = WithdrawnOf(seen) /\ ReinstatedOf(after) = ReinstatedOf(seen)
      /\ ToCasesOf(after) = ToCasesOf(seen) /\ RefundedOf(after) = RefundedOf(seen)
      /\ CasesOf(after) = CasesOf(seen)
  <2>1. back \in [1 .. Len(seen.credits) -> Int]
    BY <1>3
  <2> QED BY <1>3, <2>1, EnteredAllWhole
<1>8. \A other : CaseSum(after, other) = CaseSum(b, other)
  BY <1>6, SameSums
<1>9. RefundsFit(after)
  <2>1. ASSUME NEW g \in Nat, g # f
        PROVE  HeldOf(after, <<"refund", g>>) = HeldOf(b, <<"refund", g>>)
    <3>1. <<"refund", g>> # by
      BY <2>1 DEF IsRefund
    <3>2. HeldOf(b, <<"refund", g>>) \in Int
      BY <1>1, TableSums
    <3> QED BY <1>6, <3>1, <3>2
  <2>2. \A k \in 1 .. Len(after.cases) :
          after.cases[k].by[1] = "refund" => after.cases[k].by[2] \in 1 .. Len(after.refunds)
    BY <1>1, <1>2, <1>6 DEF RefundsFit
  <2>3. ASSUME NEW g \in 1 .. n, ~after.refunds[g].ended
        PROVE  HeldOf(after, <<"refund", g>>) + CaseSum(after, <<"refund", g>>)
                 = after.refunds[g].amount
    BY <1>2, <1>6, <2>3, <1>1, <1>8, <2>1 DEF RefundsFit
  <2>4. ASSUME NEW g \in Nat, g > n
        PROVE  HeldOf(after, <<"refund", g>>) = 0 /\ CaseSum(after, <<"refund", g>>) = 0
    <3>1. g # f
      BY <1>1, <2>4
    <3> QED BY <1>1, <1>8, <2>1, <2>4, <3>1 DEF RefundsFit
  <2>5. Len(after.refunds) = n
    BY <1>2, <1>6
  <2> QED BY <2>2, <2>3, <2>4, <2>5 DEF RefundsFit
<1>10. HeldOf(after, <<"payout", 0>>) = HeldOf(b, <<"payout", 0>>)
  <2>1. <<"payout", 0>> # by
    BY DEF IsRefund
  <2>2. HeldOf(b, <<"payout", 0>>) \in Int
    BY <1>1, TableSums
  <2> QED BY <1>6, <2>1, <2>2
<1>11. held + case = amount /\ case \in Nat /\ held \in Nat
  <2>1. held + case = amount
    BY <1>1 DEF RefundsFit, IsRefund
  <2>2. held \in Nat
    <3>1. \A c \in 1 .. m : b.credits[c] \in Credit /\ CreditKept(b.credits[c], 0)
      BY <1>1, BooksAre DEF Kept, Sound
    <3>2. \A c \in 1 .. m : TakenBy(b.credits[c], by) \in Nat
      BY <3>1, SpentNat DEF CreditKept
    <3>3. \A c \in 1 .. m : taken[c] >= 0
      BY <3>2 DEF taken, TakenByEach
    <3> QED BY <1>1, <1>4, <3>3, SumOfNat
  <2>3. case \in Nat
    <3>1. /\ CaseOfEach(b, by) \in [1 .. Len(b.cases) -> Int]
          /\ case = SumOf(CaseOfEach(b, by))
      BY <1>1, TableSums
    <3>2. \A k \in 1 .. Len(b.cases) : CaseOfEach(b, by)[k] >= 0
      BY <1>1, BooksAre, RowsAre DEF CaseOfEach
    <3>3. Len(b.cases) \in Nat
      BY <1>1, BooksAre
    <3> QED BY <3>1, <3>2, <3>3, SumOfNat
  <2> QED BY <1>1, <2>1, <2>2, <2>3
<1> HIDE DEF a, z, held, case, amount
<1>12. /\ z.collected = a.collected /\ z.withdrawn = a.withdrawn
       /\ z.reinstated = a.reinstated /\ z.granted = a.granted
       /\ z.settled = a.settled /\ z.owedBack = a.owedBack - SumOf(back)
  BY <1>1, <1>2, <1>7, WholeAccountIs DEF a, z, IsSeen
<1>13. Cents(a) /\ Cents(z) /\ Account!Balanced(a)
  BY AccountsAre DEF a, z
<1>14. a.paidOut = z.paidOut + amount /\ a.toReconcile = z.toReconcile + case
  <2>1. /\ RefundedOf(b) = RefundedOf(after) + amount
        /\ CasesOf(b) = CasesOf(after) + case /\ ToCasesOf(after) = ToCasesOf(b)
    BY <1>2, <1>7 DEF IsSeen
  <2>2. /\ HeldOf(b, <<"payout", 0>>) \in Int /\ RefundedOf(after) \in Int
        /\ CasesOf(after) \in Int /\ ToCasesOf(after) \in Int
    BY <1>1, TableSums, WholeSums
  <2>3. /\ z.paidOut = HeldOf(after, <<"payout", 0>>) + RefundedOf(after)
        /\ a.paidOut = HeldOf(b, <<"payout", 0>>) + RefundedOf(b)
        /\ z.toReconcile = CasesOf(after) - ToCasesOf(after)
        /\ a.toReconcile = CasesOf(b) - ToCasesOf(b)
    BY <1>1, WholeAccountIs DEF a, z
  <2>4. a.paidOut = z.paidOut + amount
    BY <1>1, <1>10, <2>1, <2>2, <2>3
  <2>5. a.toReconcile = z.toReconcile + case
    BY <1>11, <2>1, <2>2, <2>3
  <2> QED BY <2>4, <2>5
<1>15. z.owedBack = a.owedBack + held
  <2>1. a.owedBack \in Int /\ held \in Int /\ SumOf(back) \in Int
    BY <1>4, <1>5, <1>13 DEF Cents
  <2>2. SumOf(back) + held = 0 /\ z.owedBack = a.owedBack - SumOf(back)
    BY <1>5, <1>12
  <2> QED BY <2>1, <2>2
<1>17. Account!Step(a, z)
  BY <1>1, <1>11, <1>12, <1>13, <1>14, <1>15, FailsFrom
<1> QED BY <1>9, <1>17, AccountsAre DEF Accounts, a, z

-----------------------------------------------------------------------------
(* The invariant                                                           *)

\* The rows are of their kinds and name rows there are, no credit nor invoice
\* bears more than it is of, and the parts of every reversal come to its amount.
IInv == Kept(books) /\ Fitting(books)

\* The books are kept by the step, and the account with them.
Accounted == Tallying(books) => Accounts(books, books')

LEMMA InitKeeps ==
    Init => IInv
<1> SUFFICES ASSUME Init PROVE IInv
  OBVIOUS
<1>1. PICK total \in Totals \cap Nat :
        books = [totals |-> <<total>>, standing |-> 1, payments |-> <<>>, credits |-> <<>>,
                 reversals |-> <<>>, refunds |-> <<>>, cases |-> <<>>]
  BY DEF Init
<1>2. /\ books.totals = <<total>> /\ books.standing = 1 /\ books.payments = <<>>
      /\ books.credits = <<>> /\ books.reversals = <<>> /\ books.cases = <<>>
  BY <1>1
<1>3. books \in Books
  BY <1>1 DEF Books
<1>4. Len(books.totals) = 1 /\ 1 \in Invoices
  BY <1>2, LedgerAssumption DEF Invoices
<1>5. Named(books)
  BY <1>2, <1>4 DEF Named
<1>6. ASSUME NEW i \in 1 .. Len(books.totals)
      PROVE  SettledOn(books, i) <= AtLeastZero(books.totals[i])
  <2>1. i = 1 /\ i \in Invoices
    BY <1>4, <1>6
  <2>2. /\ SettledByEach(books, i) \in [1 .. Len(books.payments) -> Int]
        /\ SettledOn(books, i) = SumOf(SettledByEach(books, i))
    BY <1>3, <2>1, TableSums
  <2>3. Len(books.payments) = 0 /\ Len(books.payments) \in Nat
    BY <1>2
  <2>4. \A p \in 1 .. Len(books.payments) : SettledByEach(books, i)[p] = 0
    BY <2>3
  <2>5. SettledOn(books, i) = 0
    BY <2>2, <2>3, <2>4, SumOfNothing
  <2>6. books.totals[i] = total
    BY <1>2, <2>1
  <2> QED BY <2>5, <2>6 DEF AtLeastZero
<1>7. SettlesKept(books)
  BY <1>2, <1>6 DEF SettlesKept
<1>8. Kept(books)
  <2> DEFINE zeros == [c \in 1 .. Len(books.credits) |-> 0]
  <2>1. \A c \in 1 .. Len(books.credits) : CreditKept(books.credits[c], zeros[c])
    BY <1>2
  <2>2. Sound(books, zeros)
    <3> HIDE DEF zeros
    <3> QED BY <1>3, <1>5, <1>7, <2>1 DEF Sound
  <2> QED BY <2>2 DEF Kept
<1>9. Fitting(books)
  BY <1>2 DEF Fitting
<1> QED BY <1>8, <1>9 DEF IInv

LEMMA RecordPaymentKeeps ==
    ASSUME IInv, NEW amount \in Collected, RecordPayment(amount)
    PROVE  IInv' /\ Accounted
<1> DEFINE b == books
           p == Len(b.payments) + 1
           owed == IF b.standing = 0 THEN 0 ELSE OwedOn(b, b.standing)
           settled == Least(amount, AtLeastZero(owed))
           settles == [i \in Invoices |-> IF i = b.standing THEN settled ELSE 0]
           payment == [amount |-> amount, settles |-> settles]
           paid == Paid(b, payment)
           origin == <<"payment", p>>
<1>1. b \in Books /\ Named(b) /\ Kept(b) /\ Fitting(b)
  BY DEF IInv, Kept, Sound
<1>2. books' = Credited(paid, origin, amount - settled)
  BY DEF RecordPayment, Paid
<1>3. b.standing \in 0 .. Len(b.totals) /\ amount \in Nat /\ Len(b.payments) \in Nat
  BY <1>1, BooksAre, LedgerAssumption DEF Named
<1>4. owed \in Int
  <2>1. CASE b.standing = 0
    BY <2>1
  <2>2. CASE b.standing # 0
    <3>1. b.standing \in 1 .. Len(b.totals) /\ b.standing \in Invoices
      BY <1>1, <1>3, <2>2, RowsAre, BooksAre DEF Named
    <3>2. b.totals[b.standing] \in Int /\ SettledOn(b, b.standing) \in Int
      BY <1>1, <3>1, BooksAre, TableSums
    <3> QED BY <2>2, <3>2 DEF OwedOn
  <2> QED BY <2>1, <2>2
<1>5. /\ settled \in Nat /\ settled <= AtLeastZero(owed) /\ settled <= amount
      /\ b.standing = 0 => settled = 0
  <2>1. b.standing = 0 => owed = 0
    OBVIOUS
  <2> HIDE DEF owed
  <2>2. AtLeastZero(owed) \in Nat /\ (owed = 0 => AtLeastZero(owed) = 0)
    BY <1>4, AtLeastZeroIs
  <2> QED BY <1>3, <2>1, <2>2 DEF Least
<1>6. ASSUME NEW i \in Invoices
      PROVE  0 <= settles[i] /\ settles[i] <= AtLeastZero(OwedOn(b, i))
  <2>1. i # 0
    BY RowsAre
  <2>2. CASE i = b.standing
    BY <1>5, <2>1, <2>2
  <2>3. CASE i # b.standing
    <3>1. settles[i] = 0 /\ OwedOn(b, i) = 0
      BY <2>3 DEF OwedOn
    <3> QED BY <3>1 DEF AtLeastZero
  <2> QED BY <2>2, <2>3
<1> HIDE DEF settled, owed
<1>7. /\ payment \in Payment /\ payment.settles = settles
      /\ payment.amount = amount /\ amount > 0
  BY <1>5, LedgerAssumption DEF Payment
<1>11. SumOf(settles) = settled
  <2>1. Invoices = 1 .. MaxInvoices /\ MaxInvoices \in Nat /\ Len(b.totals) \in Invoices
    BY <1>1, RowsAre DEF Named
  <2>2. CASE b.standing = 0
    <3>1. settles \in [1 .. MaxInvoices -> Int] /\ \A i \in 1 .. MaxInvoices : settles[i] = 0
      BY <1>5, <2>1, <2>2
    <3> HIDE DEF settles
    <3> QED BY <1>5, <2>1, <2>2, <3>1, SumOfNothing
  <2>3. CASE b.standing # 0
    <3> DEFINE j == b.standing
    <3>1. j \in 1 .. MaxInvoices
      BY <1>3, <2>1, <2>3
    <3>2. settles = [i \in 1 .. MaxInvoices |-> IF i = j THEN settled ELSE 0]
      BY <2>1
    <3>3. settled \in Int
      BY <1>5
    <3> HIDE DEF settles, j
    <3> QED BY <2>1, <3>1, <3>2, <3>3, SumOfOne
  <2> QED BY <2>2, <2>3
<1> HIDE DEF payment, settles
<1>8. /\ Kept(paid) /\ Fitting(paid)
      /\ \A i \in Invoices : SettledOn(paid, i) = SettledOn(b, i) + settles[i]
  BY <1>1, <1>6, <1>7, PaidKeeps
<1>9. origin \in Origins /\ origin[1] = "payment"
  BY <1>3 DEF Origins
<1>10. amount - settled \in Int
  BY <1>3, <1>5
<1> HIDE DEF origin
<1>12. Kept(books') /\ Fitting(books')
  <2> HIDE DEF paid
  <2> QED BY <1>2, <1>8, <1>9, <1>10, CreditedFits
<1>13. ASSUME Tallying(b) PROVE Accounts(b, books')
  BY <1>1, <1>2, <1>5, <1>7, <1>8, <1>9, <1>11, <1>12, <1>13, PaymentAccounts
<1> QED BY <1>12, <1>13 DEF IInv, Accounted

LEMMA CreditInvoiceKeeps ==
    ASSUME IInv, NEW i \in Invoices, CreditInvoice(i)
    PROVE  IInv' /\ Accounted
<1> DEFINE origin == <<"invoice", i>>
           cents == -books.totals[i]
<1>1. Kept(books) /\ Fitting(books) /\ books \in Books
  BY DEF IInv, Kept, Sound
<1>2. i \in DOMAIN books.totals /\ books' = Credited(books, origin, cents)
  BY DEF CreditInvoice
<1>3. cents \in Nat /\ cents > 0
  BY <1>1, <1>2, BooksAre DEF CreditInvoice
<1>4. origin \in Origins /\ origin[1] = "invoice"
  BY RowsAre DEF Origins
<1> HIDE DEF origin, cents
<1>5. Kept(books') /\ Fitting(books')
  BY <1>1, <1>2, <1>3, <1>4, CreditedFits
<1>6. ASSUME Tallying(books) PROVE Accounts(books, books')
  BY <1>1, <1>2, <1>3, <1>4, <1>5, <1>6, GrantAccounts
<1> QED BY <1>5, <1>6 DEF IInv, Accounted

LEMMA CancelInvoiceKeeps ==
    ASSUME IInv, CancelInvoice
    PROVE  IInv' /\ Accounted
<1>1. Kept(books) /\ Fitting(books) /\ books \in Books
  BY DEF IInv, Kept, Sound
<1>2. books.standing # 0 /\ books' = SharesMoved(books, 0, 0)
  BY DEF CancelInvoice
<1>3. MayMove(books, 0, 0)
  BY <1>1, <1>2, BooksAre DEF MayMove
<1>4. Kept(books') /\ Fitting(books')
  BY <1>1, <1>2, <1>3, SharesMovedKeeps
<1>5. ASSUME Tallying(books) PROVE Accounts(books, books')
  BY <1>1, <1>2, <1>3, SharesMovedWhole, <1>4, <1>5, MoveAccounts
<1> QED BY <1>4, <1>5 DEF IInv, Accounted

LEMMA ReplaceInvoiceKeeps ==
    ASSUME IInv, NEW total \in Totals, ReplaceInvoice(total)
    PROVE  IInv' /\ Accounted
<1> DEFINE issued == Issued(books, total)
           standing == Len(books.totals) + 1
<1>1. Kept(books) /\ Fitting(books) /\ books \in Books /\ Named(books)
  BY DEF IInv, Kept, Sound
<1>2. /\ books.standing # 0 /\ Len(books.totals) < MaxInvoices
      /\ books' = SharesMoved(issued, standing, total)
  BY DEF ReplaceInvoice, Issued
<1>3. /\ Kept(issued) /\ Fitting(issued)
      /\ Len(issued.totals) = standing /\ issued.standing = books.standing
      /\ issued.payments = books.payments /\ issued.totals[standing] = total
      /\ standing \in Invoices
      /\ \A p \in 1 .. Len(books.payments) : books.payments[p].settles[standing] = 0
  BY <1>1, <1>2, IssuedKeeps
<1> HIDE DEF issued
<1>4. books.standing \in 0 .. Len(books.totals) /\ Len(books.totals) \in Nat
  BY <1>1, BooksAre DEF Named
<1>5. total \in Int /\ total <= AtLeastZero(total)
  BY LedgerAssumption, AtLeastZeroIs
<1>6. standing # books.standing /\ standing \in 0 .. standing /\ standing # 0
  BY <1>4
<1> HIDE DEF standing
<1>7. MayMove(issued, standing, total)
  BY <1>2, <1>3, <1>5, <1>6 DEF MayMove
<1>8. Kept(books') /\ Fitting(books')
  BY <1>2, <1>3, <1>7, SharesMovedKeeps
<1>9. /\ PartsSame(books, issued) /\ RefundsSame(books, issued)
      /\ CollectedOf(issued) = CollectedOf(books) /\ GrantedOf(issued) = GrantedOf(books)
      /\ SettledOf(issued) = SettledOf(books) /\ UnspentOf(issued) = UnspentOf(books)
  BY <1>1, IssuedWhole DEF issued
<1>10. ASSUME Tallying(books) PROVE Accounts(books, books')
  <2>1. /\ PartsSame(issued, books') /\ RefundsSame(issued, books')
        /\ CollectedOf(books') = CollectedOf(issued) /\ GrantedOf(books') = GrantedOf(issued)
        /\ \E cents \in Nat : /\ SettledOf(books') = SettledOf(issued) - cents
                              /\ UnspentOf(books') = UnspentOf(issued) + cents
    BY <1>2, <1>3, <1>6, <1>7, SharesMovedWhole
  <2>2. PartsSame(books, books') /\ RefundsSame(books, books')
    BY <1>9, <2>1 DEF PartsSame, RefundsSame
  <2> QED BY <1>1, <1>8, <1>9, <1>10, <2>1, <2>2, MoveAccounts
<1> QED BY <1>8, <1>10 DEF IInv, Accounted

LEMMA ReportNewReversalKeeps ==
    ASSUME IInv, NEW p \in DOMAIN books.payments, NEW withdrawn \in Returned,
           NEW reinstated \in 0 .. withdrawn, ReportNewReversal(p, withdrawn, reinstated)
    PROVE  IInv' /\ Accounted
<1> DEFINE now == NewReversal(books, p)
           r == Len(books.reversals) + 1
<1>1. Kept(books) /\ Fitting(books) /\ books \in Books
  BY DEF IInv, Kept, Sound
<1>2. p \in 1 .. Len(books.payments)
  BY <1>1, BooksAre
<1>3. books' = Reported(now, r, withdrawn, reinstated)
  BY DEF ReportNewReversal
<1>4. Kept(now) /\ Fitting(now) /\ r \in 1 .. Len(now.reversals)
  BY <1>1, <1>2, NewReversalKeeps
<1>5. withdrawn \in Nat /\ reinstated \in Nat
  BY LedgerAssumption
<1>6. WholeSame(books, now)
  BY <1>1, <1>4, NewReversalWhole DEF Kept, Sound
<1> HIDE DEF now, r
<1>7. /\ Kept(books') /\ Fitting(books')
      /\ \E taken, given \in Nat : ReportsOf(now, books', taken, given)
  BY <1>3, <1>4, <1>5, ReportedKeeps
<1>8. ASSUME Tallying(books) PROVE Accounts(books, books')
  <2>1. PICK taken \in Nat, given \in Nat : ReportsOf(now, books', taken, given)
    BY <1>7
  <2>2. ReportsOf(books, books', taken, given)
    BY <1>6, <2>1 DEF ReportsOf, WholeSame, OthersSame
  <2> QED BY <1>1, <1>7, <1>8, <2>2, ReportAccounts
<1> QED BY <1>7, <1>8 DEF IInv, Accounted

LEMMA ReportReversalKeeps ==
    ASSUME IInv, NEW r \in DOMAIN books.reversals, NEW withdrawn \in Returned,
           NEW reinstated \in {0} \cup Returned, ReportReversal(r, withdrawn, reinstated)
    PROVE  IInv' /\ Accounted
<1>1. Kept(books) /\ Fitting(books) /\ books \in Books
  BY DEF IInv, Kept, Sound
<1>2. r \in 1 .. Len(books.reversals)
  BY <1>1, BooksAre
<1>3. books' = Reported(books, r, withdrawn, reinstated)
  BY DEF ReportReversal
<1>4. withdrawn \in Nat /\ reinstated \in Nat
  BY LedgerAssumption
<1>5. /\ Kept(books') /\ Fitting(books')
      /\ \E taken, given \in Nat : ReportsOf(books, books', taken, given)
  BY <1>1, <1>2, <1>3, <1>4, ReportedKeeps
<1>6. ASSUME Tallying(books) PROVE Accounts(books, books')
  BY <1>1, <1>5, <1>6, ReportAccounts
<1> QED BY <1>5, <1>6 DEF IInv, Accounted

LEMMA RecordRefundKeeps ==
    ASSUME IInv, NEW p \in DOMAIN books.payments, NEW amount \in Returned,
           NEW ended \in BOOLEAN, RecordRefund(p, amount, ended)
    PROVE  IInv' /\ Accounted
<1> DEFINE n == Len(books.credits)
           by == <<"refund", Len(books.refunds) + 1>>
           caps == [c \in 1 .. n |-> OpenOf(books.credits[c])]
           parts == DealtOwnFirst(books, p, amount, caps)
           refund == [amount |-> amount, ended |-> ended]
           refunds == Append(books.refunds, refund)
           seen == [books EXCEPT !.refunds = refunds]
           entered == EnteredAll(seen, by, parts)
<1>1. /\ Kept(books) /\ Fitting(books) /\ books \in Books
      /\ \A c \in 1 .. n : CreditKept(books.credits[c], 0)
  BY DEF IInv, Kept, Sound
<1>2. /\ n \in Nat /\ DOMAIN books.credits = 1 .. n
      /\ \A c \in 1 .. n : books.credits[c] \in Credit
      /\ books.refunds \in Seq(Refund) /\ Len(books.refunds) \in Nat
  BY <1>1, BooksAre
<1>3. amount \in Int /\ amount >= 0
  BY LedgerAssumption
<1>4. books' = IF ended THEN seen ELSE CaseOpened(entered, by, amount - SumOf(parts))
  BY <1>2 DEF RecordRefund
<1>5. /\ refunds \in Seq(Refund) /\ refund \in Refund
      /\ refund.amount = amount /\ refund.ended = ended /\ amount > 0
  BY <1>2, LedgerAssumption DEF Refund
<1>15. IsRefund(by, Len(books.refunds) + 1) /\ SeenIn(books, refund, seen)
  BY DEF IsRefund, SeenIn
<1> HIDE DEF refund, refunds
<1>6. Kept(seen) /\ Fitting(seen) /\ seen.credits = books.credits
  BY <1>1, <1>5, RefundsKeep
<1>7. caps \in [1 .. n -> Int] /\ \A c \in 1 .. n : caps[c] >= 0
  BY <1>2, OpenOfIs
<1>8. IsDealt(n, amount, caps, parts)
  <2> HIDE DEF caps
  <2> QED BY <1>2, <1>3, <1>7, DealtOwnFirstIs
<1> HIDE DEF parts, seen
<1>9. /\ parts \in [1 .. n -> Int] /\ SumOf(parts) \in Int
      /\ \A c \in 1 .. n : 0 <= parts[c] /\ parts[c] <= OpenOf(books.credits[c])
  <2>1. /\ parts \in [1 .. n -> Int] /\ SumOf(parts) \in Int
        /\ \A c \in 1 .. n : 0 <= parts[c] /\ parts[c] <= caps[c]
    <3> HIDE DEF caps
    <3> QED BY <1>8 DEF IsDealt
  <2>2. \A c \in 1 .. n : caps[c] = OpenOf(books.credits[c])
    OBVIOUS
  <2> HIDE DEF caps
  <2> QED BY <2>1, <2>2
<1>10. by \in By /\ by[1] # "reversal"
  BY <1>2 DEF By
<1> HIDE DEF by
<1>11. \A c \in 1 .. Len(seen.credits) : MayEnter(seen.credits[c], by, parts[c], 0)
  <2> SUFFICES ASSUME NEW c \in 1 .. n
               PROVE  MayEnter(books.credits[c], by, parts[c], 0)
    BY <1>6
  <2>1. books.credits[c] \in Credit /\ CreditKept(books.credits[c], 0) /\ parts[c] \in Int
    BY <1>1, <1>2, <1>9
  <2> QED BY <1>9, <2>1, MaySpend
<1>12. Kept(entered) /\ Fitting(entered) /\ IsEnteredAll(seen, by, parts, entered)
  <2>1. parts \in [1 .. Len(seen.credits) -> Int]
    BY <1>6, <1>9
  <2> QED BY <1>6, <1>10, <1>11, <2>1, PaidOutKeeps
<1> HIDE DEF entered
<1>13. CASE ended
  <2>1. Kept(books') /\ Fitting(books')
    BY <1>4, <1>6, <1>13
  <2>2. ASSUME Tallying(books) PROVE Accounts(books, books')
    BY <1>1, <1>4, <1>5, <1>13, <1>15, <2>1, <2>2, FailedRefundAccounts DEF SeenIn
  <2> QED BY <2>1, <2>2 DEF IInv, Accounted
<1>14. CASE ~ended
  <2> DEFINE cents == amount - SumOf(parts)
  <2>1. cents \in Int /\ books' = CaseOpened(entered, by, cents)
    BY <1>3, <1>4, <1>9, <1>14
  <2>2. Kept(books') /\ Fitting(books')
    <3> HIDE DEF cents
    <3> QED BY <1>10, <1>12, <2>1, CaseKeeps
  <2>3. SumOf(parts) \in Nat /\ SumOf(parts) <= amount
    <3> HIDE DEF caps
    <3> QED BY <1>8 DEF IsDealt
  <2>4. ASSUME Tallying(books) PROVE Accounts(books, books')
    <3> HIDE DEF n, caps
    <3> QED BY <1>1, <1>5, <1>9, <1>12, <1>14, <1>15, <2>1, <2>2, <2>3, <2>4,
               RefundAccounts DEF n
  <2> QED BY <2>2, <2>4 DEF IInv, Accounted
<1> QED BY <1>13, <1>14

LEMMA EndRefundKeeps ==
    ASSUME IInv, NEW f \in DOMAIN books.refunds, EndRefund(f)
    PROVE  IInv' /\ Accounted
<1> DEFINE n == Len(books.credits)
           by == <<"refund", f>>
           refunds == [books.refunds EXCEPT ![f].ended = TRUE]
           seen == [books EXCEPT !.refunds = refunds]
           back == [c \in 1 .. n |-> -TakenBy(books.credits[c], by)]
<1>1. /\ Kept(books) /\ Fitting(books) /\ books \in Books
      /\ \A c \in 1 .. n : CreditKept(books.credits[c], 0)
  BY DEF IInv, Kept, Sound
<1>2. /\ n \in Nat /\ DOMAIN books.credits = 1 .. n
      /\ \A c \in 1 .. n : books.credits[c] \in Credit
      /\ books.refunds \in Seq(Refund) /\ Len(books.refunds) \in Nat
      /\ DOMAIN books.refunds = 1 .. Len(books.refunds)
      /\ books.refunds[f] \in Refund
  BY <1>1, BooksAre
<1>3. refunds \in Seq(Refund)
  <2>1. [books.refunds[f] EXCEPT !.ended = TRUE] \in Refund
    BY <1>2 DEF Refund
  <2> QED BY <1>2, <2>1
<1>9. /\ ~books.refunds[f].ended /\ books.refunds[f].amount > 0
      /\ Len(refunds) = Len(books.refunds) /\ refunds[f].ended
      /\ \A g \in 1 .. Len(books.refunds) : g # f => refunds[g] = books.refunds[g]
  BY <1>2, LedgerAssumption DEF EndRefund, Refund
<1>4. books' = EnteredAll(seen, by, back)
  <2>1. books' = [books EXCEPT
                    !.refunds = refunds,
                    !.credits = [c \in 1 .. n |-> Entered(books.credits[c], by, back[c])]]
    BY <1>2 DEF EndRefund
  <2>2. seen.credits = books.credits
    BY <1>1 DEF Books
  <2>3. EnteredAll(seen, by, back)
          = [seen EXCEPT !.credits = [c \in 1 .. n |-> Entered(books.credits[c], by, back[c])]]
    BY <1>2, <2>2 DEF EnteredAll
  <2> HIDE DEF back, refunds
  <2> QED BY <1>1, <2>1, <2>3 DEF Books
<1> HIDE DEF refunds
<1>10. ASSUME Tallying(books)
       PROVE  /\ IsSeen(books, seen) /\ Len(seen.refunds) = Len(books.refunds)
              /\ CasesOf(books) = CasesOf(seen) + CaseSum(books, by)
              /\ RefundedOf(books) = RefundedOf(seen) + books.refunds[f].amount
              /\ seen.refunds[f].ended
              /\ \A g \in 1 .. Len(books.refunds) : g # f => seen.refunds[g] = books.refunds[g]
  <2>1. RefundsFit(books) /\ f \in 1 .. Len(books.refunds)
    BY <1>2, <1>10 DEF Tallying
  <2>2. seen = [books EXCEPT !.refunds = refunds] /\ books \in Books
    BY <1>1
  <2> HIDE DEF n, back, seen
  <2> QED BY <1>3, <1>9, <2>1, <2>2, SeenEnded
<1>5. Kept(seen) /\ Fitting(seen) /\ seen.credits = books.credits
  BY <1>1, <1>3, RefundsKeep
<1> HIDE DEF seen
<1>6. by \in By /\ by[1] # "reversal" /\ IsRefund(by, f)
  BY <1>2 DEF By, IsRefund
<1> HIDE DEF by
<1>7. ASSUME NEW c \in 1 .. n
      PROVE  back[c] \in Int /\ MayEnter(books.credits[c], by, back[c], 0)
  <2> DEFINE cents == TakenBy(books.credits[c], by)
             credit == books.credits[c]
  <2>1. credit \in Credit /\ CreditKept(credit, 0)
    BY <1>1, <1>2
  <2>2. cents \in Nat /\ cents <= TakenBy(credit, by)
    BY <2>1, SpentNat DEF CreditKept
  <2>3. back[c] = -cents
    OBVIOUS
  <2> HIDE DEF cents, credit, back
  <2>4. MayEnter(credit, by, -cents, 0)
    BY <2>1, <2>2, MayReturn
  <2> QED BY <2>2, <2>3, <2>4 DEF credit
<1>8. back \in [1 .. Len(seen.credits) -> Int]
  BY <1>5, <1>7
<1>11. /\ back \in [1 .. n -> Int]
       /\ \A c \in 1 .. n : back[c] = -TakenBy(books.credits[c], by)
  BY <1>5, <1>8
<1> HIDE DEF back
<1>12. Kept(books') /\ Fitting(books') /\ IsEnteredAll(seen, by, back, books')
  BY <1>4, <1>5, <1>6, <1>7, <1>8, PaidOutKeeps
<1>13. ASSUME Tallying(books) PROVE Accounts(books, books')
  BY <1>1, <1>2, <1>6, <1>9, <1>10, <1>11, <1>12, <1>13, EndRefundAccounts
<1> QED BY <1>12, <1>13 DEF IInv, Accounted

LEMMA RecordPayoutKeeps ==
    ASSUME IInv, NEW c \in DOMAIN books.credits, NEW amount \in Returned, RecordPayout(c, amount)
    PROVE  IInv' /\ Accounted
<1> DEFINE n == Len(books.credits)
           by == <<"payout", 0>>
           cents == [e \in 1 .. n |-> IF e = c THEN amount ELSE 0]
<1>1. /\ Kept(books) /\ Fitting(books) /\ books \in Books
      /\ \A e \in 1 .. n : CreditKept(books.credits[e], 0)
  BY DEF IInv, Kept, Sound
<1>2. /\ n \in Nat /\ DOMAIN books.credits = 1 .. n
      /\ \A e \in 1 .. n : books.credits[e] \in Credit
      /\ books.credits \in Seq(Credit)
  BY <1>1, BooksAre
<1>3. /\ amount \in Nat /\ amount > 0 /\ amount <= OpenOf(books.credits[c])
      /\ books' = [books EXCEPT !.credits[c] = Entered(@, by, amount)]
  BY LedgerAssumption DEF RecordPayout
<1>4. books' = EnteredAll(books, by, cents)
  <2> DEFINE credits == [books.credits EXCEPT ![c] = Entered(books.credits[c], by, amount)]
             entered == [e \in 1 .. n |-> Entered(books.credits[e], by, cents[e])]
  <2>1. \A e \in 1 .. n : credits[e] = entered[e]
    <3> SUFFICES ASSUME NEW e \in 1 .. n
                 PROVE  credits[e] = entered[e]
      OBVIOUS
    <3>1. CASE e = c
      BY <1>2, <3>1
    <3>2. CASE e # c
      <4>1. Entered(books.credits[e], by, 0) = books.credits[e]
        BY DEF Entered
      <4> QED BY <1>2, <3>2, <4>1
    <3> QED BY <3>1, <3>2
  <2>2. DOMAIN credits = 1 .. n
    BY <1>2
  <2>3. credits = entered
    <3>1. credits = [e \in 1 .. n |-> credits[e]]
      BY <1>2
    <3> HIDE DEF credits
    <3> QED BY <2>1, <3>1
  <2>4. books' = [books EXCEPT !.credits = credits]
    BY <1>3
  <2>5. EnteredAll(books, by, cents) = [books EXCEPT !.credits = entered]
    BY <1>2 DEF EnteredAll
  <2> QED BY <2>3, <2>4, <2>5
<1>5. by \in By /\ by[1] # "reversal" /\ by = <<"payout", 0>>
  BY DEF By
<1> HIDE DEF by
<1>6. cents \in [1 .. n -> Int] /\ SumOf(cents) = amount
  <2>1. amount \in Int /\ c \in 1 .. n
    BY <1>2, <1>3
  <2> HIDE DEF n
  <2> QED BY <1>2, <2>1, SumOfOne
<1>7. ASSUME NEW e \in 1 .. n
      PROVE  MayEnter(books.credits[e], by, cents[e], 0)
  <2> DEFINE credit == books.credits[e]
             share == cents[e]
  <2>1. credit \in Credit /\ CreditKept(credit, 0) /\ OpenOf(credit) \in Nat
    BY <1>1, <1>2, OpenOfIs
  <2>2. share \in Int /\ 0 <= share /\ share <= OpenOf(credit)
    BY <1>3, <2>1
  <2> HIDE DEF credit, share
  <2>3. MayEnter(credit, by, share, 0)
    BY <2>1, <2>2, MaySpend
  <2> QED BY <2>3 DEF credit, share
<1> HIDE DEF cents
<1>8. Kept(books') /\ Fitting(books') /\ IsEnteredAll(books, by, cents, books')
  BY <1>1, <1>4, <1>5, <1>6, <1>7, PaidOutKeeps
<1>9. ASSUME Tallying(books) PROVE Accounts(books, books')
  BY <1>1, <1>2, <1>3, <1>5, <1>6, <1>8, <1>9, PayoutAccounts
<1> QED BY <1>8, <1>9 DEF IInv, Accounted

LEMMA NextKeeps ==
    IInv /\ [Next]_books => IInv' /\ Accounted
<1> SUFFICES ASSUME IInv, [Next]_books PROVE IInv' /\ Accounted
  OBVIOUS
<1>1. ASSUME NEW a \in Collected, RecordPayment(a) PROVE IInv' /\ Accounted
  BY <1>1, RecordPaymentKeeps
<1>2. ASSUME NEW i \in Invoices, CreditInvoice(i) PROVE IInv' /\ Accounted
  BY <1>2, CreditInvoiceKeeps
<1>3. CASE CancelInvoice
  BY <1>3, CancelInvoiceKeeps
<1>4. ASSUME NEW total \in Totals, ReplaceInvoice(total) PROVE IInv' /\ Accounted
  BY <1>4, ReplaceInvoiceKeeps
<1>5. ASSUME NEW p \in DOMAIN books.payments, NEW w \in Returned, NEW g \in 0 .. w,
             ReportNewReversal(p, w, g)
      PROVE  IInv' /\ Accounted
  BY <1>5, ReportNewReversalKeeps
<1>6. ASSUME NEW r \in DOMAIN books.reversals, NEW w \in Returned, NEW g \in {0} \cup Returned,
             ReportReversal(r, w, g)
      PROVE  IInv' /\ Accounted
  BY <1>6, ReportReversalKeeps
<1>7. ASSUME NEW p \in DOMAIN books.payments, NEW a \in Returned, NEW ended \in BOOLEAN,
             RecordRefund(p, a, ended)
      PROVE  IInv' /\ Accounted
  BY <1>7, RecordRefundKeeps
<1>8. ASSUME NEW f \in DOMAIN books.refunds, EndRefund(f) PROVE IInv' /\ Accounted
  BY <1>8, EndRefundKeeps
<1>9. ASSUME NEW c \in DOMAIN books.credits, NEW a \in Returned, RecordPayout(c, a) PROVE IInv' /\ Accounted
  BY <1>9, RecordPayoutKeeps
<1>10. CASE UNCHANGED books
  BY <1>10 DEF IInv, Accounted, Accounts, Tallying
<1> QED BY <1>1, <1>2, <1>3, <1>4, <1>5, <1>6, <1>7, <1>8, <1>9, <1>10 DEF Next

\* Of no rows nothing comes, and nothing is owed: the account starts at nothing.
LEMMA InitTallies ==
    Init => /\ RefundsFit(books)
            /\ AccountOf(books) = [f \in Account!Flows \cup Account!Positions |-> 0]
<1> SUFFICES ASSUME Init
             PROVE  /\ RefundsFit(books)
                    /\ AccountOf(books) = [f \in Account!Flows \cup Account!Positions |-> 0]
  OBVIOUS
<1>1. /\ Len(books.payments) = 0 /\ Len(books.credits) = 0 /\ Len(books.reversals) = 0
      /\ Len(books.refunds) = 0 /\ Len(books.cases) = 0
  BY DEF Init
<1>2. Kept(books) /\ books \in Books
  BY InitKeeps DEF IInv, Kept, Sound
<1>3. \A s \in [1 .. 0 -> Int] : SumOf(s) = 0
  <2> DEFINE none == 0
  <2>1. none \in Nat /\ \A i \in 1 .. none : FALSE
    OBVIOUS
  <2> HIDE DEF none
  <2>2. \A s \in [1 .. none -> Int] : SumOf(s) = 0
    BY <2>1, SumOfNothing
  <2> QED BY <2>2 DEF none
<1>4. \A by : HeldOf(books, by) = 0 /\ CaseSum(books, by) = 0
  BY <1>1, <1>2, <1>3, TableSums
<1>5. /\ CollectedOf(books) = 0 /\ UnspentOf(books) = 0 /\ GrantedOf(books) = 0
      /\ WithdrawnOf(books) = 0 /\ ReinstatedOf(books) = 0 /\ ToCasesOf(books) = 0
      /\ RefundedOf(books) = 0 /\ CasesOf(books) = 0
  BY <1>1, <1>2, <1>3, WholeSums
<1>6. SettledOf(books) = 0
  <2>1. Invoices = 1 .. MaxInvoices /\ MaxInvoices \in Nat
    BY RowsAre
  <2>2. \A i \in 1 .. MaxInvoices : SettledOn(books, i) = 0
    BY <1>1, <1>2, <1>3, <2>1, TableSums
  <2>3. \A i \in 1 .. MaxInvoices : SettledEach(books)[i] = 0
    BY <2>2 DEF SettledEach
  <2> QED BY <1>2, <2>1, <2>3, WholeSums, SumOfNothing
<1>7. WholeAccount(books) = [f \in Account!Flows \cup Account!Positions |-> 0]
  <2>1. HeldOf(books, <<"payout", 0>>) + RefundedOf(books) = 0 /\ CasesOf(books) - ToCasesOf(books) = 0
    BY <1>4, <1>5
  <2> QED BY <1>5, <1>6, <2>1 DEF WholeAccount, Account!Flows, Account!Positions
<1>8. RefundsFit(books)
  BY <1>1, <1>4 DEF RefundsFit
<1> QED BY <1>2, <1>7, <1>8, AccountIs

-----------------------------------------------------------------------------
(* The theorems                                                            *)

\* Between two reports the books are kept and every reversal's parts fit: what the
\* rest follows from.
THEOREM Invariance == Spec => []IInv
<1> QED BY InitKeeps, NextKeeps, PTL DEF Spec

\* The tables hold rows of their kinds: TypeOK.
THEOREM TypeCorrect == Spec => []TypeOK
<1>1. IInv => TypeOK
  <2> SUFFICES ASSUME IInv PROVE TypeOK
    OBVIOUS
  <2>1. books \in Books /\ Named(books)
    BY DEF IInv, Kept, Sound
  <2>2. \A i \in DOMAIN books.totals : books.totals[i] \in Totals
    BY <2>1, BooksAre
  <2>3. Len(books.totals) \in Invoices /\ books.standing \in 0 .. Len(books.totals)
    BY <2>1 DEF Named
  <2>4. \A p \in DOMAIN books.payments :
          books.payments[p] \in [amount : Collected, settles : [Invoices -> Int]]
    BY <2>1, BooksAre DEF Payment
  <2>5. ASSUME NEW c \in DOMAIN books.credits
        PROVE  LET credit == books.credits[c]
               IN /\ credit.amount \in Nat \ {0}
                  /\ credit.origin \in {"payment", "reversal", "invoice"} \X Nat
                  /\ \A i \in DOMAIN credit.entries :
                       credit.entries[i] \in [by : By, cents : Int]
    <3>1. books.credits[c] \in Credit
      BY <2>1, BooksAre
    <3>2. /\ books.credits[c].amount \in Nat \ {0}
          /\ books.credits[c].origin \in Origins
      BY <3>1 DEF Credit
    <3>3. \A i \in DOMAIN books.credits[c].entries : books.credits[c].entries[i] \in Entry
      BY <3>1, EntriesOf
    <3> QED BY <3>2, <3>3 DEF Origins, Entry
  <2>6. ASSUME NEW r \in DOMAIN books.reversals
        PROVE  books.reversals[r] \in
                 [payment : DOMAIN books.payments, amount : Nat, fromCredit : Nat,
                  reinstated : Nat, toCases : Nat, opened : [Invoices -> Int]]
    BY <2>1, BooksAre DEF Named, Reversal
  <2>7. \A f \in DOMAIN books.refunds :
          books.refunds[f] \in [amount : Returned, ended : BOOLEAN]
    BY <2>1, BooksAre DEF Refund
  <2>8. \A k \in DOMAIN books.cases : books.cases[k] \in [by : By, amount : Nat \ {0}]
    BY <2>1, BooksAre DEF Case
  <2> QED BY <2>2, <2>3, <2>4, <2>5, <2>6, <2>7, <2>8 DEF TypeOK
<1> QED BY <1>1, Invariance, PTL

\* However refunds, payouts, reversals and covers follow each other, a credit pays
\* out no more than it is of, and payments settle no invoice beyond its total nor
\* by less than nothing: NothingBeyond.
THEOREM NothingBeyondAlways == Spec => []NothingBeyond
<1>1. IInv => NothingBeyond
  <2> SUFFICES ASSUME IInv PROVE NothingBeyond
    OBVIOUS
  <2>1. /\ books \in Books /\ SettlesKept(books)
        /\ \A c \in 1 .. Len(books.credits) : CreditKept(books.credits[c], 0)
    BY DEF IInv, Kept, Sound
  <2>2. ASSUME NEW c \in DOMAIN books.credits
        PROVE  Total(books.credits[c].entries, LAMBDA e : e.cents) \in 0 .. books.credits[c].amount
    <3>1. books.credits[c] \in Credit /\ CreditKept(books.credits[c], 0)
      BY <2>1, BooksAre
    <3>2. Spent(books.credits[c]) \in Nat /\ books.credits[c].amount \in Nat
      BY <3>1, SpentNat, RowsAre DEF CreditKept
    <3>3. Spent(books.credits[c]) <= books.credits[c].amount
      BY <3>1, <3>2 DEF CreditKept
    <3>4. Spent(books.credits[c]) \in 0 .. books.credits[c].amount
      BY <3>2, <3>3
    <3> QED BY <3>4 DEF Spent
  <2>3. \A p \in DOMAIN books.payments : \A i \in Invoices : books.payments[p].settles[i] >= 0
    BY <2>1, BooksAre DEF SettlesKept
  <2>4. \A i \in DOMAIN books.totals : SettledOn(books, i) <= AtLeastZero(books.totals[i])
    BY <2>1, BooksAre DEF SettlesKept
  <2> QED BY <2>2, <2>3, <2>4 DEF NothingBeyond
<1> QED BY <1>1, Invariance, PTL

\* What a reversal holds of the credits, opened of the invoices and left to
\* reconcile comes to what it withdrew and was not given back, and none of it is
\* negative, whatever covers were given and lifted: PartsComeToTheAmount.
THEOREM PartsComeToTheAmountAlways == Spec => []PartsComeToTheAmount
<1>1. IInv => PartsComeToTheAmount
  <2> SUFFICES ASSUME IInv PROVE PartsComeToTheAmount
    OBVIOUS
  <2>1. /\ books \in Books /\ Named(books) /\ Fitting(books)
        /\ \A c \in 1 .. Len(books.credits) : CreditKept(books.credits[c], 0)
    BY DEF IInv, Kept, Sound
  <2> SUFFICES ASSUME NEW r \in DOMAIN books.reversals
               PROVE  LET by == <<"reversal", r>>
                          reversal == books.reversals[r]
                          unmatched == CaseSum(books, by) - reversal.toCases
                          reopened == SumOf(ReopenedByStanding(books, r)) - CreditedFor(r)
                      IN /\ unmatched >= 0 /\ reopened >= 0
                         /\ \A c \in DOMAIN books.credits : TakenBy(books.credits[c], by) >= 0
                         /\ unmatched + reopened
                              + Total(books.credits, LAMBDA credit : TakenBy(credit, by))
                              = reversal.amount - reversal.reinstated
    BY DEF PartsComeToTheAmount
  <2> DEFINE by == <<"reversal", r>>
  <2>2. r \in 1 .. Len(books.reversals)
    BY <2>1, BooksAre
  <2>3. CreditedFor(r) = CreditsOf(books, by)
    BY DEF CreditedFor, CreditsOf
  <2>4. SumOf(ReopenedByStanding(books, r)) - CreditedFor(r) = Reopened(books, r)
    BY <2>1, <2>2, <2>3, ReopenedIs DEF Reopened
  <2>5. CaseSum(books, by) - books.reversals[r].toCases = Unmatched(books, r)
    BY DEF Unmatched
  <2>6. Total(books.credits, LAMBDA credit : TakenBy(credit, by)) = HeldOf(books, by)
    BY DEF HeldOf
  <2>7. ASSUME NEW c \in DOMAIN books.credits
        PROVE  TakenBy(books.credits[c], by) >= 0
    <3>1. books.credits[c] \in Credit /\ CreditKept(books.credits[c], 0)
      BY <2>1, BooksAre
    <3>2. TakenBy(books.credits[c], by) \in Nat
      BY <3>1, SpentNat DEF CreditKept
    <3> QED BY <3>2
  <2>8. /\ Unmatched(books, r) >= 0 /\ Reopened(books, r) >= 0
        /\ Unmatched(books, r) + Reopened(books, r) + HeldOf(books, by) + 0
             = books.reversals[r].amount - books.reversals[r].reinstated
    BY <2>1, <2>2 DEF Fitting, Fits
  <2>9. Unmatched(books, r) \in Int /\ Reopened(books, r) \in Int /\ HeldOf(books, by) \in Int
    BY <2>1, TableSums, <2>2, BooksAre, ReopenedIs, RowsAre DEF Unmatched, Reopened
  <2>10. Unmatched(books, r) + Reopened(books, r) + HeldOf(books, by)
           = books.reversals[r].amount - books.reversals[r].reinstated
    <3> DEFINE a == Unmatched(books, r)
               e == Reopened(books, r)
               h == HeldOf(books, by)
    <3>1. /\ a \in Int /\ e \in Int /\ h \in Int
          /\ a + e + h + 0 = books.reversals[r].amount - books.reversals[r].reinstated
      BY <2>8, <2>9
    <3> HIDE DEF a, e, h
    <3>2. a + e + h = books.reversals[r].amount - books.reversals[r].reinstated
      BY <3>1
    <3> QED BY <3>2 DEF a, e, h
  <2> HIDE DEF by
  <2>11. CaseSum(books, by) - books.reversals[r].toCases >= 0
         /\ SumOf(ReopenedByStanding(books, r)) - CreditedFor(r) >= 0
    BY <2>4, <2>5, <2>8
  <2>12. CaseSum(books, by) - books.reversals[r].toCases
           + (SumOf(ReopenedByStanding(books, r)) - CreditedFor(r))
           + Total(books.credits, LAMBDA credit : TakenBy(credit, by))
           = books.reversals[r].amount - books.reversals[r].reinstated
    BY <2>4, <2>5, <2>6, <2>10
  <2> QED BY <2>7, <2>11, <2>12 DEF by
<1> QED BY <1>1, Invariance, PTL

\* Every step of the ledger is a step of SubscriberAccount or leaves the account
\* as it is: no row it writes makes or loses a cent, and what each moves goes the
\* one way the account allows.
THEOREM KeepsTheAccountAlways == Spec => KeepsTheAccount
<1>1. Init => Tallying(books) /\ Account!Init
  <2> SUFFICES ASSUME Init PROVE Tallying(books) /\ Account!Init
    OBVIOUS
  <2>1. Account!Init /\ RefundsFit(books)
    BY InitTallies DEF Account!Init
  <2>2. AccountOf(books) = [f \in Account!Flows \cup Account!Positions |-> 0]
    BY InitTallies
  <2>3. Account!Balanced(AccountOf(books))
    BY <2>2 DEF Account!Balanced, Account!Held, Account!Flows, Account!Positions
  <2> QED BY <2>1, <2>3 DEF Tallying
<1>2. IInv /\ Tallying(books) /\ [Next]_books
        => Tallying(books)' /\ [Account!Next]_(AccountOf(books))
  <2> SUFFICES ASSUME IInv, Tallying(books), [Next]_books
               PROVE  Tallying(books)' /\ (Account!Next \/ UNCHANGED AccountOf(books))
    OBVIOUS
  <2>1. Accounts(books, books')
    BY NextKeeps DEF Accounted
  <2>2. RefundsFit(books') /\ (AccountOf(books') = AccountOf(books)
                               \/ Account!Step(AccountOf(books), AccountOf(books')))
    BY <2>1 DEF Accounts
  <2>3. Account!Balanced(AccountOf(books'))
    BY <2>2 DEF Tallying, Account!Step
  <2>4. Account!Step(AccountOf(books), AccountOf(books')) => Account!Next
    BY DEF Account!Next
  <2> QED BY <2>2, <2>3, <2>4 DEF Tallying
<1> QED BY <1>1, <1>2, Invariance, PTL DEF Spec, KeepsTheAccount, Account!Spec
=============================================================================
