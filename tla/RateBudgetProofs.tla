-------------------------- MODULE RateBudgetProofs --------------------------
(***************************************************************************)
(* No bucket pays for more orders than its rate allows, over any window,   *)
(* and refills are exact: asking a bucket changes nothing and the wait it  *)
(* names suffices; for every set of rates, agents and reserves and every   *)
(* resolution of a token.                                                  *)
(***************************************************************************)
EXTENDS RateBudget, TLAPS

USE MicroAssumption, RatesAssumption, BudgetAssumption

\* What the bucket owes to the charges s it paid: since each of them it has
\* accrued no more than a full bucket, the refill of the time since, and a
\* remainder.
Paid(b, s) ==
    \A i \in DOMAIN s :
        /\ s[i] <= b.last
        /\ b.tokens * b.rate.perMs + b.carry + (Len(s) - i + 1) * (MICRO * b.rate.perMs)
               <= Capacity(b.rate) * b.rate.perMs + (b.last - s[i]) * Capacity(b.rate)
                  + b.rate.perMs - 1

\* A bucket and the charges it has paid since it was built.
Sound(b, s) ==
    /\ b \in Bucket
    /\ s \in Seq(Times)
    /\ Paid(b, s)
    /\ WithinRate(s, b.rate)

\* The components of a bucket.
LEMMA BucketFields ==
    ASSUME NEW b \in Bucket
    PROVE  /\ b.rate \in Rates /\ b.rate.count \in Nat
           /\ b.rate.perMs \in Nat /\ b.rate.perMs > 0
           /\ Capacity(b.rate) \in Nat
           /\ b.tokens \in Nat /\ b.tokens <= Capacity(b.rate)
           /\ b.last \in Times /\ b.last \in Nat
           /\ b.carry \in Nat /\ b.carry < b.rate.perMs
BY DEF Bucket, Capacity, Times

\* Division with remainder.
LEMMA Division ==
    ASSUME NEW n \in Nat, NEW d \in Nat, d > 0
    PROVE  /\ n \div d \in Nat /\ n % d \in Nat /\ n % d < d
           /\ n % d = n - (n \div d) * d
BY Z3

\* Products distribute.
LEMMA Distribute ==
    ASSUME NEW x \in Int, NEW y \in Int, NEW z \in Int
    PROVE  /\ (x + y) * z = x * z + y * z
           /\ (x - y) * z = x * z - y * z
BY Z3

\* Products keep an order.
LEMMA ProductOrder ==
    ASSUME NEW x \in Int, NEW y \in Int, NEW z \in Nat, x <= y
    PROVE  x * z <= y * z
BY Z3

\* Products of integers are integers, of naturals naturals.
LEMMA ProductType ==
    /\ \A x, y \in Int : x * y \in Int
    /\ \A x, y \in Nat : x * y \in Nat
BY Z3

\* A refill accrues what the elapsed time is worth and no more.
LEMMA RefillAccrues ==
    ASSUME NEW b \in Bucket, NEW t \in Times, b.last <= t
    PROVE  LET c == Refill(b, t)
           IN /\ c \in Bucket /\ c.rate = b.rate /\ c.last = t
              /\ c.tokens * b.rate.perMs + c.carry
                     <= b.tokens * b.rate.perMs + b.carry
                        + (t - b.last) * Capacity(b.rate)
<1> DEFINE c == Refill(b, t)
           d == b.rate.perMs
           n == Numerator(b, t)
           K == Capacity(b.rate)
           e == (t - b.last) * K
<1>1. d \in Nat /\ d > 0 /\ K \in Nat /\ b.tokens \in Nat /\ b.tokens <= K
      /\ b.carry \in Nat /\ b.carry < d /\ t \in Nat /\ b.last \in Nat
  BY BucketFields DEF Times
<1>2. e \in Nat
  <2>1. t - b.last \in Nat
    BY <1>1
  <2> QED
    BY <1>1, <2>1
<1>3. n = e + b.carry /\ n \in Nat
  BY <1>1, <1>2 DEF Numerator
<1>4. /\ n \div d \in Nat /\ n % d \in Nat /\ n % d < d
      /\ n % d = n - (n \div d) * d
  <2> HIDE DEF n, d
  <2> QED BY <1>1, <1>3, Division
<1>5. Gained(b, t) = b.tokens + n \div d
  BY DEF Gained
<1>6. /\ c.rate = b.rate /\ c.last = t
      /\ c.tokens = IF Fills(b, t) THEN K ELSE Gained(b, t)
      /\ c.carry = IF Fills(b, t) THEN 0 ELSE n % d
      /\ c = [rate |-> c.rate, tokens |-> c.tokens, last |-> c.last, carry |-> c.carry]
  BY DEF Refill
<1>7. Fills(b, t) <=> n >= d /\ Gained(b, t) >= K
  BY DEF Fills
<1>8. (b.tokens + n \div d) * d = b.tokens * d + (n \div d) * d
  <2> HIDE DEF n, d
  <2> QED BY <1>1, <1>4, Distribute
<1>9. CASE Fills(b, t)
  <2>1. K * d <= (b.tokens + n \div d) * d
    <3> HIDE DEF n, d, K
    <3> QED BY <1>1, <1>4, <1>5, <1>7, <1>9, ProductOrder
  <2>2. b.tokens * d \in Nat /\ (n \div d) * d \in Nat /\ K * d \in Nat
    <3> HIDE DEF n, d, K
    <3> QED BY <1>1, <1>4
  <2>3. c.tokens * d + c.carry <= b.tokens * d + b.carry + e
    <3> HIDE DEF n, d, K, e, c
    <3> QED BY <1>1, <1>2, <1>3, <1>4, <1>6, <1>8, <1>9, <2>1, <2>2
  <2>4. c \in Bucket
    BY <1>1, <1>6, <1>9, BucketFields DEF Bucket
  <2> QED
    BY <1>6, <2>3, <2>4
<1>10. CASE ~Fills(b, t)
  <2>1. b.tokens * d \in Nat /\ (n \div d) * d \in Nat
    <3> HIDE DEF n, d, K
    <3> QED BY <1>1, <1>4
  <2>2. c.tokens * d + c.carry = b.tokens * d + b.carry + e
    <3> HIDE DEF n, d, K, e, c
    <3> QED BY <1>1, <1>2, <1>3, <1>4, <1>5, <1>6, <1>8, <1>10, <2>1
  <2>3. Gained(b, t) <= K
    <3>1. CASE n < d
      <4>1. n \div d = 0
        <5> HIDE DEF n, d
        <5> QED BY <1>1, <1>3, <3>1, Z3
      <4> QED
        BY <1>1, <1>5, <4>1
    <3>2. CASE n >= d
      <4> HIDE DEF n, d, K
      <4> QED BY <1>1, <1>4, <1>5, <1>7, <1>10, <3>2
    <3> QED
      <4> HIDE DEF n, d
      <4> QED BY <1>1, <1>3, <3>1, <3>2
  <2>4. c.tokens \in Nat /\ c.tokens <= K /\ c.carry \in Nat /\ c.carry < d
    <3> HIDE DEF n, d, K, c
    <3> QED BY <1>1, <1>4, <1>5, <1>6, <1>10, <2>3
  <2>5. c \in Bucket
    <3> HIDE DEF n, c
    <3> QED BY <1>1, <1>6, <2>4, BucketFields DEF Bucket
  <2> QED
    <3>1. c.tokens * d + c.carry <= b.tokens * d + b.carry + e
      <4> HIDE DEF n, d, K, e, c
      <4> QED BY <1>1, <1>2, <2>1, <2>2
    <3> QED
      BY <1>6, <2>5, <3>1
<1> QED
  BY <1>9, <1>10

\* A bucket is built full and has paid for nothing.
LEMMA SoundNew ==
    ASSUME NEW r \in Rates, NEW t \in Times
    PROVE  Sound(NewBucket(r, t), << >>)
<1>1. NewBucket(r, t) \in Bucket
  BY DEF NewBucket, Bucket, Capacity, Times
<1> QED
  BY <1>1 DEF Sound, Paid, WithinRate

\* A refill raises what the bucket may have and what it may owe alike.
LEMMA SoundRefill ==
    ASSUME NEW b, NEW s, Sound(b, s), NEW t \in Times, b.last <= t
    PROVE  Sound(Refill(b, t), s)
<1> DEFINE c == Refill(b, t)
           d == b.rate.perMs
           K == Capacity(b.rate)
<1>1. b \in Bucket /\ s \in Seq(Times) /\ Paid(b, s) /\ WithinRate(s, b.rate)
  BY DEF Sound
<1>2. /\ c \in Bucket /\ c.rate = b.rate /\ c.last = t
      /\ c.tokens * d + c.carry <= b.tokens * d + b.carry + (t - b.last) * K
  BY <1>1, RefillAccrues
<1>3. Paid(c, s)
  <2> SUFFICES ASSUME NEW i \in DOMAIN s
               PROVE  /\ s[i] <= t
                      /\ c.tokens * d + c.carry + (Len(s) - i + 1) * (MICRO * d)
                             <= K * d + (t - s[i]) * K + d - 1
    BY <1>2 DEF Paid
  <2>1. /\ s[i] <= b.last
        /\ b.tokens * d + b.carry + (Len(s) - i + 1) * (MICRO * d)
               <= K * d + (b.last - s[i]) * K + d - 1
    BY <1>1 DEF Paid
  <2>2. s[i] \in Int /\ Len(s) \in Nat /\ i \in Int /\ t \in Int
    BY <1>1 DEF Times
  <2>3. /\ d \in Nat /\ K \in Nat /\ b.tokens \in Nat /\ b.carry \in Nat
        /\ b.last \in Int /\ c.tokens \in Nat /\ c.carry \in Nat
    BY <1>1, <1>2, BucketFields
  <2>4. (t - s[i]) * K = (t - b.last) * K + (b.last - s[i]) * K
    <3> HIDE DEF K
    <3>1. (t - b.last) * K = t * K - b.last * K
      BY <2>2, <2>3, Distribute
    <3>2. (b.last - s[i]) * K = b.last * K - s[i] * K
      BY <2>2, <2>3, Distribute
    <3>3. (t - s[i]) * K = t * K - s[i] * K
      BY <2>2, <2>3, Distribute
    <3> QED
      BY <2>2, <2>3, <3>1, <3>2, <3>3
  <2> DEFINE had == b.tokens * d
             has == c.tokens * d
             paid == (Len(s) - i + 1) * (MICRO * d)
             full == K * d
             before == (b.last - s[i]) * K
             since == (t - b.last) * K
  <2>5. had \in Int /\ has \in Int /\ paid \in Int /\ full \in Int
        /\ before \in Int /\ since \in Int
    <3>1. /\ d \in Int /\ K \in Int /\ b.tokens \in Int /\ c.tokens \in Int /\ MICRO \in Int
          /\ Len(s) - i + 1 \in Int /\ b.last - s[i] \in Int /\ t - b.last \in Int
      <4> HIDE DEF d, K, c
      <4> QED BY <2>2, <2>3
    <3>2. MICRO * d \in Int
      BY <3>1, ProductType
    <3> HIDE DEF d, K, c
    <3> QED
      BY <3>1, <3>2, ProductType, Zenon
  <2>6. has + c.carry <= had + b.carry + since
    BY <1>2
  <2>7. had + b.carry + paid <= full + before + d - 1
    BY <2>1
  <2>8. has + c.carry + paid <= full + (since + before) + d - 1
    <3> HIDE DEF had, has, paid, full, before, since, d, c
    <3> QED BY <2>3, <2>5, <2>6, <2>7
  <2>9. s[i] <= t
    BY <2>1, <2>2, <2>3
  <2> QED
    BY <2>4, <2>8, <2>9
<1> QED
  BY <1>1, <1>2, <1>3 DEF Sound

\* A take of a token lowers what the bucket has.
LEMMA TakeFields ==
    ASSUME NEW b \in Bucket, HasToken(b)
    PROVE  /\ Take(b) \in Bucket /\ Take(b).rate = b.rate /\ Take(b).last = b.last
           /\ Take(b).carry = b.carry /\ Take(b).tokens = b.tokens - MICRO
           /\ Take(b).tokens * b.rate.perMs = b.tokens * b.rate.perMs - MICRO * b.rate.perMs
<1>1. /\ Take(b).rate = b.rate /\ Take(b).last = b.last
      /\ Take(b).carry = b.carry /\ Take(b).tokens = b.tokens - MICRO
      /\ Take(b) \in [rate : Rates, tokens : Nat, last : Times, carry : Nat]
  BY BucketFields DEF Take, Bucket, HasToken
<1>2. Take(b) \in Bucket
  BY <1>1, BucketFields DEF Bucket
<1>3. Take(b).tokens * b.rate.perMs = b.tokens * b.rate.perMs - MICRO * b.rate.perMs
  BY <1>1, BucketFields, Distribute
<1> QED
  BY <1>1, <1>2, <1>3

\* A take that is not charged to an order (a cancel, or an order the shared
\* bucket refuses afterwards) leaves the bucket with less.
LEMMA SoundTake ==
    ASSUME NEW b, NEW s, Sound(b, s), HasToken(b)
    PROVE  Sound(Take(b), s)
<1> DEFINE d == b.rate.perMs
           K == Capacity(b.rate)
<1>1. b \in Bucket /\ s \in Seq(Times) /\ Paid(b, s) /\ WithinRate(s, b.rate)
  BY DEF Sound
<1>2. /\ Take(b) \in Bucket /\ Take(b).rate = b.rate /\ Take(b).last = b.last
      /\ Take(b).carry = b.carry /\ Take(b).tokens * d = b.tokens * d - MICRO * d
  BY <1>1, TakeFields
<1>3. Paid(Take(b), s)
  <2> SUFFICES ASSUME NEW i \in DOMAIN s
               PROVE  b.tokens * d - MICRO * d + b.carry + (Len(s) - i + 1) * (MICRO * d)
                          <= K * d + (b.last - s[i]) * K + d - 1
    BY <1>1, <1>2 DEF Paid
  <2>1. b.tokens * d + b.carry + (Len(s) - i + 1) * (MICRO * d)
            <= K * d + (b.last - s[i]) * K + d - 1
    BY <1>1 DEF Paid
  <2>2. /\ d \in Nat /\ K \in Nat /\ b.tokens \in Nat /\ b.carry \in Nat
        /\ b.last \in Int /\ s[i] \in Int /\ Len(s) \in Nat /\ i \in Int
    BY <1>1, BucketFields DEF Times
  <2> DEFINE had == b.tokens * d
             one == MICRO * d
             paid == (Len(s) - i + 1) * (MICRO * d)
             full == K * d
             before == (b.last - s[i]) * K
  <2>3. had \in Int /\ one \in Int /\ paid \in Int /\ full \in Int /\ before \in Int
    <3>1. /\ d \in Int /\ K \in Int /\ b.tokens \in Int /\ MICRO \in Int
          /\ Len(s) - i + 1 \in Int /\ b.last - s[i] \in Int
      <4> HIDE DEF d, K
      <4> QED BY <2>2
    <3>2. MICRO * d \in Int
      BY <3>1, ProductType
    <3> HIDE DEF d, K
    <3> QED
      BY <3>1, <3>2, ProductType, Zenon
  <2>4. one >= 0
    BY <2>2, ProductOrder
  <2>5. had + b.carry + paid <= full + before + d - 1
    BY <2>1
  <2>6. had - one + b.carry + paid <= full + before + d - 1
    <3> HIDE DEF had, one, paid, full, before, d
    <3> QED BY <2>2, <2>3, <2>4, <2>5
  <2> QED
    BY <2>6
<1> QED
  BY <1>1, <1>2, <1>3 DEF Sound

\* A charge pays with a token what it adds to the bucket's debt.
LEMMA PaidCharge ==
    ASSUME NEW b, NEW s, Sound(b, s), HasToken(b)
    PROVE  Paid(Take(b), Append(s, b.last))
<1> DEFINE d == b.rate.perMs
           K == Capacity(b.rate)
           u == Append(s, b.last)
           one == MICRO * d
           had == b.tokens * d
           full == K * d
<1>1. b \in Bucket /\ s \in Seq(Times) /\ Paid(b, s)
  BY DEF Sound
<1>2. /\ Take(b).rate = b.rate /\ Take(b).last = b.last
      /\ Take(b).carry = b.carry /\ Take(b).tokens * d = had - one
  BY <1>1, TakeFields
<1>3. /\ d \in Nat /\ d > 0 /\ K \in Nat /\ b.tokens \in Nat /\ b.tokens <= K
      /\ b.carry \in Nat /\ b.carry < d /\ b.last \in Times /\ b.last \in Nat
  BY <1>1, BucketFields
<1>4. /\ Len(s) \in Nat /\ Len(u) = Len(s) + 1 /\ DOMAIN u = 1 .. Len(s) + 1
      /\ \A i \in 1 .. Len(s) : u[i] = s[i] /\ s[i] \in Times /\ i \in DOMAIN s
      /\ u[Len(s) + 1] = b.last
  BY <1>1, <1>3
<1>5. one \in Int /\ had \in Int /\ full \in Int /\ had <= full
  <2> HIDE DEF d, K
  <2> QED BY <1>3, ProductType, ProductOrder
<1> SUFFICES ASSUME NEW i \in DOMAIN u
             PROVE  /\ u[i] <= b.last
                    /\ had - one + b.carry + (Len(u) - i + 1) * one
                           <= full + (b.last - u[i]) * K + d - 1
  BY <1>2 DEF Paid
<1>6. CASE i = Len(s) + 1
  <2>1. (Len(u) - i + 1) * one = one
    <3>1. Len(u) - i + 1 = 1
      BY <1>4, <1>6
    <3> HIDE DEF one
    <3> QED BY <1>5, <3>1
  <2>2. (b.last - u[i]) * K = 0
    <3>1. b.last - u[i] = 0
      BY <1>3, <1>4, <1>6
    <3> HIDE DEF K
    <3> QED BY <1>3, <3>1
  <2>3. had - one + b.carry + one <= full + 0 + d - 1
    <3> HIDE DEF had, one, full, d, K
    <3> QED BY <1>3, <1>5
  <2>4. u[i] <= b.last
    BY <1>3, <1>4, <1>6
  <2> QED
    BY <2>1, <2>2, <2>3, <2>4
<1>7. CASE i \in 1 .. Len(s)
  <2> DEFINE paid == (Len(s) - i + 1) * one
             before == (b.last - s[i]) * K
  <2>1. s[i] <= b.last /\ had + b.carry + paid <= full + before + d - 1
    BY <1>1, <1>4, <1>7 DEF Paid
  <2>2. Len(s) - i + 1 \in Int /\ Len(u) - i + 1 = (Len(s) - i + 1) + 1
    BY <1>4, <1>7
  <2>3. (Len(u) - i + 1) * one = paid + one
    <3>1. ((Len(s) - i + 1) + 1) * one = paid + 1 * one
      <4> HIDE DEF one
      <4> QED BY <1>5, <2>2, Distribute
    <3> HIDE DEF one, paid
    <3> QED BY <1>5, <2>2, <3>1
  <2>4. paid \in Int /\ before \in Int
    <3>1. b.last - s[i] \in Int /\ K \in Int
      BY <1>3, <1>4, <1>7 DEF Times
    <3> HIDE DEF one, K
    <3> QED BY <1>5, <2>2, <3>1, ProductType, Zenon
  <2>5. had - one + b.carry + (paid + one) <= full + before + d - 1
    <3> HIDE DEF had, one, full, d, K, paid, before
    <3> QED BY <1>3, <1>5, <2>1, <2>4
  <2> QED
    BY <1>4, <1>7, <2>1, <2>3, <2>5
<1> QED
  BY <1>4, <1>6, <1>7

\* A charged take leaves every window within the rate.
LEMMA SoundCharge ==
    ASSUME NEW b, NEW s, Sound(b, s), HasToken(b)
    PROVE  Sound(Take(b), Append(s, b.last))
<1> DEFINE r == b.rate
           d == b.rate.perMs
           K == Capacity(b.rate)
           u == Append(s, b.last)
           one == MICRO * d
<1>1. b \in Bucket /\ s \in Seq(Times) /\ WithinRate(s, r)
  BY DEF Sound
<1>2. Take(b) \in Bucket /\ Take(b).rate = r /\ Take(b).last = b.last
  BY <1>1, TakeFields
<1>3. Paid(Take(b), u)
  BY PaidCharge
<1>4. /\ d \in Nat /\ K \in Nat /\ b.last \in Times /\ r.count \in Nat
      /\ Take(b).tokens \in Nat /\ Take(b).carry \in Nat
  BY <1>1, <1>2, BucketFields
<1>5. /\ Len(s) \in Nat /\ Len(u) = Len(s) + 1 /\ DOMAIN u = 1 .. Len(s) + 1
      /\ \A i \in 1 .. Len(s) : u[i] = s[i] /\ s[i] \in Times /\ i \in DOMAIN s
      /\ u[Len(s) + 1] = b.last /\ u \in Seq(Times)
  BY <1>1, <1>4
<1>6. WithinRate(u, r)
  <2> SUFFICES ASSUME NEW i \in DOMAIN u, NEW j \in DOMAIN u, i <= j
               PROVE  (j - i + 1 - r.count) * MICRO * d <= (u[j] - u[i]) * K + d - 1
    BY DEF WithinRate
  <2>1. CASE j \in 1 .. Len(s)
    <3>1. i \in 1 .. Len(s)
      BY <1>5, <2>1
    <3> QED
      BY <1>1, <1>5, <2>1, <3>1 DEF WithinRate
  <2>2. CASE j = Len(s) + 1
    <3> DEFINE left == Take(b).tokens * d
               paid == (j - i + 1) * one
               full == r.count * one
               since == (u[j] - u[i]) * K
    <3>1. i \in Int /\ j \in Int /\ MICRO \in Int /\ u[j] - u[i] \in Int /\ j - i + 1 \in Int
      <4>1. u[i] \in Times /\ u[j] \in Times
        <5> HIDE DEF u
        <5> QED BY <1>4, <1>5
      <4>2. u[i] \in Int /\ u[j] \in Int
        <5> HIDE DEF u
        <5> QED BY <4>1 DEF Times
      <4> HIDE DEF u
      <4> QED BY <1>5, <4>2
    <3>2. one \in Int /\ left \in Nat /\ paid \in Int /\ full \in Int /\ since \in Int
      <4>1. d \in Int /\ K \in Int /\ r.count \in Int
        BY <1>4
      <4>2. one \in Int
        <5> HIDE DEF d
        <5> QED BY <3>1, <4>1, ProductType, Zenon
      <4>3. left \in Nat
        <5> HIDE DEF d
        <5> QED BY <1>4, ProductType, Zenon
      <4> HIDE DEF one, K, r
      <4> QED BY <3>1, <4>1, <4>2, <4>3, ProductType, Zenon
    <3>3. K * d = full
      <4>1. K = r.count * MICRO
        BY DEF Capacity
      <4> HIDE DEF d, K, r
      <4> QED BY <1>4, <3>1, <4>1, Z3
    <3>4. (j - i + 1 - r.count) * MICRO * d = paid - full
      <4>1. (j - i + 1 - r.count) * MICRO * d = (j - i + 1 - r.count) * one
        <5>1. j - i + 1 - r.count \in Int
          BY <1>4, <3>1
        <5> DEFINE x == j - i + 1 - r.count
        <5> HIDE DEF d, x
        <5>2. x * MICRO * d = x * (MICRO * d)
          BY <1>4, <3>1, <5>1, Z3 DEF x
        <5> QED BY <5>2 DEF x
      <4>2. (j - i + 1 - r.count) * one = paid - full
        <5> HIDE DEF one, r
        <5> QED BY <1>4, <3>1, <3>2, Distribute
      <4> QED BY <4>1, <4>2
    <3>5. left + Take(b).carry + paid <= K * d + since + d - 1
      BY <1>2, <1>3, <1>5, <2>2 DEF Paid
    <3>6. paid - full <= since + d - 1
      <4>1. left + Take(b).carry + paid <= full + since + d - 1
        BY <3>3, <3>5
      <4> HIDE DEF left, paid, full, since, d
      <4> QED BY <1>4, <3>2, <4>1
    <3> QED
      BY <3>4, <3>6
  <2> QED
    BY <1>5, <2>1, <2>2
<1> QED
  BY <1>2, <1>3, <1>5, <1>6 DEF Sound

-----------------------------------------------------------------------------
(* The engine's buckets.                                                   *)

\* Every bucket the engine holds is sound for the charges it has paid.
Inductive ==
    /\ TypeOK
    /\ \A a \in DOMAIN buckets : Sound(buckets[a], charged[a])
    /\ Sound(global, charged[Shared])

\* The engine starts with a full shared bucket and none for the agents.
LEMMA InductiveInit == Init => Inductive
<1> SUFFICES ASSUME Init PROVE Inductive
  OBVIOUS
<1>1. global = NewBucket(budget.rate, 0) /\ charged[Shared] = << >> /\ budget.rate \in Rates
  BY DEF Init, Budgets
<1>2. Sound(global, charged[Shared])
  <2>1. 0 \in Times
    BY DEF Times
  <2> QED
    BY <1>1, <2>1, SoundNew
<1>3. global \in Bucket /\ global.rate = budget.rate
  BY <1>1, <1>2 DEF Sound, NewBucket
<1>4. DOMAIN buckets = {} /\ buckets \in [DOMAIN buckets -> Bucket]
      /\ sparse \in [DOMAIN buckets -> Bucket]
  BY DEF Init
<1>5. charged \in [Agents \cup {Shared} -> Seq(Times)]
  BY DEF Init
<1> QED
  BY <1>2, <1>3, <1>4, <1>5 DEF Init, Inductive, TypeOK

\* The bucket a decision works on is sound for the charges it goes on from.
LEMMA BucketMutSound ==
    ASSUME Inductive, NEW a \in Agents
    PROVE  Sound(BucketMut(a), Since(a)) /\ BucketMut(a) \in Bucket
<1>1. CASE Kept(a)
  BY <1>1 DEF Inductive, Kept, BucketMut, Since, Sound
<1>2. CASE ~Kept(a)
  BY <1>2, SoundNew DEF Inductive, TypeOK, BucketMut, Since, Sound
<1> QED
  BY <1>1, <1>2

\* Whatever sound bucket a decision leaves the agent with, the agents' part
\* of the invariant holds again.
LEMMA AgentsKept ==
    ASSUME Inductive, NEW a \in Agents, NEW b, NEW s, Sound(b, s),
           buckets' = With(buckets, a, b),
           charged'[a] = s,
           \A x \in Agents \ {a} : charged'[x] = charged[x]
    PROVE  \A x \in (DOMAIN buckets)' : Sound(buckets'[x], charged'[x])
BY DEF Inductive, TypeOK, With

\* The types of the maps a decision extends.
LEMMA MapsTyped ==
    ASSUME Inductive, NEW a \in Agents, NEW b \in Bucket, NEW c \in Bucket,
           buckets' = With(buckets, a, b),
           sparse' = With(sparse, a, c) \/ (sparse' = sparse /\ a \in DOMAIN buckets)
    PROVE  /\ (DOMAIN buckets)' \subseteq Agents /\ buckets' \in [(DOMAIN buckets)' -> Bucket]
           /\ sparse' \in [(DOMAIN buckets)' -> Bucket]
<1>1. /\ DOMAIN buckets \subseteq Agents /\ buckets \in [DOMAIN buckets -> Bucket]
      /\ sparse \in [DOMAIN buckets -> Bucket]
  BY DEF Inductive, TypeOK
<1>2. buckets' \in [DOMAIN buckets \cup {a} -> Bucket]
  BY <1>1 DEF With
<1>3. (DOMAIN buckets)' = DOMAIN buckets \cup {a}
  BY <1>2
<1>4. CASE sparse' = With(sparse, a, c)
  <2>1. sparse' \in [DOMAIN buckets \cup {a} -> Bucket]
    BY <1>1, <1>4 DEF With
  <2> QED
    BY <1>1, <1>2, <1>3, <2>1
<1>5. CASE sparse' = sparse /\ a \in DOMAIN buckets
  <2>1. DOMAIN buckets \cup {a} = DOMAIN buckets
    BY <1>5
  <2> QED
    BY <1>1, <1>2, <1>3, <1>5, <2>1
<1> QED
  BY <1>4, <1>5

\* Every decision and every change of the configuration keeps every bucket
\* sound.
LEMMA InductiveNext == Inductive /\ [Next]_vars => Inductive'
<1> SUFFICES ASSUME Inductive, [Next]_vars PROVE Inductive'
  OBVIOUS
<1>1. /\ now \in Times /\ rate \in [Agents -> Rates] /\ budget \in Budgets
      /\ global \in Bucket /\ global.rate = budget.rate
      /\ charged \in [Agents \cup {Shared} -> Seq(Times)]
      /\ Shared \notin Agents
      /\ Sound(global, charged[Shared])
  BY DEF Inductive, TypeOK
\* A decision that leaves the agent's bucket b sound for the charges s.
<1>2. ASSUME NEW a \in Agents, NEW b, NEW s, NEW c \in Bucket, NEW g, NEW q,
             Sound(b, s), Sound(g, q), g.rate = global.rate,
             buckets' = With(buckets, a, b),
             sparse' = With(sparse, a, c) \/ (sparse' = sparse /\ a \in DOMAIN buckets),
             global' = g,
             charged' = [charged EXCEPT ![a] = s, ![Shared] = q],
             UNCHANGED <<now, rate, budget>>
      PROVE  Inductive'
  <2>1. b \in Bucket /\ s \in Seq(Times) /\ g \in Bucket /\ q \in Seq(Times)
    BY <1>2 DEF Sound
  <2>2. /\ charged' \in [Agents \cup {Shared} -> Seq(Times)]
        /\ charged'[a] = s /\ charged'[Shared] = q
        /\ \A x \in Agents \ {a} : charged'[x] = charged[x]
    BY <1>1, <1>2, <2>1
  <2>3. \A x \in (DOMAIN buckets)' : Sound(buckets'[x], charged'[x])
    BY <1>2, <2>2, AgentsKept
  <2>4. /\ (DOMAIN buckets)' \subseteq Agents /\ buckets' \in [(DOMAIN buckets)' -> Bucket]
        /\ sparse' \in [(DOMAIN buckets)' -> Bucket]
    BY <1>2, <2>1, MapsTyped
  <2>5. TypeOK'
    BY <1>1, <1>2, <2>1, <2>2, <2>4 DEF TypeOK
  <2> QED
    BY <1>2, <2>2, <2>3, <2>5 DEF Inductive
\* The shared bucket refilled, if the clock allows it.
<1> DEFINE G == IF ClockAdvances(global, now) THEN Refill(global, now) ELSE global
<1>4. Sound(G, charged[Shared]) /\ G.rate = global.rate
  BY <1>1, SoundRefill, RefillAccrues DEF ClockAdvances
\* The histories a decision leaves.
<1>5. ASSUME NEW a \in Agents, NEW s
      PROVE  [charged EXCEPT ![a] = s]
                 = [charged EXCEPT ![a] = s, ![Shared] = charged[Shared]]
  BY <1>1
<1>6. ASSUME NEW a \in Agents, NEW b, SetBucket(a, b)
      PROVE  /\ buckets' = With(buckets, a, b)
             /\ \/ sparse' = With(sparse, a, NewBucket(rate[a], now))
                \/ sparse' = sparse /\ a \in DOMAIN buckets
             /\ NewBucket(rate[a], now) \in Bucket
  BY <1>1, <1>6, SoundNew DEF SetBucket, Kept, Sound
<1>7. ASSUME NEW a \in Agents, ClockAdvances(BucketMut(a), now)
      PROVE  /\ Sound(Refill(BucketMut(a), now), Since(a))
             /\ Refill(BucketMut(a), now).last = now
  BY <1>1, <1>7, BucketMutSound, SoundRefill, RefillAccrues DEF ClockAdvances
<1> HIDE DEF G
<1>10. ASSUME NEW a \in Agents, RefusedUnmetered(a)
       PROVE  Inductive'
  <2>1. SetBucket(a, BucketMut(a)) /\ UNCHANGED <<now, rate, budget, global>>
        /\ charged' = [charged EXCEPT ![a] = Since(a), ![Shared] = charged[Shared]]
    BY <1>5, <1>10 DEF RefusedUnmetered
  <2> QED
    BY <1>1, <1>2, <1>6, <2>1, BucketMutSound
<1>11. ASSUME NEW a \in Agents, OrderRate(a)
       PROVE  Inductive'
  <2>1. SetBucket(a, Refill(BucketMut(a), now)) /\ UNCHANGED <<now, rate, budget, global>>
        /\ ClockAdvances(BucketMut(a), now)
        /\ charged' = [charged EXCEPT ![a] = Since(a), ![Shared] = charged[Shared]]
    BY <1>5, <1>11 DEF OrderRate
  <2> QED
    BY <1>1, <1>2, <1>6, <1>7, <2>1
<1>12. ASSUME NEW a \in Agents, DecideUncharged(a)
       PROVE  Inductive'
  <2>1. SetBucket(a, Refill(BucketMut(a), now)) /\ UNCHANGED <<now, rate, budget>>
        /\ ClockAdvances(BucketMut(a), now) /\ global' = G
        /\ charged' = [charged EXCEPT ![a] = Since(a), ![Shared] = charged[Shared]]
    BY <1>5, <1>12 DEF DecideUncharged, G
  <2> QED
    BY <1>1, <1>2, <1>4, <1>6, <1>7, <2>1
<1>13. ASSUME NEW a \in Agents, GlobalRateBudget(a)
       PROVE  Inductive'
  <2> DEFINE paid == Take(Refill(BucketMut(a), now))
  <2>1. /\ HasToken(Refill(BucketMut(a), now)) /\ ClockAdvances(BucketMut(a), now)
        /\ buckets' = With(buckets, a, paid) /\ sparse' = With(sparse, a, paid)
        /\ global' = G /\ UNCHANGED <<now, rate, budget>>
        /\ charged' = [charged EXCEPT ![a] = Since(a), ![Shared] = charged[Shared]]
    BY <1>5, <1>13 DEF GlobalRateBudget, G
  <2>2. Sound(paid, Since(a)) /\ paid \in Bucket
    BY <1>7, <2>1, SoundTake DEF Sound
  <2> HIDE DEF paid
  <2> QED
    BY <1>1, <1>2, <1>4, <2>1, <2>2
<1>14. ASSUME NEW a \in Agents, Clear(a)
       PROVE  Inductive'
  <2> DEFINE paid == Take(Refill(BucketMut(a), now))
             spent == Take(Refill(global, now))
  <2>1. /\ HasToken(Refill(BucketMut(a), now)) /\ ClockAdvances(BucketMut(a), now)
        /\ HasToken(Refill(global, now)) /\ ClockAdvances(global, now)
        /\ buckets' = With(buckets, a, paid) /\ sparse' = With(sparse, a, paid)
        /\ global' = spent /\ UNCHANGED <<now, rate, budget>>
        /\ charged' = [charged EXCEPT ![a] = Append(Since(a), now),
                                      ![Shared] = Append(charged[Shared], now)]
    BY <1>1, <1>14 DEF Clear, GlobalRefuses
  <2>2. Sound(paid, Append(Since(a), now)) /\ paid \in Bucket
    BY <1>7, <2>1, SoundCharge DEF Sound
  <2>3. /\ Sound(Refill(global, now), charged[Shared]) /\ Refill(global, now) \in Bucket
        /\ Refill(global, now).last = now /\ Refill(global, now).rate = global.rate
    BY <1>1, <2>1, SoundRefill, RefillAccrues DEF ClockAdvances
  <2>4. Sound(spent, Append(charged[Shared], now)) /\ spent.rate = global.rate
    BY <2>1, <2>3, SoundCharge, TakeFields
  <2> HIDE DEF paid, spent
  <2> QED
    BY <1>1, <1>2, <2>1, <2>2, <2>4
<1>15. CASE DrawGlobalReserve
  <2>1. /\ UNCHANGED <<now, rate, buckets, budget, charged, sparse>>
        /\ global' \in {G, Take(Refill(global, now))}
        /\ global' # G => HasToken(Refill(global, now)) /\ ClockAdvances(global, now)
    BY <1>15 DEF DrawGlobalReserve, G
  <2>2. Sound(global', charged[Shared]) /\ global'.rate = global.rate
    <3>1. CASE global' = G
      BY <1>4, <3>1
    <3>2. CASE global' # G
      <4>1. Sound(Refill(global, now), charged[Shared]) /\ Refill(global, now) \in Bucket
            /\ Refill(global, now).rate = global.rate
        BY <1>1, <2>1, <3>2, SoundRefill, RefillAccrues DEF ClockAdvances
      <4> QED
        BY <2>1, <3>2, <4>1, SoundTake, TakeFields
    <3> QED
      BY <3>1, <3>2
  <2>3. global' \in Bucket
    BY <2>2 DEF Sound
  <2> QED
    BY <2>1, <2>2, <2>3 DEF Inductive, TypeOK
<1>16. ASSUME NEW b \in Budgets, SetGlobalRateBudget(b)
       PROVE  Inductive'
  <2>1. b.rate \in Rates
    BY DEF Budgets
  <2>2. CASE global.rate = b.rate
    BY <1>16, <2>2 DEF SetGlobalRateBudget, Inductive, TypeOK
  <2>3. CASE global.rate # b.rate
    <3>1. /\ global' = NewBucket(b.rate, now) /\ budget' = b
          /\ charged' = [charged EXCEPT ![Shared] = << >>]
          /\ UNCHANGED <<now, rate, buckets, sparse>>
      BY <1>16, <2>3 DEF SetGlobalRateBudget
    <3>2. Sound(global', << >>) /\ global' \in Bucket /\ global'.rate = b.rate
      BY <1>1, <2>1, <3>1, SoundNew DEF Sound, NewBucket
    <3>3. /\ charged' \in [Agents \cup {Shared} -> Seq(Times)] /\ charged'[Shared] = << >>
          /\ \A x \in Agents : charged'[x] = charged[x]
      BY <1>1, <3>1
    <3> QED
      BY <3>1, <3>2, <3>3 DEF Inductive, TypeOK
  <2> QED
    BY <2>2, <2>3
<1>17. ASSUME NEW a \in Agents, NEW r \in Rates, SetOrderRate(a, r)
       PROVE  Inductive'
  BY <1>17 DEF SetOrderRate, Inductive, TypeOK
<1>18. CASE Clock
  BY <1>18 DEF Clock, Inductive, TypeOK
<1>19. CASE UNCHANGED vars
  BY <1>19 DEF vars, Inductive, TypeOK
<1> QED
  BY <1>10, <1>11, <1>12, <1>13, <1>14, <1>15, <1>16, <1>17, <1>18, <1>19 DEF Next

\* No agent gets more orders past its bucket than its rate allows, and all of
\* them together no more than the address-wide budget allows, over any window
\* and at any polling, whatever the clock does (RateBound).
THEOREM OrdersWithinRate == Spec => []RateBound
<1>1. Inductive => RateBound
  BY DEF Inductive, RateBound, Sound
<1> QED
  BY <1>1, InductiveInit, InductiveNext, PTL DEF Spec

-----------------------------------------------------------------------------
(* Refills are exact.                                                      *)

\* A quotient is what its bounds leave.
LEMMA DivisionBounds ==
    ASSUME NEW m \in Nat, NEW d \in Nat, d > 0, NEW k \in Nat, k * d <= m
    PROVE  k <= m \div d
BY Z3

\* Whole multiples come out of a quotient.
LEMMA DivisionShift ==
    ASSUME NEW n \in Nat, NEW d \in Nat, d > 0, NEW q \in Nat
    PROVE  (q * d + n) \div d = q + n \div d
BY Z3

\* A larger number has no smaller quotient.
LEMMA DivisionOrder ==
    ASSUME NEW m \in Nat, NEW n \in Nat, m <= n, NEW d \in Nat, d > 0
    PROVE  m \div d <= n \div d
BY Z3

\* What a refill is worth, in fractions and their remainder.
LEMMA NumeratorFacts ==
    ASSUME NEW b \in Bucket, NEW t \in Nat, b.last <= t
    PROVE  /\ Numerator(b, t) = (t - b.last) * Capacity(b.rate) + b.carry
           /\ (t - b.last) * Capacity(b.rate) \in Nat
           /\ Numerator(b, t) \in Nat /\ Numerator(b, t) \div b.rate.perMs \in Nat
           /\ Gained(b, t) = b.tokens + Numerator(b, t) \div b.rate.perMs /\ Gained(b, t) \in Nat
<1> DEFINE d == b.rate.perMs
           K == Capacity(b.rate)
           n == Numerator(b, t)
<1>1. d \in Nat /\ d > 0 /\ K \in Nat /\ b.tokens \in Nat /\ b.carry \in Nat /\ b.last \in Nat
  BY BucketFields
<1>2. t - b.last \in Nat
  BY <1>1
<1>3. (t - b.last) * K \in Nat
  <2> HIDE DEF K
  <2> QED BY <1>1, <1>2, ProductType
<1>4. n = (t - b.last) * K + b.carry
  BY DEF Numerator
<1>5. n \in Nat
  <2> HIDE DEF n, K
  <2> QED BY <1>1, <1>3, <1>4
<1>6. n \div d \in Nat
  <2> HIDE DEF n, d
  <2> QED BY <1>1, <1>5, Division
<1>7. Gained(b, t) = b.tokens + n \div d
  BY DEF Gained
<1>8. Gained(b, t) \in Nat
  <2> HIDE DEF n, d
  <2> QED BY <1>1, <1>6, <1>7
<1> QED
  BY <1>3, <1>4, <1>5, <1>6, <1>7, <1>8

\* A refill leaves what was there and what was gained, up to the capacity.
LEMMA RefillCaps ==
    ASSUME NEW b \in Bucket, NEW t \in Nat, b.last <= t
    PROVE  Refill(b, t).tokens = IF Gained(b, t) >= Capacity(b.rate) THEN Capacity(b.rate)
                                                                    ELSE Gained(b, t)
<1> DEFINE d == b.rate.perMs
           K == Capacity(b.rate)
           n == Numerator(b, t)
           G == Gained(b, t)
<1>1. /\ d \in Nat /\ d > 0 /\ K \in Nat /\ b.tokens \in Nat /\ b.tokens <= K
      /\ n \in Nat /\ G \in Nat /\ G = b.tokens + n \div d
  BY BucketFields, NumeratorFacts
<1>2. Refill(b, t).tokens = IF n >= d /\ G >= K THEN K ELSE G
  BY DEF Refill, Fills
<1>3. n < d => n \div d = 0
  <2> HIDE DEF n, d
  <2> QED BY <1>1, Z3
<1> HIDE DEF d, K, n, G
<1>4. n < d => G <= K
  BY <1>1, <1>3
<1>5. Refill(b, t).tokens = IF G >= K THEN K ELSE G
  BY <1>1, <1>2, <1>4
<1> QED
  BY <1>5 DEF G, K

\* Asking in between changes nothing: two refills leave the tokens that one
\* would.
LEMMA RefillComposes ==
    ASSUME NEW b \in Bucket, NEW t \in Times, NEW u \in Times, b.last <= t, t <= u
    PROVE  Refill(Refill(b, t), u).tokens = Refill(b, u).tokens
<1> DEFINE c == Refill(b, t)
           d == b.rate.perMs
           K == Capacity(b.rate)
           n == Numerator(b, t)
           q == n \div d
           e == (u - t) * K
<1>1. c \in Bucket /\ c.rate = b.rate /\ c.last = t
  BY RefillAccrues
<1>2. t \in Nat /\ u \in Nat /\ b.last <= u /\ b.last \in Nat
  BY BucketFields DEF Times
<1>3. /\ d \in Nat /\ d > 0 /\ K \in Nat /\ b.tokens \in Nat /\ b.carry \in Nat
      /\ c.tokens \in Nat /\ c.carry \in Nat
  BY <1>1, BucketFields
<1>4. /\ n = (t - b.last) * K + b.carry /\ (t - b.last) * K \in Nat /\ n \in Nat /\ q \in Nat
      /\ Gained(b, t) = b.tokens + q
  BY <1>2, NumeratorFacts
<1>5. /\ Numerator(c, u) = e + c.carry /\ e \in Nat
      /\ Gained(c, u) = c.tokens + (e + c.carry) \div d /\ Gained(c, u) \in Nat
  BY <1>1, <1>2, NumeratorFacts
<1>6. Numerator(b, u) = n + e
  <2>1. Numerator(b, u) = (u - b.last) * K + b.carry
    BY <1>2, NumeratorFacts
  <2>2. (u - b.last) * K = e + (t - b.last) * K
    <3>1. u - b.last = (u - t) + (t - b.last) /\ u - t \in Int /\ t - b.last \in Int
      BY <1>2
    <3> HIDE DEF K
    <3> QED BY <1>3, <3>1, Distribute
  <2> HIDE DEF e, K, n
  <2> QED BY <1>3, <1>4, <1>5, <2>1, <2>2
<1>7. Gained(b, u) = b.tokens + (n + e) \div d /\ Gained(b, u) \in Nat
  BY <1>2, <1>6, NumeratorFacts
<1>8. /\ Refill(c, u).tokens = IF Gained(c, u) >= K THEN K ELSE Gained(c, u)
      /\ Refill(b, u).tokens = IF Gained(b, u) >= K THEN K ELSE Gained(b, u)
  BY <1>1, <1>2, RefillCaps
<1>9. CASE Fills(b, t)
  <2>1. c.tokens = K /\ b.tokens + q >= K
    BY <1>4, <1>9 DEF Refill, Fills
  <2>2. (e + c.carry) \div d \in Nat
    <3>1. e + c.carry \in Nat
      <4> HIDE DEF c, e
      <4> QED BY <1>3, <1>5
    <3> HIDE DEF c, e, d
    <3> QED BY <1>3, <3>1, Division
  <2>3. q <= (n + e) \div d /\ (n + e) \div d \in Nat
    <3>1. n + e \in Nat /\ n <= n + e
      <4> HIDE DEF n, e
      <4> QED BY <1>4, <1>5
    <3> HIDE DEF n, e, d
    <3> QED BY <1>3, <1>4, <3>1, DivisionOrder, Division DEF q
  <2> HIDE DEF c, d, K, n, q, e
  <2>4. Gained(c, u) >= K /\ Gained(b, u) >= K
    BY <1>3, <1>4, <1>5, <1>7, <2>1, <2>2, <2>3
  <2> QED
    BY <1>8, <2>4 DEF c
<1>10. CASE ~Fills(b, t)
  <2>1. c.tokens = b.tokens + q /\ c.carry = n % d
    BY <1>4, <1>10 DEF Refill
  <2>2. n = q * d + c.carry
    <3>1. n % d = n - q * d
      <4> HIDE DEF n, d
      <4> QED BY <1>3, <1>4, Division DEF q
    <3>2. q * d \in Int
      <4> HIDE DEF q, d
      <4> QED BY <1>3, <1>4, ProductType
    <3> DEFINE m == q * d
    <3> HIDE DEF m, c, n, d
    <3> QED BY <1>3, <1>4, <2>1, <3>1, <3>2 DEF m
  <2>3. (n + e) \div d = q + (e + c.carry) \div d
    <3> DEFINE x == e + c.carry
    <3>1. x \in Nat
      <4> HIDE DEF c, e
      <4> QED BY <1>3, <1>5
    <3>2. n + e = q * d + x
      <4>1. q * d \in Int
        <5> HIDE DEF q, d
        <5> QED BY <1>3, <1>4, ProductType
      <4> DEFINE m == q * d
      <4> HIDE DEF m, c, n, d, e
      <4> QED BY <1>3, <1>5, <2>2, <4>1 DEF m
    <3> HIDE DEF x, q, d
    <3>3. (q * d + x) \div d = q + x \div d
      BY <1>3, <1>4, <3>1, DivisionShift
    <3> QED BY <3>2, <3>3 DEF x
  <2>4. (e + c.carry) \div d \in Nat
    <3>1. e + c.carry \in Nat
      <4> HIDE DEF c, e
      <4> QED BY <1>3, <1>5
    <3> HIDE DEF c, e, d
    <3> QED BY <1>3, <3>1, Division
  <2> HIDE DEF c, d, K, n, q, e
  <2>5. Gained(c, u) = Gained(b, u)
    BY <1>3, <1>4, <1>5, <1>7, <2>1, <2>3, <2>4
  <2> QED
    BY <1>8, <2>5 DEF c
<1> QED
  BY <1>9, <1>10

\* The wait that is named, rounded up, accrues the fractions that are missing.
LEMMA WaitSuffices ==
    ASSUME NEW b \in Bucket, ~HasToken(b), RetryAfterMs(b) # Never
    PROVE  HasToken(Refill(b, b.last + RetryAfterMs(b)))
<1> DEFINE d == b.rate.perMs
           K == Capacity(b.rate)
           missing == MICRO - b.tokens
           w == RetryAfterMs(b)
           t == b.last + w
           p == missing * d
<1>1. /\ d \in Nat /\ d > 0 /\ K \in Nat /\ b.tokens \in Nat /\ b.carry \in Nat /\ b.last \in Nat
      /\ b.rate.count \in Nat /\ MICRO \in Nat /\ MICRO > 0
  BY BucketFields
<1>2. K > 0 /\ w = (p + K - 1) \div K
  BY <1>1 DEF RetryAfterMs
<1>3. missing \in Nat /\ missing > 0
  BY <1>1 DEF HasToken
<1>4. p \in Nat
  <2> HIDE DEF missing, d
  <2> QED BY <1>1, <1>3, ProductType
<1>5. w \in Nat /\ p <= w * K
  <2> DEFINE m == p + K - 1
  <2>1. m \in Nat
    <3> HIDE DEF p, K
    <3> QED BY <1>1, <1>2, <1>4
  <2>2. m \div K \in Nat /\ m % K \in Nat /\ m % K < K /\ m % K = m - (m \div K) * K
    <3> HIDE DEF m, K
    <3> QED BY <1>1, <1>2, <2>1, Division
  <2>3. (m \div K) * K \in Int
    <3> HIDE DEF m, K
    <3> QED BY <1>1, <2>2, ProductType
  <2> DEFINE v == (m \div K) * K
             r == m % K
  <2>4. p <= v
    <3>1. r \in Nat /\ r < K /\ r = m - v /\ v \in Int /\ m = p + K - 1
      BY <2>2, <2>3
    <3> HIDE DEF v, r, m, p, K
    <3> QED BY <1>1, <1>4, <3>1
  <2> HIDE DEF w, p, K
  <2> QED BY <1>2, <2>2, <2>4
<1>6. t \in Nat /\ b.last <= t /\ t - b.last = w
  <2> HIDE DEF w
  <2> QED BY <1>1, <1>5
<1>7. Gained(b, t) >= MICRO /\ Gained(b, t) \in Nat
  <2> DEFINE n == Numerator(b, t)
  <2>1. n = w * K + b.carry /\ n \in Nat /\ Gained(b, t) = b.tokens + n \div d
        /\ Gained(b, t) \in Nat /\ n \div d \in Nat
    BY <1>6, NumeratorFacts
  <2>2. w * K \in Nat
    <3> HIDE DEF w, K
    <3> QED BY <1>1, <1>5, ProductType
  <2>3. missing * d <= n
    <3> DEFINE x == w * K
    <3>1. p <= x /\ x \in Nat /\ n = x + b.carry
      BY <1>5, <2>1, <2>2
    <3> HIDE DEF x, n, p
    <3>2. p <= n
      BY <1>1, <1>4, <2>1, <3>1
    <3> QED BY <3>2 DEF p
  <2> HIDE DEF n, d
  <2>4. missing <= n \div d
    <3> HIDE DEF missing
    <3> QED BY <1>1, <1>3, <2>1, <2>3, DivisionBounds
  <2> HIDE DEF t
  <2> QED BY <1>1, <2>1, <2>4
<1>8. K >= MICRO
  <2>1. K = b.rate.count * MICRO
    BY DEF Capacity
  <2>2. b.rate.count # 0
    <3>1. b.rate.count = 0 => K = 0
      BY <1>1, <2>1
    <3> QED BY <1>2, <3>1
  <2> DEFINE k == b.rate.count
  <2>3. 1 * MICRO <= k * MICRO
    <3>1. 1 <= k /\ k \in Int
      BY <1>1, <2>2
    <3> HIDE DEF k
    <3> QED BY <1>1, <3>1, ProductOrder
  <2> QED BY <1>1, <2>1, <2>3
<1>9. Refill(b, t).tokens = IF Gained(b, t) >= K THEN K ELSE Gained(b, t)
  BY <1>6, RefillCaps
<1> HIDE DEF t, K
<1>10. Refill(b, t).tokens >= MICRO
  BY <1>7, <1>8, <1>9
<1> QED
  BY <1>10 DEF HasToken, t, w

\* What an agent's bucket holds from now on is what it would hold had nobody
\* asked since the last charge.
AsUnasked(b, s) ==
    \A t \in b.last .. MaxTime : Refill(b, t).tokens = Refill(s, t).tokens

\* A refill in between is one nobody asked for.
LEMMA UnaskedRefill ==
    ASSUME NEW b \in Bucket, NEW s, AsUnasked(b, s), NEW t \in Times, b.last <= t
    PROVE  AsUnasked(Refill(b, t), s)
<1>1. Refill(b, t).last = t /\ b.last \in Nat /\ t \in Nat /\ MaxTime \in Nat
  BY RefillAccrues, BucketFields DEF Times
<1> SUFFICES ASSUME NEW u \in t .. MaxTime
             PROVE  Refill(Refill(b, t), u).tokens = Refill(s, u).tokens
  BY <1>1 DEF AsUnasked
<1>2. u \in Times /\ t <= u /\ u \in b.last .. MaxTime
  BY <1>1 DEF Times
<1>3. Refill(Refill(b, t), u).tokens = Refill(b, u).tokens
  BY <1>2, RefillComposes
<1>4. Refill(b, u).tokens = Refill(s, u).tokens
  BY <1>2 DEF AsUnasked
<1> QED
  BY <1>3, <1>4

\* The bucket a decision works on, before it is refilled, and the one nobody
\* asked.
LEMMA BucketMutUnasked ==
    ASSUME Inductive, PollingIsFree, NEW a \in Agents
    PROVE  AsUnasked(BucketMut(a), IF Kept(a) THEN sparse[a] ELSE NewBucket(rate[a], now))
<1>1. CASE Kept(a)
  BY <1>1 DEF PollingIsFree, Kept, BucketMut, AsUnasked
<1>2. CASE ~Kept(a)
  BY <1>2 DEF BucketMut, AsUnasked
<1> QED
  BY <1>1, <1>2

\* One agent's buckets change and stay as if nobody had asked.
LEMMA PollingKept ==
    ASSUME Inductive, PollingIsFree, NEW a \in Agents, NEW b, NEW s,
           buckets' = With(buckets, a, b), a \in (DOMAIN sparse)', sparse'[a] = s,
           \A x \in DOMAIN buckets \ {a} : sparse'[x] = sparse[x],
           AsUnasked(b, s)
    PROVE  PollingIsFree'
<1>1. (DOMAIN buckets)' = DOMAIN buckets \cup {a} /\ buckets'[a] = b
      /\ \A x \in DOMAIN buckets \ {a} : buckets'[x] = buckets[x]
  BY DEF With
<1> SUFFICES ASSUME NEW x \in DOMAIN buckets \cup {a}, NEW t \in buckets'[x].last .. MaxTime
             PROVE  Refill(buckets'[x], t).tokens = Refill(sparse'[x], t).tokens
  BY <1>1 DEF PollingIsFree
<1>2. CASE x = a
  BY <1>1, <1>2 DEF AsUnasked
<1>3. CASE x # a
  BY <1>1, <1>3 DEF PollingIsFree
<1> QED
  BY <1>2, <1>3

\* Every decision leaves the buckets as if nobody had asked.
LEMMA PollingNext == Inductive /\ PollingIsFree /\ [Next]_vars => PollingIsFree'
<1> SUFFICES ASSUME Inductive, PollingIsFree, [Next]_vars PROVE PollingIsFree'
  OBVIOUS
<1>1. /\ now \in Times /\ DOMAIN sparse = DOMAIN buckets
      /\ \A a \in Agents : BucketMut(a) \in Bucket
  BY BucketMutSound DEF Inductive, TypeOK
<1>2. ASSUME NEW a \in Agents, NEW b, SetBucket(a, b),
             AsUnasked(b, IF Kept(a) THEN sparse[a] ELSE NewBucket(rate[a], now))
      PROVE  PollingIsFree'
  <2>1. CASE Kept(a)
    <3>1. buckets' = With(buckets, a, b) /\ sparse' = sparse /\ a \in DOMAIN sparse
      BY <1>1, <1>2, <2>1 DEF SetBucket, Kept
    <3> QED
      BY <1>2, <2>1, <3>1, PollingKept
  <2>2. CASE ~Kept(a)
    <3>1. /\ buckets' = With(buckets, a, b) /\ sparse' = With(sparse, a, NewBucket(rate[a], now))
          /\ a \in (DOMAIN sparse)' /\ sparse'[a] = NewBucket(rate[a], now)
          /\ \A x \in DOMAIN buckets \ {a} : sparse'[x] = sparse[x]
      BY <1>1, <1>2, <2>2 DEF SetBucket, With
    <3> QED
      BY <1>2, <2>2, <3>1, PollingKept
  <2> QED
    BY <2>1, <2>2
<1>3. ASSUME NEW a \in Agents, ClockAdvances(BucketMut(a), now)
      PROVE  AsUnasked(Refill(BucketMut(a), now),
                       IF Kept(a) THEN sparse[a] ELSE NewBucket(rate[a], now))
  BY <1>1, <1>3, BucketMutUnasked, UnaskedRefill DEF ClockAdvances
<1>4. ASSUME NEW a \in Agents, NEW b, buckets' = With(buckets, a, b), sparse' = With(sparse, a, b)
      PROVE  PollingIsFree'
  <2>1. /\ a \in (DOMAIN sparse)' /\ sparse'[a] = b
        /\ \A x \in DOMAIN buckets \ {a} : sparse'[x] = sparse[x]
    BY <1>1, <1>4 DEF With
  <2>2. AsUnasked(b, b)
    BY DEF AsUnasked
  <2> QED
    BY <1>4, <2>1, <2>2, PollingKept
<1>10. ASSUME NEW a \in Agents, RefusedUnmetered(a)
       PROVE  PollingIsFree'
  BY <1>2, <1>10, BucketMutUnasked DEF RefusedUnmetered
<1>11. ASSUME NEW a \in Agents, OrderRate(a)
       PROVE  PollingIsFree'
  BY <1>2, <1>3, <1>11 DEF OrderRate
<1>12. ASSUME NEW a \in Agents, DecideUncharged(a)
       PROVE  PollingIsFree'
  BY <1>2, <1>3, <1>12 DEF DecideUncharged
<1>13. ASSUME NEW a \in Agents, GlobalRateBudget(a) \/ Clear(a)
       PROVE  PollingIsFree'
  BY <1>4, <1>13 DEF GlobalRateBudget, Clear
<1>14. CASE UNCHANGED <<buckets, sparse>>
  BY <1>14 DEF PollingIsFree
<1>15. DrawGlobalReserve \/ Clock \/ UNCHANGED vars
       \/ (\E b \in Budgets : SetGlobalRateBudget(b))
       \/ (\E a \in Agents, r \in Rates : SetOrderRate(a, r))
       => UNCHANGED <<buckets, sparse>>
  BY DEF DrawGlobalReserve, Clock, vars, SetGlobalRateBudget, SetOrderRate
<1> QED
  BY <1>10, <1>11, <1>12, <1>13, <1>14, <1>15 DEF Next

\* Asking a bucket is free, and an agent that waits for as long as the refusal
\* names finds a token (RefillsAreExact: TokenBucket::refill and
\* BucketError::Empty), for every rate, resolution and clock.
THEOREM RefillsExact == Spec => []RefillsAreExact
<1>1. Init => PollingIsFree
  BY DEF Init, PollingIsFree
<1>2. Inductive => RetrySuffices
  BY WaitSuffices DEF Inductive, TypeOK, RetrySuffices
<1>3. Inductive /\ PollingIsFree => RefillsAreExact
  BY <1>2 DEF Inductive, RefillsAreExact
<1> QED
  BY <1>1, <1>3, InductiveInit, InductiveNext, PollingNext, PTL DEF Spec
=============================================================================
