----------------------- MODULE MixtralReferenceProofs -----------------------
(***************************************************************************)
(* For any configs, logits and number of experts, tokens and attempts, any *)
(* upstream history and any interleaving of fetch and reference run: the   *)
(* router keeps the top_k experts, what the loader accepts the kernels run *)
(* without a panic, and what lies under a file's own name is one complete  *)
(* download.                                                               *)
(***************************************************************************)
EXTENDS MixtralReference, Recurrences, FiniteSetTheorems, FunctionTheorems, TLAPS

-----------------------------------------------------------------------------
(* The router.                                                             *)
(* The row that insert_topk keeps.                                         *)
Slots(k) == [1..k -> [logit : Int \cup {NaN, NegInf}, expert : Nat \cup {NoExpert}]]

LEMMA SmallestSlot ==
  ASSUME NEW T, T \subseteq Nat, T # {}
  PROVE  Min(T) \in T /\ \A x \in T : Min(T) <= x
<1>1. \E x \in T : \A y \in T : x <= y
  BY SmallestOf
<1>. QED BY <1>1 DEF Min

LEMMA InsertStays ==
  ASSUME NEW k \in Nat, NEW kept \in Slots(k),
         NEW c \in [logit : Int \cup {NaN, NegInf}, expert : Nat \cup {NoExpert}]
  PROVE  InsertTopK(kept, c) \in Slots(k)
<1>. DEFINE B == Beaten(kept, c)
            at == Min(B)
<1>1. DOMAIN kept = 1..k /\ B \subseteq 1..k
  BY DEF Slots, Beaten
<1>2. CASE B = {}
  BY <1>2 DEF InsertTopK
<1>3. CASE B # {}
  <2>1. at \in 1..k
    <3>1. B \subseteq Nat
      BY <1>1
    <3>. HIDE DEF B
    <3>2. Min(B) \in B
      BY <1>3, <3>1, SmallestSlot
    <3>. QED BY <1>1, <3>2
  <2>2. InsertTopK(kept, c) = [slot \in 1..k |->
             IF slot < at THEN kept[slot] ELSE IF slot = at THEN c ELSE kept[slot - 1]]
    BY <1>1, <1>3 DEF InsertTopK
  <2>. HIDE DEF at
  <2>3. ASSUME NEW slot \in 1..k
        PROVE  (IF slot < at THEN kept[slot] ELSE IF slot = at THEN c ELSE kept[slot - 1])
                 \in [logit : Int \cup {NaN, NegInf}, expert : Nat \cup {NoExpert}]
    BY <2>1 DEF Slots
  <2>. QED BY <2>2, <2>3 DEF Slots
<1>. QED BY <1>2, <1>3

(* The loop over the experts is a recurrence, and has a solution.          *)
LEMMA KeptSolved ==
  ASSUME NEW n \in Nat, NEW k \in Nat, NEW logits \in [1..n -> Int \cup {NaN, NegInf}]
  PROVE  Kept(logits, k) =
           [i \in 0..n |-> IF i = 0 THEN [slot \in 1..k |-> NoneKept]
                           ELSE InsertTopK(Kept(logits, k)[i - 1], Candidate(logits, i))]
<1>. DEFINE none == [slot \in 1..k |-> NoneKept]
            body(f) == [i \in 0..n |-> IF i = 0 THEN none
                                       ELSE InsertTopK(f[i - 1], Candidate(logits, i))]
            step == [i \in 1..n |-> [kept \in Slots(k) |-> InsertTopK(kept, Candidate(logits, i))]]
<1>0. Len(logits) = n
  OBVIOUS
<1>1. none \in Slots(k)
  BY DEF Slots, NoneKept
<1>2. \A i \in 1..n : Candidate(logits, i)
                        \in [logit : Int \cup {NaN, NegInf}, expert : Nat \cup {NoExpert}]
  BY DEF Candidate
<1>3. step \in [1..n -> [Slots(k) -> Slots(k)]]
  BY <1>2, InsertStays
<1>4. \E f : f = body(f)
  <2>1. PICK f \in [0..n -> Slots(k)] :
          Iterates(f, n, none, step)
    <3>. HIDE DEF step, none
    <3>. QED BY <1>1, <1>3, RecurrenceSolved
  <2>2. ASSUME NEW i \in 1..n PROVE f[i] = InsertTopK(f[i - 1], Candidate(logits, i))
    <3>1. f[i - 1] \in Slots(k)
      OBVIOUS
    <3>. QED BY <2>1, <3>1 DEF Iterates
  <2>. HIDE DEF step, none
  <2>3. f = body(f)
    BY <2>1, <2>2 DEF Iterates
  <2>. QED BY <2>3
<1>5. Kept(logits, k) = CHOOSE f : f = body(f)
  BY <1>0, Zenon DEF Kept
<1>. HIDE DEF body
<1>6. Kept(logits, k) = body(Kept(logits, k))
  BY <1>4, <1>5, Zenon
<1>. QED BY <1>6 DEF body

(* What is kept of the first n experts of a finite row, when k are wanted: *)
(* the best k of them in their order, or all of them and empty slots.      *)
KeepsBest(logits, kept, n, k) ==
  /\ \A s \in 1..k : s > n => kept[s] = NoneKept
  /\ \A s \in 1..k : s <= n =>
       kept[s].expert \in 0..(n - 1) /\ kept[s].logit = logits[kept[s].expert + 1]
  /\ \A s, t \in 1..k : s < t /\ t <= n =>
       RanksBefore(logits, kept[s].expert, kept[t].expert)
  /\ \A e \in 0..(n - 1) :
       \/ \E s \in 1..k : s <= n /\ kept[s].expert = e
       \/ n >= k /\ \A s \in 1..k : RanksBefore(logits, kept[s].expert, e)

LEMMA RanksFacts ==
  ASSUME NEW m \in Nat, NEW logits \in [1..m -> Int],
         NEW a \in 0..(m - 1), NEW b \in 0..(m - 1)
  PROVE  /\ logits[a + 1] \in Int /\ logits[b + 1] \in Int
         /\ RanksBefore(logits, a, b) => logits[a + 1] >= logits[b + 1]
         /\ logits[a + 1] > logits[b + 1] => RanksBefore(logits, a, b)
         /\ a < b /\ logits[a + 1] >= logits[b + 1] => RanksBefore(logits, a, b)
         /\ RanksBefore(logits, a, b) => ~ RanksBefore(logits, b, a)
<1>1. logits[a + 1] \in Int /\ logits[b + 1] \in Int
  OBVIOUS
<1>. QED BY <1>1 DEF RanksBefore

(* One more expert: the best k of them are still kept, in order.           *)
LEMMA InsertKeepsBest ==
  ASSUME NaN \notin Int, NegInf \notin Int, NaN # NegInf,
         NEW m \in Nat, NEW logits \in [1..m -> Int], NEW n \in 0..(m - 1), NEW k \in Nat,
         NEW kept \in Slots(k), KeepsBest(logits, kept, n, k)
  PROVE  KeepsBest(logits, InsertTopK(kept, Candidate(logits, n + 1)), n + 1, k)
<1>. DEFINE c == Candidate(logits, n + 1)
            B == Beaten(kept, c)
            new == InsertTopK(kept, c)
            Before(a, b) == RanksBefore(logits, a, b)
            Value(e) == logits[e + 1]
<1>. SUFFICES KeepsBest(logits, new, n + 1, k)
  OBVIOUS
<1>1. /\ c.logit = Value(n) /\ c.expert = n
      /\ n \in 0..(m - 1) /\ \A e \in 0..(n - 1) : e \in 0..(m - 1)
  BY DEF Candidate
<1>2. DOMAIN kept = 1..k /\ B \subseteq 1..k
  BY DEF Slots, Beaten
<1>r. /\ \A a \in 0..(m - 1) : Value(a) \in Int
      /\ \A a, b \in 0..(m - 1) :
           /\ Before(a, b) => Value(a) >= Value(b)
           /\ Value(a) > Value(b) => Before(a, b)
           /\ a < b /\ Value(a) >= Value(b) => Before(a, b)
  BY RanksFacts
<1>. HIDE DEF Before, Value, c
<1>3. ASSUME NEW s \in 1..k, s > n PROVE s \in B /\ kept[s] = NoneKept
  <2>1. kept[s] = NoneKept
    BY <1>3 DEF KeepsBest
  <2>2. c.logit \in Int
    BY <1>1, <1>r
  <2>. QED BY <1>2, <2>1, <2>2 DEF NoneKept, Beaten, Greater
<1>4. ASSUME NEW s \in 1..k, s <= n
      PROVE  /\ kept[s].expert \in 0..(m - 1) /\ kept[s].expert < n
             /\ kept[s].logit = Value(kept[s].expert)
             /\ s \in B <=> Value(n) > Value(kept[s].expert)
  <2>1. kept[s].expert \in 0..(n - 1) /\ kept[s].logit = Value(kept[s].expert)
    BY <1>4 DEF KeepsBest, Value
  <2>2. kept[s].expert \in 0..(m - 1) /\ kept[s].expert < n
    BY <1>1, <2>1
  <2>3. Value(n) \in Int /\ Value(kept[s].expert) \in Int
    BY <1>1, <1>r, <2>2
  <2>. QED BY <1>1, <1>2, <2>1, <2>2, <2>3 DEF Beaten, Greater
<1>5. \A s, t \in 1..k : s < t /\ t <= n => Before(kept[s].expert, kept[t].expert)
  BY DEF KeepsBest, Before
<1>6. ASSUME NEW s \in 1..k, s <= n, s \notin B PROVE Before(kept[s].expert, n)
  <2>1. ~ (Value(n) > Value(kept[s].expert)) /\ Value(n) \in Int /\ Value(kept[s].expert) \in Int
    BY <1>1, <1>4, <1>6, <1>r
  <2>. QED BY <1>1, <1>4, <1>6, <1>r, <2>1
<1>e. ASSUME NEW e \in 0..n, e # n
      PROVE  /\ e \in 0..(m - 1)
             /\ \/ \E s \in 1..k : s <= n /\ kept[s].expert = e
                \/ n >= k /\ \A s \in 1..k : Before(kept[s].expert, e)
  <2>1. e \in 0..(n - 1)
    BY <1>e
  <2>. QED BY <1>1,   <2>1 DEF KeepsBest, Before
<1>g. ASSUME \A s \in 1..k : s > n + 1 => new[s] = NoneKept,
             \A s \in 1..k : s <= n + 1 =>
               new[s].expert \in 0..n /\ new[s].logit = Value(new[s].expert),
             \A s, t \in 1..k : s < t /\ t <= n + 1 => Before(new[s].expert, new[t].expert),
             \A e \in 0..n :
               \/ \E s \in 1..k : s <= n + 1 /\ new[s].expert = e
               \/ n + 1 >= k /\ \A s \in 1..k : Before(new[s].expert, e)
      PROVE  KeepsBest(logits, new, n + 1, k)
  <2>1. (n + 1) - 1 = n
    OBVIOUS
  <2>. HIDE DEF new
  <2>. QED BY <1>g, <2>1 DEF KeepsBest, Before, Value
<1>7. CASE B = {}
  <2>1. new = kept
    BY <1>7 DEF InsertTopK
  <2>2. n >= k
    <3>. SUFFICES ASSUME n < k PROVE FALSE
      OBVIOUS
    <3>1. n + 1 \in 1..k
      OBVIOUS
    <3>. QED BY <1>3, <1>7, <3>1
  <2>3. \A s \in 1..k : Before(kept[s].expert, n)
    BY <1>6, <1>7, <2>2
  <2>. HIDE DEF B, new
  <2>4. \A s \in 1..k : s <= n /\ kept[s].expert \in 0..n /\ kept[s].logit = Value(kept[s].expert)
    BY <1>4, <2>2
  <2>5. ASSUME NEW e \in 0..n
        PROVE  \/ \E s \in 1..k : s <= n /\ kept[s].expert = e
               \/ \A s \in 1..k : Before(kept[s].expert, e)
    BY <1>e, <2>3
  <2>6. \A s, t \in 1..k : s < t => Before(new[s].expert, new[t].expert)
    BY <1>5, <2>1, <2>2
  <2>7. \A s \in 1..k : s <= n + 1 /\ ~(s > n + 1)
    BY <2>2
  <2>8. \A e \in 0..n : \/ \E s \in 1..k : s <= n + 1 /\ new[s].expert = e
                       \/ \A s \in 1..k : Before(new[s].expert, e)
    BY <2>1, <2>5, <2>7
  <2>9. /\ \A s \in 1..k : s > n + 1 => new[s] = NoneKept
        /\ \A s \in 1..k : s <= n + 1 =>
             new[s].expert \in 0..n /\ new[s].logit = Value(new[s].expert)
        /\ \A s, t \in 1..k : s < t /\ t <= n + 1 => Before(new[s].expert, new[t].expert)
    BY <2>1, <2>4, <2>6, <2>7
  <2>10. \A e \in 0..n :
           \/ \E s \in 1..k : s <= n + 1 /\ new[s].expert = e
           \/ n + 1 >= k /\ \A s \in 1..k : Before(new[s].expert, e)
    BY <2>2, <2>8
  <2>. QED BY <1>g, <2>9, <2>10
<1>8. CASE B # {}
  <2>. DEFINE p == Min(B)
  <2>1. /\ p \in B /\ p \in 1..k /\ p <= n + 1
        /\ \A s \in 1..k : s < p => s <= n /\ s \notin B
    <3>1. B \subseteq Nat
      BY <1>2
    <3>. HIDE DEF B
    <3>2. p \in B /\ \A x \in B : p <= x
      BY <1>8, <3>1, SmallestSlot
    <3>. HIDE DEF p
    <3>3. p \in 1..k
      BY <1>2, <3>2
    <3>4. p <= n + 1
      <4>1. CASE n + 1 \in 1..k
        BY <1>3, <3>2, <3>3, <4>1
      <4>2. CASE n + 1 > k
        BY <3>3, <4>2
      <4>. QED BY <4>1, <4>2
    <3>5. \A s \in 1..k : s < p => s <= n /\ s \notin B
      BY <3>2, <3>3, <3>4
    <3>. QED BY <3>2, <3>3, <3>4, <3>5
  <2>2. /\ \A s \in 1..k : s < p => new[s] = kept[s]
        /\ new[p].expert = n /\ new[p].logit = Value(n)
        /\ \A r \in 1..k : p <= r /\ r < k => new[r + 1] = kept[r] /\ r + 1 \in 1..k
        /\ \A s \in 1..k : s > p => \E r \in 1..k : p <= r /\ s = r + 1 /\ new[s] = kept[r]
    <3>1. new = [slot \in 1..k |->
                   IF slot < p THEN kept[slot] ELSE IF slot = p THEN c ELSE kept[slot - 1]]
      BY <1>2, <1>8 DEF InsertTopK
    <3>. HIDE DEF new, p
    <3>2. ASSUME NEW s \in 1..k, s > p
          PROVE  \E r \in 1..k : p <= r /\ s = r + 1 /\ new[s] = kept[r]
      <4>1. s - 1 \in 1..k /\ p <= s - 1 /\ s = (s - 1) + 1 /\ new[s] = kept[s - 1]
        BY <2>1, <3>1, <3>2
      <4>. QED BY <4>1
    <3>3. ASSUME NEW r \in 1..k, p <= r, r < k
          PROVE  new[r + 1] = kept[r] /\ r + 1 \in 1..k
      <4>1. r + 1 \in 1..k /\ ~(r + 1 < p) /\ r + 1 # p /\ (r + 1) - 1 = r
        BY <2>1, <3>3
      <4>. QED BY <3>1, <4>1
    <3>4. new[p] = c /\ \A s \in 1..k : s < p => new[s] = kept[s]
      BY <2>1, <3>1
    <3>. QED BY <1>1, <3>2, <3>3, <3>4
  <2>. HIDE DEF new, B, p
  <2>3. p <= n => Value(n) > Value(kept[p].expert)
    BY <1>4, <2>1
  <2>4. ASSUME NEW t \in 1..k, p <= t, t <= n
        PROVE  Before(n, kept[t].expert) /\ Value(n) > Value(kept[t].expert)
    <3>1. /\ kept[p].expert \in 0..(m - 1) /\ kept[t].expert \in 0..(m - 1)
          /\ p = t \/ Before(kept[p].expert, kept[t].expert)
      BY <1>4, <1>5, <2>1, <2>4
    <3>2. /\ Value(kept[p].expert) \in Int /\ Value(kept[t].expert) \in Int /\ Value(n) \in Int
          /\ Value(kept[p].expert) >= Value(kept[t].expert)
      BY <1>1, <1>r, <3>1
    <3>3. p <= n
      BY <2>1, <2>4
    <3>4. Value(n) > Value(kept[t].expert)
      BY <2>3, <3>2, <3>3
    <3>. QED BY <1>1, <1>r, <3>1, <3>4
  <2>5. ASSUME NEW s \in 1..k, s > n + 1 PROVE new[s] = NoneKept
    <3>1. PICK r \in 1..k : p <= r /\ s = r + 1 /\ new[s] = kept[r]
      BY <2>1, <2>2, <2>5
    <3>2. r > n
      BY <2>5, <3>1
    <3>. QED BY <1>3, <3>1, <3>2
  <2>6. ASSUME NEW s \in 1..k, s <= n + 1
        PROVE  new[s].expert \in 0..n /\ new[s].logit = Value(new[s].expert)
    <3>1. CASE s < p
      <4>1. s <= n /\ new[s] = kept[s]
        BY <2>1, <2>2, <3>1
      <4>2. kept[s].expert \in 0..n /\ kept[s].logit = Value(kept[s].expert)
        BY <1>4, <4>1
      <4>. QED BY <4>1, <4>2
    <3>2. CASE s = p
      BY <2>2, <3>2
    <3>3. CASE s > p
      <4>1. PICK r \in 1..k : p <= r /\ s = r + 1 /\ new[s] = kept[r]
        BY <2>1, <2>2, <3>3
      <4>2. r <= n
        BY <2>6, <4>1
      <4>. QED BY <1>4, <4>1, <4>2
    <3>. QED BY <2>1, <3>1, <3>2, <3>3
  <2>7. ASSUME NEW s \in 1..k, NEW t \in 1..k, s < t, t <= n + 1
        PROVE  Before(new[s].expert, new[t].expert)
    <3>1. CASE t < p
      <4>1. s < p /\ t <= n
        BY <2>1, <2>7, <3>1
      <4>. QED BY <1>5, <2>2, <2>7, <3>1, <4>1
    <3>2. CASE t = p
      <4>1. s < p /\ s <= n /\ s \notin B
        BY <2>1, <2>7, <3>2
      <4>. QED BY <1>6, <2>2, <3>2, <4>1
    <3>3. CASE t > p
      <4>1. PICK r \in 1..k : p <= r /\ t = r + 1 /\ new[t] = kept[r]
        BY <2>1, <2>2, <3>3
      <4>2. r <= n
        BY <2>7, <4>1
      <4>3. CASE s < p
        <5>1. s < r
          BY <2>1, <4>1, <4>3
        <5>. QED BY <1>5, <2>2, <4>1, <4>2, <4>3, <5>1
      <4>4. CASE s = p
        BY <2>2, <2>4, <4>1, <4>2, <4>4
      <4>5. CASE s > p
        <5>1. PICK q \in 1..k : p <= q /\ s = q + 1 /\ new[s] = kept[q]
          BY <2>1, <2>2, <4>5
        <5>2. q < r
          BY <2>7, <4>1, <5>1
        <5>. QED BY <1>5, <4>1, <4>2, <5>1, <5>2
      <4>. QED BY <2>1, <4>3, <4>4, <4>5
    <3>. QED BY <2>1, <3>1, <3>2, <3>3
  <2>8. ASSUME NEW e \in 0..n
        PROVE  \/ \E s \in 1..k : s <= n + 1 /\ new[s].expert = e
               \/ n + 1 >= k /\ \A s \in 1..k : Before(new[s].expert, e)
    <3>1. CASE e = n
      BY <2>1, <2>2, <3>1
    <3>2. ASSUME NEW s \in 1..k, s <= n, kept[s].expert = e, s < p
          PROVE  \E r \in 1..k : r <= n + 1 /\ new[r].expert = e
      BY <2>2, <3>2
    <3>3. ASSUME NEW s \in 1..k, s <= n, kept[s].expert = e, p <= s, s < k
          PROVE  \E r \in 1..k : r <= n + 1 /\ new[r].expert = e
      <4>1. new[s + 1] = kept[s] /\ s + 1 \in 1..k /\ s + 1 <= n + 1
        BY <2>2, <3>3
      <4>. QED BY <3>3, <4>1
    <3>4. ASSUME k <= n, e # n, \A s \in 1..k : s < k => Before(kept[s].expert, e),
                 Before(kept[k].expert, e) \/ kept[k].expert = e
          PROVE  \A s \in 1..k : Before(new[s].expert, e)
      <4>. TAKE s \in 1..k
      <4>1. CASE s < p
        <5>1. s < k
          BY <2>1, <4>1
        <5>. QED BY <2>2, <3>4, <4>1, <5>1
      <4>2. CASE s = p
        <5>0. k \in 1..k /\ p <= k
          BY <2>1
        <5>1. Value(n) > Value(kept[k].expert) /\ kept[k].expert \in 0..(m - 1)
          BY <1>4, <2>4, <3>4, <5>0
        <5>2. /\ Value(kept[k].expert) >= Value(e) /\ e \in 0..(m - 1)
              /\ Value(e) \in Int /\ Value(n) \in Int /\ Value(kept[k].expert) \in Int
          BY <1>1, <1>e, <1>r, <3>4, <5>1
        <5>3. Value(n) > Value(e)
          BY <5>1, <5>2
        <5>. QED BY <1>1, <1>r, <2>2, <4>2, <5>2, <5>3
      <4>3. CASE s > p
        <5>1. PICK r \in 1..k : p <= r /\ s = r + 1 /\ new[s] = kept[r]
          BY <2>1, <2>2, <4>3
        <5>2. r < k
          BY <5>1
        <5>. QED BY <3>4, <5>1, <5>2
      <4>. QED BY <2>1, <4>1, <4>2, <4>3
    <3>5. ASSUME NEW s \in 1..k, s <= n, kept[s].expert = e, p <= s, s = k, e # n
          PROVE  n + 1 >= k /\ \A r \in 1..k : Before(new[r].expert, e)
      <4>1. \A r \in 1..k : r < k => Before(kept[r].expert, e)
        BY <1>5, <3>5
      <4>2. k <= n /\ kept[k].expert = e
        BY <3>5
      <4>. QED BY <3>4, <3>5, <4>1, <4>2
    <3>6. CASE e # n /\ n >= k /\ \A s \in 1..k : Before(kept[s].expert, e)
      <4>1. k \in 1..k /\ k <= n
        BY <2>1, <3>6
      <4>. QED BY <3>4, <3>6, <4>1
    <3>7. e # n => \/ \E s \in 1..k : s <= n /\ kept[s].expert = e
                   \/ n >= k /\ \A s \in 1..k : Before(kept[s].expert, e)
      BY <1>e
    <3>8. ASSUME NEW s \in 1..k, s <= n, kept[s].expert = e, e # n
          PROVE  \/ \E r \in 1..k : r <= n + 1 /\ new[r].expert = e
                 \/ n + 1 >= k /\ \A r \in 1..k : Before(new[r].expert, e)
      <4>1. s < p \/ (p <= s /\ s < k) \/ (p <= s /\ s = k)
        BY <2>1
      <4>. QED BY <3>2, <3>3, <3>5, <3>8, <4>1
    <3>. QED BY <3>1, <3>6, <3>7, <3>8
  <2>. QED BY <1>g, <2>5, <2>6, <2>7, <2>8
<1>. HIDE DEF new, B
<1>. QED BY <1>7, <1>8

(* The router keeps the best k: its row after the last expert.             *)
LEMMA RouterKeepsBest ==
  ASSUME NaN \notin Int, NegInf \notin Int, NaN # NegInf,
         NEW m \in Nat, NEW logits \in [1..m -> Int], NEW k \in Nat
  PROVE  Kept(logits, k)[m] \in Slots(k) /\ KeepsBest(logits, Kept(logits, k)[m], m, k)
<1>. DEFINE K == Kept(logits, k)
            Good(i) == K[i] \in Slots(k) /\ KeepsBest(logits, K[i], i, k)
            T == {i \in Nat : i <= m => Good(i)}
<1>1. /\ K[0] = [slot \in 1..k |-> NoneKept]
      /\ \A i \in 1..m : K[i] = InsertTopK(K[i - 1], Candidate(logits, i))
  <2>1. logits \in [1..m -> Int \cup {NaN, NegInf}]
    OBVIOUS
  <2>2. K = [i \in 0..m |-> IF i = 0 THEN [slot \in 1..k |-> NoneKept]
                            ELSE InsertTopK(K[i - 1], Candidate(logits, i))]
    BY <2>1, KeptSolved
  <2>. HIDE DEF K
  <2>. DEFINE g == [i \in 0..m |-> IF i = 0 THEN [slot \in 1..k |-> NoneKept]
                                  ELSE InsertTopK(K[i - 1], Candidate(logits, i))]
  <2>3. /\ g[0] = [slot \in 1..k |-> NoneKept]
        /\ \A i \in 1..m : g[i] = InsertTopK(K[i - 1], Candidate(logits, i))
    OBVIOUS
  <2>4. K = g
    BY <2>2, Zenon
  <2>. HIDE DEF g
  <2>. QED BY <2>3, <2>4
<1>. HIDE DEF K
<1>2. 0 \in T
  BY <1>1 DEF KeepsBest, Slots, NoneKept
<1>3. ASSUME NEW i \in Nat, i \in T PROVE i + 1 \in T
  <2>. SUFFICES ASSUME i + 1 <= m PROVE Good(i + 1)
    OBVIOUS
  <2>1. K[i] \in Slots(k) /\ KeepsBest(logits, K[i], i, k) /\ i \in 0..(m - 1)
    BY <1>3
  <2>2. K[i + 1] = InsertTopK(K[i], Candidate(logits, i + 1))
    BY <1>1
  <2>3. Candidate(logits, i + 1) \in [logit : Int \cup {NaN, NegInf}, expert : Nat \cup {NoExpert}]
    BY DEF Candidate
  <2>. QED BY <2>1, <2>2, <2>3, InsertStays, InsertKeepsBest
<1>4. m \in T
  <2>. HIDE DEF T
  <2>. QED BY <1>2, <1>3, Induction
<1>. QED BY <1>4 DEF K

(* Hence it is the reference definition: an expert's slot is its rank.     *)
LEMMA RouterIsTopK ==
  ASSUME NaN \notin Int, NegInf \notin Int, NaN # NegInf, NoExpert \notin Nat,
         NEW m \in Nat, NEW logits \in [1..m -> Int], NEW k \in 0..m
  PROVE  /\ RouterTopK(logits, k) \in [1..k -> 0..(m - 1)]
         /\ IsTopK(RouterTopK(logits, k), logits)
<1>. DEFINE kept == Kept(logits, k)[m]
            ex(s) == kept[s].expert
            Before(a, b) == RanksBefore(logits, a, b)
<1>1. /\ \A s \in 1..k : ex(s) \in 0..(m - 1)
      /\ \A s, t \in 1..k : s < t => Before(ex(s), ex(t))
      /\ \A e \in 0..(m - 1) :
           \/ \E s \in 1..k : ex(s) = e
           \/ \A s \in 1..k : Before(ex(s), e)
  <2>1. KeepsBest(logits, kept, m, k)
    BY RouterKeepsBest
  <2>2. \A s \in 1..k : s <= m
    OBVIOUS
  <2>. HIDE DEF kept
  <2>3. \A s \in 1..k : ex(s) \in 0..(m - 1)
    BY <2>1, <2>2 DEF KeepsBest
  <2>4. \A s, t \in 1..k : s < t => Before(ex(s), ex(t))
    BY <2>1, <2>2 DEF KeepsBest
  <2>5. \A e \in 0..(m - 1) :
          \/ \E s \in 1..k : ex(s) = e
          \/ \A s \in 1..k : Before(ex(s), e)
    BY <2>1 DEF KeepsBest
  <2>. HIDE DEF ex, Before
  <2>. QED BY <2>3, <2>4, <2>5
<1>2. Len(logits) = m
  OBVIOUS
<1>3. RouterTopK(logits, k) = [s \in 1..k |-> ex(s)]
  BY <1>2 DEF RouterTopK
<1>4. \A a, b \in 0..(m - 1) : Before(a, b) => ~ Before(b, a) /\ a # b
  <2>1. \A a \in 0..(m - 1) : ~ Before(a, a)
    BY RanksFacts
  <2>. QED BY <2>1, RanksFacts
<1>. HIDE DEF ex, Before
<1>5. ASSUME NEW s \in 1..k
      PROVE  Cardinality({e \in 0..(m - 1) : Before(e, ex(s))}) = s - 1
  <2>. DEFINE Above == {e \in 0..(m - 1) : Before(e, ex(s))}
              f == [t \in 1..(s - 1) |-> ex(t)]
  <2>1. \A t \in 1..(s - 1) : t \in 1..k /\ t < s
    OBVIOUS
  <2>2. \A t \in 1..(s - 1) : ex(t) \in Above
    BY <1>1, <2>1
  <2>3. \A e \in Above : \E t \in 1..(s - 1) : ex(t) = e
    <3>1. TAKE e \in Above
    <3>2. ~ Before(ex(s), e) /\ e # ex(s)
      BY <1>1, <1>4
    <3>3. PICK t \in 1..k : ex(t) = e
      BY <1>1, <3>2
    <3>4. ~ (s < t) /\ s # t
      BY <1>1, <3>2, <3>3
    <3>. QED BY <3>3, <3>4
  <2>4. \A t, u \in 1..(s - 1) : ex(t) = ex(u) => t = u
    <3>1. ASSUME NEW t \in 1..(s - 1), NEW u \in 1..(s - 1), t < u PROVE ex(t) # ex(u)
      BY <1>1, <1>4, <2>1, <3>1
    <3>2. ASSUME NEW t \in 1..(s - 1), NEW u \in 1..(s - 1), ex(t) = ex(u) PROVE t = u
      <4>1. ~ (t < u) /\ ~ (u < t)
        BY <3>1, <3>2
      <4>. QED BY <4>1
    <3>. QED BY <3>2
  <2>5. f \in Bijection(1..(s - 1), Above)
    <3>1. f \in [1..(s - 1) -> Above] /\ \A t \in 1..(s - 1) : f[t] = ex(t)
      BY <2>2
    <3>. HIDE DEF f, Above
    <3>2. \A t, u \in 1..(s - 1) : f[t] = f[u] => t = u
      BY <2>4, <3>1
    <3>3. \A e \in Above : \E t \in 1..(s - 1) : f[t] = e
      BY <2>3, <3>1
    <3>. QED BY <3>1, <3>2, <3>3, Fun_IsBij, Zenon
  <2>6. IsFiniteSet(1..(s - 1)) /\ Cardinality(1..(s - 1)) = s - 1
    BY FS_Interval
  <2>. HIDE DEF f, Above
  <2>7. ExistsBijection(1..(s - 1), Above)
    BY <2>5 DEF ExistsBijection
  <2>8. Cardinality(Above) = s - 1
    BY <2>6, <2>7, FS_Bijection
  <2>. QED BY <2>8 DEF Above
<1>. DEFINE chosen == RouterTopK(logits, k)
<1>6. chosen \in [1..k -> 0..(m - 1)] /\ \A s \in 1..k : chosen[s] = ex(s)
  BY <1>1, <1>3
<1>. HIDE DEF chosen
<1>7. ASSUME NEW s \in 1..k
      PROVE  /\ chosen[s] # NoExpert
             /\ Cardinality({e \in 0..(Len(logits) - 1) : RanksBefore(logits, e, chosen[s])}) = s - 1
  <2>1. chosen[s] = ex(s) /\ ex(s) \in Nat
    BY <1>1, <1>6
  <2>2. {e \in 0..(Len(logits) - 1) : RanksBefore(logits, e, chosen[s])}
          = {e \in 0..(m - 1) : Before(e, ex(s))}
    BY <1>2, <2>1 DEF Before
  <2>. QED BY <1>5, <2>1, <2>2
<1>8. IsTopK(chosen, logits)
  BY <1>6, <1>7 DEF IsTopK
<1>. QED BY <1>6, <1>8 DEF chosen

-----------------------------------------------------------------------------
(* The loader.                                                             *)
(* The length of a tensor.                                                 *)
LEMMA ProductSolved ==
  ASSUME NEW n \in Nat, NEW shape \in [1..n -> Nat]
  PROVE  /\ Product(shape)[0] = 1
         /\ \A i \in 1..n : Product(shape)[i] = Product(shape)[i - 1] * shape[i]
<1>. DEFINE body(f) == [i \in 0..n |-> IF i = 0 THEN 1 ELSE f[i - 1] * shape[i]]
            step == [i \in 1..n |-> [x \in Nat |-> x * shape[i]]]
            P == Product(shape)
<1>0. Len(shape) = n
  OBVIOUS
<1>1. step \in [1..n -> [Nat -> Nat]]
  OBVIOUS
<1>2. \E f : f = body(f)
  <2>1. PICK f \in [0..n -> Nat] : Iterates(f, n, 1, step)
    <3>. HIDE DEF step
    <3>. QED BY <1>1, RecurrenceSolved
  <2>2. ASSUME NEW i \in 1..n PROVE f[i] = f[i - 1] * shape[i]
    <3>1. f[i - 1] \in Nat
      OBVIOUS
    <3>. QED BY <2>1, <3>1 DEF Iterates
  <2>. HIDE DEF step
  <2>3. f = body(f)
    BY <2>1, <2>2 DEF Iterates
  <2>. QED BY <2>3
<1>3. P = CHOOSE f : f = body(f)
  BY <1>0, Zenon DEF Product
<1>. HIDE DEF body, P
<1>4. P = body(P)
  BY <1>2, <1>3, Zenon
<1>5. body(P)[0] = 1 /\ \A i \in 1..n : body(P)[i] = P[i - 1] * shape[i]
  BY DEF body
<1>6. P[0] = 1 /\ \A i \in 1..n : P[i] = P[i - 1] * shape[i]
  BY <1>4, <1>5
<1>. QED BY <1>6 DEF P

LEMMA VectorLength ==
  ASSUME NEW a \in Nat PROVE Elements(<<a>>) = a
<1>. DEFINE shape == <<a>>
<1>1. shape \in [1..1 -> Nat] /\ Len(shape) = 1 /\ shape[1] = a
  OBVIOUS
<1>. HIDE DEF shape
<1>2. Product(shape)[0] = 1 /\ Product(shape)[1] = Product(shape)[1 - 1] * shape[1]
  <2>1. Product(shape)[0] = 1 /\ \A i \in 1..1 : Product(shape)[i] = Product(shape)[i - 1] * shape[i]
    BY <1>1, ProductSolved
  <2>. QED BY <2>1
<1>3. Elements(shape) = a
  BY <1>1, <1>2 DEF Elements
<1>. QED BY <1>3 DEF shape

LEMMA MatrixLength ==
  ASSUME NEW a \in Nat, NEW b \in Nat PROVE Elements(<<a, b>>) = a * b
<1>. DEFINE shape == <<a, b>>
<1>1. shape \in [1..2 -> Nat] /\ Len(shape) = 2 /\ shape[1] = a /\ shape[2] = b
  OBVIOUS
<1>. HIDE DEF shape
<1>2. /\ Product(shape)[0] = 1 /\ Product(shape)[1] = Product(shape)[1 - 1] * shape[1]
      /\ Product(shape)[2] = Product(shape)[2 - 1] * shape[2]
  <2>1. Product(shape)[0] = 1 /\ \A i \in 1..2 : Product(shape)[i] = Product(shape)[i - 1] * shape[i]
    BY <1>1, ProductSolved
  <2>2. 1 \in 1..2 /\ 2 \in 1..2
    OBVIOUS
  <2>. QED BY <2>1, <2>2
<1>3. Product(shape)[1] = a
  BY <1>1, <1>2
<1>4. Product(shape)[2] = a * b
  BY <1>1, <1>2, <1>3
<1>5. Elements(shape) = a * b
  BY <1>1, <1>4 DEF Elements
<1>. QED BY <1>5 DEF shape

(* The loader appends the experts' tensors of one weight, all of one size. *)
LEMMA AppendedLength ==
  ASSUME NEW weight, NEW config, config.experts \in Nat, NEW shapes, NEW size \in Nat,
         \A e \in 0..(config.experts - 1) : Elements(shapes[<<weight, e>>]) = size
  PROVE  Appended(weight, config, shapes) = config.experts * size
<1>. DEFINE n == config.experts
            elems(e) == Elements(shapes[<<weight, e>>])
            body(f) == [i \in 0..n |-> IF i = 0 THEN 0 ELSE f[i - 1] + elems(i - 1)]
            g == [i \in 0..n |-> i * size]
            L == Lengths(weight, config, shapes)
<1>1. \A i \in 1..n : elems(i - 1) = size
  OBVIOUS
<1>2. L = CHOOSE f : f = body(f)
  BY Zenon DEF Lengths
<1>. HIDE DEF elems, n
<1>3. n \in Nat
  BY DEF n
<1>4. g = body(g)
  <2>1. ASSUME NEW i \in 1..n PROVE g[i] = g[i - 1] + elems(i - 1)
    <3>1. i - 1 \in 0..n /\ i \in 0..n /\ i * size = (i - 1) * size + size
      BY <1>3
    <3>. QED BY <1>1, <3>1
  <2>2. g[0] = 0 /\ g = [i \in 0..n |-> g[i]]
    BY <1>3
  <2>. HIDE DEF g
  <2>3. ASSUME NEW i \in 0..n PROVE g[i] = IF i = 0 THEN 0 ELSE g[i - 1] + elems(i - 1)
    <3>1. i # 0 => i \in 1..n
      BY <1>3
    <3>. QED BY <2>1, <2>2, <3>1
  <2>. QED BY <2>2, <2>3
<1>5. L = body(L)
  <2>. HIDE DEF body, g, L
  <2>. QED BY <1>2, <1>4, Zenon
<1>6. /\ L[0] = 0 /\ \A i \in 1..n : L[i] = L[i - 1] + elems(i - 1)
  <2>1. body(L)[0] = 0 /\ \A i \in 1..n : body(L)[i] = L[i - 1] + elems(i - 1)
    BY <1>3
  <2>. HIDE DEF body, L
  <2>. QED BY <1>5, <2>1
<1>. DEFINE T == {i \in Nat : i <= n => L[i] = i * size}
<1>. HIDE DEF L
<1>7. 0 \in T
  BY <1>6
<1>8. ASSUME NEW i \in Nat, i \in T PROVE i + 1 \in T
  <2>. SUFFICES ASSUME i + 1 <= n PROVE L[i + 1] = (i + 1) * size
    OBVIOUS
  <2>1. L[i] = i * size /\ i + 1 \in 1..n /\ (i + 1) - 1 = i
    BY <1>3, <1>8
  <2>2. L[i + 1] = i * size + size
    BY <1>1, <1>6, <2>1
  <2>3. (i + 1) * size = i * size + size
    OBVIOUS
  <2>. QED BY <2>2, <2>3
<1>9. n \in T
  <2>. HIDE DEF T
  <2>. QED BY <1>3, <1>7, <1>8, Induction
<1>10. L[n] = n * size
  BY <1>3, <1>9
<1>. QED BY <1>10 DEF Appended, L, n

(* What the loader has checked of a fixture, and what follows for the runs.*)
WellFormed(f) ==
  LET c == f.config
  IN /\ f.kind \in {"block", "layer"} /\ f.tokens \in Nat
     /\ Sized(c) /\ c.top_k \in 1..c.experts
     /\ f.len.input = f.tokens * c.hidden /\ f.len.router = c.experts * c.hidden
     /\ \A vector \in {"gate", "up", "down"} :
          f.len[vector] = c.experts * (c.intermediate * c.hidden)
     /\ f.kind = "layer" =>
          /\ ValidHeads(c)
          /\ f.layer.input_norm = c.hidden /\ f.layer.post_norm = c.hidden
          /\ f.layer.q = QueryWidth(c) * c.hidden /\ f.layer.o = c.hidden * QueryWidth(c)
          /\ f.layer.k = KeyValueWidth(c) * c.hidden /\ f.layer.v = KeyValueWidth(c) * c.hidden

LEMMA HeadFacts ==
  ASSUME NEW c, Sized(c), ValidHeads(c)
  PROVE  /\ c.heads \in Nat \ {0} /\ c.kv_heads \in Nat \ {0} /\ HeadDim(c) \in Nat
         /\ QueryWidth(c) \in Nat /\ KeyValueWidth(c) \in Nat
<1>1. c.heads \in Nat \ {0} /\ c.kv_heads \in Nat \ {0} /\ c.hidden \in Nat
  BY DEF ValidHeads, Sized
<1>2. HeadDim(c) \in Nat
  BY <1>1 DEF HeadDim
<1>. QED BY <1>1, <1>2 DEF QueryWidth, KeyValueWidth

LEMMA FixtureIsWellFormed ==
  ASSUME NEW kind \in {"block", "layer"}, NEW tokens \in Nat,
         NEW c, Sized(c), c.top_k \in 1..c.experts, kind = "layer" => ValidHeads(c),
         NEW shapes,
         \A name \in Names(kind, c) : shapes[name] = Required(kind, c)[name]
  PROVE  WellFormed(Fixture(kind, c, tokens, shapes))
<1>. DEFINE f == Fixture(kind, c, tokens, shapes)
            H == c.hidden
            I == c.intermediate
            E == c.experts
<1>0. H \in Nat /\ I \in Nat /\ E \in Nat
  BY DEF Sized
<1>1. \A name \in Names(kind, c) : shapes[name] = Shapes(c)[name[1]]
  BY DEF Required
<1>2. /\ f.kind = kind /\ f.config = c /\ f.tokens = tokens
      /\ f.len.input = tokens * H /\ f.len.router = Elements(shapes[<<"router", 0>>])
      /\ f.len["gate"] = Appended("w1", c, shapes) /\ f.len["up"] = Appended("w3", c, shapes)
      /\ f.len["down"] = Appended("w2", c, shapes)
      /\ kind = "layer" => \A weight \in LayerWeights :
                             f.layer[weight] = Elements(shapes[<<weight, 0>>])
  BY DEF Fixture
<1>. HIDE DEF f
<1>3. f.len.router = E * H
  <2>1. <<"router", 0>> \in Names(kind, c)
    BY DEF Names
  <2>2. shapes[<<"router", 0>>] = <<E, H>>
    BY <1>1, <2>1 DEF Shapes
  <2>. QED BY <1>0, <1>2, <2>2, MatrixLength
<1>4. ASSUME NEW weight \in {"w1", "w2", "w3"} PROVE Appended(weight, c, shapes) = E * (I * H)
  <2>1. ASSUME NEW e \in 0..(E - 1) PROVE Elements(shapes[<<weight, e>>]) = I * H
    <3>1. <<weight, e>> \in Names(kind, c)
      BY DEF Names
    <3>2. shapes[<<weight, e>>] = Shapes(c)[weight]
      BY <1>1, <3>1
    <3>3. Shapes(c)[weight] \in {<<I, H>>, <<H, I>>}
      BY DEF Shapes
    <3>4. I * H = H * I
      BY <1>0
    <3>. QED BY <1>0, <3>2, <3>3, <3>4, MatrixLength
  <2>2. I * H \in Nat
    BY <1>0
  <2>. DEFINE size == I * H
  <2>. HIDE DEF size
  <2>3. size \in Nat /\ \A e \in 0..(c.experts - 1) : Elements(shapes[<<weight, e>>]) = size
    BY <2>1, <2>2 DEF size
  <2>4. Appended(weight, c, shapes) = c.experts * size
    BY <1>0, <2>3, AppendedLength
  <2>. QED BY <2>4 DEF size
<1>5. ASSUME kind = "layer"
      PROVE  /\ f.layer.input_norm = H /\ f.layer.post_norm = H
             /\ f.layer.q = QueryWidth(c) * H /\ f.layer.o = H * QueryWidth(c)
             /\ f.layer.k = KeyValueWidth(c) * H /\ f.layer.v = KeyValueWidth(c) * H
  <2>1. \A weight \in LayerWeights : f.layer[weight] = Elements(shapes[<<weight, 0>>])
    BY <1>2, <1>5
  <2>2. \A weight \in LayerWeights : shapes[<<weight, 0>>] = Shapes(c)[weight]
    <3>1. \A weight \in LayerWeights : <<weight, 0>> \in Names(kind, c)
      BY <1>5 DEF Names
    <3>. QED BY <1>1, <3>1
  <2>3. \A weight \in LayerWeights : f.layer[weight] = Elements(Shapes(c)[weight])
    BY <2>1, <2>2
  <2>4. QueryWidth(c) \in Nat /\ KeyValueWidth(c) \in Nat
    BY <1>5, HeadFacts
  <2>5. /\ f.layer.input_norm = Elements(<<H>>) /\ f.layer.post_norm = Elements(<<H>>)
        /\ f.layer.q = Elements(<<QueryWidth(c), H>>) /\ f.layer.o = Elements(<<H, QueryWidth(c)>>)
        /\ f.layer.k = Elements(<<KeyValueWidth(c), H>>)
        /\ f.layer.v = Elements(<<KeyValueWidth(c), H>>)
    BY <2>3 DEF LayerWeights, Shapes
  <2>. QED BY <1>0, <2>4, <2>5, VectorLength, MatrixLength
<1>6. \A vector \in {"gate", "up", "down"} : f.len[vector] = E * (I * H)
  BY <1>2, <1>4
<1>. HIDE DEF H, I, E
<1>7. WellFormed(f)
  <2>1. /\ f.config.hidden = H /\ f.config.intermediate = I /\ f.config.experts = E
        /\ Sized(f.config) /\ f.config.top_k \in 1..f.config.experts
    BY <1>2 DEF H, I, E
  <2>2. f.kind = "layer" => ValidHeads(f.config)
    BY <1>2
  <2>. QED BY <1>2, <1>3, <1>5, <1>6, <2>1, <2>2 DEF WellFormed
<1>. QED BY <1>7 DEF f

-----------------------------------------------------------------------------
(* The kernels.                                                            *)
(* Row-major offsets stay below the product of the sizes.                  *)
LEMMA RowsFit ==
  ASSUME NEW N \in Nat, NEW i \in 0..(N - 1), NEW D \in Nat
  PROVE  i * D \in Nat /\ (i + 1) * D = i * D + D /\ (i + 1) * D <= N * D
<1>1. PICK r \in Nat : N = (i + 1) + r
  <2>1. N - (i + 1) \in Nat /\ N = (i + 1) + (N - (i + 1))
    OBVIOUS
  <2>. QED BY <2>1
<1>2. N * D = (i + 1) * D + r * D
  BY <1>1
<1>3. r * D \in Nat /\ i * D \in Nat /\ (i + 1) * D = i * D + D
  BY <1>1
<1>. QED BY <1>2, <1>3

LEMMA OffsetFits ==
  ASSUME NEW T \in Nat, NEW H \in Nat, NEW D \in Nat,
         NEW t \in 0..(T - 1), NEW h \in 0..(H - 1), NEW d \in 0..(D - 1)
  PROVE  (t * H + h) * D + d < T * (H * D)
<1>. DEFINE i == t * H + h
            N == T * H
<1>1. i \in 0..(N - 1)
  <2>1. t * H \in Nat /\ (t + 1) * H = t * H + H /\ (t + 1) * H <= T * H
    BY RowsFit
  <2>. QED BY <2>1
<1>2. N \in Nat /\ N * D = T * (H * D)
  OBVIOUS
<1>. HIDE DEF i, N
<1>3. i * D \in Nat /\ (i + 1) * D = i * D + D /\ (i + 1) * D <= N * D
  BY <1>1, <1>2, RowsFit
<1>4. i * D + d < N * D
  BY <1>2, <1>3
<1>. QED BY <1>2, <1>4 DEF i

(* Heads share a key and value head in groups: every group has one.        *)
LEMMA GroupFits ==
  ASSUME NEW heads \in Nat \ {0}, NEW kv \in Nat, NEW head \in 0..(heads - 1)
  PROVE  (head * kv) \div heads \in 0..(kv - 1) \/ kv = 0
<1>. DEFINE a == head * kv
            q == a \div heads
<1>1. a \in Nat
  OBVIOUS
<1>2. kv # 0 => a < heads * kv
  <2>1. head * kv \in Nat /\ (head + 1) * kv = head * kv + kv /\ (head + 1) * kv <= heads * kv
    BY RowsFit
  <2>. QED BY <2>1
<1>. HIDE DEF a
<1>3. q \in Int /\ heads * q + (a % heads) = a /\ a % heads \in 0..(heads - 1)
  BY <1>1
<1>. HIDE DEF q
<1>4. q >= 0
  <2>. SUFFICES ASSUME q <= -1 PROVE FALSE
    BY <1>3
  <2>1. heads * q <= -heads
    BY <1>3
  <2>. QED BY <1>1, <1>3, <2>1
<1>5. kv # 0 => q < kv
  <2>. SUFFICES ASSUME kv # 0, q >= kv PROVE FALSE
    BY <1>3
  <2>1. PICK r \in Nat : q = kv + r
    <3>1. q - kv \in Nat /\ q = kv + (q - kv)
      BY <1>3
    <3>. QED BY <3>1
  <2>2. heads * q = heads * kv + heads * r /\ heads * r \in Nat
    BY <2>1
  <2>3. heads * kv \in Nat /\ heads * q \in Int
    BY <1>3
  <2>. QED BY <1>1, <1>2, <1>3, <2>2, <2>3
<1>. QED BY <1>3, <1>4, <1>5 DEF q, a

(* The assertions and indices of the attention half of a layer hold.       *)
LEMMA LayerFits ==
  ASSUME NEW f, WellFormed(f), f.kind = "layer"
  PROVE  LayerRuns(f)
<1>. DEFINE c == f.config
            T == f.tokens
            H == c.heads
            G == c.kv_heads
            D == HeadDim(c)
<1>1. /\ Sized(c) /\ T \in Nat /\ ValidHeads(c)
      /\ H \in Nat \ {0} /\ G \in Nat \ {0} /\ D \in Nat
  <2>1. Sized(c) /\ T \in Nat /\ ValidHeads(c)
    BY DEF WellFormed
  <2>. QED BY <2>1, HeadFacts
<1>2. H % G = 0 /\ H >= G
  <2>1. H % G = 0
    BY <1>1 DEF ValidHeads
  <2>. HIDE DEF H, G
  <2>2. H = G * (H \div G) + (H % G) /\ H \div G \in Int
    BY <1>1
  <2>3. H \div G >= 1
    <3>. DEFINE q == H \div G
    <3>1. q \in Int /\ H = G * q
      BY <2>1, <2>2, <1>1
    <3>. HIDE DEF q
    <3>2. q >= 1
      <4>. SUFFICES ASSUME q <= 0 PROVE FALSE
        BY <3>1
      <4>1. G * q <= 0
        BY <1>1, <3>1
      <4>. QED BY <1>1, <3>1, <4>1
    <3>. QED BY <3>2 DEF q
  <2>4. PICK r \in Nat : H \div G = 1 + r
    <3>. DEFINE q == H \div G
    <3>1. q \in Int /\ q >= 1
      BY <2>2, <2>3
    <3>. HIDE DEF q
    <3>2. q - 1 \in Nat /\ q = 1 + (q - 1)
      BY <3>1
    <3>. QED BY <3>2 DEF q
  <2>5. H = G + G * r /\ G * r \in Nat
    BY <1>1, <2>1, <2>2, <2>4
  <2>. QED BY <1>1, <2>1, <2>5
<1>3. ASSUME NEW token \in 0..(T - 1), NEW head \in 0..(H - 1), NEW dim \in 0..(D - 1)
      PROVE  /\ QueryOffset(c, token, head, dim) < T * QueryWidth(c)
             /\ \A key \in 0..token :
                  KeyValueOffset(c, key, KeyValueHead(c, head), dim) < T * KeyValueWidth(c)
  <2>1. QueryOffset(c, token, head, dim) < T * QueryWidth(c)
    <3>1. (token * H + head) * D + dim < T * (H * D)
      BY <1>1, OffsetFits
    <3>. QED BY <3>1 DEF QueryOffset, QueryWidth
  <2>2. KeyValueHead(c, head) \in 0..(G - 1)
    BY <1>1, GroupFits DEF KeyValueHead
  <2>3. ASSUME NEW key \in 0..token
        PROVE  KeyValueOffset(c, key, KeyValueHead(c, head), dim) < T * KeyValueWidth(c)
    <3>. DEFINE g == KeyValueHead(c, head)
    <3>1. key \in 0..(T - 1) /\ g \in 0..(G - 1)
      BY <1>1, <2>2
    <3>. HIDE DEF g
    <3>2. (key * G + g) * D + dim < T * (G * D)
      BY <1>1, <3>1, OffsetFits
    <3>. QED BY <3>2 DEF KeyValueOffset, KeyValueWidth, g
  <2>. QED BY <2>1, <2>3
<1>4. AttentionRuns(c, T)
  <2>. HIDE DEF D
  <2>. QED BY <1>2, <1>3 DEF AttentionRuns, D
<1>. HIDE DEF D
<1>. QED BY <1>4 DEF LayerRuns, WellFormed

(* And those of the experts and of the report, once tokens are routed.     *)
LEMMA BlockFits ==
  ASSUME NEW f, WellFormed(f), NEW choices,
         \A t \in 1..f.tokens : \A slot \in 1..f.config.top_k :
           choices[t].experts[slot] \in 0..(f.config.experts - 1),
         NoExpert \notin Nat
  PROVE  BlockRuns(f, choices) /\ (f.tokens # 0 => PrintRuns(f))
<1>. DEFINE c == f.config
            E == c.experts
            I == c.intermediate
            H == c.hidden
            S == I * H
<1>1. /\ E \in Nat /\ I \in Nat /\ H \in Nat /\ f.tokens \in Nat /\ S \in Nat
      /\ c.top_k <= E
  BY DEF WellFormed, Sized
<1>2. /\ f.len.input = f.tokens * H /\ f.len.router = E * H
      /\ \A vector \in {"gate", "up", "down"} : f.len[vector] = E * S
  BY DEF WellFormed
<1>3. E * I * H = E * S
  BY <1>1
<1>4. ASSUME NEW e \in 0..(E - 1) PROVE ExpertRuns(f, e)
  <2>1. (e + 1) * S <= E * S
    <3>. HIDE DEF S, E
    <3>. QED BY <1>1, RowsFit
  <2>2. e # NoExpert
    OBVIOUS
  <2>. HIDE DEF E
  <2>. QED BY <1>2, <2>1, <2>2 DEF ExpertRuns, E
<1>5. \A t \in 1..f.tokens : \A slot \in 1..c.top_k : ExpertRuns(f, choices[t].experts[slot])
  BY <1>4
<1>6. BlockRuns(f, choices)
  <2>. HIDE DEF S
  <2>1. f.len.gate = E * I * H /\ f.len.up = E * I * H /\ f.len.down = E * I * H
    BY <1>2, <1>3
  <2>. QED BY <1>1, <1>2, <1>5, <2>1 DEF BlockRuns
<1>7. f.tokens # 0 => PrintRuns(f)
  <2>. SUFFICES ASSUME f.tokens # 0 PROVE PrintRuns(f)
    OBVIOUS
  <2>1. 0 \in 0..(f.tokens - 1)
    BY <1>1
  <2>2. (0 + 1) * H <= f.tokens * H
    BY <1>1, <2>1, RowsFit
  <2>. QED BY <1>1, <2>2 DEF PrintRuns
<1>. QED BY <1>6, <1>7

-----------------------------------------------------------------------------
(* The fetch.                                                              *)
Download == {Absent, Torn} \cup {Whole(r) : r \in 1..Len(Revisions)}
FetchTypeOK ==
  /\ fetch \in [pc : {"idle", "stale", "curl", "rename"}, file : 1..2, attempt : Int]
  /\ files \in [{"config", "weights"} -> Download]
  /\ temps \in [{"config", "weights"} -> Download]
  /\ upstream \in 1..Len(Revisions)

(* The rename comes after a download that succeeded, and nothing touches   *)
(* the temporary file in between.                                          *)
FetchIInv ==
  /\ FetchTypeOK
  /\ PublishedWhole
  /\ fetch.pc = "rename" => temps[File].whole

LEMMA TwoFiles ==
  /\ Files[1] = "config" /\ Files[2] = "weights" /\ Len(Files) = 2
  /\ Range(Files) = {"config", "weights"}
<1>1. Files = <<"config", "weights">>
  BY DEF Files
<1>2. DOMAIN Files = {1, 2}
  BY <1>1
<1>. QED BY <1>1, <1>2 DEF Range

LEMMA FileInDirectory ==
  ASSUME FetchTypeOK PROVE File \in {"config", "weights"}
BY TwoFiles DEF FetchTypeOK, File

LEMMA Downloads ==
  ASSUME FetchTypeOK
  PROVE  Absent \in Download /\ Torn \in Download /\ Whole(upstream) \in Download
BY DEF FetchTypeOK, Download, Torn, Whole

LEMMA FetchInit == Init => FetchIInv
<1>. SUFFICES ASSUME Init PROVE FetchIInv
  OBVIOUS
<1>1. fetch = [pc |-> "idle", file |-> 1, attempt |-> 0]
  BY DEF Init, Idle
<1>2. files = [f \in {"config", "weights"} |-> Absent] /\ temps = files /\ upstream = 1
  BY TwoFiles DEF Init
<1>3. FetchTypeOK
  BY <1>1, <1>2, ReferenceAssumption DEF FetchTypeOK, Download
<1>. QED BY <1>1, <1>2, <1>3 DEF FetchIInv, PublishedWhole

LEMMA FetchStep == FetchIInv /\ [Next]_vars => FetchIInv'
<1>. SUFFICES ASSUME FetchIInv, [Next]_vars PROVE FetchIInv'
  OBVIOUS
<1>t. FetchTypeOK /\ PublishedWhole /\ (fetch.pc = "rename" => temps[File].whole)
  BY DEF FetchIInv
<1>f. File \in {"config", "weights"} /\ fetch.file \in 1..2
  BY <1>t, FileInDirectory DEF FetchTypeOK
<1>d. Absent \in Download /\ Torn \in Download /\ Whole(upstream) \in Download
  BY <1>t, Downloads
<1>1. CASE StartFetch
  <2>1. fetch' = [pc |-> "stale", file |-> 1, attempt |-> 0]
    BY <1>1 DEF StartFetch, Idle
  <2>2. upstream' = upstream /\ files' = files /\ temps' = temps
    BY <1>1 DEF StartFetch
  <2>3. FetchTypeOK'
    BY <1>t, <2>1, <2>2 DEF FetchTypeOK
  <2>. QED BY <1>t, <2>1, <2>2, <2>3 DEF FetchIInv, PublishedWhole
<1>2. CASE RemoveStale
  <2>1. fetch' = [pc |-> "curl", file |-> fetch.file, attempt |-> 1]
    BY <1>2, <1>t DEF RemoveStale, FetchTypeOK
  <2>2. upstream' = upstream /\ files' = files /\ temps' = [temps EXCEPT ![File] = Absent]
    BY <1>2 DEF RemoveStale
  <2>3. FetchTypeOK'
    BY <1>t, <1>f, <1>d, <2>1, <2>2 DEF FetchTypeOK
  <2>. QED BY <1>t, <2>1, <2>2, <2>3 DEF FetchIInv, PublishedWhole
<1>3. CASE CurlSucceeds
  <2>1. fetch' = [pc |-> "rename", file |-> fetch.file, attempt |-> fetch.attempt]
    BY <1>3, <1>t DEF CurlSucceeds, FetchTypeOK
  <2>2. /\ upstream' = upstream /\ files' = files
        /\ temps' = [temps EXCEPT ![File] = Whole(upstream)]
    BY <1>3 DEF CurlSucceeds
  <2>3. FetchTypeOK'
    BY <1>t, <1>f, <1>d, <2>1, <2>2 DEF FetchTypeOK
  <2>4. File' = File
    BY <2>1 DEF File
  <2>5. temps'[File] = Whole(upstream) /\ Whole(upstream).whole
    BY <1>t, <1>f, <2>2 DEF FetchTypeOK, Whole
  <2>. QED BY <1>t, <2>2, <2>3, <2>4, <2>5 DEF FetchIInv, PublishedWhole
<1>4. CASE CurlFails
  <2>1. AfterFailure(fetch.attempt) \in {"idle", "curl"}
    BY DEF AfterFailure
  <2>2. fetch' = [pc |-> AfterFailure(fetch.attempt), file |-> fetch.file,
                  attempt |-> fetch.attempt + 1]
    BY <1>4, <1>t DEF CurlFails, FetchTypeOK
  <2>3. /\ upstream' = upstream /\ files' = files
        /\ temps' \in {temps, [temps EXCEPT ![File] = Torn]}
    BY <1>4 DEF CurlFails
  <2>4. FetchTypeOK' /\ fetch'.pc # "rename"
    BY <1>t, <1>f, <1>d, <2>1, <2>2, <2>3 DEF FetchTypeOK
  <2>. QED BY <1>t, <2>3, <2>4 DEF FetchIInv, PublishedWhole
<1>5. CASE Publish
  <2>1. \/ fetch' = [pc |-> "idle", file |-> 1, attempt |-> 0]
        \/ fetch.file # 2 /\ fetch' = [pc |-> "stale", file |-> fetch.file + 1, attempt |-> 0]
    BY <1>5, TwoFiles DEF Publish, Idle
  <2>2. /\ upstream' = upstream /\ files' = [files EXCEPT ![File] = temps[File]]
        /\ temps' = [temps EXCEPT ![File] = Absent] /\ temps[File].whole
    BY <1>5, <1>t DEF Publish
  <2>3. FetchTypeOK' /\ fetch'.pc # "rename"
    BY <1>t, <1>f, <1>d, <2>1, <2>2 DEF FetchTypeOK
  <2>4. PublishedWhole'
    BY <1>t, <1>f, <2>2 DEF PublishedWhole, FetchTypeOK
  <2>. QED BY <2>3, <2>4 DEF FetchIInv
<1>6. CASE StopFetch
  <2>1. fetch' = [pc |-> "idle", file |-> 1, attempt |-> 0]
    BY <1>6 DEF StopFetch, Idle
  <2>2. /\ upstream' = upstream /\ files' = files
        /\ temps' \in {temps, [temps EXCEPT ![File] = Torn]}
    BY <1>6 DEF StopFetch
  <2>3. FetchTypeOK'
    BY <1>t, <1>f, <1>d, <2>1, <2>2 DEF FetchTypeOK
  <2>. QED BY <1>t, <2>1, <2>2, <2>3 DEF FetchIInv, PublishedWhole
<1>7. CASE UNCHANGED <<files, temps, fetch>> /\ upstream' \in 1..Len(Revisions)
  <2>1. FetchTypeOK' /\ File' = File
    BY <1>7, <1>t DEF FetchTypeOK, File
  <2>. QED BY <1>7, <1>t, <2>1 DEF FetchIInv, PublishedWhole
<1>8. CASE UpstreamMoves
  <2>1. upstream < Len(Revisions) /\ upstream' = upstream + 1
    BY <1>8 DEF UpstreamMoves
  <2>2. upstream' \in 1..Len(Revisions)
    BY <2>1, <1>t, ReferenceAssumption DEF FetchTypeOK
  <2>. QED BY <1>7, <1>8, <2>2 DEF UpstreamMoves
<1>9. CASE UNCHANGED fetcher
  BY <1>7, <1>9, <1>t DEF fetcher, FetchTypeOK
<1>. QED
  BY <1>1, <1>2, <1>3, <1>4, <1>5, <1>6, <1>8, <1>9
     DEF Next, vars, fetcher, StartRun, ReadConfig, ReadWeights, Route, RunExperts

(* No torn download is ever published, however often fetches fail or are   *)
(* stopped (xtask/src/moe.rs, download_file_with_curl).                    *)
THEOREM FetchPublishesWhole == Spec => []PublishedWhole
<1>1. FetchIInv => PublishedWhole
  BY DEF FetchIInv
<1>. QED BY FetchInit, FetchStep, <1>1, PTL DEF Spec

-----------------------------------------------------------------------------
(* The reference run.                                                      *)
(* What the run has established at each stage.  Only a fixture whose       *)
(* config and tensors have been checked reaches the kernels, and only a    *)
(* run without a layer has the deterministic one.                          *)
RunTypeOK ==
  /\ run \in [pc : {"idle", "config", "weights", "route", "experts",
                   "printed", "error", "panicked"},
              kind : {"block", "layer", Absent}, tokens : Nat, layer : Layers \cup {Absent}]
  /\ run.pc # "idle" => run.kind \in {"block", "layer"}

Admitted ==
  /\ Sized(fixture.config)
  /\ ValidBlock(fixture.config, run.tokens)
  /\ run.kind = "layer" => ValidHeads(fixture.config)

Runnable ==
  /\ WellFormed(fixture)
  /\ fixture.tokens = run.tokens
  /\ run.layer = Absent => fixture.config = DeterministicConfig

(* Every token has been routed, and those with finite logits to experts.   *)
TokensRouted ==
  /\ DOMAIN routing = 1..run.tokens
  /\ \A t \in 1..run.tokens :
       Finite(routing[t].logits) =>
         \A slot \in 1..fixture.config.top_k :
           routing[t].experts[slot] \in 0..(fixture.config.experts - 1)

RunIInv ==
  /\ FetchTypeOK /\ RunTypeOK
  /\ run.pc \in {"config", "weights"} => run.layer # Absent
  /\ run.pc = "weights" => Admitted
  /\ run.pc \in {"route", "experts"} => Runnable
  /\ run.pc = "experts" => TokensRouted
  /\ run.pc \notin {"experts", "panicked"} => routing = <<>>
  /\ RoutingIsTopK
  /\ LoadedFixtureRuns

LEMMA DeterministicIsWellFormed ==
  ASSUME NEW kind \in {"block", "layer"}, NEW tokens \in Nat
  PROVE  /\ WellFormed(Deterministic(kind, tokens))
         /\ Deterministic(kind, tokens).config = DeterministicConfig
         /\ Deterministic(kind, tokens).tokens = tokens
<1>. DEFINE c == DeterministicConfig
            shapes == Required("layer", c)
<1>1. /\ c.hidden = 4 /\ c.experts = 8 /\ c.top_k = 2 /\ c.heads = 4 /\ c.kv_heads = 2
      /\ Sized(c)
  <2>1. c = [type |-> "mixtral", hidden |-> 4, intermediate |-> 8, experts |-> 8, top_k |-> 2,
             heads |-> 4, kv_heads |-> 2]
    BY DEF DeterministicConfig
  <2>. HIDE DEF c
  <2>. QED BY <2>1 DEF Sized
<1>. HIDE DEF c
<1>2. c.top_k \in 1..c.experts /\ ValidHeads(c)
  BY <1>1 DEF ValidHeads
<1>3. \A name \in Names(kind, c) : shapes[name] = Required(kind, c)[name]
  <2>1. Names(kind, c) \subseteq Names("layer", c)
    BY DEF Names
  <2>. QED BY <2>1 DEF Required
<1>. HIDE DEF shapes
<1>4. WellFormed(Fixture(kind, c, tokens, shapes))
  BY <1>1, <1>2, <1>3, FixtureIsWellFormed
<1>5. Deterministic(kind, tokens) = Fixture(kind, c, tokens, shapes)
  BY DEF Deterministic, c, shapes
<1>6. /\ Fixture(kind, c, tokens, shapes).config = c
      /\ Fixture(kind, c, tokens, shapes).tokens = tokens
  BY DEF Fixture
<1>. QED BY <1>4, <1>5, <1>6 DEF c

(* A row of finite logits is one of integers, one of each expert.          *)
LEMMA FiniteRow ==
  ASSUME Runnable, NEW row \in Rows(fixture), Finite(row)
  PROVE  row \in [1..fixture.config.experts -> Int]
<1>1. CASE run.layer = Absent
  BY <1>1, ReferenceAssumption DEF Rows, Runnable
<1>2. CASE run.layer # Absent
  <2>1. row \in [1..fixture.config.experts -> Logits] /\ Logits \subseteq Int \cup {NaN, NegInf}
    BY <1>2, ReferenceAssumption DEF Rows
  <2>. QED BY <2>1 DEF Finite
<1>. QED BY <1>1, <1>2

LEMMA RoutedIsTopK ==
  ASSUME Runnable, NEW choice \in Routed(fixture), Finite(choice.logits)
  PROVE  /\ \A slot \in 1..fixture.config.top_k :
              choice.experts[slot] \in 0..(fixture.config.experts - 1)
         /\ IsTopK(choice.experts, choice.logits)
<1>. DEFINE m == fixture.config.experts
            k == fixture.config.top_k
<1>1. PICK row \in Rows(fixture) :
        choice = [logits |-> row, experts |-> RouterTopK(row, k)]
  BY DEF Routed
<1>2. row \in [1..m -> Int]
  BY <1>1, FiniteRow
<1>3. m \in Nat /\ k \in 0..m
  BY DEF Runnable, WellFormed, Sized
<1>. HIDE DEF m, k
<1>4. RouterTopK(row, k) \in [1..k -> 0..(m - 1)] /\ IsTopK(RouterTopK(row, k), row)
  BY <1>2, <1>3, ReferenceAssumption, RouterIsTopK
<1>. QED BY <1>1, <1>4 DEF m, k

LEMMA RunInit == Init => RunIInv
<1>. SUFFICES ASSUME Init PROVE RunIInv
  OBVIOUS
<1>1. FetchTypeOK
  BY FetchInit DEF FetchIInv
<1>2. run = [pc |-> "idle", kind |-> Absent, tokens |-> 0, layer |-> Absent] /\ routing = <<>>
  BY DEF Init
<1>3. RunTypeOK
  BY <1>2 DEF RunTypeOK
<1>4. RoutingIsTopK
  BY <1>2 DEF RoutingIsTopK
<1>5. LoadedFixtureRuns
  BY <1>2 DEF LoadedFixtureRuns
<1>. QED BY <1>1, <1>2, <1>3, <1>4, <1>5 DEF RunIInv

LEMMA FetchTyped ==
  ASSUME FetchIInv, [Next]_vars PROVE FetchTypeOK'
BY FetchStep DEF FetchIInv

LEMMA RunUnchanged ==
  ASSUME RunIInv, FetchTypeOK', UNCHANGED <<run, fixture, routing>> PROVE RunIInv'
<1>1. RunTypeOK' /\ RoutingIsTopK' /\ LoadedFixtureRuns'
  BY DEF RunIInv, RunTypeOK, RoutingIsTopK, LoadedFixtureRuns
<1>2. (Admitted' <=> Admitted) /\ (Runnable' <=> Runnable) /\ (TokensRouted' <=> TokensRouted)
  BY DEF Admitted, Runnable, TokensRouted
<1>. QED BY <1>1, <1>2 DEF RunIInv

(* A run that ends has no fixture and no routing left.                     *)
LEMMA RunEnds ==
  ASSUME RunIInv, FetchTypeOK', NEW pc \in {"printed", "error"}, End(pc), run.pc # "idle"
  PROVE  RunIInv'
<1>1. run' = [run EXCEPT !.pc = pc] /\ routing' = <<>>
  BY DEF End
<1>2. run'.pc = pc /\ run'.kind = run.kind /\ run'.tokens = run.tokens
  BY <1>1 DEF RunIInv, RunTypeOK
<1>3. RunTypeOK'
  BY <1>1, <1>2 DEF RunIInv, RunTypeOK
<1>. QED BY <1>1, <1>2, <1>3 DEF RunIInv, RoutingIsTopK, LoadedFixtureRuns

LEMMA RunStarts ==
  ASSUME RunIInv, FetchTypeOK', StartRun PROVE RunIInv'
<1>1. PICK kind \in {"block", "layer"}, tokens \in TokenCounts :
        \/ /\ run' = [run EXCEPT !.pc = "route", !.kind = kind, !.tokens = tokens]
           /\ fixture' = Deterministic(kind, tokens)
        \/ \E layer \in Layers :
             run' = [pc |-> "config", kind |-> kind, tokens |-> tokens, layer |-> layer]
  BY DEF StartRun
<1>2. tokens \in Nat /\ Absent \notin Layers /\ run.pc = "idle" /\ routing = <<>> /\ routing' = <<>>
  BY ReferenceAssumption DEF StartRun, RunIInv
<1>3. CASE /\ run' = [run EXCEPT !.pc = "route", !.kind = kind, !.tokens = tokens]
           /\ fixture' = Deterministic(kind, tokens)
  <2>1. /\ run'.pc = "route" /\ run'.kind = kind /\ run'.tokens = tokens
        /\ run'.layer = run.layer /\ RunTypeOK'
    BY <1>2, <1>3 DEF RunIInv, RunTypeOK
  <2>2. Runnable'
    BY <1>2, <1>3, <2>1, DeterministicIsWellFormed DEF Runnable
  <2>. QED BY <1>2, <2>1, <2>2 DEF RunIInv, RoutingIsTopK, LoadedFixtureRuns
<1>4. CASE \E layer \in Layers :
             run' = [pc |-> "config", kind |-> kind, tokens |-> tokens, layer |-> layer]
  <2>1. run'.pc = "config" /\ run'.layer # Absent /\ RunTypeOK'
    BY <1>2, <1>4 DEF RunTypeOK
  <2>. QED BY <1>2, <2>1 DEF RunIInv, RoutingIsTopK, LoadedFixtureRuns
<1>. QED BY <1>1, <1>3, <1>4

LEMMA RunReadsConfig ==
  ASSUME RunIInv, FetchTypeOK', ReadConfig PROVE RunIInv'
<1>. DEFINE config == Revisions[files["config"].revision].config
<1>1. \/ End("error")
      \/ /\ files["config"] # Absent /\ files["config"].whole
         /\ ValidBlock(config, run.tokens) /\ (run.kind = "layer" => ValidHeads(config))
         /\ Goto("weights") /\ fixture' = [config |-> config]
  BY DEF ReadConfig
<1>2. run.pc = "config"
  BY DEF ReadConfig
<1>3. CASE End("error")
  BY <1>2, <1>3, RunEnds
<1>4. CASE /\ files["config"] # Absent /\ files["config"].whole
           /\ ValidBlock(config, run.tokens) /\ (run.kind = "layer" => ValidHeads(config))
           /\ Goto("weights") /\ fixture' = [config |-> config]
  <2>1. Sized(config)
    <3>1. files["config"] \in Download
      BY DEF RunIInv, FetchTypeOK
    <3>2. files["config"].revision \in 1..Len(Revisions)
      BY <1>4, <3>1 DEF Download, Torn, Whole
    <3>. QED BY <3>2, ReferenceAssumption
  <2>2. run' = [run EXCEPT !.pc = "weights"] /\ routing' = routing
    BY <1>4 DEF Goto
  <2>3. /\ run'.pc = "weights" /\ run'.kind = run.kind /\ run'.tokens = run.tokens
        /\ run'.layer = run.layer /\ RunTypeOK'
    BY <1>2, <2>2 DEF RunIInv, RunTypeOK
  <2>4. fixture'.config = config
    BY <1>4
  <2>. HIDE DEF config
  <2>5. Admitted'
    BY <1>4, <2>1, <2>3, <2>4 DEF Admitted
  <2>6. routing = <<>> /\ run.layer # Absent
    BY <1>2 DEF RunIInv
  <2>. QED BY <2>2, <2>3, <2>5, <2>6 DEF RunIInv, RoutingIsTopK, LoadedFixtureRuns
<1>. QED BY <1>1, <1>3, <1>4

(* Each tensor has been compared with the shape its config gives it,       *)
(* whichever revisions the two come from.                                  *)
LEMMA RunReadsWeights ==
  ASSUME RunIInv, FetchTypeOK', ReadWeights PROVE RunIInv'
<1>. DEFINE c == fixture.config
            tensors == Revisions[files["weights"].revision].tensors[run.layer]
            shapes == [name \in DOMAIN tensors |-> tensors[name].shape]
<1>1. run.pc = "weights"
  BY DEF ReadWeights
<1>2. \/ End("error")
      \/ /\ Loadable(run.kind, c, tensors)
         /\ Goto("route") /\ fixture' = Fixture(run.kind, c, run.tokens, shapes)
  BY DEF ReadWeights
<1>3. CASE End("error")
  BY <1>1, <1>3, RunEnds
<1>4. CASE /\ Loadable(run.kind, c, tensors)
           /\ Goto("route") /\ fixture' = Fixture(run.kind, c, run.tokens, shapes)
  <2>1. /\ Sized(c) /\ c.top_k \in 1..c.experts /\ (run.kind = "layer" => ValidHeads(c))
        /\ run.kind \in {"block", "layer"} /\ run.tokens \in Nat /\ run.layer # Absent
        /\ routing = <<>>
    BY <1>1 DEF RunIInv, RunTypeOK, Admitted, ValidBlock
  <2>2. \A name \in Names(run.kind, c) : shapes[name] = Required(run.kind, c)[name]
    <3>1. DOMAIN Required(run.kind, c) = Names(run.kind, c)
      BY DEF Required
    <3>. HIDE DEF c, tensors
    <3>2. \A name \in Names(run.kind, c) :
            name \in DOMAIN tensors /\ tensors[name].shape = Required(run.kind, c)[name]
      BY <1>4, <3>1 DEF Loadable, SameShape
    <3>. QED BY <3>2
  <2>3. run' = [run EXCEPT !.pc = "route"] /\ routing' = routing
    BY <1>4 DEF Goto
  <2>4. /\ run'.pc = "route" /\ run'.tokens = run.tokens /\ run'.layer = run.layer
        /\ RunTypeOK'
    BY <1>1, <2>3 DEF RunIInv, RunTypeOK
  <2>. HIDE DEF c, shapes
  <2>5. WellFormed(fixture') /\ fixture'.tokens = run.tokens
    <3>1. WellFormed(Fixture(run.kind, c, run.tokens, shapes))
      BY <2>1, <2>2, FixtureIsWellFormed
    <3>2. Fixture(run.kind, c, run.tokens, shapes).tokens = run.tokens
      BY DEF Fixture
    <3>. QED BY <1>4, <3>1, <3>2
  <2>6. Runnable'
    BY <2>1, <2>4, <2>5 DEF Runnable
  <2>. QED BY <2>1, <2>3, <2>4, <2>6 DEF RunIInv, RoutingIsTopK, LoadedFixtureRuns
<1>. QED BY <1>2, <1>3, <1>4

(* The attention of a fixture that has passed the checks never panics.     *)
LEMMA RunRoutes ==
  ASSUME RunIInv, FetchTypeOK', Route PROVE RunIInv'
<1>1. run.pc = "route" /\ Runnable
  BY DEF Route, RunIInv
<1>2. fixture.kind = "layer" => LayerRuns(fixture)
  BY <1>1, LayerFits DEF Runnable
<1>3. /\ routing' \in [1..fixture.tokens -> Routed(fixture)]
      /\ run' = [run EXCEPT !.pc = "experts"] /\ fixture' = fixture
  BY <1>2 DEF Route
<1>4. /\ run'.pc = "experts" /\ run'.tokens = run.tokens /\ run'.layer = run.layer
      /\ RunTypeOK'
  BY <1>1, <1>3 DEF RunIInv, RunTypeOK
<1>5. Runnable' /\ fixture.tokens = run.tokens
  BY <1>1, <1>3, <1>4 DEF Runnable
<1>6. DOMAIN routing' = 1..run.tokens /\ \A t \in 1..run.tokens : routing'[t] \in Routed(fixture)
  BY <1>3, <1>5
<1>7. ASSUME NEW t \in 1..run.tokens, Finite(routing'[t].logits)
      PROVE  /\ \A slot \in 1..fixture.config.top_k :
                  routing'[t].experts[slot] \in 0..(fixture.config.experts - 1)
             /\ IsTopK(routing'[t].experts, routing'[t].logits)
  BY <1>1, <1>6, <1>7, RoutedIsTopK
<1>8. TokensRouted'
  BY <1>3, <1>4, <1>6, <1>7 DEF TokensRouted
<1>9. RoutingIsTopK'
  BY <1>6, <1>7 DEF RoutingIsTopK
<1>. QED BY <1>4, <1>5, <1>8, <1>9 DEF RunIInv, LoadedFixtureRuns

LEMMA RunRunsExperts ==
  ASSUME RunIInv, FetchTypeOK', RunExperts PROVE RunIInv'
<1>1. run.pc = "experts" /\ Runnable /\ TokensRouted
  BY DEF RunExperts, RunIInv
<1>2. \/ End("printed")
      \/ ~ (BlockRuns(fixture, routing) /\ PrintRuns(fixture)) /\ Panic
  BY DEF RunExperts
<1>3. CASE End("printed")
  BY <1>1, <1>3, RunEnds
<1>4. CASE ~ (BlockRuns(fixture, routing) /\ PrintRuns(fixture)) /\ Panic
  <2>1. run' = [run EXCEPT !.pc = "panicked"] /\ routing' = routing /\ fixture' = fixture
    BY <1>4 DEF Panic, Goto
  <2>2. /\ run'.pc = "panicked" /\ run'.tokens = run.tokens /\ RunTypeOK'
    BY <1>1, <2>1 DEF RunIInv, RunTypeOK
  <2>3. run.tokens = 0 \/ \E t \in DOMAIN routing : ~ Finite(routing[t].logits)
    <3>. SUFFICES ASSUME run.tokens # 0, \A t \in DOMAIN routing : Finite(routing[t].logits)
                  PROVE  FALSE
      OBVIOUS
    <3>1. WellFormed(fixture) /\ fixture.tokens = run.tokens
      BY <1>1 DEF Runnable
    <3>2. \A t \in 1..fixture.tokens : \A slot \in 1..fixture.config.top_k :
            routing[t].experts[slot] \in 0..(fixture.config.experts - 1)
      BY <1>1, <3>1 DEF TokensRouted
    <3>3. NoExpert \notin Nat
      BY ReferenceAssumption
    <3>. QED BY <1>4, <3>1, <3>2, <3>3, BlockFits
  <2>4. RoutingIsTopK' /\ LoadedFixtureRuns'
    BY <2>1, <2>2, <2>3 DEF RunIInv, RoutingIsTopK, LoadedFixtureRuns
  <2>. QED BY <2>2, <2>4 DEF RunIInv
<1>. QED BY <1>2, <1>3, <1>4

LEMMA RunStep == FetchIInv /\ RunIInv /\ [Next]_vars => RunIInv'
<1>. SUFFICES ASSUME FetchIInv, RunIInv, [Next]_vars PROVE RunIInv'
  OBVIOUS
<1>1. FetchTypeOK'
  BY FetchTyped
<1>2. CASE UNCHANGED <<run, fixture, routing>>
  BY <1>1, <1>2, RunUnchanged
<1>3. CASE StartRun
  BY <1>1, <1>3, RunStarts
<1>4. CASE ReadConfig
  BY <1>1, <1>4, RunReadsConfig
<1>5. CASE ReadWeights
  BY <1>1, <1>5, RunReadsWeights
<1>6. CASE Route
  BY <1>1, <1>6, RunRoutes
<1>7. CASE RunExperts
  BY <1>1, <1>7, RunRunsExperts
<1>. QED
  BY <1>2, <1>3, <1>4, <1>5, <1>6, <1>7
     DEF Next, vars, reader, UpstreamMoves, StartFetch, RemoveStale, CurlSucceeds, CurlFails,
         Publish, StopFetch

(* Whatever its logits, the slots of a routed token hold the top_k experts *)
(* in the order of their rank, for any number of experts and any top_k     *)
(* (crates/kernels, insert_topk), unless a logit is no finite number.      *)
THEOREM RouterKeepsTopK == Spec => []RoutingIsTopK
<1>1. RunIInv => RoutingIsTopK
  BY DEF RunIInv
<1>. QED BY FetchInit, FetchStep, RunInit, RunStep, <1>1, PTL DEF Spec

(* A fixture of any config the loader accepts passes every assertion and   *)
(* index of the reference kernels, when config and weights come from two   *)
(* revisions too (crates/runtime, load_mixtral_*_fixture).                 *)
THEOREM LoadedFixturesRun == Spec => []LoadedFixtureRuns
<1>1. RunIInv => LoadedFixtureRuns
  BY DEF RunIInv
<1>. QED BY FetchInit, FetchStep, RunInit, RunStep, <1>1, PTL DEF Spec
=============================================================================
